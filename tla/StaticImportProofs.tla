------------------------- MODULE StaticImportProofs -------------------------
(***************************************************************************)
(* Proofs about StaticImport for every number of scripts, commands, files,  *)
(* feeds and failures: what the lock and the order of the loop keep true of *)
(* the tables and their indexes.                                            *)
(***************************************************************************)
EXTENDS StaticImport, BatchQueue, FiniteSetTheorems, Functions, TLAPS

\* FILES_TO_IMPORT lists a file once; a run is at one of them.
LEMMA FileIsListed ==
  /\ Len(FileSeq) \in Nat /\ Len(FileSeq) > 0 /\ 1 \in FileIndex /\ "agency" \in Files
  /\ \A i \in FileIndex : FileSeq[i] \in Files /\ i \in Nat /\ i >= 1 /\ i <= Len(FileSeq)
  /\ \A f \in Files : \E i \in FileIndex : f = FileSeq[i]
  /\ \A i \in FileIndex : i < Len(FileSeq) => i + 1 \in FileIndex
BY FileAssumption DEF FileIndex, Files

-----------------------------------------------------------------------------
\* The type invariant in parts.
TypeFiles ==
  /\ feed \in 1..MaxFeeds /\ zip \in 0..feed /\ date \in 0..zip
  /\ dir \in [Files -> 0..zip] /\ opened \in [Runs -> 0..zip]
TypeTables ==
  /\ table \in [Datasets -> [Files -> 0..feed]]
  /\ missing \subseteq CopyFiles /\ broken \subseteq missing
TypeRuns ==
  /\ lock \in Runs \union {Nobody, Orphan}
  /\ pc \in [Runs -> Loading \union
              {"idle", "downloading", "extracting", "comparing", "unpacking",
               "acquiring", "announcing", "leaving"}]
  /\ at \in [Runs -> FileIndex]
TypeLocals ==
  /\ todo \in [Runs -> SUBSET Files] /\ others \in [Runs -> BOOLEAN]
  /\ forced \subseteq Scripts /\ disturbed \subseteq Runs
TypeCounts == manual \in 0..MaxManual /\ faults \in 0..MaxFaults /\ lost \in BOOLEAN

\* The types, in parts that the steps below take one at a time.
LEMMA TypeParts == TypeOK <=> TypeFiles /\ TypeTables /\ TypeRuns /\ TypeLocals /\ TypeCounts
BY DEF TypeOK, TypeFiles, TypeTables, TypeRuns, TypeLocals, TypeCounts

\* What is downloaded, unpacked and opened.
LEMMA NextTypeFiles ==
  TypeFiles /\ [Next]_vars => TypeFiles'
<1> SUFFICES ASSUME TypeFiles, [Next]_vars
             PROVE  TypeFiles'
  OBVIOUS
<1> USE BoundAssumption DEF TypeFiles, Runs
<1>1. ASSUME Publish PROVE TypeFiles'
  BY <1>1 DEF Publish, fileVars, tableVars, runVars, counters
<1>2. ASSUME Expire PROVE TypeFiles'
  BY <1>2 DEF Expire, fileVars, tableVars, runVars, counters
<1>3. ASSUME RecreateIndexes PROVE TypeFiles'
  BY <1>3 DEF RecreateIndexes, fileVars, tableVars, runVars, counters
<1>4. ASSUME NEW r \in Scripts, StartNightly(r) PROVE TypeFiles'
  BY <1>4 DEF StartNightly, Goto, fileVars, tableVars, runVars, counters
<1>5. ASSUME NEW r \in Scripts, StartForced(r) PROVE TypeFiles'
  BY <1>5 DEF StartForced, Goto, fileVars, tableVars, runVars, counters
<1>6. ASSUME NEW r \in Scripts, Download(r) PROVE TypeFiles'
  BY <1>6 DEF Download, Goto, fileVars, tableVars, runVars, counters
<1>7. ASSUME NEW r \in Scripts, Extract(r) PROVE TypeFiles'
  BY <1>7 DEF Extract, Goto, fileVars, tableVars, runVars, counters
<1>8. ASSUME NEW r \in Scripts, NothingToDo(r) PROVE TypeFiles'
  BY <1>8 DEF NothingToDo, Ends, Goto, fileVars, tableVars, runVars, counters
<1>9. ASSUME NEW r \in Scripts, Compare(r) PROVE TypeFiles'
  BY <1>9 DEF Compare, Goto, fileVars, tableVars, runVars, counters
<1>10. ASSUME NEW r \in Scripts, NEW f \in Files, UnpackFile(r, f) PROVE TypeFiles'
  BY <1>10 DEF UnpackFile, Goto, fileVars, tableVars, runVars, counters
<1>11. ASSUME NEW r \in Scripts, DownloadFails(r) PROVE TypeFiles'
  BY <1>11 DEF DownloadFails, Fault, Goto, fileVars, tableVars, runVars, counters
<1>12. ASSUME NEW r \in Scripts, UnpackStops(r) PROVE TypeFiles'
  BY <1>12, SMTT(30) DEF UnpackStops, Fault, Goto, fileVars, tableVars, runVars, counters
<1>13. ASSUME NEW r \in Manual, StartOther(r) PROVE TypeFiles'
  BY <1>13 DEF StartOther, Goto, fileVars, tableVars, runVars, counters
<1>14. ASSUME NEW r \in Runs, Acquire(r) PROVE TypeFiles'
  BY <1>14 DEF Acquire, Begins, Goto, fileVars, tableVars, runVars, counters
<1>15. ASSUME NEW r \in Runs, Refused(r) PROVE TypeFiles'
  BY <1>15 DEF Refused, Ends, Goto, fileVars, tableVars, runVars, counters
<1>16. ASSUME NEW r \in Runs, SkipFile(r) PROVE TypeFiles'
  BY <1>16 DEF SkipFile, NextFile, Goto, fileVars, tableVars, runVars, counters
<1>17. ASSUME NEW r \in Runs, ChooseStrategy(r) PROVE TypeFiles'
  BY <1>17 DEF ChooseStrategy, Goto, fileVars, tableVars, runVars, counters
<1>18. ASSUME NEW r \in Runs, ClearTable(r) PROVE TypeFiles'
  BY <1>18 DEF ClearTable, Cleared, Goto, fileVars, tableVars, runVars, counters
<1>19. ASSUME NEW r \in Runs, Load(r) PROVE TypeFiles'
  BY <1>19 DEF Load, ReadInto, NextFile, Goto, fileVars, tableVars, runVars, counters
<1>20. ASSUME NEW r \in Runs, DropIndexes(r) PROVE TypeFiles'
  BY <1>20 DEF DropIndexes, Goto, fileVars, tableVars, runVars, counters
<1>21. ASSUME NEW r \in Runs, CopyFile(r) PROVE TypeFiles'
  BY <1>21 DEF CopyFile, ReadInto, Goto, fileVars, tableVars, runVars, counters
<1>22. ASSUME NEW r \in Runs, Rebuild(r) PROVE TypeFiles'
  BY <1>22 DEF Rebuild, Rebuilt, NextFile, Goto, fileVars, tableVars, runVars, counters
<1>23. ASSUME NEW r \in Runs, Unwind(r) PROVE TypeFiles'
  BY <1>23 DEF Unwind, Rebuilt, Raises, Freed, Ends, Goto, fileVars, tableVars, runVars, counters
<1>24. ASSUME NEW r \in Runs, Announce(r) PROVE TypeFiles'
  BY <1>24 DEF Announce, Goto, fileVars, tableVars, runVars, counters
<1>25. ASSUME NEW r \in Runs, Leave(r) PROVE TypeFiles'
  BY <1>25 DEF Leave, Freed, Ends, Goto, fileVars, tableVars, runVars, counters
<1>26. ASSUME NEW r \in Runs, Fail(r) PROVE TypeFiles'
  BY <1>26 DEF Fail, Fault, Raises, Freed, Ends, Goto, fileVars, tableVars, runVars, counters
<1>27. ASSUME NEW r \in Runs, CopyFails(r) PROVE TypeFiles'
  BY <1>27 DEF CopyFails, Fault, Goto, fileVars, tableVars, runVars, counters
<1>28. ASSUME NEW r \in Runs, RebuildFails(r) PROVE TypeFiles'
  BY <1>28 DEF RebuildFails, Fault, Raises, Freed, Ends, Goto, fileVars, tableVars, runVars, counters
<1>29. ASSUME NEW r \in Runs, Kill(r) PROVE TypeFiles'
  BY <1>29 DEF Kill, Fault, Ends, Goto, fileVars, tableVars, runVars, counters
<1>30. ASSUME UNCHANGED vars PROVE TypeFiles'
  BY <1>30 DEF vars, fileVars, tableVars, runVars, counters
<1> QED BY <1>1, <1>2, <1>3, <1>4, <1>5, <1>6, <1>7, <1>8, <1>9, <1>10, <1>11, <1>12, <1>13, <1>14, <1>15,
           <1>16, <1>17, <1>18, <1>19, <1>20, <1>21, <1>22, <1>23, <1>24, <1>25, <1>26, <1>27, <1>28, <1>29, <1>30
        DEF Next, ScriptStep, ImportStep

\* Where the runs are.
LEMMA NextTypeRuns ==
  TypeRuns /\ [Next]_vars => TypeRuns'
<1> SUFFICES ASSUME TypeRuns, [Next]_vars
             PROVE  TypeRuns'
  OBVIOUS
<1> USE FileIsListed DEF TypeRuns, Runs, Loading
<1>1. ASSUME Publish PROVE TypeRuns'
  BY <1>1 DEF Publish, fileVars, tableVars, runVars, counters
<1>2. ASSUME Expire PROVE TypeRuns'
  BY <1>2 DEF Expire, fileVars, tableVars, runVars, counters
<1>3. ASSUME RecreateIndexes PROVE TypeRuns'
  BY <1>3 DEF RecreateIndexes, fileVars, tableVars, runVars, counters
<1>4. ASSUME NEW r \in Scripts, StartNightly(r) PROVE TypeRuns'
  BY <1>4 DEF StartNightly, Goto, fileVars, tableVars, runVars, counters
<1>5. ASSUME NEW r \in Scripts, StartForced(r) PROVE TypeRuns'
  BY <1>5 DEF StartForced, Goto, fileVars, tableVars, runVars, counters
<1>6. ASSUME NEW r \in Scripts, Download(r) PROVE TypeRuns'
  BY <1>6 DEF Download, Goto, fileVars, tableVars, runVars, counters
<1>7. ASSUME NEW r \in Scripts, Extract(r) PROVE TypeRuns'
  BY <1>7 DEF Extract, Goto, fileVars, tableVars, runVars, counters
<1>8. ASSUME NEW r \in Scripts, NothingToDo(r) PROVE TypeRuns'
  BY <1>8 DEF NothingToDo, Ends, Goto, fileVars, tableVars, runVars, counters
<1>9. ASSUME NEW r \in Scripts, Compare(r) PROVE TypeRuns'
  BY <1>9 DEF Compare, Goto, fileVars, tableVars, runVars, counters
<1>10. ASSUME NEW r \in Scripts, NEW f \in Files, UnpackFile(r, f) PROVE TypeRuns'
  BY <1>10 DEF UnpackFile, Goto, fileVars, tableVars, runVars, counters
<1>11. ASSUME NEW r \in Scripts, DownloadFails(r) PROVE TypeRuns'
  BY <1>11 DEF DownloadFails, Fault, Goto, fileVars, tableVars, runVars, counters
<1>12. ASSUME NEW r \in Scripts, UnpackStops(r) PROVE TypeRuns'
  BY <1>12, SMTT(30) DEF UnpackStops, Fault, Goto, fileVars, tableVars, runVars, counters
<1>13. ASSUME NEW r \in Manual, StartOther(r) PROVE TypeRuns'
  BY <1>13 DEF StartOther, Goto, fileVars, tableVars, runVars, counters
<1>14. ASSUME NEW r \in Runs, Acquire(r) PROVE TypeRuns'
  BY <1>14 DEF Acquire, Begins, Goto, fileVars, tableVars, runVars, counters
<1>15. ASSUME NEW r \in Runs, Refused(r) PROVE TypeRuns'
  BY <1>15 DEF Refused, Ends, Goto, fileVars, tableVars, runVars, counters
<1>16. ASSUME NEW r \in Runs, SkipFile(r) PROVE TypeRuns'
  BY <1>16, SMTT(30) DEF SkipFile, NextFile, Goto, fileVars, tableVars, runVars, counters
<1>17. ASSUME NEW r \in Runs, ChooseStrategy(r) PROVE TypeRuns'
  BY <1>17 DEF ChooseStrategy, Goto, fileVars, tableVars, runVars, counters
<1>18. ASSUME NEW r \in Runs, ClearTable(r) PROVE TypeRuns'
  BY <1>18 DEF ClearTable, Cleared, Goto, fileVars, tableVars, runVars, counters
<1>19. ASSUME NEW r \in Runs, Load(r) PROVE TypeRuns'
  BY <1>19, SMTT(30) DEF Load, ReadInto, NextFile, Goto, fileVars, tableVars, runVars, counters
<1>20. ASSUME NEW r \in Runs, DropIndexes(r) PROVE TypeRuns'
  BY <1>20 DEF DropIndexes, Goto, fileVars, tableVars, runVars, counters
<1>21. ASSUME NEW r \in Runs, CopyFile(r) PROVE TypeRuns'
  BY <1>21 DEF CopyFile, ReadInto, Goto, fileVars, tableVars, runVars, counters
<1>22. ASSUME NEW r \in Runs, Rebuild(r) PROVE TypeRuns'
  BY <1>22, SMTT(30) DEF Rebuild, Rebuilt, NextFile, Goto, fileVars, tableVars, runVars, counters
<1>23. ASSUME NEW r \in Runs, Unwind(r) PROVE TypeRuns'
  BY <1>23 DEF Unwind, Rebuilt, Raises, Freed, Ends, Goto, fileVars, tableVars, runVars, counters
<1>24. ASSUME NEW r \in Runs, Announce(r) PROVE TypeRuns'
  BY <1>24 DEF Announce, Goto, fileVars, tableVars, runVars, counters
<1>25. ASSUME NEW r \in Runs, Leave(r) PROVE TypeRuns'
  BY <1>25 DEF Leave, Freed, Ends, Goto, fileVars, tableVars, runVars, counters
<1>26. ASSUME NEW r \in Runs, Fail(r) PROVE TypeRuns'
  BY <1>26 DEF Fail, Fault, Raises, Freed, Ends, Goto, fileVars, tableVars, runVars, counters
<1>27. ASSUME NEW r \in Runs, CopyFails(r) PROVE TypeRuns'
  BY <1>27 DEF CopyFails, Fault, Goto, fileVars, tableVars, runVars, counters
<1>28. ASSUME NEW r \in Runs, RebuildFails(r) PROVE TypeRuns'
  BY <1>28 DEF RebuildFails, Fault, Raises, Freed, Ends, Goto, fileVars, tableVars, runVars, counters
<1>29. ASSUME NEW r \in Runs, Kill(r) PROVE TypeRuns'
  BY <1>29 DEF Kill, Fault, Ends, Goto, fileVars, tableVars, runVars, counters
<1>30. ASSUME UNCHANGED vars PROVE TypeRuns'
  BY <1>30 DEF vars, fileVars, tableVars, runVars, counters
<1> QED BY <1>1, <1>2, <1>3, <1>4, <1>5, <1>6, <1>7, <1>8, <1>9, <1>10, <1>11, <1>12, <1>13, <1>14, <1>15,
           <1>16, <1>17, <1>18, <1>19, <1>20, <1>21, <1>22, <1>23, <1>24, <1>25, <1>26, <1>27, <1>28, <1>29, <1>30
        DEF Next, ScriptStep, ImportStep

\* What the runs know.
LEMMA NextTypeLocals ==
  TypeLocals /\ [Next]_vars => TypeLocals'
<1> SUFFICES ASSUME TypeLocals, [Next]_vars
             PROVE  TypeLocals'
  OBVIOUS
<1> USE SlotAssumption DEF TypeLocals, Runs
<1>1. ASSUME Publish PROVE TypeLocals'
  BY <1>1 DEF Publish, fileVars, tableVars, runVars, counters
<1>2. ASSUME Expire PROVE TypeLocals'
  BY <1>2 DEF Expire, fileVars, tableVars, runVars, counters
<1>3. ASSUME RecreateIndexes PROVE TypeLocals'
  BY <1>3 DEF RecreateIndexes, fileVars, tableVars, runVars, counters
<1>4. ASSUME NEW r \in Scripts, StartNightly(r) PROVE TypeLocals'
  BY <1>4 DEF StartNightly, Goto, fileVars, tableVars, runVars, counters
<1>5. ASSUME NEW r \in Scripts, StartForced(r) PROVE TypeLocals'
  BY <1>5 DEF StartForced, Goto, fileVars, tableVars, runVars, counters
<1>6. ASSUME NEW r \in Scripts, Download(r) PROVE TypeLocals'
  BY <1>6 DEF Download, Goto, fileVars, tableVars, runVars, counters
<1>7. ASSUME NEW r \in Scripts, Extract(r) PROVE TypeLocals'
  BY <1>7 DEF Extract, Goto, fileVars, tableVars, runVars, counters
<1>8. ASSUME NEW r \in Scripts, NothingToDo(r) PROVE TypeLocals'
  BY <1>8 DEF NothingToDo, Ends, Goto, fileVars, tableVars, runVars, counters
<1>9. ASSUME NEW r \in Scripts, Compare(r) PROVE TypeLocals'
  BY <1>9 DEF Compare, Goto, fileVars, tableVars, runVars, counters
<1>10. ASSUME NEW r \in Scripts, NEW f \in Files, UnpackFile(r, f) PROVE TypeLocals'
  BY <1>10 DEF UnpackFile, Goto, fileVars, tableVars, runVars, counters
<1>11. ASSUME NEW r \in Scripts, DownloadFails(r) PROVE TypeLocals'
  BY <1>11 DEF DownloadFails, Fault, Goto, fileVars, tableVars, runVars, counters
<1>12. ASSUME NEW r \in Scripts, UnpackStops(r) PROVE TypeLocals'
  BY <1>12, SMTT(30) DEF UnpackStops, Fault, Goto, fileVars, tableVars, runVars, counters
<1>13. ASSUME NEW r \in Manual, StartOther(r) PROVE TypeLocals'
  BY <1>13 DEF StartOther, Goto, fileVars, tableVars, runVars, counters
<1>14. ASSUME NEW r \in Runs, Acquire(r) PROVE TypeLocals'
  BY <1>14 DEF Acquire, Begins, Goto, fileVars, tableVars, runVars, counters
<1>15. ASSUME NEW r \in Runs, Refused(r) PROVE TypeLocals'
  BY <1>15 DEF Refused, Ends, Goto, fileVars, tableVars, runVars, counters
<1>16. ASSUME NEW r \in Runs, SkipFile(r) PROVE TypeLocals'
  BY <1>16 DEF SkipFile, NextFile, Goto, fileVars, tableVars, runVars, counters
<1>17. ASSUME NEW r \in Runs, ChooseStrategy(r) PROVE TypeLocals'
  <2>1. OtherDatasetExists(r) \in BOOLEAN
    BY DEF OtherDatasetExists
  <2>2. others' \in [Runs -> BOOLEAN]
    BY <1>17, <2>1 DEF ChooseStrategy
  <2> QED BY <1>17, <2>2 DEF ChooseStrategy
<1>18. ASSUME NEW r \in Runs, ClearTable(r) PROVE TypeLocals'
  BY <1>18 DEF ClearTable, Cleared, Goto, fileVars, tableVars, runVars, counters
<1>19. ASSUME NEW r \in Runs, Load(r) PROVE TypeLocals'
  BY <1>19 DEF Load, ReadInto, NextFile, Goto, fileVars, tableVars, runVars, counters
<1>20. ASSUME NEW r \in Runs, DropIndexes(r) PROVE TypeLocals'
  BY <1>20 DEF DropIndexes, Goto, fileVars, tableVars, runVars, counters
<1>21. ASSUME NEW r \in Runs, CopyFile(r) PROVE TypeLocals'
  BY <1>21 DEF CopyFile, ReadInto, Goto, fileVars, tableVars, runVars, counters
<1>22. ASSUME NEW r \in Runs, Rebuild(r) PROVE TypeLocals'
  BY <1>22 DEF Rebuild, Rebuilt, NextFile, Goto, fileVars, tableVars, runVars, counters
<1>23. ASSUME NEW r \in Runs, Unwind(r) PROVE TypeLocals'
  BY <1>23 DEF Unwind, Rebuilt, Raises, Freed, Ends, Goto, fileVars, tableVars, runVars, counters
<1>24. ASSUME NEW r \in Runs, Announce(r) PROVE TypeLocals'
  BY <1>24 DEF Announce, Goto, fileVars, tableVars, runVars, counters
<1>25. ASSUME NEW r \in Runs, Leave(r) PROVE TypeLocals'
  BY <1>25 DEF Leave, Freed, Ends, Goto, fileVars, tableVars, runVars, counters
<1>26. ASSUME NEW r \in Runs, Fail(r) PROVE TypeLocals'
  BY <1>26 DEF Fail, Fault, Raises, Freed, Ends, Goto, fileVars, tableVars, runVars, counters
<1>27. ASSUME NEW r \in Runs, CopyFails(r) PROVE TypeLocals'
  BY <1>27 DEF CopyFails, Fault, Goto, fileVars, tableVars, runVars, counters
<1>28. ASSUME NEW r \in Runs, RebuildFails(r) PROVE TypeLocals'
  BY <1>28 DEF RebuildFails, Fault, Raises, Freed, Ends, Goto, fileVars, tableVars, runVars, counters
<1>29. ASSUME NEW r \in Runs, Kill(r) PROVE TypeLocals'
  BY <1>29 DEF Kill, Fault, Ends, Goto, fileVars, tableVars, runVars, counters
<1>30. ASSUME UNCHANGED vars PROVE TypeLocals'
  BY <1>30 DEF vars, fileVars, tableVars, runVars, counters
<1> QED BY <1>1, <1>2, <1>3, <1>4, <1>5, <1>6, <1>7, <1>8, <1>9, <1>10, <1>11, <1>12, <1>13, <1>14, <1>15,
           <1>16, <1>17, <1>18, <1>19, <1>20, <1>21, <1>22, <1>23, <1>24, <1>25, <1>26, <1>27, <1>28, <1>29, <1>30
        DEF Next, ScriptStep, ImportStep

\* What is counted.
LEMMA NextTypeCounts ==
  TypeCounts /\ [Next]_vars => TypeCounts'
<1> SUFFICES ASSUME TypeCounts, [Next]_vars
             PROVE  TypeCounts'
  OBVIOUS
<1> USE BoundAssumption DEF TypeCounts
<1>1. ASSUME Publish PROVE TypeCounts'
  BY <1>1 DEF Publish, fileVars, tableVars, runVars, counters
<1>2. ASSUME Expire PROVE TypeCounts'
  BY <1>2 DEF Expire, fileVars, tableVars, runVars, counters
<1>3. ASSUME RecreateIndexes PROVE TypeCounts'
  BY <1>3 DEF RecreateIndexes, fileVars, tableVars, runVars, counters
<1>4. ASSUME NEW r \in Scripts, StartNightly(r) PROVE TypeCounts'
  BY <1>4 DEF StartNightly, Goto, fileVars, tableVars, runVars, counters
<1>5. ASSUME NEW r \in Scripts, StartForced(r) PROVE TypeCounts'
  BY <1>5 DEF StartForced, Goto, fileVars, tableVars, runVars, counters
<1>6. ASSUME NEW r \in Scripts, Download(r) PROVE TypeCounts'
  BY <1>6 DEF Download, Goto, fileVars, tableVars, runVars, counters
<1>7. ASSUME NEW r \in Scripts, Extract(r) PROVE TypeCounts'
  BY <1>7 DEF Extract, Goto, fileVars, tableVars, runVars, counters
<1>8. ASSUME NEW r \in Scripts, NothingToDo(r) PROVE TypeCounts'
  BY <1>8 DEF NothingToDo, Ends, Goto, fileVars, tableVars, runVars, counters
<1>9. ASSUME NEW r \in Scripts, Compare(r) PROVE TypeCounts'
  BY <1>9 DEF Compare, Goto, fileVars, tableVars, runVars, counters
<1>10. ASSUME NEW r \in Scripts, NEW f \in Files, UnpackFile(r, f) PROVE TypeCounts'
  BY <1>10 DEF UnpackFile, Goto, fileVars, tableVars, runVars, counters
<1>11. ASSUME NEW r \in Scripts, DownloadFails(r) PROVE TypeCounts'
  BY <1>11 DEF DownloadFails, Fault, Goto, fileVars, tableVars, runVars, counters
<1>12. ASSUME NEW r \in Scripts, UnpackStops(r) PROVE TypeCounts'
  BY <1>12, SMTT(30) DEF UnpackStops, Fault, Goto, fileVars, tableVars, runVars, counters
<1>13. ASSUME NEW r \in Manual, StartOther(r) PROVE TypeCounts'
  BY <1>13 DEF StartOther, Goto, fileVars, tableVars, runVars, counters
<1>14. ASSUME NEW r \in Runs, Acquire(r) PROVE TypeCounts'
  BY <1>14 DEF Acquire, Begins, Goto, fileVars, tableVars, runVars, counters
<1>15. ASSUME NEW r \in Runs, Refused(r) PROVE TypeCounts'
  BY <1>15 DEF Refused, Ends, Goto, fileVars, tableVars, runVars, counters
<1>16. ASSUME NEW r \in Runs, SkipFile(r) PROVE TypeCounts'
  BY <1>16 DEF SkipFile, NextFile, Goto, fileVars, tableVars, runVars, counters
<1>17. ASSUME NEW r \in Runs, ChooseStrategy(r) PROVE TypeCounts'
  BY <1>17 DEF ChooseStrategy, Goto, fileVars, tableVars, runVars, counters
<1>18. ASSUME NEW r \in Runs, ClearTable(r) PROVE TypeCounts'
  BY <1>18 DEF ClearTable, Cleared, Goto, fileVars, tableVars, runVars, counters
<1>19. ASSUME NEW r \in Runs, Load(r) PROVE TypeCounts'
  BY <1>19 DEF Load, ReadInto, NextFile, Goto, fileVars, tableVars, runVars, counters
<1>20. ASSUME NEW r \in Runs, DropIndexes(r) PROVE TypeCounts'
  BY <1>20 DEF DropIndexes, Goto, fileVars, tableVars, runVars, counters
<1>21. ASSUME NEW r \in Runs, CopyFile(r) PROVE TypeCounts'
  BY <1>21 DEF CopyFile, ReadInto, Goto, fileVars, tableVars, runVars, counters
<1>22. ASSUME NEW r \in Runs, Rebuild(r) PROVE TypeCounts'
  BY <1>22 DEF Rebuild, Rebuilt, NextFile, Goto, fileVars, tableVars, runVars, counters
<1>23. ASSUME NEW r \in Runs, Unwind(r) PROVE TypeCounts'
  BY <1>23 DEF Unwind, Rebuilt, Raises, Freed, Ends, Goto, fileVars, tableVars, runVars, counters
<1>24. ASSUME NEW r \in Runs, Announce(r) PROVE TypeCounts'
  <2>1. lost' = (IF r \in Scripts THEN r \in disturbed ELSE lost) /\ UNCHANGED <<manual, faults>>
    BY <1>24 DEF Announce, counters
  <2>2. (r \in disturbed) \in BOOLEAN
    OBVIOUS
  <2>3. lost' \in BOOLEAN
    <3>1. CASE r \in Scripts
      <4>1. lost' = (r \in disturbed)
        BY <2>1, <3>1, Zenon
      <4> QED BY <2>2, <4>1, Zenon
    <3>2. CASE r \notin Scripts
      BY <2>1, <3>2, Zenon
    <3> QED BY <3>1, <3>2
  <2> QED BY <2>1, <2>3
<1>25. ASSUME NEW r \in Runs, Leave(r) PROVE TypeCounts'
  BY <1>25 DEF Leave, Freed, Ends, Goto, fileVars, tableVars, runVars, counters
<1>26. ASSUME NEW r \in Runs, Fail(r) PROVE TypeCounts'
  BY <1>26 DEF Fail, Fault, Raises, Freed, Ends, Goto, fileVars, tableVars, runVars, counters
<1>27. ASSUME NEW r \in Runs, CopyFails(r) PROVE TypeCounts'
  BY <1>27 DEF CopyFails, Fault, Goto, fileVars, tableVars, runVars, counters
<1>28. ASSUME NEW r \in Runs, RebuildFails(r) PROVE TypeCounts'
  BY <1>28 DEF RebuildFails, Fault, Raises, Freed, Ends, Goto, fileVars, tableVars, runVars, counters
<1>29. ASSUME NEW r \in Runs, Kill(r) PROVE TypeCounts'
  BY <1>29 DEF Kill, Fault, Ends, Goto, fileVars, tableVars, runVars, counters
<1>30. ASSUME UNCHANGED vars PROVE TypeCounts'
  BY <1>30 DEF vars, fileVars, tableVars, runVars, counters
<1> QED BY <1>1, <1>2, <1>3, <1>4, <1>5, <1>6, <1>7, <1>8, <1>9, <1>10, <1>11, <1>12, <1>13, <1>14, <1>15,
           <1>16, <1>17, <1>18, <1>19, <1>20, <1>21, <1>22, <1>23, <1>24, <1>25, <1>26, <1>27, <1>28, <1>29, <1>30
        DEF Next, ScriptStep, ImportStep

\* What the tables show.
LEMMA NextTypeTables ==
  TypeFiles /\ TypeTables /\ TypeRuns /\ LoopPlaces /\ [Next]_vars => TypeTables'
<1> SUFFICES ASSUME TypeFiles, TypeTables, TypeRuns, LoopPlaces, [Next]_vars
             PROVE  TypeTables'
  OBVIOUS
<1> USE FileIsListed DEF TypeFiles, TypeTables, TypeRuns, LoopPlaces, Runs, File, Source, Datasets, DatasetOf
<1>1. ASSUME Publish PROVE TypeTables'
  BY <1>1 DEF Publish, fileVars, tableVars, runVars, counters
<1>2. ASSUME Expire PROVE TypeTables'
  BY <1>2 DEF Expire, fileVars, tableVars, runVars, counters
<1>3. ASSUME RecreateIndexes PROVE TypeTables'
  BY <1>3 DEF RecreateIndexes, fileVars, tableVars, runVars, counters
<1>4. ASSUME NEW r \in Scripts, StartNightly(r) PROVE TypeTables'
  BY <1>4 DEF StartNightly, Goto, fileVars, tableVars, runVars, counters
<1>5. ASSUME NEW r \in Scripts, StartForced(r) PROVE TypeTables'
  BY <1>5 DEF StartForced, Goto, fileVars, tableVars, runVars, counters
<1>6. ASSUME NEW r \in Scripts, Download(r) PROVE TypeTables'
  BY <1>6 DEF Download, Goto, fileVars, tableVars, runVars, counters
<1>7. ASSUME NEW r \in Scripts, Extract(r) PROVE TypeTables'
  BY <1>7 DEF Extract, Goto, fileVars, tableVars, runVars, counters
<1>8. ASSUME NEW r \in Scripts, NothingToDo(r) PROVE TypeTables'
  BY <1>8 DEF NothingToDo, Ends, Goto, fileVars, tableVars, runVars, counters
<1>9. ASSUME NEW r \in Scripts, Compare(r) PROVE TypeTables'
  BY <1>9 DEF Compare, Goto, fileVars, tableVars, runVars, counters
<1>10. ASSUME NEW r \in Scripts, NEW f \in Files, UnpackFile(r, f) PROVE TypeTables'
  BY <1>10 DEF UnpackFile, Goto, fileVars, tableVars, runVars, counters
<1>11. ASSUME NEW r \in Scripts, DownloadFails(r) PROVE TypeTables'
  BY <1>11 DEF DownloadFails, Fault, Goto, fileVars, tableVars, runVars, counters
<1>12. ASSUME NEW r \in Scripts, UnpackStops(r) PROVE TypeTables'
  BY <1>12, SMTT(30) DEF UnpackStops, Fault, Goto, fileVars, tableVars, runVars, counters
<1>13. ASSUME NEW r \in Manual, StartOther(r) PROVE TypeTables'
  BY <1>13 DEF StartOther, Goto, fileVars, tableVars, runVars, counters
<1>14. ASSUME NEW r \in Runs, Acquire(r) PROVE TypeTables'
  BY <1>14 DEF Acquire, Begins, Goto, fileVars, tableVars, runVars, counters
<1>15. ASSUME NEW r \in Runs, Refused(r) PROVE TypeTables'
  BY <1>15 DEF Refused, Ends, Goto, fileVars, tableVars, runVars, counters
<1>16. ASSUME NEW r \in Runs, SkipFile(r) PROVE TypeTables'
  BY <1>16 DEF SkipFile, NextFile, Goto, fileVars, tableVars, runVars, counters
<1>17. ASSUME NEW r \in Runs, ChooseStrategy(r) PROVE TypeTables'
  BY <1>17 DEF ChooseStrategy, Goto, fileVars, tableVars, runVars, counters
<1>18. ASSUME NEW r \in Runs, ClearTable(r) PROVE TypeTables'
  BY <1>18 DEF ClearTable, Cleared, Goto, fileVars, tableVars, runVars, counters
<1>19. ASSUME NEW r \in Runs, Load(r) PROVE TypeTables'
  <2>1. at[r] \in FileIndex /\ FileSeq[at[r]] \in Files
    BY FileIsListed
  <2>2. Source(r, File(r)) \in 0..feed
    BY <2>1, BoundAssumption
  <2>3. table' = [table EXCEPT ![DatasetOf(r)][File(r)] = Source(r, File(r))]
    BY <1>19 DEF Load, ReadInto
  <2> HIDE DEF Source
  <2>4. table' \in [Datasets -> [Files -> 0..feed]]
    BY <2>1, <2>2, <2>3
  <2> QED BY <1>19, <2>4 DEF Load, counters
<1>20. ASSUME NEW r \in Runs, DropIndexes(r) PROVE TypeTables'
  BY <1>20 DEF DropIndexes, Goto, fileVars, tableVars, runVars, counters
<1>21. ASSUME NEW r \in Runs, CopyFile(r) PROVE TypeTables'
  <2>1. at[r] \in FileIndex /\ FileSeq[at[r]] \in Files
    BY FileIsListed
  <2>2. Source(r, File(r)) \in 0..feed
    BY <2>1, BoundAssumption
  <2>3. table' = [table EXCEPT ![DatasetOf(r)][File(r)] = Source(r, File(r))]
    BY <1>21 DEF CopyFile, ReadInto
  <2> HIDE DEF Source
  <2>4. table' \in [Datasets -> [Files -> 0..feed]]
    BY <2>1, <2>2, <2>3
  <2> QED BY <1>21, <2>4 DEF CopyFile, counters
<1>22. ASSUME NEW r \in Runs, Rebuild(r) PROVE TypeTables'
  BY <1>22 DEF Rebuild, Rebuilt, NextFile, Goto, fileVars, tableVars, runVars, counters
<1>23. ASSUME NEW r \in Runs, Unwind(r) PROVE TypeTables'
  BY <1>23 DEF Unwind, Rebuilt, Raises, Freed, Ends, Goto, fileVars, tableVars, runVars, counters
<1>24. ASSUME NEW r \in Runs, Announce(r) PROVE TypeTables'
  BY <1>24 DEF Announce, Goto, fileVars, tableVars, runVars, counters
<1>25. ASSUME NEW r \in Runs, Leave(r) PROVE TypeTables'
  BY <1>25 DEF Leave, Freed, Ends, Goto, fileVars, tableVars, runVars, counters
<1>26. ASSUME NEW r \in Runs, Fail(r) PROVE TypeTables'
  BY <1>26 DEF Fail, Fault, Raises, Freed, Ends, Goto, fileVars, tableVars, runVars, counters
<1>27. ASSUME NEW r \in Runs, CopyFails(r) PROVE TypeTables'
  BY <1>27 DEF CopyFails, Fault, Goto, fileVars, tableVars, runVars, counters
<1>28. ASSUME NEW r \in Runs, RebuildFails(r) PROVE TypeTables'
  BY <1>28 DEF RebuildFails, Fault, Raises, Freed, Ends, Goto, fileVars, tableVars, runVars, counters
<1>29. ASSUME NEW r \in Runs, Kill(r) PROVE TypeTables'
  BY <1>29 DEF Kill, Fault, Ends, Goto, fileVars, tableVars, runVars, counters
<1>30. ASSUME UNCHANGED vars PROVE TypeTables'
  BY <1>30 DEF vars, fileVars, tableVars, runVars, counters
<1> QED BY <1>1, <1>2, <1>3, <1>4, <1>5, <1>6, <1>7, <1>8, <1>9, <1>10, <1>11, <1>12, <1>13, <1>14, <1>15,
           <1>16, <1>17, <1>18, <1>19, <1>20, <1>21, <1>22, <1>23, <1>24, <1>25, <1>26, <1>27, <1>28, <1>29, <1>30
        DEF Next, ScriptStep, ImportStep

\* Where the loop is.
LEMMA NextLoopPlaces ==
  TypeRuns /\ LoopPlaces /\ [Next]_vars => LoopPlaces'
<1> SUFFICES ASSUME TypeRuns, LoopPlaces, [Next]_vars
             PROVE  LoopPlaces'
  OBVIOUS
<1> USE DEF TypeRuns, LoopPlaces, Importing, Loading, Runs, File
<1>1. ASSUME Publish PROVE LoopPlaces'
  BY <1>1 DEF Publish, fileVars, tableVars, runVars, counters
<1>2. ASSUME Expire PROVE LoopPlaces'
  BY <1>2 DEF Expire, fileVars, tableVars, runVars, counters
<1>3. ASSUME RecreateIndexes PROVE LoopPlaces'
  BY <1>3 DEF RecreateIndexes, fileVars, tableVars, runVars, counters
<1>4. ASSUME NEW r \in Scripts, StartNightly(r) PROVE LoopPlaces'
  BY <1>4 DEF StartNightly, Goto, fileVars, tableVars, runVars, counters
<1>5. ASSUME NEW r \in Scripts, StartForced(r) PROVE LoopPlaces'
  BY <1>5 DEF StartForced, Goto, fileVars, tableVars, runVars, counters
<1>6. ASSUME NEW r \in Scripts, Download(r) PROVE LoopPlaces'
  BY <1>6 DEF Download, Goto, fileVars, tableVars, runVars, counters
<1>7. ASSUME NEW r \in Scripts, Extract(r) PROVE LoopPlaces'
  BY <1>7 DEF Extract, Goto, fileVars, tableVars, runVars, counters
<1>8. ASSUME NEW r \in Scripts, NothingToDo(r) PROVE LoopPlaces'
  BY <1>8 DEF NothingToDo, Ends, Goto, fileVars, tableVars, runVars, counters
<1>9. ASSUME NEW r \in Scripts, Compare(r) PROVE LoopPlaces'
  BY <1>9 DEF Compare, Goto, fileVars, tableVars, runVars, counters
<1>10. ASSUME NEW r \in Scripts, NEW f \in Files, UnpackFile(r, f) PROVE LoopPlaces'
  BY <1>10 DEF UnpackFile, Goto, fileVars, tableVars, runVars, counters
<1>11. ASSUME NEW r \in Scripts, DownloadFails(r) PROVE LoopPlaces'
  BY <1>11 DEF DownloadFails, Fault, Goto, fileVars, tableVars, runVars, counters
<1>12. ASSUME NEW r \in Scripts, UnpackStops(r) PROVE LoopPlaces'
  BY <1>12, SMTT(30) DEF UnpackStops, Fault, Goto, fileVars, tableVars, runVars, counters
<1>13. ASSUME NEW r \in Manual, StartOther(r) PROVE LoopPlaces'
  BY <1>13 DEF StartOther, Goto, fileVars, tableVars, runVars, counters
<1>14. ASSUME NEW r \in Runs, Acquire(r) PROVE LoopPlaces'
  BY <1>14 DEF Acquire, Begins, Goto, fileVars, tableVars, runVars, counters
<1>15. ASSUME NEW r \in Runs, Refused(r) PROVE LoopPlaces'
  BY <1>15 DEF Refused, Ends, Goto, fileVars, tableVars, runVars, counters
<1>16. ASSUME NEW r \in Runs, SkipFile(r) PROVE LoopPlaces'
  BY <1>16 DEF SkipFile, NextFile, Goto, fileVars, tableVars, runVars, counters
<1>17. ASSUME NEW r \in Runs, ChooseStrategy(r) PROVE LoopPlaces'
  BY <1>17 DEF ChooseStrategy, Goto, fileVars, tableVars, runVars, counters
<1>18. ASSUME NEW r \in Runs, ClearTable(r) PROVE LoopPlaces'
  BY <1>18 DEF ClearTable, Cleared, Goto, fileVars, tableVars, runVars, counters
<1>19. ASSUME NEW r \in Runs, Load(r) PROVE LoopPlaces'
  BY <1>19 DEF Load, ReadInto, NextFile, Goto, fileVars, tableVars, runVars, counters
<1>20. ASSUME NEW r \in Runs, DropIndexes(r) PROVE LoopPlaces'
  BY <1>20 DEF DropIndexes, Goto, fileVars, tableVars, runVars, counters
<1>21. ASSUME NEW r \in Runs, CopyFile(r) PROVE LoopPlaces'
  BY <1>21 DEF CopyFile, ReadInto, Goto, fileVars, tableVars, runVars, counters
<1>22. ASSUME NEW r \in Runs, Rebuild(r) PROVE LoopPlaces'
  BY <1>22 DEF Rebuild, Rebuilt, NextFile, Goto, fileVars, tableVars, runVars, counters
<1>23. ASSUME NEW r \in Runs, Unwind(r) PROVE LoopPlaces'
  BY <1>23 DEF Unwind, Rebuilt, Raises, Freed, Ends, Goto, fileVars, tableVars, runVars, counters
<1>24. ASSUME NEW r \in Runs, Announce(r) PROVE LoopPlaces'
  BY <1>24 DEF Announce, Goto, fileVars, tableVars, runVars, counters
<1>25. ASSUME NEW r \in Runs, Leave(r) PROVE LoopPlaces'
  BY <1>25 DEF Leave, Freed, Ends, Goto, fileVars, tableVars, runVars, counters
<1>26. ASSUME NEW r \in Runs, Fail(r) PROVE LoopPlaces'
  BY <1>26 DEF Fail, Fault, Raises, Freed, Ends, Goto, fileVars, tableVars, runVars, counters
<1>27. ASSUME NEW r \in Runs, CopyFails(r) PROVE LoopPlaces'
  BY <1>27 DEF CopyFails, Fault, Goto, fileVars, tableVars, runVars, counters
<1>28. ASSUME NEW r \in Runs, RebuildFails(r) PROVE LoopPlaces'
  BY <1>28 DEF RebuildFails, Fault, Raises, Freed, Ends, Goto, fileVars, tableVars, runVars, counters
<1>29. ASSUME NEW r \in Runs, Kill(r) PROVE LoopPlaces'
  BY <1>29 DEF Kill, Fault, Ends, Goto, fileVars, tableVars, runVars, counters
<1>30. ASSUME UNCHANGED vars PROVE LoopPlaces'
  BY <1>30 DEF vars, fileVars, tableVars, runVars, counters
<1> QED BY <1>1, <1>2, <1>3, <1>4, <1>5, <1>6, <1>7, <1>8, <1>9, <1>10, <1>11, <1>12, <1>13, <1>14, <1>15,
           <1>16, <1>17, <1>18, <1>19, <1>20, <1>21, <1>22, <1>23, <1>24, <1>25, <1>26, <1>27, <1>28, <1>29, <1>30
        DEF Next, ScriptStep, ImportStep

\* Nobody imports but the holder of the lock.
LEMMA NextLockHeld ==
  TypeRuns /\ LockHeld /\ [Next]_vars => LockHeld'
<1> SUFFICES ASSUME TypeRuns, LockHeld, [Next]_vars
             PROVE  LockHeld'
  OBVIOUS
<1> USE LockAssumption DEF TypeRuns, LockHeld, Importing, Loading, Runs
<1>1. ASSUME Publish PROVE LockHeld'
  BY <1>1 DEF Publish, fileVars, tableVars, runVars, counters
<1>2. ASSUME Expire PROVE LockHeld'
  BY <1>2 DEF Expire, fileVars, tableVars, runVars, counters
<1>3. ASSUME RecreateIndexes PROVE LockHeld'
  BY <1>3 DEF RecreateIndexes, fileVars, tableVars, runVars, counters
<1>4. ASSUME NEW r \in Scripts, StartNightly(r) PROVE LockHeld'
  BY <1>4 DEF StartNightly, Goto, fileVars, tableVars, runVars, counters
<1>5. ASSUME NEW r \in Scripts, StartForced(r) PROVE LockHeld'
  BY <1>5 DEF StartForced, Goto, fileVars, tableVars, runVars, counters
<1>6. ASSUME NEW r \in Scripts, Download(r) PROVE LockHeld'
  BY <1>6 DEF Download, Goto, fileVars, tableVars, runVars, counters
<1>7. ASSUME NEW r \in Scripts, Extract(r) PROVE LockHeld'
  BY <1>7 DEF Extract, Goto, fileVars, tableVars, runVars, counters
<1>8. ASSUME NEW r \in Scripts, NothingToDo(r) PROVE LockHeld'
  BY <1>8 DEF NothingToDo, Ends, Goto, fileVars, tableVars, runVars, counters
<1>9. ASSUME NEW r \in Scripts, Compare(r) PROVE LockHeld'
  BY <1>9 DEF Compare, Goto, fileVars, tableVars, runVars, counters
<1>10. ASSUME NEW r \in Scripts, NEW f \in Files, UnpackFile(r, f) PROVE LockHeld'
  BY <1>10 DEF UnpackFile, Goto, fileVars, tableVars, runVars, counters
<1>11. ASSUME NEW r \in Scripts, DownloadFails(r) PROVE LockHeld'
  BY <1>11 DEF DownloadFails, Fault, Goto, fileVars, tableVars, runVars, counters
<1>12. ASSUME NEW r \in Scripts, UnpackStops(r) PROVE LockHeld'
  BY <1>12, SMTT(30) DEF UnpackStops, Fault, Goto, fileVars, tableVars, runVars, counters
<1>13. ASSUME NEW r \in Manual, StartOther(r) PROVE LockHeld'
  BY <1>13 DEF StartOther, Goto, fileVars, tableVars, runVars, counters
<1>14. ASSUME NEW r \in Runs, Acquire(r) PROVE LockHeld'
  BY <1>14 DEF Acquire, Begins, Goto, fileVars, tableVars, runVars, counters
<1>15. ASSUME NEW r \in Runs, Refused(r) PROVE LockHeld'
  BY <1>15 DEF Refused, Ends, Goto, fileVars, tableVars, runVars, counters
<1>16. ASSUME NEW r \in Runs, SkipFile(r) PROVE LockHeld'
  BY <1>16 DEF SkipFile, NextFile, Goto, fileVars, tableVars, runVars, counters
<1>17. ASSUME NEW r \in Runs, ChooseStrategy(r) PROVE LockHeld'
  BY <1>17 DEF ChooseStrategy, Goto, fileVars, tableVars, runVars, counters
<1>18. ASSUME NEW r \in Runs, ClearTable(r) PROVE LockHeld'
  BY <1>18 DEF ClearTable, Cleared, Goto, fileVars, tableVars, runVars, counters
<1>19. ASSUME NEW r \in Runs, Load(r) PROVE LockHeld'
  BY <1>19 DEF Load, ReadInto, NextFile, Goto, fileVars, tableVars, runVars, counters
<1>20. ASSUME NEW r \in Runs, DropIndexes(r) PROVE LockHeld'
  BY <1>20 DEF DropIndexes, Goto, fileVars, tableVars, runVars, counters
<1>21. ASSUME NEW r \in Runs, CopyFile(r) PROVE LockHeld'
  BY <1>21 DEF CopyFile, ReadInto, Goto, fileVars, tableVars, runVars, counters
<1>22. ASSUME NEW r \in Runs, Rebuild(r) PROVE LockHeld'
  BY <1>22 DEF Rebuild, Rebuilt, NextFile, Goto, fileVars, tableVars, runVars, counters
<1>23. ASSUME NEW r \in Runs, Unwind(r) PROVE LockHeld'
  BY <1>23 DEF Unwind, Rebuilt, Raises, Freed, Ends, Goto, fileVars, tableVars, runVars, counters
<1>24. ASSUME NEW r \in Runs, Announce(r) PROVE LockHeld'
  BY <1>24 DEF Announce, Goto, fileVars, tableVars, runVars, counters
<1>25. ASSUME NEW r \in Runs, Leave(r) PROVE LockHeld'
  BY <1>25 DEF Leave, Freed, Ends, Goto, fileVars, tableVars, runVars, counters
<1>26. ASSUME NEW r \in Runs, Fail(r) PROVE LockHeld'
  BY <1>26 DEF Fail, Fault, Raises, Freed, Ends, Goto, fileVars, tableVars, runVars, counters
<1>27. ASSUME NEW r \in Runs, CopyFails(r) PROVE LockHeld'
  BY <1>27 DEF CopyFails, Fault, Goto, fileVars, tableVars, runVars, counters
<1>28. ASSUME NEW r \in Runs, RebuildFails(r) PROVE LockHeld'
  BY <1>28 DEF RebuildFails, Fault, Raises, Freed, Ends, Goto, fileVars, tableVars, runVars, counters
<1>29. ASSUME NEW r \in Runs, Kill(r) PROVE LockHeld'
  BY <1>29 DEF Kill, Fault, Ends, Goto, fileVars, tableVars, runVars, counters
<1>30. ASSUME UNCHANGED vars PROVE LockHeld'
  BY <1>30 DEF vars, fileVars, tableVars, runVars, counters
<1> QED BY <1>1, <1>2, <1>3, <1>4, <1>5, <1>6, <1>7, <1>8, <1>9, <1>10, <1>11, <1>12, <1>13, <1>14, <1>15,
           <1>16, <1>17, <1>18, <1>19, <1>20, <1>21, <1>22, <1>23, <1>24, <1>25, <1>26, <1>27, <1>28, <1>29, <1>30
        DEF Next, ScriptStep, ImportStep

\* A table without its indexes: its rebuild failed, or is to come.
ToCome(f) == \E r \in Runs : pc[r] \in {"copying", "rebuilding", "unwinding"} /\ File(r) = f
AllToCome == \A f \in missing : f \in broken \/ ToCome(f)

\* Indexes are dropped by a run that is about to rebuild them.
LEMMA NextAllToCome ==
  TypeRuns /\ AllToCome /\ [Next]_vars => AllToCome'
<1> SUFFICES ASSUME TypeRuns, AllToCome, [Next]_vars
             PROVE  AllToCome'
  OBVIOUS
<1> USE DEF TypeRuns, AllToCome, ToCome, Loading, Runs, File
<1>1. ASSUME Publish PROVE AllToCome'
  BY <1>1 DEF Publish, fileVars, tableVars, runVars, counters
<1>2. ASSUME Expire PROVE AllToCome'
  BY <1>2 DEF Expire, fileVars, tableVars, runVars, counters
<1>3. ASSUME RecreateIndexes PROVE AllToCome'
  BY <1>3 DEF RecreateIndexes, fileVars, tableVars, runVars, counters
<1>4. ASSUME NEW r \in Scripts, StartNightly(r) PROVE AllToCome'
  BY <1>4 DEF StartNightly, Goto, fileVars, tableVars, runVars, counters
<1>5. ASSUME NEW r \in Scripts, StartForced(r) PROVE AllToCome'
  BY <1>5 DEF StartForced, Goto, fileVars, tableVars, runVars, counters
<1>6. ASSUME NEW r \in Scripts, Download(r) PROVE AllToCome'
  BY <1>6 DEF Download, Goto, fileVars, tableVars, runVars, counters
<1>7. ASSUME NEW r \in Scripts, Extract(r) PROVE AllToCome'
  BY <1>7 DEF Extract, Goto, fileVars, tableVars, runVars, counters
<1>8. ASSUME NEW r \in Scripts, NothingToDo(r) PROVE AllToCome'
  BY <1>8 DEF NothingToDo, Ends, Goto, fileVars, tableVars, runVars, counters
<1>9. ASSUME NEW r \in Scripts, Compare(r) PROVE AllToCome'
  BY <1>9 DEF Compare, Goto, fileVars, tableVars, runVars, counters
<1>10. ASSUME NEW r \in Scripts, NEW f \in Files, UnpackFile(r, f) PROVE AllToCome'
  BY <1>10 DEF UnpackFile, Goto, fileVars, tableVars, runVars, counters
<1>11. ASSUME NEW r \in Scripts, DownloadFails(r) PROVE AllToCome'
  BY <1>11 DEF DownloadFails, Fault, Goto, fileVars, tableVars, runVars, counters
<1>12. ASSUME NEW r \in Scripts, UnpackStops(r) PROVE AllToCome'
  BY <1>12, SMTT(30) DEF UnpackStops, Fault, Goto, fileVars, tableVars, runVars, counters
<1>13. ASSUME NEW r \in Manual, StartOther(r) PROVE AllToCome'
  BY <1>13 DEF StartOther, Goto, fileVars, tableVars, runVars, counters
<1>14. ASSUME NEW r \in Runs, Acquire(r) PROVE AllToCome'
  BY <1>14 DEF Acquire, Begins, Goto, fileVars, tableVars, runVars, counters
<1>15. ASSUME NEW r \in Runs, Refused(r) PROVE AllToCome'
  BY <1>15 DEF Refused, Ends, Goto, fileVars, tableVars, runVars, counters
<1>16. ASSUME NEW r \in Runs, SkipFile(r) PROVE AllToCome'
  BY <1>16 DEF SkipFile, NextFile, Goto, fileVars, tableVars, runVars, counters
<1>17. ASSUME NEW r \in Runs, ChooseStrategy(r) PROVE AllToCome'
  BY <1>17 DEF ChooseStrategy, Goto, fileVars, tableVars, runVars, counters
<1>18. ASSUME NEW r \in Runs, ClearTable(r) PROVE AllToCome'
  BY <1>18 DEF ClearTable, Cleared, Goto, fileVars, tableVars, runVars, counters
<1>19. ASSUME NEW r \in Runs, Load(r) PROVE AllToCome'
  BY <1>19 DEF Load, ReadInto, NextFile, Goto, fileVars, tableVars, runVars, counters
<1>20. ASSUME NEW r \in Runs, DropIndexes(r) PROVE AllToCome'
  BY <1>20 DEF DropIndexes, Goto, fileVars, tableVars, runVars, counters
<1>21. ASSUME NEW r \in Runs, CopyFile(r) PROVE AllToCome'
  BY <1>21 DEF CopyFile, ReadInto, Goto, fileVars, tableVars, runVars, counters
<1>22. ASSUME NEW r \in Runs, Rebuild(r) PROVE AllToCome'
  BY <1>22 DEF Rebuild, Rebuilt, NextFile, Goto, fileVars, tableVars, runVars, counters
<1>23. ASSUME NEW r \in Runs, Unwind(r) PROVE AllToCome'
  BY <1>23 DEF Unwind, Rebuilt, Raises, Freed, Ends, Goto, fileVars, tableVars, runVars, counters
<1>24. ASSUME NEW r \in Runs, Announce(r) PROVE AllToCome'
  BY <1>24 DEF Announce, Goto, fileVars, tableVars, runVars, counters
<1>25. ASSUME NEW r \in Runs, Leave(r) PROVE AllToCome'
  BY <1>25 DEF Leave, Freed, Ends, Goto, fileVars, tableVars, runVars, counters
<1>26. ASSUME NEW r \in Runs, Fail(r) PROVE AllToCome'
  BY <1>26 DEF Fail, Fault, Raises, Freed, Ends, Goto, fileVars, tableVars, runVars, counters
<1>27. ASSUME NEW r \in Runs, CopyFails(r) PROVE AllToCome'
  BY <1>27 DEF CopyFails, Fault, Goto, fileVars, tableVars, runVars, counters
<1>28. ASSUME NEW r \in Runs, RebuildFails(r) PROVE AllToCome'
  BY <1>28 DEF RebuildFails, Fault, Raises, Freed, Ends, Goto, fileVars, tableVars, runVars, counters
<1>29. ASSUME NEW r \in Runs, Kill(r) PROVE AllToCome'
  BY <1>29 DEF Kill, Fault, Ends, Goto, fileVars, tableVars, runVars, counters
<1>30. ASSUME UNCHANGED vars PROVE AllToCome'
  BY <1>30 DEF vars, fileVars, tableVars, runVars, counters
<1> QED BY <1>1, <1>2, <1>3, <1>4, <1>5, <1>6, <1>7, <1>8, <1>9, <1>10, <1>11, <1>12, <1>13, <1>14, <1>15,
           <1>16, <1>17, <1>18, <1>19, <1>20, <1>21, <1>22, <1>23, <1>24, <1>25, <1>26, <1>27, <1>28, <1>29, <1>30
        DEF Next, ScriptStep, ImportStep

\* A run changes rows of its dataset only: if it truncates a table, there were no
\* others, and are none.
LEMMA OnlyOwnRows ==
  TypeTables /\ TypeRuns /\ LockHeld /\ OthersKnown /\ [Next]_vars => (\A d \in Datasets : table'[d] # table[d] => \E q \in Runs : lock = q /\ DatasetOf(q) = d /\ pc[q] \in Loading)
<1> SUFFICES ASSUME TypeTables, TypeRuns, LockHeld, OthersKnown, [Next]_vars
             PROVE  (\A d \in Datasets : table'[d] # table[d] => \E q \in Runs : lock = q /\ DatasetOf(q) = d /\ pc[q] \in Loading)
  OBVIOUS
<1> USE DEF TypeTables, TypeRuns, LockHeld, OthersKnown, Importing, Loading, Runs
<1>1. ASSUME Publish PROVE (\A d \in Datasets : table'[d] # table[d] => \E q \in Runs : lock = q /\ DatasetOf(q) = d /\ pc[q] \in Loading)
  BY <1>1 DEF Publish, fileVars, tableVars, runVars, counters
<1>2. ASSUME Expire PROVE (\A d \in Datasets : table'[d] # table[d] => \E q \in Runs : lock = q /\ DatasetOf(q) = d /\ pc[q] \in Loading)
  BY <1>2 DEF Expire, fileVars, tableVars, runVars, counters
<1>3. ASSUME RecreateIndexes PROVE (\A d \in Datasets : table'[d] # table[d] => \E q \in Runs : lock = q /\ DatasetOf(q) = d /\ pc[q] \in Loading)
  BY <1>3 DEF RecreateIndexes, fileVars, tableVars, runVars, counters
<1>4. ASSUME NEW r \in Scripts, StartNightly(r) PROVE (\A d \in Datasets : table'[d] # table[d] => \E q \in Runs : lock = q /\ DatasetOf(q) = d /\ pc[q] \in Loading)
  BY <1>4 DEF StartNightly, Goto, fileVars, tableVars, runVars, counters
<1>5. ASSUME NEW r \in Scripts, StartForced(r) PROVE (\A d \in Datasets : table'[d] # table[d] => \E q \in Runs : lock = q /\ DatasetOf(q) = d /\ pc[q] \in Loading)
  BY <1>5 DEF StartForced, Goto, fileVars, tableVars, runVars, counters
<1>6. ASSUME NEW r \in Scripts, Download(r) PROVE (\A d \in Datasets : table'[d] # table[d] => \E q \in Runs : lock = q /\ DatasetOf(q) = d /\ pc[q] \in Loading)
  BY <1>6 DEF Download, Goto, fileVars, tableVars, runVars, counters
<1>7. ASSUME NEW r \in Scripts, Extract(r) PROVE (\A d \in Datasets : table'[d] # table[d] => \E q \in Runs : lock = q /\ DatasetOf(q) = d /\ pc[q] \in Loading)
  BY <1>7 DEF Extract, Goto, fileVars, tableVars, runVars, counters
<1>8. ASSUME NEW r \in Scripts, NothingToDo(r) PROVE (\A d \in Datasets : table'[d] # table[d] => \E q \in Runs : lock = q /\ DatasetOf(q) = d /\ pc[q] \in Loading)
  BY <1>8 DEF NothingToDo, Ends, Goto, fileVars, tableVars, runVars, counters
<1>9. ASSUME NEW r \in Scripts, Compare(r) PROVE (\A d \in Datasets : table'[d] # table[d] => \E q \in Runs : lock = q /\ DatasetOf(q) = d /\ pc[q] \in Loading)
  BY <1>9 DEF Compare, Goto, fileVars, tableVars, runVars, counters
<1>10. ASSUME NEW r \in Scripts, NEW f \in Files, UnpackFile(r, f) PROVE (\A d \in Datasets : table'[d] # table[d] => \E q \in Runs : lock = q /\ DatasetOf(q) = d /\ pc[q] \in Loading)
  BY <1>10 DEF UnpackFile, Goto, fileVars, tableVars, runVars, counters
<1>11. ASSUME NEW r \in Scripts, DownloadFails(r) PROVE (\A d \in Datasets : table'[d] # table[d] => \E q \in Runs : lock = q /\ DatasetOf(q) = d /\ pc[q] \in Loading)
  BY <1>11 DEF DownloadFails, Fault, Goto, fileVars, tableVars, runVars, counters
<1>12. ASSUME NEW r \in Scripts, UnpackStops(r) PROVE (\A d \in Datasets : table'[d] # table[d] => \E q \in Runs : lock = q /\ DatasetOf(q) = d /\ pc[q] \in Loading)
  BY <1>12, SMTT(30) DEF UnpackStops, Fault, Goto, fileVars, tableVars, runVars, counters
<1>13. ASSUME NEW r \in Manual, StartOther(r) PROVE (\A d \in Datasets : table'[d] # table[d] => \E q \in Runs : lock = q /\ DatasetOf(q) = d /\ pc[q] \in Loading)
  BY <1>13 DEF StartOther, Goto, fileVars, tableVars, runVars, counters
<1>14. ASSUME NEW r \in Runs, Acquire(r) PROVE (\A d \in Datasets : table'[d] # table[d] => \E q \in Runs : lock = q /\ DatasetOf(q) = d /\ pc[q] \in Loading)
  BY <1>14 DEF Acquire, Begins, Goto, fileVars, tableVars, runVars, counters
<1>15. ASSUME NEW r \in Runs, Refused(r) PROVE (\A d \in Datasets : table'[d] # table[d] => \E q \in Runs : lock = q /\ DatasetOf(q) = d /\ pc[q] \in Loading)
  BY <1>15 DEF Refused, Ends, Goto, fileVars, tableVars, runVars, counters
<1>16. ASSUME NEW r \in Runs, SkipFile(r) PROVE (\A d \in Datasets : table'[d] # table[d] => \E q \in Runs : lock = q /\ DatasetOf(q) = d /\ pc[q] \in Loading)
  BY <1>16 DEF SkipFile, NextFile, Goto, fileVars, tableVars, runVars, counters
<1>17. ASSUME NEW r \in Runs, ChooseStrategy(r) PROVE (\A d \in Datasets : table'[d] # table[d] => \E q \in Runs : lock = q /\ DatasetOf(q) = d /\ pc[q] \in Loading)
  BY <1>17 DEF ChooseStrategy, Goto, fileVars, tableVars, runVars, counters
<1>18. ASSUME NEW r \in Runs, ClearTable(r) PROVE (\A d \in Datasets : table'[d] # table[d] => \E q \in Runs : lock = q /\ DatasetOf(q) = d /\ pc[q] \in Loading)
  <2>1. lock = r /\ pc[r] \in Loading /\ pc[r] = "clearing"
    BY <1>18 DEF ClearTable
  <2>2. CASE others[r]
    BY <1>18, <2>1, <2>2 DEF ClearTable, Cleared
  <2>3. CASE ~others[r]
    <3>1. table' = [d \in Datasets |-> [table[d] EXCEPT ![File(r)] = 0]]
      BY <1>18, <2>3 DEF ClearTable, Cleared
    <3>2. \A d \in Datasets : d # DatasetOf(r) => table[d][File(r)] = 0
      BY <2>1, <2>3 DEF OtherDatasetExists
    <3>3. \A d \in Datasets : d # DatasetOf(r) => table'[d] = table[d]
      BY <3>1, <3>2
    <3> QED BY <2>1, <3>3
  <2> QED BY <2>2, <2>3
<1>19. ASSUME NEW r \in Runs, Load(r) PROVE (\A d \in Datasets : table'[d] # table[d] => \E q \in Runs : lock = q /\ DatasetOf(q) = d /\ pc[q] \in Loading)
  BY <1>19 DEF Load, ReadInto, NextFile, Goto, fileVars, tableVars, runVars, counters
<1>20. ASSUME NEW r \in Runs, DropIndexes(r) PROVE (\A d \in Datasets : table'[d] # table[d] => \E q \in Runs : lock = q /\ DatasetOf(q) = d /\ pc[q] \in Loading)
  BY <1>20 DEF DropIndexes, Goto, fileVars, tableVars, runVars, counters
<1>21. ASSUME NEW r \in Runs, CopyFile(r) PROVE (\A d \in Datasets : table'[d] # table[d] => \E q \in Runs : lock = q /\ DatasetOf(q) = d /\ pc[q] \in Loading)
  BY <1>21 DEF CopyFile, ReadInto, Goto, fileVars, tableVars, runVars, counters
<1>22. ASSUME NEW r \in Runs, Rebuild(r) PROVE (\A d \in Datasets : table'[d] # table[d] => \E q \in Runs : lock = q /\ DatasetOf(q) = d /\ pc[q] \in Loading)
  BY <1>22 DEF Rebuild, Rebuilt, NextFile, Goto, fileVars, tableVars, runVars, counters
<1>23. ASSUME NEW r \in Runs, Unwind(r) PROVE (\A d \in Datasets : table'[d] # table[d] => \E q \in Runs : lock = q /\ DatasetOf(q) = d /\ pc[q] \in Loading)
  BY <1>23 DEF Unwind, Rebuilt, Raises, Freed, Ends, Goto, fileVars, tableVars, runVars, counters
<1>24. ASSUME NEW r \in Runs, Announce(r) PROVE (\A d \in Datasets : table'[d] # table[d] => \E q \in Runs : lock = q /\ DatasetOf(q) = d /\ pc[q] \in Loading)
  BY <1>24 DEF Announce, Goto, fileVars, tableVars, runVars, counters
<1>25. ASSUME NEW r \in Runs, Leave(r) PROVE (\A d \in Datasets : table'[d] # table[d] => \E q \in Runs : lock = q /\ DatasetOf(q) = d /\ pc[q] \in Loading)
  BY <1>25 DEF Leave, Freed, Ends, Goto, fileVars, tableVars, runVars, counters
<1>26. ASSUME NEW r \in Runs, Fail(r) PROVE (\A d \in Datasets : table'[d] # table[d] => \E q \in Runs : lock = q /\ DatasetOf(q) = d /\ pc[q] \in Loading)
  BY <1>26 DEF Fail, Fault, Raises, Freed, Ends, Goto, fileVars, tableVars, runVars, counters
<1>27. ASSUME NEW r \in Runs, CopyFails(r) PROVE (\A d \in Datasets : table'[d] # table[d] => \E q \in Runs : lock = q /\ DatasetOf(q) = d /\ pc[q] \in Loading)
  BY <1>27 DEF CopyFails, Fault, Goto, fileVars, tableVars, runVars, counters
<1>28. ASSUME NEW r \in Runs, RebuildFails(r) PROVE (\A d \in Datasets : table'[d] # table[d] => \E q \in Runs : lock = q /\ DatasetOf(q) = d /\ pc[q] \in Loading)
  BY <1>28 DEF RebuildFails, Fault, Raises, Freed, Ends, Goto, fileVars, tableVars, runVars, counters
<1>29. ASSUME NEW r \in Runs, Kill(r) PROVE (\A d \in Datasets : table'[d] # table[d] => \E q \in Runs : lock = q /\ DatasetOf(q) = d /\ pc[q] \in Loading)
  BY <1>29 DEF Kill, Fault, Ends, Goto, fileVars, tableVars, runVars, counters
<1>30. ASSUME UNCHANGED vars PROVE (\A d \in Datasets : table'[d] # table[d] => \E q \in Runs : lock = q /\ DatasetOf(q) = d /\ pc[q] \in Loading)
  BY <1>30 DEF vars, fileVars, tableVars, runVars, counters
<1> QED BY <1>1, <1>2, <1>3, <1>4, <1>5, <1>6, <1>7, <1>8, <1>9, <1>10, <1>11, <1>12, <1>13, <1>14, <1>15,
           <1>16, <1>17, <1>18, <1>19, <1>20, <1>21, <1>22, <1>23, <1>24, <1>25, <1>26, <1>27, <1>28, <1>29, <1>30
        DEF Next, ScriptStep, ImportStep

\* What a run saw of the other dataset stays true while it has the lock.
LEMMA NextOthersKnown ==
  TypeTables /\ TypeRuns /\ TypeLocals /\ LockHeld /\ OthersKnown /\ [Next]_vars => OthersKnown'
<1> SUFFICES ASSUME TypeTables, TypeRuns, TypeLocals, LockHeld, OthersKnown, [Next]_vars
             PROVE  OthersKnown'
  OBVIOUS
<1> USE DEF TypeTables, TypeRuns, TypeLocals, LockHeld, OthersKnown, OtherDatasetExists, Importing, Loading, Runs, File
<1>1. ASSUME Publish PROVE OthersKnown'
  BY <1>1 DEF Publish, fileVars, tableVars, runVars, counters
<1>2. ASSUME Expire PROVE OthersKnown'
  BY <1>2 DEF Expire, fileVars, tableVars, runVars, counters
<1>3. ASSUME RecreateIndexes PROVE OthersKnown'
  BY <1>3 DEF RecreateIndexes, fileVars, tableVars, runVars, counters
<1>4. ASSUME NEW r \in Scripts, StartNightly(r) PROVE OthersKnown'
  BY <1>4 DEF StartNightly, Goto, fileVars, tableVars, runVars, counters
<1>5. ASSUME NEW r \in Scripts, StartForced(r) PROVE OthersKnown'
  BY <1>5 DEF StartForced, Goto, fileVars, tableVars, runVars, counters
<1>6. ASSUME NEW r \in Scripts, Download(r) PROVE OthersKnown'
  BY <1>6 DEF Download, Goto, fileVars, tableVars, runVars, counters
<1>7. ASSUME NEW r \in Scripts, Extract(r) PROVE OthersKnown'
  BY <1>7 DEF Extract, Goto, fileVars, tableVars, runVars, counters
<1>8. ASSUME NEW r \in Scripts, NothingToDo(r) PROVE OthersKnown'
  BY <1>8 DEF NothingToDo, Ends, Goto, fileVars, tableVars, runVars, counters
<1>9. ASSUME NEW r \in Scripts, Compare(r) PROVE OthersKnown'
  BY <1>9 DEF Compare, Goto, fileVars, tableVars, runVars, counters
<1>10. ASSUME NEW r \in Scripts, NEW f \in Files, UnpackFile(r, f) PROVE OthersKnown'
  BY <1>10 DEF UnpackFile, Goto, fileVars, tableVars, runVars, counters
<1>11. ASSUME NEW r \in Scripts, DownloadFails(r) PROVE OthersKnown'
  BY <1>11 DEF DownloadFails, Fault, Goto, fileVars, tableVars, runVars, counters
<1>12. ASSUME NEW r \in Scripts, UnpackStops(r) PROVE OthersKnown'
  BY <1>12, SMTT(30) DEF UnpackStops, Fault, Goto, fileVars, tableVars, runVars, counters
<1>13. ASSUME NEW r \in Manual, StartOther(r) PROVE OthersKnown'
  BY <1>13 DEF StartOther, Goto, fileVars, tableVars, runVars, counters
<1>14. ASSUME NEW r \in Runs, Acquire(r) PROVE OthersKnown'
  BY <1>14 DEF Acquire, Begins, Goto, fileVars, tableVars, runVars, counters
<1>15. ASSUME NEW r \in Runs, Refused(r) PROVE OthersKnown'
  BY <1>15 DEF Refused, Ends, Goto, fileVars, tableVars, runVars, counters
<1>16. ASSUME NEW r \in Runs, SkipFile(r) PROVE OthersKnown'
  BY <1>16 DEF SkipFile, NextFile, Goto, fileVars, tableVars, runVars, counters
<1>17. ASSUME NEW r \in Runs, ChooseStrategy(r) PROVE OthersKnown'
  <2>1. pc' = [pc EXCEPT ![r] = "clearing"] /\ others' = [others EXCEPT ![r] = OtherDatasetExists(r)]
        /\ UNCHANGED <<table, at>>
    BY <1>17 DEF ChooseStrategy, Goto, tableVars
  <2>2. \A q \in Runs : OtherDatasetExists(q)' = OtherDatasetExists(q)
    BY <2>1
  <2>3. others'[r] = OtherDatasetExists(r)
    BY ONLY <2>1, others \in [Runs -> BOOLEAN], r \in Runs
  <2>4. \A q \in Runs : q # r => pc'[q] = pc[q] /\ others'[q] = others[q]
    BY <2>1, others \in [Runs -> BOOLEAN]
  <2> HIDE DEF OtherDatasetExists
  <2> QED BY <2>2, <2>3, <2>4
<1>18. ASSUME NEW r \in Runs, ClearTable(r) PROVE OthersKnown'
  BY <1>18 DEF ClearTable, Cleared, Goto, fileVars, tableVars, runVars, counters
<1>19. ASSUME NEW r \in Runs, Load(r) PROVE OthersKnown'
  BY <1>19 DEF Load, ReadInto, NextFile, Goto, fileVars, tableVars, runVars, counters
<1>20. ASSUME NEW r \in Runs, DropIndexes(r) PROVE OthersKnown'
  BY <1>20 DEF DropIndexes, Goto, fileVars, tableVars, runVars, counters
<1>21. ASSUME NEW r \in Runs, CopyFile(r) PROVE OthersKnown'
  BY <1>21 DEF CopyFile, ReadInto, Goto, fileVars, tableVars, runVars, counters
<1>22. ASSUME NEW r \in Runs, Rebuild(r) PROVE OthersKnown'
  BY <1>22 DEF Rebuild, Rebuilt, NextFile, Goto, fileVars, tableVars, runVars, counters
<1>23. ASSUME NEW r \in Runs, Unwind(r) PROVE OthersKnown'
  BY <1>23 DEF Unwind, Rebuilt, Raises, Freed, Ends, Goto, fileVars, tableVars, runVars, counters
<1>24. ASSUME NEW r \in Runs, Announce(r) PROVE OthersKnown'
  BY <1>24 DEF Announce, Goto, fileVars, tableVars, runVars, counters
<1>25. ASSUME NEW r \in Runs, Leave(r) PROVE OthersKnown'
  BY <1>25 DEF Leave, Freed, Ends, Goto, fileVars, tableVars, runVars, counters
<1>26. ASSUME NEW r \in Runs, Fail(r) PROVE OthersKnown'
  BY <1>26 DEF Fail, Fault, Raises, Freed, Ends, Goto, fileVars, tableVars, runVars, counters
<1>27. ASSUME NEW r \in Runs, CopyFails(r) PROVE OthersKnown'
  BY <1>27 DEF CopyFails, Fault, Goto, fileVars, tableVars, runVars, counters
<1>28. ASSUME NEW r \in Runs, RebuildFails(r) PROVE OthersKnown'
  BY <1>28 DEF RebuildFails, Fault, Raises, Freed, Ends, Goto, fileVars, tableVars, runVars, counters
<1>29. ASSUME NEW r \in Runs, Kill(r) PROVE OthersKnown'
  BY <1>29 DEF Kill, Fault, Ends, Goto, fileVars, tableVars, runVars, counters
<1>30. ASSUME UNCHANGED vars PROVE OthersKnown'
  BY <1>30 DEF vars, fileVars, tableVars, runVars, counters
<1> QED BY <1>1, <1>2, <1>3, <1>4, <1>5, <1>6, <1>7, <1>8, <1>9, <1>10, <1>11, <1>12, <1>13, <1>14, <1>15,
           <1>16, <1>17, <1>18, <1>19, <1>20, <1>21, <1>22, <1>23, <1>24, <1>25, <1>26, <1>27, <1>28, <1>29, <1>30
        DEF Next, ScriptStep, ImportStep

\* The files a run is through with are in the tables.
LEMMA NextLoadedSoFar ==
  TypeFiles /\ TypeTables /\ TypeRuns /\ LoopPlaces /\ LockHeld /\ LoadedSoFar /\ [Next]_vars => LoadedSoFar'
<1> SUFFICES ASSUME TypeFiles, TypeTables, TypeRuns, LoopPlaces, LockHeld, LoadedSoFar, [Next]_vars
             PROVE  LoadedSoFar'
  OBVIOUS
<1> USE FileIsListed, FileAssumption, SlotAssumption DEF TypeTables, TypeRuns, LoopPlaces, LockHeld, LoadedSoFar, OfOneFeed, Loaded, Importing, Loading, Runs, File, Source, Datasets, DatasetOf
<1>1. ASSUME Publish PROVE LoadedSoFar'
  BY <1>1, SMTT(30) DEF Publish, fileVars, tableVars, runVars, counters
<1>2. ASSUME Expire PROVE LoadedSoFar'
  BY <1>2 DEF Expire, fileVars, tableVars, runVars, counters
<1>3. ASSUME RecreateIndexes PROVE LoadedSoFar'
  BY <1>3, SMTT(30) DEF RecreateIndexes, fileVars, tableVars, runVars, counters
<1>4. ASSUME NEW r \in Scripts, StartNightly(r) PROVE LoadedSoFar'
  BY <1>4, SMTT(30) DEF StartNightly, Goto, fileVars, tableVars, runVars, counters
<1>5. ASSUME NEW r \in Scripts, StartForced(r) PROVE LoadedSoFar'
  BY <1>5, SMTT(30) DEF StartForced, Goto, fileVars, tableVars, runVars, counters
<1>6. ASSUME NEW r \in Scripts, Download(r) PROVE LoadedSoFar'
  BY <1>6, SMTT(30) DEF Download, Goto, fileVars, tableVars, runVars, counters
<1>7. ASSUME NEW r \in Scripts, Extract(r) PROVE LoadedSoFar'
  BY <1>7, SMTT(30) DEF Extract, Goto, fileVars, tableVars, runVars, counters
<1>8. ASSUME NEW r \in Scripts, NothingToDo(r) PROVE LoadedSoFar'
  BY <1>8 DEF NothingToDo, Ends, Goto, fileVars, tableVars, runVars, counters
<1>9. ASSUME NEW r \in Scripts, Compare(r) PROVE LoadedSoFar'
  BY <1>9, SMTT(30) DEF Compare, Goto, fileVars, tableVars, runVars, counters
<1>10. ASSUME NEW r \in Scripts, NEW f \in Files, UnpackFile(r, f) PROVE LoadedSoFar'
  <2>1. /\ dir' = [dir EXCEPT ![f] = zip] /\ UNCHANGED <<table, at>>
        /\ ~Importing(r)' /\ \A q \in Runs : q # r => pc'[q] = pc[q]
        /\ \/ dir[f] = zip /\ disturbed' = disturbed
           \/ disturbed' = disturbed \union {i \in Scripts : Importing(i)}
    BY <1>10 DEF UnpackFile, Goto, tableVars
  <2>2. ASSUME NEW q \in Runs, Importing(q)', q \notin disturbed'
        PROVE  OfOneFeed(q)'
    <3>1. q # r /\ pc'[q] = pc[q] /\ Importing(q) /\ q \notin disturbed
      BY <2>1, <2>2
    <3>2. OfOneFeed(q)
      BY <3>1
    <3>3. \A g \in Files : Source(q, g)' = Source(q, g)
      <4>1. CASE q \in Scripts
        <5>1. dir[f] = zip
          BY <2>1, <2>2, <3>1, <4>1
        <5>2. dir' = dir
          BY <2>1, <5>1 DEF TypeFiles
        <5> QED BY <5>2
      <4>2. CASE q \notin Scripts
        BY <4>2
      <4> QED BY <4>1, <4>2
    <3>4. Loaded(q)' = Loaded(q) /\ \A i \in Loaded(q) : FileSeq[i] \in Files
      BY <2>1, <3>1
    <3> HIDE DEF Source, Loaded
    <3> QED BY <2>1, <3>2, <3>3, <3>4
  <2> HIDE DEF OfOneFeed, Importing
  <2> QED BY <2>2
<1>11. ASSUME NEW r \in Scripts, DownloadFails(r) PROVE LoadedSoFar'
  BY <1>11, SMTT(30) DEF DownloadFails, Fault, Goto, fileVars, tableVars, runVars, counters
<1>12. ASSUME NEW r \in Scripts, UnpackStops(r) PROVE LoadedSoFar'
  BY <1>12, SMTT(30) DEF UnpackStops, Fault, Goto, fileVars, tableVars, runVars, counters
<1>13. ASSUME NEW r \in Manual, StartOther(r) PROVE LoadedSoFar'
  BY <1>13, SMTT(30) DEF StartOther, Goto, fileVars, tableVars, runVars, counters
<1>14. ASSUME NEW r \in Runs, Acquire(r) PROVE LoadedSoFar'
  <2>1. /\ UNCHANGED <<dir, table, at>> /\ Importing(r)' /\ \A q \in Runs : q # r => pc'[q] = pc[q]
        /\ ~Importing(r) /\ lock = Nobody
        /\ disturbed \subseteq disturbed'
        /\ (\E f, g \in Files : Source(r, f) = 0 \/ Source(r, f) # Source(r, g)) => r \in disturbed'
    BY <1>14 DEF Acquire, Begins, Goto, fileVars, tableVars, runVars
  <2>2. \A q \in Runs : ~Importing(q)
    BY <2>1, LockAssumption
  <2>3. \A q \in Runs : q # r => ~Importing(q)'
    BY <2>1, <2>2
  <2>4. Loaded(r)' = {}
    <3>1. pc'[r] = "choosing" /\ at'[r] = 1
      BY <1>14, <2>1 DEF Acquire, Begins, Goto
    <3> QED BY <3>1
  <2>5. ASSUME r \notin disturbed' PROVE OfOneFeed(r)'
    <3>1. \A f, g \in Files : Source(r, f) # 0 /\ Source(r, f) = Source(r, g)
      BY <2>1, <2>5
    <3>2. \A f \in Files : Source(r, f)' = Source(r, f)
      BY <2>1
    <3> HIDE DEF Source, Loaded
    <3> QED BY <2>4, <3>1, <3>2
  <2> HIDE DEF OfOneFeed, Importing
  <2> QED BY <2>3, <2>5
<1>15. ASSUME NEW r \in Runs, Refused(r) PROVE LoadedSoFar'
  BY <1>15 DEF Refused, Ends, Goto, fileVars, tableVars, runVars, counters
<1>16. ASSUME NEW r \in Runs, SkipFile(r) PROVE LoadedSoFar'
  <2>1. Importing(r) /\ UNCHANGED <<dir, disturbed>> /\ \A q \in Runs : q # r => pc'[q] = pc[q] /\ ~Importing(q)
    BY <1>16 DEF SkipFile, Goto, NextFile, fileVars
  <2>2. \A q \in Runs : q # r => ~Importing(q)'
    BY <2>1
  <2>3. SUFFICES ASSUME r \notin disturbed PROVE OfOneFeed(r)'
    <3> HIDE DEF OfOneFeed, Importing
    <3> QED BY <2>1, <2>2
  <2>4. \A g \in Files : Source(r, g)' = Source(r, g)
    BY <2>1
  <2>5. /\ \A g, h \in Files : Source(r, g) # 0 /\ Source(r, g) = Source(r, h)
        /\ \A i \in Loaded(r) : table[DatasetOf(r)][FileSeq[i]] = Source(r, FileSeq[i])
    <3>1. OfOneFeed(r)
      BY <2>1, <2>3
    <3> QED BY <3>1
  <2>6. Source(r, File(r)) = 0 /\ File(r) \in Files
    BY <1>16, FileIsListed DEF SkipFile
  <2> QED BY <2>5, <2>6
<1>17. ASSUME NEW r \in Runs, ChooseStrategy(r) PROVE LoadedSoFar'
  BY <1>17, SMTT(30) DEF ChooseStrategy, Goto, fileVars, tableVars, runVars, counters
<1>18. ASSUME NEW r \in Runs, ClearTable(r) PROVE LoadedSoFar'
  <2>1. Importing(r) /\ UNCHANGED <<dir, disturbed>> /\ \A q \in Runs : q # r => pc'[q] = pc[q] /\ ~Importing(q)
    BY <1>18 DEF ClearTable, Cleared, Goto, NextFile, fileVars
  <2>2. \A q \in Runs : q # r => ~Importing(q)'
    BY <2>1
  <2>3. SUFFICES ASSUME r \notin disturbed PROVE OfOneFeed(r)'
    <3> HIDE DEF OfOneFeed, Importing
    <3> QED BY <2>1, <2>2
  <2>4. \A g \in Files : Source(r, g)' = Source(r, g)
    BY <2>1
  <2>5. /\ \A g, h \in Files : Source(r, g) # 0 /\ Source(r, g) = Source(r, h)
        /\ \A i \in Loaded(r) : table[DatasetOf(r)][FileSeq[i]] = Source(r, FileSeq[i])
    <3>1. OfOneFeed(r)
      BY <2>1, <2>3
    <3> QED BY <3>1
  <2>6. /\ at' = at /\ at[r] \in FileIndex /\ pc[r] = "clearing" /\ pc'[r] \in {"dropping", "loading"}
        /\ \A d \in Datasets : \A f \in Files : f # File(r) => table'[d][f] = table[d][f]
    BY <1>18, FileIsListed DEF ClearTable, Cleared, Goto, runVars
  <2>7. \A i \in Loaded(r)' : i \in Loaded(r) /\ FileSeq[i] \in Files /\ FileSeq[i] # File(r)
    BY <2>6, FileIsListed, FileAssumption
  <2>8. DatasetOf(r) \in Datasets
    OBVIOUS
  <2> HIDE DEF Source, Loaded, DatasetOf, Datasets, File
  <2> QED BY <2>4, <2>5, <2>6, <2>7, <2>8
<1>19. ASSUME NEW r \in Runs, Load(r) PROVE LoadedSoFar'
  <2>1. Importing(r) /\ UNCHANGED <<dir, disturbed>> /\ \A q \in Runs : q # r => pc'[q] = pc[q] /\ ~Importing(q)
    BY <1>19 DEF Load, Goto, NextFile, fileVars
  <2>2. \A q \in Runs : q # r => ~Importing(q)'
    BY <2>1
  <2>3. SUFFICES ASSUME r \notin disturbed PROVE OfOneFeed(r)'
    <3> HIDE DEF OfOneFeed, Importing
    <3> QED BY <2>1, <2>2
  <2>4. \A g \in Files : Source(r, g)' = Source(r, g)
    BY <2>1
  <2>5. /\ \A g, h \in Files : Source(r, g) # 0 /\ Source(r, g) = Source(r, h)
        /\ \A i \in Loaded(r) : table[DatasetOf(r)][FileSeq[i]] = Source(r, FileSeq[i])
    <3>1. OfOneFeed(r)
      BY <2>1, <2>3
    <3> QED BY <3>1
  <2>6. at[r] \in FileIndex /\ pc[r] = "loading" /\ Len(FileSeq) \in Nat
    BY <1>19, FileIsListed DEF Load
  <2>7. \A i \in Loaded(r)' : i \in FileIndex /\ (i \in Loaded(r) \/ i = at[r])
    <3>1. CASE at[r] < Len(FileSeq)
      <4>1. at'[r] = at[r] + 1 /\ pc'[r] = "choosing"
        BY <1>19, <3>1 DEF Load, NextFile, Goto
      <4> QED BY <2>6, <4>1, FileIsListed
    <3>2. CASE ~(at[r] < Len(FileSeq))
      BY <2>6, <3>2, FileIsListed
    <3> QED BY <3>1, <3>2
  <2>8. at[r] \in FileIndex /\ File(r) \in Files /\ DatasetOf(r) \in Datasets
    BY FileIsListed
  <2>9. table' = [table EXCEPT ![DatasetOf(r)][File(r)] = Source(r, File(r))]
    BY <1>19 DEF Load, ReadInto
  <2> HIDE DEF Source, Loaded, DatasetOf, Datasets, File
  <2>10. ASSUME NEW i \in Loaded(r)' PROVE table'[DatasetOf(r)][FileSeq[i]] = Source(r, FileSeq[i])
    <3>1. FileSeq[i] \in Files
      BY <2>7, FileIsListed
    <3>2. CASE FileSeq[i] = File(r)
      BY <2>8, <2>9, <3>2
    <3>3. CASE FileSeq[i] # File(r)
      <4>1. i \in Loaded(r)
        BY <2>7, <3>3 DEF File
      <4> QED BY <2>5, <2>8, <2>9, <3>1, <3>3, <4>1
    <3> QED BY <3>2, <3>3
  <2> QED BY <2>4, <2>5, <2>7, <2>10, FileIsListed
<1>20. ASSUME NEW r \in Runs, DropIndexes(r) PROVE LoadedSoFar'
  BY <1>20, SMTT(30) DEF DropIndexes, Goto, fileVars, tableVars, runVars, counters
<1>21. ASSUME NEW r \in Runs, CopyFile(r) PROVE LoadedSoFar'
  <2>1. Importing(r) /\ UNCHANGED <<dir, disturbed>> /\ \A q \in Runs : q # r => pc'[q] = pc[q] /\ ~Importing(q)
    BY <1>21 DEF CopyFile, Goto, NextFile, fileVars
  <2>2. \A q \in Runs : q # r => ~Importing(q)'
    BY <2>1
  <2>3. SUFFICES ASSUME r \notin disturbed PROVE OfOneFeed(r)'
    <3> HIDE DEF OfOneFeed, Importing
    <3> QED BY <2>1, <2>2
  <2>4. \A g \in Files : Source(r, g)' = Source(r, g)
    BY <2>1
  <2>5. /\ \A g, h \in Files : Source(r, g) # 0 /\ Source(r, g) = Source(r, h)
        /\ \A i \in Loaded(r) : table[DatasetOf(r)][FileSeq[i]] = Source(r, FileSeq[i])
    <3>1. OfOneFeed(r)
      BY <2>1, <2>3
    <3> QED BY <3>1
  <2>7. \A i \in Loaded(r)' : i \in FileIndex /\ (i \in Loaded(r) \/ i = at[r])
    <3>1. at' = at /\ pc'[r] = "rebuilding"
      BY <1>21 DEF CopyFile, Goto, runVars
    <3> QED BY <3>1
  <2>8. at[r] \in FileIndex /\ File(r) \in Files /\ DatasetOf(r) \in Datasets
    BY FileIsListed
  <2>9. table' = [table EXCEPT ![DatasetOf(r)][File(r)] = Source(r, File(r))]
    BY <1>21 DEF CopyFile, ReadInto
  <2> HIDE DEF Source, Loaded, DatasetOf, Datasets, File
  <2>10. ASSUME NEW i \in Loaded(r)' PROVE table'[DatasetOf(r)][FileSeq[i]] = Source(r, FileSeq[i])
    <3>1. FileSeq[i] \in Files
      BY <2>7, FileIsListed
    <3>2. CASE FileSeq[i] = File(r)
      BY <2>8, <2>9, <3>2
    <3>3. CASE FileSeq[i] # File(r)
      <4>1. i \in Loaded(r)
        BY <2>7, <3>3 DEF File
      <4> QED BY <2>5, <2>8, <2>9, <3>1, <3>3, <4>1
    <3> QED BY <3>2, <3>3
  <2> QED BY <2>4, <2>5, <2>7, <2>10, FileIsListed
<1>22. ASSUME NEW r \in Runs, Rebuild(r) PROVE LoadedSoFar'
  <2>1. Importing(r) /\ UNCHANGED <<dir, disturbed>> /\ \A q \in Runs : q # r => pc'[q] = pc[q] /\ ~Importing(q)
    BY <1>22 DEF Rebuild, Goto, NextFile, fileVars
  <2>2. \A q \in Runs : q # r => ~Importing(q)'
    BY <2>1
  <2>3. SUFFICES ASSUME r \notin disturbed PROVE OfOneFeed(r)'
    <3> HIDE DEF OfOneFeed, Importing
    <3> QED BY <2>1, <2>2
  <2>4. \A g \in Files : Source(r, g)' = Source(r, g)
    BY <2>1
  <2>5. /\ \A g, h \in Files : Source(r, g) # 0 /\ Source(r, g) = Source(r, h)
        /\ \A i \in Loaded(r) : table[DatasetOf(r)][FileSeq[i]] = Source(r, FileSeq[i])
    <3>1. OfOneFeed(r)
      BY <2>1, <2>3
    <3> QED BY <3>1
  <2>6. at[r] \in FileIndex /\ pc[r] = "rebuilding" /\ Len(FileSeq) \in Nat /\ table' = table
    BY <1>22, FileIsListed DEF Rebuild
  <2>7. Loaded(r)' \subseteq Loaded(r)
    <3>1. CASE at[r] < Len(FileSeq)
      <4>1. at'[r] = at[r] + 1 /\ pc'[r] = "choosing"
        BY <1>22, <3>1 DEF Rebuild, NextFile, Goto
      <4> QED BY <2>6, <4>1, FileIsListed
    <3>2. CASE ~(at[r] < Len(FileSeq))
      <4>1. at[r] = Len(FileSeq)
        BY <2>6, <3>2, FileIsListed
      <4> QED BY <2>6, <4>1, FileIsListed
    <3> QED BY <3>1, <3>2
  <2>8. \A i \in Loaded(r) : FileSeq[i] \in Files
    OBVIOUS
  <2> HIDE DEF Source, Loaded
  <2> QED BY <2>4, <2>5, <2>6, <2>7, <2>8
<1>23. ASSUME NEW r \in Runs, Unwind(r) PROVE LoadedSoFar'
  BY <1>23 DEF Unwind, Rebuilt, Raises, Freed, Ends, Goto, fileVars, tableVars, runVars, counters
<1>24. ASSUME NEW r \in Runs, Announce(r) PROVE LoadedSoFar'
  BY <1>24 DEF Announce, Goto, fileVars, tableVars, runVars, counters
<1>25. ASSUME NEW r \in Runs, Leave(r) PROVE LoadedSoFar'
  BY <1>25 DEF Leave, Freed, Ends, Goto, fileVars, tableVars, runVars, counters
<1>26. ASSUME NEW r \in Runs, Fail(r) PROVE LoadedSoFar'
  BY <1>26 DEF Fail, Fault, Raises, Freed, Ends, Goto, fileVars, tableVars, runVars, counters
<1>27. ASSUME NEW r \in Runs, CopyFails(r) PROVE LoadedSoFar'
  BY <1>27, SMTT(30) DEF CopyFails, Fault, Goto, fileVars, tableVars, runVars, counters
<1>28. ASSUME NEW r \in Runs, RebuildFails(r) PROVE LoadedSoFar'
  BY <1>28 DEF RebuildFails, Fault, Raises, Freed, Ends, Goto, fileVars, tableVars, runVars, counters
<1>29. ASSUME NEW r \in Runs, Kill(r) PROVE LoadedSoFar'
  BY <1>29 DEF Kill, Fault, Ends, Goto, fileVars, tableVars, runVars, counters
<1>30. ASSUME UNCHANGED vars PROVE LoadedSoFar'
  BY <1>30 DEF vars, fileVars, tableVars, runVars, counters
<1> QED BY <1>1, <1>2, <1>3, <1>4, <1>5, <1>6, <1>7, <1>8, <1>9, <1>10, <1>11, <1>12, <1>13, <1>14, <1>15,
           <1>16, <1>17, <1>18, <1>19, <1>20, <1>21, <1>22, <1>23, <1>24, <1>25, <1>26, <1>27, <1>28, <1>29, <1>30
        DEF Next, ScriptStep, ImportStep

\* Between imports of TFI its tables are of one feed, or something was lost.
LEMMA NextOneFeed ==
  TypeTables /\ TypeRuns /\ LockHeld /\ OthersKnown /\ LoadedSoFar /\ OneFeedUnlessImporting /\ [Next]_vars => OneFeedUnlessImporting'
<1> SUFFICES ASSUME TypeTables, TypeRuns, LockHeld, OthersKnown, LoadedSoFar, OneFeedUnlessImporting, [Next]_vars
             PROVE  OneFeedUnlessImporting'
  OBVIOUS
<1> USE SlotAssumption DEF TypeTables, TypeRuns, LockHeld, OneFeedUnlessImporting, Importing, Loading, Runs
<1>1. ASSUME Publish PROVE OneFeedUnlessImporting'
  BY <1>1 DEF Publish, fileVars, tableVars, runVars, counters
<1>2. ASSUME Expire PROVE OneFeedUnlessImporting'
  BY <1>2 DEF Expire, fileVars, tableVars, runVars, counters
<1>3. ASSUME RecreateIndexes PROVE OneFeedUnlessImporting'
  BY <1>3 DEF RecreateIndexes, fileVars, tableVars, runVars, counters
<1>4. ASSUME NEW r \in Scripts, StartNightly(r) PROVE OneFeedUnlessImporting'
  BY <1>4 DEF StartNightly, Goto, fileVars, tableVars, runVars, counters
<1>5. ASSUME NEW r \in Scripts, StartForced(r) PROVE OneFeedUnlessImporting'
  BY <1>5 DEF StartForced, Goto, fileVars, tableVars, runVars, counters
<1>6. ASSUME NEW r \in Scripts, Download(r) PROVE OneFeedUnlessImporting'
  BY <1>6 DEF Download, Goto, fileVars, tableVars, runVars, counters
<1>7. ASSUME NEW r \in Scripts, Extract(r) PROVE OneFeedUnlessImporting'
  BY <1>7 DEF Extract, Goto, fileVars, tableVars, runVars, counters
<1>8. ASSUME NEW r \in Scripts, NothingToDo(r) PROVE OneFeedUnlessImporting'
  BY <1>8 DEF NothingToDo, Ends, Goto, fileVars, tableVars, runVars, counters
<1>9. ASSUME NEW r \in Scripts, Compare(r) PROVE OneFeedUnlessImporting'
  BY <1>9 DEF Compare, Goto, fileVars, tableVars, runVars, counters
<1>10. ASSUME NEW r \in Scripts, NEW f \in Files, UnpackFile(r, f) PROVE OneFeedUnlessImporting'
  BY <1>10 DEF UnpackFile, Goto, fileVars, tableVars, runVars, counters
<1>11. ASSUME NEW r \in Scripts, DownloadFails(r) PROVE OneFeedUnlessImporting'
  BY <1>11 DEF DownloadFails, Fault, Goto, fileVars, tableVars, runVars, counters
<1>12. ASSUME NEW r \in Scripts, UnpackStops(r) PROVE OneFeedUnlessImporting'
  BY <1>12, SMTT(30) DEF UnpackStops, Fault, Goto, fileVars, tableVars, runVars, counters
<1>13. ASSUME NEW r \in Manual, StartOther(r) PROVE OneFeedUnlessImporting'
  BY <1>13 DEF StartOther, Goto, fileVars, tableVars, runVars, counters
<1>14. ASSUME NEW r \in Runs, Acquire(r) PROVE OneFeedUnlessImporting'
  BY <1>14 DEF Acquire, Begins, Goto, fileVars, tableVars, runVars, counters
<1>15. ASSUME NEW r \in Runs, Refused(r) PROVE OneFeedUnlessImporting'
  BY <1>15 DEF Refused, Ends, Goto, fileVars, tableVars, runVars, counters
<1>16. ASSUME NEW r \in Runs, SkipFile(r) PROVE OneFeedUnlessImporting'
  BY <1>16 DEF SkipFile, NextFile, Goto, fileVars, tableVars, runVars, counters
<1>17. ASSUME NEW r \in Runs, ChooseStrategy(r) PROVE OneFeedUnlessImporting'
  BY <1>17 DEF ChooseStrategy, Goto, fileVars, tableVars, runVars, counters
<1>18. ASSUME NEW r \in Runs, ClearTable(r) PROVE OneFeedUnlessImporting'
  <2>1. CASE r \in Scripts
    <3>1. pc'[r] \in Loading \union {"announcing"}
      BY <1>18 DEF ClearTable, Cleared, Goto
    <3> QED BY <2>1, <3>1
  <2>2. CASE r \notin Scripts
    <3>1. "TFI" \in Datasets /\ lock = r
      BY <1>18 DEF ClearTable, Cleared, Datasets
    <3>2. table'["TFI"] = table["TFI"]
      BY ONLY TypeTables, TypeRuns, LockHeld, OthersKnown, [Next]_vars, <2>2, <3>1, OnlyOwnRows, "TFI" # "OTHER"
         DEF DatasetOf
    <3>3. lost' = lost /\ \A q \in Scripts : pc'[q] = pc[q]
      BY <1>18, <2>2 DEF ClearTable, Cleared, Goto
    <3> QED BY <3>2, <3>3
  <2> QED BY <2>1, <2>2
<1>19. ASSUME NEW r \in Runs, Load(r) PROVE OneFeedUnlessImporting'
  <2>1. CASE r \in Scripts
    <3>1. pc'[r] \in Loading \union {"announcing"}
      BY <1>19 DEF Load, NextFile, Goto
    <3> QED BY <2>1, <3>1
  <2>2. CASE r \notin Scripts
    <3>1. "TFI" \in Datasets /\ lock = r
      BY <1>19 DEF Load, NextFile, Datasets
    <3>2. table'["TFI"] = table["TFI"]
      BY ONLY TypeTables, TypeRuns, LockHeld, OthersKnown, [Next]_vars, <2>2, <3>1, OnlyOwnRows, "TFI" # "OTHER"
         DEF DatasetOf
    <3>3. lost' = lost /\ \A q \in Scripts : pc'[q] = pc[q]
      BY <1>19, <2>2 DEF Load, NextFile, Goto
    <3> QED BY <3>2, <3>3
  <2> QED BY <2>1, <2>2
<1>20. ASSUME NEW r \in Runs, DropIndexes(r) PROVE OneFeedUnlessImporting'
  BY <1>20 DEF DropIndexes, Goto, fileVars, tableVars, runVars, counters
<1>21. ASSUME NEW r \in Runs, CopyFile(r) PROVE OneFeedUnlessImporting'
  <2>1. CASE r \in Scripts
    <3>1. pc'[r] \in Loading \union {"announcing"}
      BY <1>21 DEF CopyFile, Goto
    <3> QED BY <2>1, <3>1
  <2>2. CASE r \notin Scripts
    <3>1. "TFI" \in Datasets /\ lock = r
      BY <1>21 DEF CopyFile, Datasets
    <3>2. table'["TFI"] = table["TFI"]
      BY ONLY TypeTables, TypeRuns, LockHeld, OthersKnown, [Next]_vars, <2>2, <3>1, OnlyOwnRows, "TFI" # "OTHER"
         DEF DatasetOf
    <3>3. lost' = lost /\ \A q \in Scripts : pc'[q] = pc[q]
      BY <1>21, <2>2 DEF CopyFile, Goto
    <3> QED BY <3>2, <3>3
  <2> QED BY <2>1, <2>2
<1>22. ASSUME NEW r \in Runs, Rebuild(r) PROVE OneFeedUnlessImporting'
  BY <1>22 DEF Rebuild, Rebuilt, NextFile, Goto, fileVars, tableVars, runVars, counters
<1>23. ASSUME NEW r \in Runs, Unwind(r) PROVE OneFeedUnlessImporting'
  BY <1>23 DEF Unwind, Rebuilt, Raises, Freed, Ends, Goto, fileVars, tableVars, runVars, counters
<1>24. ASSUME NEW r \in Runs, Announce(r) PROVE OneFeedUnlessImporting'
  <2>1. pc[r] = "announcing" /\ table' = table /\ \A q \in Runs : q # r => pc'[q] = pc[q]
    BY <1>24 DEF Announce, Goto, tableVars
  <2>2. CASE r \in Scripts /\ r \notin disturbed
    <3>1. \A f, g \in Files : Source(r, f) = Source(r, g)
      BY <2>1, <2>2 DEF LoadedSoFar, OfOneFeed, Importing
    <3>2. \A i \in FileIndex : table["TFI"][FileSeq[i]] = Source(r, FileSeq[i])
      BY <2>1, <2>2 DEF LoadedSoFar, OfOneFeed, Importing, Loaded, DatasetOf
    <3>3. \A f, g \in Files : table["TFI"][f] = table["TFI"][g]
      BY <3>1, <3>2, FileIsListed
    <3> QED BY <2>1, <3>3
  <2>3. CASE r \in Scripts /\ r \in disturbed
    BY <1>24, <2>3 DEF Announce
  <2>4. CASE r \notin Scripts
    BY <1>24, <2>1, <2>4 DEF Announce
  <2> QED BY <2>2, <2>3, <2>4
<1>25. ASSUME NEW r \in Runs, Leave(r) PROVE OneFeedUnlessImporting'
  BY <1>25 DEF Leave, Freed, Ends, Goto, fileVars, tableVars, runVars, counters
<1>26. ASSUME NEW r \in Runs, Fail(r) PROVE OneFeedUnlessImporting'
  BY <1>26 DEF Fail, Fault, Raises, Freed, Ends, Goto, fileVars, tableVars, runVars, counters
<1>27. ASSUME NEW r \in Runs, CopyFails(r) PROVE OneFeedUnlessImporting'
  BY <1>27 DEF CopyFails, Fault, Goto, fileVars, tableVars, runVars, counters
<1>28. ASSUME NEW r \in Runs, RebuildFails(r) PROVE OneFeedUnlessImporting'
  BY <1>28 DEF RebuildFails, Fault, Raises, Freed, Ends, Goto, fileVars, tableVars, runVars, counters
<1>29. ASSUME NEW r \in Runs, Kill(r) PROVE OneFeedUnlessImporting'
  BY <1>29 DEF Kill, Fault, Ends, Goto, fileVars, tableVars, runVars, counters
<1>30. ASSUME UNCHANGED vars PROVE OneFeedUnlessImporting'
  BY <1>30 DEF vars, fileVars, tableVars, runVars, counters
<1> QED BY <1>1, <1>2, <1>3, <1>4, <1>5, <1>6, <1>7, <1>8, <1>9, <1>10, <1>11, <1>12, <1>13, <1>14, <1>15,
           <1>16, <1>17, <1>18, <1>19, <1>20, <1>21, <1>22, <1>23, <1>24, <1>25, <1>26, <1>27, <1>28, <1>29, <1>30
        DEF Next, ScriptStep, ImportStep

-----------------------------------------------------------------------------
\* The invariant holds of every script and every importgtfs (gtfs_dataset.py).
THEOREM Invariance == Spec => []IInv
<1>1. Init => IInv
  <2> SUFFICES ASSUME Init PROVE IInv
    OBVIOUS
  <2>1. TypeOK
    <3>1. TypeFiles
      BY BoundAssumption DEF Init, TypeFiles
    <3>2. TypeTables
      BY DEF Init, TypeTables
    <3>3. TypeRuns
      BY FileIsListed DEF Init, TypeRuns
    <3>4. todo \in [Runs -> SUBSET Files] /\ others \in [Runs -> BOOLEAN]
      BY DEF Init
    <3>5. TypeLocals
      BY <3>4 DEF Init, TypeLocals
    <3>6. TypeCounts
      <4>1. lost \in BOOLEAN
        BY DEF Init
      <4> QED BY <4>1, BoundAssumption DEF Init, TypeCounts
    <3> QED BY <3>1, <3>2, <3>3, <3>5, <3>6, TypeParts
  <2>2. \A r \in Runs : pc[r] = "idle" /\ ~Importing(r) /\ at[r] = 1
    BY DEF Init, Importing, Loading
  <2>3. LoopPlaces /\ LockHeld /\ OthersKnown /\ LoadedSoFar
    BY <2>2 DEF LoopPlaces, LockHeld, OthersKnown, LoadedSoFar
  <2>4. \A f, g \in Files : table["TFI"][f] = table["TFI"][g]
    BY DEF Init, Datasets
  <2>5. OneFeedUnlessImporting
    BY <2>4 DEF OneFeedUnlessImporting
  <2>6. IndexesComeBack
    BY DEF Init, IndexesComeBack
  <2> QED BY <2>1, <2>3, <2>5, <2>6 DEF IInv
<1>2. IndexesComeBack <=> AllToCome
  BY DEF IndexesComeBack, AllToCome, ToCome
<1>3. (IndexesComeBack <=> AllToCome)'
  BY <1>2, PTL
<1>4. TypeOK' <=> TypeFiles' /\ TypeTables' /\ TypeRuns' /\ TypeLocals' /\ TypeCounts'
  BY TypeParts, PTL
<1>5. ASSUME IInv, [Next]_vars PROVE IInv'
  <2> USE <1>5
  <2>1. TypeFiles /\ TypeTables /\ TypeRuns /\ TypeLocals /\ TypeCounts
    BY TypeParts DEF IInv
  <2>2. TypeOK'
    BY <1>4, <2>1, NextTypeFiles, NextTypeTables, NextTypeRuns, NextTypeLocals, NextTypeCounts DEF IInv
  <2>3. LoopPlaces' /\ LockHeld' /\ OthersKnown'
    BY <2>1, NextLoopPlaces, NextLockHeld, NextOthersKnown DEF IInv
  <2>4. LoadedSoFar' /\ OneFeedUnlessImporting'
    BY <2>1, NextLoadedSoFar, NextOneFeed DEF IInv
  <2>5. IndexesComeBack'
    BY <1>2, <1>3, <2>1, NextAllToCome DEF IInv
  <2> QED BY <2>2, <2>3, <2>4, <2>5 DEF IInv
<1> QED BY <1>1, <1>5, PTL DEF Spec

\* Every variable keeps its type: no table shows a feed that was not unpacked.
THEOREM TypeCorrect == Spec => []TypeOK
<1>1. IInv => TypeOK
  BY DEF IInv
<1> QED BY <1>1, Invariance, PTL

\* An import that gets to its event has replaced every table by its own file, of
\* one feed, unless it was disturbed (gtfs_dataset.py:64-110).
THEOREM Whole == Spec => []CompletedIsWhole
<1>1. ASSUME IInv PROVE CompletedIsWhole
  <2> SUFFICES ASSUME NEW r \in Runs, pc[r] \in {"announcing", "leaving"}, r \notin disturbed, NEW f \in Files
               PROVE  Source(r, f) # 0 /\ table[DatasetOf(r)][f] = Source(r, f)
    BY DEF CompletedIsWhole
  <2>1. Importing(r) /\ Loaded(r) = FileIndex
    BY DEF Importing, Loaded
  <2>2. /\ Source(r, f) # 0
        /\ \A i \in FileIndex : table[DatasetOf(r)][FileSeq[i]] = Source(r, FileSeq[i])
    BY <1>1, <2>1 DEF IInv, LoadedSoFar, OfOneFeed
  <2> QED BY <2>2, FileIsListed
<1> QED BY <1>1, Invariance, PTL

\* Between imports the tables of TFI are of one feed, or something was lost
\* (gtfs_dataset.py:64-110).
THEOREM OneFeed == Spec => []TablesOfOneFeed
<1>1. IInv => TablesOfOneFeed
  BY DEF IInv, OneFeedUnlessImporting, TablesOfOneFeed, Importing
<1> QED BY <1>1, Invariance, PTL

\* Indexes are missing only while they are about to be rebuilt, or after that
\* failed (gtfs_importers.py:377-381).
THEOREM Indexes == Spec => []IndexesComeBack
<1>1. IInv => IndexesComeBack
  BY DEF IInv
<1> QED BY <1>1, Invariance, PTL

\* An import never touches the rows of another dataset: whether it truncates or
\* deletes was decided under the same lock (gtfs_importers.py:218-234).
THEOREM OthersKept == Spec => OtherDatasetKept
<1>1. ASSUME IInv, [Next]_vars
      PROVE  [\A d \in Datasets : table'[d] # table[d] =>
                \E r \in Runs : lock = r /\ DatasetOf(r) = d /\ pc[r] \in Loading]_vars
  BY <1>1, TypeParts, OnlyOwnRows DEF IInv
<1> QED BY <1>1, Invariance, PTL DEF Spec, OtherDatasetKept

-----------------------------------------------------------------------------
(***************************************************************************)
(* BatchQueue: one file of the import, for every number of consumers and    *)
(* batches and every size of the queue.  What is lost is bounded by the     *)
(* tasks that failed, so that a file whose import returns is in the table   *)
(* as a whole.                                                              *)
(***************************************************************************)

\* There is a positive, finite number of consumers.
LEMMA ItemsExceedBatches == Items \in Nat /\ Items > Batches
<1>1. Cardinality(Consumer) \in Nat /\ Cardinality(Consumer) # 0
  BY ConsumerAssumption, FS_CardinalityType, FS_EmptySet
<1> QED BY <1>1, SizeAssumption DEF Items

\* The sets that LossIsBounded compares are finite.
LEMMA LossFinite ==
  /\ IsFiniteSet(Missing) /\ Cardinality(Missing) \in Nat
  /\ IsFiniteSet(Ended) /\ Cardinality(Ended) \in Nat
<1>1. IsFiniteSet(Batch) /\ Missing \in SUBSET Batch
  BY SizeAssumption, FS_Interval DEF Batch, Missing
<1>2. Ended \in SUBSET Consumer
  BY DEF Ended
<1> QED BY <1>1, <1>2, ConsumerAssumption, FS_Subset, FS_CardinalityType

\* When the tasks D end and lose at most what they hold, the bound still holds.
LEMMA EndingKeepsBound ==
  ASSUME HeldWhileCommitting, LossIsBounded,
         NEW D \in SUBSET Consumer, \A c \in D : task[c] = "committing",
         Missing' \subseteq Missing \union {held[c] : c \in D},
         Ended \union D \subseteq Ended'
  PROVE  LossIsBounded'
<1> DEFINE Lost == {held[c] : c \in D}
           f == [c \in D |-> held[c]]
<1>1. IsFiniteSet(D) /\ Cardinality(D) \in Nat
  BY ConsumerAssumption, FS_Subset, FS_CardinalityType
<1>2. IsFiniteSet(Lost) /\ Cardinality(Lost) <= Cardinality(D)
  <2>1. f \in Surjection(D, Lost)
    BY DEF Surjection
  <2> HIDE DEF f, Lost
  <2> QED BY <1>1, <2>1, FS_Surjection
<1>3. D \intersect Ended = {}
  BY DEF Ended
<1>4. IsFiniteSet(Ended) /\ Cardinality(Ended) \in Nat /\ IsFiniteSet(Missing) /\ Cardinality(Missing) \in Nat
  BY LossFinite
<1>5. IsFiniteSet(Ended') /\ Cardinality(Ended') \in Nat /\ Cardinality(Missing') \in Nat
  <2>1. (/\ IsFiniteSet(Missing) /\ Cardinality(Missing) \in Nat
         /\ IsFiniteSet(Ended) /\ Cardinality(Ended) \in Nat)'
    BY LossFinite, PTL
  <2> QED BY <2>1
<1> HIDE DEF Lost
<1>6. Cardinality(Ended') >= Cardinality(Ended) + Cardinality(D)
  <2>1. Cardinality(Ended \union D) = Cardinality(Ended) + Cardinality(D) - Cardinality(Ended \intersect D)
    BY <1>1, <1>4, FS_Union
  <2>2. Cardinality(Ended \intersect D) = 0
    <3>1. Ended \intersect D = {}
      BY <1>3
    <3> QED BY <3>1, FS_EmptySet, Zenon
  <2>3. Cardinality(Ended \union D) <= Cardinality(Ended')
    BY <1>5, FS_Subset
  <2> QED BY <1>1, <1>4, <1>5, <2>1, <2>2, <2>3
<1>7. Cardinality(Missing') <= Cardinality(Missing) + Cardinality(Lost)
  <2>1. IsFiniteSet(Missing \union Lost)
        /\ Cardinality(Missing \union Lost) =
             Cardinality(Missing) + Cardinality(Lost) - Cardinality(Missing \intersect Lost)
    BY <1>2, <1>4, FS_Union
  <2>2. Cardinality(Missing \intersect Lost) \in Nat
    BY <1>4, FS_Intersection, FS_CardinalityType
  <2>3. Cardinality(Lost) \in Nat
    BY <1>2, FS_CardinalityType
  <2>4. Missing' \in SUBSET (Missing \union Lost)
    BY DEF Lost
  <2>5. Cardinality(Missing') <= Cardinality(Missing \union Lost)
    BY <2>1, <2>4, FS_Subset
  <2> QED BY <1>4, <1>5, <2>1, <2>2, <2>3, <2>5
<1>8. Cardinality(Lost) \in Nat
  BY <1>2, FS_CardinalityType
<1> QED BY <1>1, <1>2, <1>4, <1>5, <1>6, <1>7, <1>8 DEF LossIsBounded

\* In particular when no batch gets lost.
LEMMA NoLossKeepsBound ==
  ASSUME HeldWhileCommitting, LossIsBounded, Missing' \subseteq Missing, Ended \subseteq Ended'
  PROVE  LossIsBounded'
<1>1. {} \in SUBSET Consumer /\ \A c \in {} : task[c] = "committing"
  OBVIOUS
<1>2. Missing' \subseteq Missing \union {held[c] : c \in {}} /\ Ended \union {} \subseteq Ended'
  OBVIOUS
<1> QED BY <1>1, <1>2, EndingKeepsBound

\* Before a file is read nothing is put, taken or lost.
LEMMA QueueInitInv == QueueInit => QueueInv
<1> SUFFICES ASSUME QueueInit PROVE QueueInv
  OBVIOUS
<1>1. Missing = {}
  BY SizeAssumption DEF QueueInit, Missing, Batch
<1>2. Cardinality(Missing) = 0
  BY <1>1, FS_EmptySet
<1>3. LossIsBounded
  BY <1>2, LossFinite DEF LossIsBounded
<1>4. QueueTypeOK
  BY SizeAssumption, ItemsExceedBatches DEF QueueInit, QueueTypeOK
<1> QED BY <1>3, <1>4, ItemsExceedBatches, SizeAssumption
        DEF QueueInit, QueueInv, HeldWhileCommitting, PuttingHasMore, DoneIsPast, ReturnedIsDone

\* Every step of the producer, a consumer or the command keeps the invariant.
LEMMA QueueNextInv == QueueInv /\ [QueueNext]_queueVars => QueueInv'
<1> SUFFICES ASSUME QueueInv, [QueueNext]_queueVars PROVE QueueInv'
  OBVIOUS
<1> DEFINE Rest == QueueTypeOK /\ HeldWhileCommitting /\ PuttingHasMore /\ DoneIsPast /\ ReturnedIsDone
<1> USE SizeAssumption, ItemsExceedBatches
<1>1. ASSUME Put PROVE QueueInv'
  <2>1. Rest'
    BY <1>1 DEF Put, QueueInv, QueueTypeOK, HeldWhileCommitting, PuttingHasMore, DoneIsPast, ReturnedIsDone, AllDone
  <2>2. Missing' = Missing /\ Ended' = Ended
    BY <1>1 DEF Put, Missing, Ended
  <2> QED BY <2>1, <2>2, NoLossKeepsBound DEF QueueInv
<1>2. ASSUME ProducerFails PROVE QueueInv'
  <2>1. Rest'
    BY <1>2 DEF ProducerFails, QueueInv, QueueTypeOK, HeldWhileCommitting, PuttingHasMore, DoneIsPast, ReturnedIsDone, AllDone
  <2>2. Missing' = Missing /\ Ended' = Ended
    BY <1>2 DEF ProducerFails, Missing, Ended
  <2> QED BY <2>1, <2>2, NoLossKeepsBound DEF QueueInv
<1>3. ASSUME NEW c \in Consumer, Get(c) PROVE QueueInv'
  <2>1. Rest'
    BY <1>3 DEF Get, QueueInv, QueueTypeOK, HeldWhileCommitting, PuttingHasMore, DoneIsPast, ReturnedIsDone, AllDone, Batch
  <2>2. Ended \subseteq Ended'
    BY <1>3 DEF Get, QueueInv, QueueTypeOK, Ended
  <2>3. Missing' \subseteq Missing
    <3> SUFFICES ASSUME NEW b \in Batch, b <= taken', b \notin committed', \A d \in Consumer : held'[d] # b
                 PROVE  b \in Missing
      BY DEF Missing
    <3>1. taken' = taken + 1 /\ committed' = committed /\ taken \in Nat /\ b \in Nat /\ b # 0
      BY <1>3 DEF Get, QueueInv, QueueTypeOK, Batch
    <3>2. held[c] = 0
      BY <1>3 DEF Get, QueueInv, HeldWhileCommitting
    <3>3. b # taken'
      BY <1>3 DEF Get, QueueInv, QueueTypeOK
    <3>4. \A d \in Consumer : held[d] # b
      BY <1>3, <3>1, <3>2 DEF Get, QueueInv, QueueTypeOK
    <3> QED BY <3>1, <3>3, <3>4 DEF Missing
  <2> QED BY <2>1, <2>2, <2>3, NoLossKeepsBound DEF QueueInv
<1>4. ASSUME NEW c \in Consumer, Commit(c) PROVE QueueInv'
  <2>0. held[c] \in Batch
    BY <1>4 DEF Commit, QueueInv, QueueTypeOK, HeldWhileCommitting, Batch
  <2>1. Rest'
    BY <1>4, <2>0 DEF Commit, QueueInv, QueueTypeOK, HeldWhileCommitting, PuttingHasMore, DoneIsPast, ReturnedIsDone, AllDone
  <2>2. Ended \subseteq Ended'
    BY <1>4 DEF Commit, QueueInv, QueueTypeOK, Ended
  <2>3. Missing' \subseteq Missing
    BY <1>4 DEF Commit, QueueInv, QueueTypeOK, Missing
  <2> QED BY <2>1, <2>2, <2>3, NoLossKeepsBound DEF QueueInv
<1>5. ASSUME NEW c \in Consumer, CommitFails(c) PROVE QueueInv'
  <2>0. held[c] \in Batch
    BY <1>5 DEF CommitFails, QueueInv, QueueTypeOK, HeldWhileCommitting, Batch
  <2>1. Rest'
    BY <1>5, <2>0
       DEF CommitFails, QueueInv, QueueTypeOK, HeldWhileCommitting, PuttingHasMore, DoneIsPast, ReturnedIsDone, AllDone
  <2>2. Ended \union {c} \subseteq Ended'
    BY <1>5 DEF CommitFails, QueueInv, QueueTypeOK, Ended
  <2>3. Missing' \subseteq Missing \union {held[d] : d \in {c}}
    BY <1>5 DEF CommitFails, QueueInv, QueueTypeOK, Missing
  <2>4. {c} \in SUBSET Consumer /\ \A d \in {c} : task[d] = "committing"
    BY <1>5 DEF CommitFails
  <2> QED BY <2>1, <2>2, <2>3, <2>4, EndingKeepsBound DEF QueueInv
<1>6. ASSUME NEW label \in {"returned", "raised"}, label = "returned" => AllDone, main = "gathering", Continue(label)
      PROVE  QueueInv'
  <2>1. Rest'
    BY <1>6 DEF Continue, QueueInv, QueueTypeOK, HeldWhileCommitting, PuttingHasMore, DoneIsPast, ReturnedIsDone, AllDone
  <2>2. Missing' = Missing /\ Ended' = Ended
    BY <1>6 DEF Continue, Missing, Ended
  <2> QED BY <2>1, <2>2, NoLossKeepsBound DEF QueueInv
<1>7. ASSUME Release PROVE QueueInv'
  <2>1. Rest'
    BY <1>7 DEF Release, QueueInv, QueueTypeOK, HeldWhileCommitting, PuttingHasMore, DoneIsPast, ReturnedIsDone, AllDone
  <2>2. Missing' = Missing /\ Ended' = Ended
    BY <1>7 DEF Release, Missing, Ended
  <2> QED BY <2>1, <2>2, NoLossKeepsBound DEF QueueInv
<1>8. ASSUME Close PROVE QueueInv'
  <2> DEFINE D == {c \in Consumer : task[c] = "committing"}
  <2>1. PICK late \in SUBSET {held[c] : c \in D} : committed' = committed \union late
    BY <1>8 DEF Close
  <2>2. late \subseteq Batch
    BY <2>1 DEF QueueInv, QueueTypeOK, HeldWhileCommitting, Batch
  <2>3. Rest'
    BY <1>8, <2>1, <2>2
       DEF Close, QueueInv, QueueTypeOK, HeldWhileCommitting, PuttingHasMore, DoneIsPast, ReturnedIsDone, AllDone
  <2>4. Ended \union D \subseteq Ended'
    BY <1>8 DEF Close, QueueInv, QueueTypeOK, Ended
  <2>5. Missing' \subseteq Missing \union {held[c] : c \in D}
    <3> SUFFICES ASSUME NEW b \in Missing', \A c \in D : held[c] # b PROVE b \in Missing
      OBVIOUS
    <3>1. b \in Batch /\ b <= taken /\ b \notin committed /\ b # 0
      BY <1>8, <2>1 DEF Close, Missing, Batch
    <3>2. \A c \in Consumer : held[c] # b
      BY <3>1 DEF QueueInv, HeldWhileCommitting
    <3> QED BY <3>1, <3>2 DEF Missing
  <2> HIDE DEF D
  <2>6. D \in SUBSET Consumer /\ \A c \in D : task[c] = "committing"
    BY DEF D
  <2> QED BY <2>3, <2>4, <2>5, <2>6, EndingKeepsBound DEF QueueInv
<1>9. ASSUME UNCHANGED queueVars PROVE QueueInv'
  <2>1. Missing' = Missing /\ Ended' = Ended
    BY <1>9 DEF queueVars, Missing, Ended
  <2> QED BY <1>9, <2>1
          DEF queueVars, QueueInv, QueueTypeOK, HeldWhileCommitting, PuttingHasMore, DoneIsPast, ReturnedIsDone, AllDone, LossIsBounded
<1> QED BY <1>1, <1>2, <1>3, <1>4, <1>5, <1>6, <1>7, <1>8, <1>9 DEF QueueNext, GatherReturns, GatherRaises

\* A file's import, with any number of consumers and any queue, keeps its
\* counters and tasks in the order the code relies on (gtfs_importers.py).
THEOREM QueueInvariance == QueueSpec => []QueueInv
<1> QED BY QueueInitInv, QueueNextInv, PTL DEF QueueSpec

\* Every variable of the importer keeps its type: the queue never holds more than
\* QUEUE_MAXSIZE items (gtfs_importers.py, asyncio.Queue).
THEOREM QueueTypeCorrect == QueueSpec => []QueueTypeOK
<1>1. QueueInv => QueueTypeOK
  BY DEF QueueInv
<1> QED BY <1>1, QueueInvariance, PTL

\* At most one batch is lost per consumer that failed or was cancelled.
THEOREM Loss == QueueSpec => []LossIsBounded
<1>1. QueueInv => LossIsBounded
  BY DEF QueueInv
<1> QED BY <1>1, QueueInvariance, PTL

\* A file that counts as imported is in the table as a whole: no consumer has
\* failed, so nothing is lost, and what one of them left on is past the batches.
THEOREM Complete == QueueSpec => []ImportedIsComplete
<1>1. ASSUME QueueInv PROVE ImportedIsComplete
  <2> SUFFICES ASSUME main = "returned" PROVE committed = Batch
    BY DEF ImportedIsComplete
  <2>1. \A c \in Consumer : task[c] = "done"
    BY <1>1 DEF QueueInv, ReturnedIsDone, AllDone
  <2>2. Ended = {}
    BY <2>1 DEF Ended
  <2>3. Cardinality(Ended) = 0
    BY <2>2, FS_EmptySet
  <2>4. Cardinality(Missing) = 0
    BY <1>1, <2>3, LossFinite DEF QueueInv, LossIsBounded
  <2>5. Missing = {}
    BY <2>4, LossFinite, FS_EmptySet
  <2>6. PICK c \in Consumer : TRUE
    BY ConsumerAssumption
  <2>7. taken > Batches /\ taken \in Nat
    BY <1>1, <2>1, <2>6, ItemsExceedBatches DEF QueueInv, QueueTypeOK, DoneIsPast
  <2>8. ASSUME NEW b \in Batch PROVE b \in committed
    <3>1. b <= taken /\ b # 0
      BY <2>7, SizeAssumption DEF Batch
    <3>2. \A d \in Consumer : held[d] # b
      BY <1>1, <2>1, <3>1 DEF QueueInv, HeldWhileCommitting
    <3> QED BY <2>5, <3>1, <3>2 DEF Missing
  <2> QED BY <1>1, <2>8 DEF QueueInv, QueueTypeOK
<1> QED BY <1>1, QueueInvariance, PTL
=============================================================================
