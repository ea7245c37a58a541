------------------------- MODULE StopFeaturesProofs -------------------------
(***************************************************************************)
(* Proofs about StopFeatures for every number of runs of the script, of     *)
(* archives, imports and faults: what the foreign key and the order of      *)
(* deleting and inserting keep true of the table, without any lock.         *)
(***************************************************************************)
EXTENDS StopFeatures, FiniteSetTheorems, TLAPS

\* No archive is unpacked, read or inserted before it is there.
LEMMA NextTypeOK == TypeOK /\ [Next]_vars => TypeOK'
<1> SUFFICES ASSUME TypeOK, [Next]_vars PROVE TypeOK'
  OBVIOUS
<1> USE BoundAssumption DEF TypeOK, Places
<1>1. ASSUME Publish PROVE TypeOK'
  BY <1>1 DEF Publish, fileVars, tableVars, runVars
<1>2. ASSUME NEW r \in Scripts, StartNightly(r) PROVE TypeOK'
  BY <1>2 DEF StartNightly, Goto, fileVars, tableVars, runVars
<1>3. ASSUME NEW r \in Scripts, StartForced(r) PROVE TypeOK'
  BY <1>3 DEF StartForced, Goto, fileVars, tableVars
<1>4. ASSUME NEW r \in Scripts, Download(r) PROVE TypeOK'
  BY <1>4 DEF Download, Goto, tableVars, runVars
<1>5. ASSUME NEW r \in Scripts, DownloadFails(r) PROVE TypeOK'
  BY <1>5 DEF DownloadFails, Fault, Goto, fileVars, tableVars, runVars
<1>6. ASSUME NEW r \in Scripts, Extract(r) PROVE TypeOK'
  BY <1>6 DEF Extract, Goto, tableVars, runVars
<1>7. ASSUME NEW r \in Scripts, NothingToDo(r) PROVE TypeOK'
  BY <1>7 DEF NothingToDo, Ends, Goto, fileVars, tableVars
<1>8. ASSUME NEW r \in Scripts, Unpack(r) PROVE TypeOK'
  BY <1>8 DEF Unpack, Goto, tableVars, runVars
<1>9. ASSUME NEW r \in Scripts, ReadFiles(r) PROVE TypeOK'
  BY <1>9 DEF ReadFiles, Goto, fileVars, tableVars
<1>10. ASSUME NEW r \in Scripts, FilesMissing(r) PROVE TypeOK'
  BY <1>10 DEF FilesMissing, Ends, Goto, fileVars, tableVars
<1>11. ASSUME NEW r \in Scripts, ClearDatabase(r) PROVE TypeOK'
  BY <1>11 DEF ClearDatabase, Clears, NoCopies, Goto, fileVars, runVars
<1>12. ASSUME NEW r \in Scripts, ReadStops(r) PROVE TypeOK'
  BY <1>12 DEF ReadStops, Goto, fileVars, tableVars
<1>13. ASSUME NEW r \in Scripts, Insert(r) PROVE TypeOK'
  BY <1>13 DEF Insert, Inserts, Goto, fileVars
<1>14. ASSUME NEW r \in Scripts, ForeignKeyFails(r) PROVE TypeOK'
  BY <1>14 DEF ForeignKeyFails, Ends, Goto, fileVars, tableVars
<1>15. ASSUME NEW r \in Scripts, Announce(r) PROVE TypeOK'
  BY <1>15 DEF Announce, Ends, Goto, fileVars, tableVars
<1>16. ASSUME NEW r \in Scripts, Fail(r) PROVE TypeOK'
  BY <1>16 DEF Fail, Fault, Ends, Goto, fileVars, tableVars
<1>17. ASSUME ClearStops PROVE TypeOK'
  <2>1. copies' \in [Scripts -> 0..dir']
    BY <1>17 DEF ClearStops, StopsCleared, NoCopies, fileVars
  <2>2. imports' \in 0..MaxImports
    BY <1>17 DEF ClearStops, StopsCleared
  <2>3. replaced' \subseteq {r \in Scripts : pc'[r] = "inserting"}
    BY <1>17 DEF ClearStops, StopsCleared
  <2> QED BY <1>17, <2>1, <2>2, <2>3 DEF ClearStops, StopsCleared, fileVars
<1>18. ASSUME LoadStops PROVE TypeOK'
  BY <1>18 DEF LoadStops, fileVars, runVars
<1>19. ASSUME LoadFails PROVE TypeOK'
  <2>1. faults' \in 0..MaxFaults
    BY <1>19 DEF LoadFails, Fault
  <2>2. {shared, stops, static, lost, met}' \subseteq BOOLEAN
    BY <1>19 DEF LoadFails
  <2> QED BY <1>19, <2>1, <2>2 DEF LoadFails, fileVars, runVars
<1>20. ASSUME UNCHANGED vars PROVE TypeOK'
  BY <1>20 DEF vars, fileVars, tableVars, runVars
<1> QED BY <1>1, <1>2, <1>3, <1>4, <1>5, <1>6, <1>7, <1>8, <1>9, <1>10, <1>11, <1>12, <1>13, <1>14, <1>15, <1>16, <1>17, <1>18, <1>19, <1>20 DEF Next, Step

\* A run inserts into the table it has cleared, and runs that come between them
\* are noticed.
LEMMA NextAlone == TypeOK /\ AloneInBetween /\ [Next]_vars => AloneInBetween'
<1> SUFFICES ASSUME TypeOK, AloneInBetween, [Next]_vars PROVE AloneInBetween'
  OBVIOUS
<1> USE DEF TypeOK, AloneInBetween, Between, InTable
<1>1. ASSUME Publish PROVE AloneInBetween'
  BY <1>1 DEF Publish, fileVars, tableVars, runVars
<1>2. ASSUME NEW r \in Scripts, StartNightly(r) PROVE AloneInBetween'
  BY <1>2 DEF StartNightly, Goto, fileVars, tableVars, runVars
<1>3. ASSUME NEW r \in Scripts, StartForced(r) PROVE AloneInBetween'
  BY <1>3 DEF StartForced, Goto, fileVars, tableVars
<1>4. ASSUME NEW r \in Scripts, Download(r) PROVE AloneInBetween'
  BY <1>4 DEF Download, Goto, tableVars, runVars
<1>5. ASSUME NEW r \in Scripts, DownloadFails(r) PROVE AloneInBetween'
  BY <1>5 DEF DownloadFails, Fault, Goto, fileVars, tableVars, runVars
<1>6. ASSUME NEW r \in Scripts, Extract(r) PROVE AloneInBetween'
  BY <1>6 DEF Extract, Goto, tableVars, runVars
<1>7. ASSUME NEW r \in Scripts, NothingToDo(r) PROVE AloneInBetween'
  BY <1>7 DEF NothingToDo, Ends, Goto, fileVars, tableVars
<1>8. ASSUME NEW r \in Scripts, Unpack(r) PROVE AloneInBetween'
  BY <1>8 DEF Unpack, Goto, tableVars, runVars
<1>9. ASSUME NEW r \in Scripts, ReadFiles(r) PROVE AloneInBetween'
  BY <1>9 DEF ReadFiles, Goto, fileVars, tableVars
<1>10. ASSUME NEW r \in Scripts, FilesMissing(r) PROVE AloneInBetween'
  BY <1>10 DEF FilesMissing, Ends, Goto, fileVars, tableVars
<1>11. ASSUME NEW r \in Scripts, ClearDatabase(r) PROVE AloneInBetween'
  BY <1>11 DEF ClearDatabase, Clears, NoCopies, Goto, fileVars, runVars
<1>12. ASSUME NEW r \in Scripts, ReadStops(r) PROVE AloneInBetween'
  BY <1>12 DEF ReadStops, Goto, fileVars, tableVars
<1>13. ASSUME NEW r \in Scripts, Insert(r) PROVE AloneInBetween'
  BY <1>13 DEF Insert, Inserts, Goto, fileVars
<1>14. ASSUME NEW r \in Scripts, ForeignKeyFails(r) PROVE AloneInBetween'
  BY <1>14 DEF ForeignKeyFails, Ends, Goto, fileVars, tableVars
<1>15. ASSUME NEW r \in Scripts, Announce(r) PROVE AloneInBetween'
  BY <1>15 DEF Announce, Ends, Goto, fileVars, tableVars
<1>16. ASSUME NEW r \in Scripts, Fail(r) PROVE AloneInBetween'
  BY <1>16 DEF Fail, Fault, Ends, Goto, fileVars, tableVars
<1>17. ASSUME ClearStops PROVE AloneInBetween'
  BY <1>17 DEF ClearStops, StopsCleared, NoCopies, fileVars
<1>18. ASSUME LoadStops PROVE AloneInBetween'
  BY <1>18 DEF LoadStops, fileVars, runVars
<1>19. ASSUME LoadFails PROVE AloneInBetween'
  BY <1>19 DEF LoadFails, Fault, fileVars, runVars
<1>20. ASSUME UNCHANGED vars PROVE AloneInBetween'
  BY <1>20 DEF vars, fileVars, tableVars, runVars
<1> QED BY <1>1, <1>2, <1>3, <1>4, <1>5, <1>6, <1>7, <1>8, <1>9, <1>10, <1>11, <1>12, <1>13, <1>14, <1>15, <1>16, <1>17, <1>18, <1>19, <1>20 DEF Next, Step

\* Features go with their stops, and come only where the stops are.
LEMMA NextHaveStops == TypeOK /\ FeaturesHaveStops /\ [Next]_vars => FeaturesHaveStops'
<1> SUFFICES ASSUME TypeOK, FeaturesHaveStops, [Next]_vars PROVE FeaturesHaveStops'
  OBVIOUS
<1> USE DEF TypeOK, FeaturesHaveStops, InTable
<1>1. ASSUME Publish PROVE FeaturesHaveStops'
  BY <1>1 DEF Publish, fileVars, tableVars, runVars
<1>2. ASSUME NEW r \in Scripts, StartNightly(r) PROVE FeaturesHaveStops'
  BY <1>2 DEF StartNightly, Goto, fileVars, tableVars, runVars
<1>3. ASSUME NEW r \in Scripts, StartForced(r) PROVE FeaturesHaveStops'
  BY <1>3 DEF StartForced, Goto, fileVars, tableVars
<1>4. ASSUME NEW r \in Scripts, Download(r) PROVE FeaturesHaveStops'
  BY <1>4 DEF Download, Goto, tableVars, runVars
<1>5. ASSUME NEW r \in Scripts, DownloadFails(r) PROVE FeaturesHaveStops'
  BY <1>5 DEF DownloadFails, Fault, Goto, fileVars, tableVars, runVars
<1>6. ASSUME NEW r \in Scripts, Extract(r) PROVE FeaturesHaveStops'
  BY <1>6 DEF Extract, Goto, tableVars, runVars
<1>7. ASSUME NEW r \in Scripts, NothingToDo(r) PROVE FeaturesHaveStops'
  BY <1>7 DEF NothingToDo, Ends, Goto, fileVars, tableVars
<1>8. ASSUME NEW r \in Scripts, Unpack(r) PROVE FeaturesHaveStops'
  BY <1>8 DEF Unpack, Goto, tableVars, runVars
<1>9. ASSUME NEW r \in Scripts, ReadFiles(r) PROVE FeaturesHaveStops'
  BY <1>9 DEF ReadFiles, Goto, fileVars, tableVars
<1>10. ASSUME NEW r \in Scripts, FilesMissing(r) PROVE FeaturesHaveStops'
  BY <1>10 DEF FilesMissing, Ends, Goto, fileVars, tableVars
<1>11. ASSUME NEW r \in Scripts, ClearDatabase(r) PROVE FeaturesHaveStops'
  BY <1>11 DEF ClearDatabase, Clears, NoCopies, Goto, fileVars, runVars
<1>12. ASSUME NEW r \in Scripts, ReadStops(r) PROVE FeaturesHaveStops'
  BY <1>12 DEF ReadStops, Goto, fileVars, tableVars
<1>13. ASSUME NEW r \in Scripts, Insert(r) PROVE FeaturesHaveStops'
  BY <1>13 DEF Insert, Inserts, Goto, fileVars
<1>14. ASSUME NEW r \in Scripts, ForeignKeyFails(r) PROVE FeaturesHaveStops'
  BY <1>14 DEF ForeignKeyFails, Ends, Goto, fileVars, tableVars
<1>15. ASSUME NEW r \in Scripts, Announce(r) PROVE FeaturesHaveStops'
  BY <1>15 DEF Announce, Ends, Goto, fileVars, tableVars
<1>16. ASSUME NEW r \in Scripts, Fail(r) PROVE FeaturesHaveStops'
  BY <1>16 DEF Fail, Fault, Ends, Goto, fileVars, tableVars
<1>17. ASSUME ClearStops PROVE FeaturesHaveStops'
  BY <1>17 DEF ClearStops, StopsCleared, NoCopies, fileVars
<1>18. ASSUME LoadStops PROVE FeaturesHaveStops'
  BY <1>18 DEF LoadStops, fileVars, runVars
<1>19. ASSUME LoadFails PROVE FeaturesHaveStops'
  BY <1>19 DEF LoadFails, Fault, fileVars, runVars
<1>20. ASSUME UNCHANGED vars PROVE FeaturesHaveStops'
  BY <1>20 DEF vars, fileVars, tableVars, runVars
<1> QED BY <1>1, <1>2, <1>3, <1>4, <1>5, <1>6, <1>7, <1>8, <1>9, <1>10, <1>11, <1>12, <1>13, <1>14, <1>15, <1>16, <1>17, <1>18, <1>19, <1>20 DEF Next, Step

\* Together they are kept by the script, by importstopfeatures and by the static
\* import.
THEOREM Invariance == Spec => []IInv
<1>1. Init => IInv
  <2> SUFFICES ASSUME Init PROVE IInv
    OBVIOUS
  <2>1. TypeOK
    <3>1. {shared, stops, static, lost, met} \subseteq BOOLEAN
      BY DEF Init
    <3>2. copies \in [Scripts -> 0..dir] /\ content \in [Scripts -> 0..dir] /\ pc \in [Scripts -> Places]
          /\ known \in [Scripts -> BOOLEAN]
      BY DEF Init, Places, NoCopies
    <3>3. archive \in 1..MaxArchives /\ zip \in 0..archive /\ date \in 0..zip /\ dir \in 0..zip
      BY BoundAssumption DEF Init
    <3>4. imports \in 0..MaxImports /\ forces \in 0..MaxForced /\ faults \in 0..MaxFaults
      BY BoundAssumption DEF Init
    <3> QED BY <3>1, <3>2, <3>3, <3>4 DEF Init, TypeOK
  <2>2. InTable = {} /\ Between = {}
    BY DEF Init, NoCopies, InTable, Between
  <2> QED BY <2>1, <2>2 DEF IInv, AloneInBetween, FeaturesHaveStops
<1>2. IInv /\ [Next]_vars => IInv'
  BY NextTypeOK, NextAlone, NextHaveStops DEF IInv
<1> QED BY <1>1, <1>2, PTL DEF Spec

\* Every variable keeps its type: dates and directories never run ahead of what
\* was downloaded (tfi_stop_features_checker.sh).
THEOREM TypeCorrect == Spec => []TypeOK
<1>1. IInv => TypeOK
  BY DEF IInv
<1> QED BY <1>1, Invariance, PTL

\* Unless two runs met, the table holds the features of one
\* (stop_features_importer.py:42-52).
THEOREM OneCopyOnly == Spec => []OneCopy
<1>1. ASSUME IInv PROVE OneCopy
  <2> SUFFICES ASSUME ~met PROVE Cardinality(InTable) <= 1
    BY DEF OneCopy
  <2>1. \A q, r \in InTable : q = r
    BY <1>1 DEF IInv, AloneInBetween
  <2>2. CASE InTable = {}
    BY <2>2, FS_EmptySet
  <2>3. CASE InTable # {}
    <3>1. PICK r : InTable = {r}
      BY <2>1, <2>3
    <3>2. Cardinality(InTable) = 1
      BY <3>1, FS_Singleton
    <3> QED BY <3>2
  <2> QED BY <2>2, <2>3
<1> QED BY <1>1, Invariance, PTL

\* No features without their stops, whichever way a static import clears them
\* (stop_feature_model.py:26-28, gtfs_importers.py:218-234).
THEOREM HaveStops == Spec => []FeaturesHaveStops
<1>1. IInv => FeaturesHaveStops
  BY DEF IInv
<1> QED BY <1>1, Invariance, PTL

=============================================================================
