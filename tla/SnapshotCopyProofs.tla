------------------------- MODULE SnapshotCopyProofs -------------------------
(***************************************************************************)
(* Proofs about SnapshotCopy for any commands, keys and number of runs: what *)
(* the transactions show, and that ids are reserved, as long as runs do not *)
(* meet.                                                                    *)
(***************************************************************************)
EXTENDS SnapshotCopy, FiniteSetTheorems, TLAPS

\* Records have a count.
LEMMA RecordsCounted ==
  ASSUME TypeOK, NEW w \in Writer
  PROVE  Count(w) \in Nat /\ (records[w] # {} => Count(w) >= 1)
<1>1. records[w] \in SUBSET (1..Keys) /\ IsFiniteSet(1..Keys)
  <2>1. records[w] \in SUBSET (1..Keys)
    BY DEF TypeOK, Key
  <2>2. 1 \in Int /\ Keys \in Int
    BY KeysAssumption
  <2> QED BY <2>1, <2>2, FS_Interval
<1>2. IsFiniteSet(records[w])
  BY <1>1, FS_Subset
<1>3. Count(w) \in Nat
  BY <1>2, FS_CardinalityType DEF Count
<1>4. records[w] # {} => Count(w) # 0
  BY <1>2, FS_EmptySet DEF Count
<1> QED BY <1>3, <1>4

\* records_with_ids stays within the range that was reserved.
LEMMA NewRowsInRange ==
  ASSUME TypeOK, NEW w \in Writer
  PROVE  NewRows(w) \subseteq Row /\ \A x \in NewRows(w) : x.id <= id[w] + Count(w) - 1
<1> DEFINE Before(k) == {j \in records[w] : j < k}
<1>1. IsFiniteSet(records[w]) /\ records[w] \subseteq Key /\ Cardinality(records[w]) \in Nat
  <2>1. records[w] \in SUBSET (1..Keys)
    BY DEF TypeOK, Key
  <2>2. 1 \in Int /\ Keys \in Int
    BY KeysAssumption
  <2>3. IsFiniteSet(1..Keys)
    BY <2>2, FS_Interval
  <2>4. IsFiniteSet(records[w])
    BY <2>1, <2>3, FS_Subset
  <2> QED BY <2>1, <2>4, FS_CardinalityType DEF Key
<1>2. ASSUME NEW k \in records[w]
      PROVE  Cardinality(Before(k)) \in Nat /\ Cardinality(Before(k)) <= Count(w) - 1
  <2>1. k \in Nat /\ k \notin Before(k)
    BY <1>1 DEF Key
  <2>2. Before(k) \in SUBSET (records[w] \ {k})
    BY <2>1
  <2> HIDE DEF Before
  <2>3. IsFiniteSet(records[w] \ {k}) /\ Cardinality(records[w] \ {k}) = Cardinality(records[w]) - 1
    BY <1>1, FS_RemoveElement
  <2>4. IsFiniteSet(Before(k)) /\ Cardinality(Before(k)) <= Cardinality(records[w] \ {k})
    BY <2>2, <2>3, FS_Subset
  <2>5. Cardinality(Before(k)) \in Nat
    BY <2>4, FS_CardinalityType
  <2> QED BY <1>1, <2>3, <2>4, <2>5 DEF Count
<1>3. NewRows(w) = {[key |-> k, id |-> id[w] + Cardinality(Before(k)), run |-> run[w]] : k \in records[w]}
  BY DEF NewRows
<1>4. id[w] \in Nat /\ run[w] \in 0..MaxRuns
  BY DEF TypeOK
<1> HIDE DEF Before
<1>5. ASSUME NEW x \in NewRows(w) PROVE x \in Row /\ x.id <= id[w] + Count(w) - 1
  <2>1. PICK k \in records[w] : x = [key |-> k, id |-> id[w] + Cardinality(Before(k)), run |-> run[w]]
    BY <1>3
  <2>2. k \in Key /\ id[w] + Cardinality(Before(k)) \in Nat
    BY <1>1, <1>2, <1>4
  <2>3. x \in Row
    BY <1>4, <2>1, <2>2 DEF Row
  <2>4. x.id = id[w] + Cardinality(Before(k))
    BY <2>1
  <2>5. Count(w) \in Nat
    BY <1>1 DEF Count
  <2> QED BY <1>2, <1>4, <2>3, <2>4, <2>5
<1> QED BY <1>5

\* The tables, in the order a run comes to them.
LEMMA TableOfAt ==
  ASSUME TypeOK, NEW w \in Writer
  PROVE  /\ TableOf(w) \in Table
         /\ at[w] \in {1, 2}
         /\ at[w] = 1 => TableOf(w) = "rt_trip"
         /\ at[w] = 2 => TableOf(w) = "rt_stop_time"
<1>1. at[w] = 1 \/ at[w] = 2
  BY DEF TypeOK
<1> QED BY <1>1 DEF TableOf, TableAt, Table

\* Every step keeps the types and the stages of a run.
LEMMA NextStages == TypeOK /\ Stages /\ [Next]_vars => (TypeOK /\ Stages)'
<1> SUFFICES ASSUME TypeOK, Stages, [Next]_vars PROVE (TypeOK /\ Stages)'
  OBVIOUS
<1> USE RunsAssumption DEF TypeOK, Stages, Active
<1>1. ASSUME NEW w \in Writer, Start(w) PROVE (TypeOK /\ Stages)'
  BY <1>1 DEF Start, Goto, tx
<1>2. ASSUME NEW w \in Writer, DeleteStarts(w) PROVE (TypeOK /\ Stages)'
  <2>1. gone' \in [Writer -> SUBSET Row]
    BY <1>2, TableOfAt DEF DeleteStarts
  <2>2. records' \in [Writer -> SUBSET Key]
    BY <1>2 DEF DeleteStarts
  <2>3. pc' = [pc EXCEPT ![w] = "deleting"] /\ pc[w] = "ready"
    BY <1>2 DEF DeleteStarts, Goto
  <2>4. \A u \in Writer : u # w => records'[u] = records[u]
    BY <1>2 DEF DeleteStarts
  <2> QED BY <1>2, <2>1, <2>2, <2>3, <2>4 DEF DeleteStarts
<1>3. ASSUME NEW w \in Writer, DeleteEnds(w) PROVE (TypeOK /\ Stages)'
  BY <1>3 DEF DeleteEnds, AfterDelete, Goto, tx
<1>4. ASSUME NEW w \in Writer, Nextval(w) PROVE (TypeOK /\ Stages)'
  BY <1>4, TableOfAt DEF Nextval, Goto
<1>5. ASSUME NEW w \in Writer, Setval(w) PROVE (TypeOK /\ Stages)'
  <2>1. records[w] # {} /\ Count(w) \in Nat /\ Count(w) >= 1
    BY <1>5, RecordsCounted DEF Setval
  <2>2. id[w] + Count(w) - 1 \in Nat /\ (id[w] + Count(w) - 1) - Count(w) + 1 = id[w]
    BY <2>1
  <2>3. seq' = [seq EXCEPT ![TableOf(w)] = id[w] + Count(w) - 1]
        /\ id' = [id EXCEPT ![w] = (id[w] + Count(w) - 1) - Count(w) + 1]
    BY <1>5 DEF Setval
  <2>4. seq' \in [Table -> Nat]
    BY <2>2, <2>3
  <2>5. id' \in [Writer -> Nat]
    BY <2>2, <2>3
  <2> QED BY <1>5, <2>4, <2>5 DEF Setval, Goto
<1>6. ASSUME NEW w \in Writer, Copy(w) PROVE (TypeOK /\ Stages)'
  BY <1>6, NewRowsInRange DEF Copy, Goto, tx
<1>7. ASSUME NEW w \in Writer, Commit(w) PROVE (TypeOK /\ Stages)'
  <2>1. rows' \in [Table -> SUBSET Row]
    BY <1>7, TableOfAt DEF Commit
  <2>2. shown' \in [Table -> [run : 0..MaxRuns, rows : SUBSET Row]]
    BY <1>7, TableOfAt DEF Commit
  <2>3. tainted' \subseteq Table
    BY <1>7, TableOfAt DEF Commit
  <2>4. /\ gone' = [gone EXCEPT ![w] = {}] /\ id' = [id EXCEPT ![w] = 0]
        /\ pending' = [pending EXCEPT ![w] = {}] /\ records' = [records EXCEPT ![w] = {}]
    BY <1>7 DEF Commit, EndTx
  <2>5. CASE at[w] = 1
    <3>1. pc' = [pc EXCEPT ![w] = "ready"] /\ at' = [at EXCEPT ![w] = 2] /\ UNCHANGED <<run, torn>>
      BY <1>7, <2>5 DEF Commit, Goto
    <3> QED BY <1>7, <2>1, <2>2, <2>3, <2>4, <3>1 DEF Commit
  <2>6. CASE at[w] # 1
    <3>1. pc' = [pc EXCEPT ![w] = "idle"] /\ at' = [at EXCEPT ![w] = 1]
          /\ run' = [run EXCEPT ![w] = 0] /\ torn' = (w \in troubled)
      BY <1>7, <2>6 DEF Commit, Goto
    <3> QED BY <1>7, <2>1, <2>2, <2>3, <2>4, <3>1 DEF Commit
  <2> QED BY <2>5, <2>6
<1>8. ASSUME NEW w \in Writer, Fail(w) PROVE (TypeOK /\ Stages)'
  BY <1>8 DEF Fail, EndTx, Goto, tx
<1>9. ASSUME NEW t \in Table, Truncate(t) PROVE (TypeOK /\ Stages)'
  BY <1>9 DEF Truncate, tx
<1>10. ASSUME CommitTruncate PROVE (TypeOK /\ Stages)'
  <2>1. rows' \in [Table -> SUBSET Row]
    BY <1>10 DEF CommitTruncate
  <2>2. shown' \in [Table -> [run : 0..MaxRuns, rows : SUBSET Row]]
    BY <1>10 DEF CommitTruncate, Cleared
  <2>3. seq' \in [Table -> Nat]
    BY <1>10 DEF CommitTruncate
  <2> QED BY <1>10, <2>1, <2>2, <2>3 DEF CommitTruncate, tx
<1>11. ASSUME RollbackTruncate PROVE (TypeOK /\ Stages)'
  BY <1>11 DEF RollbackTruncate, tx
<1>12. ASSUME UNCHANGED vars PROVE (TypeOK /\ Stages)'
  BY <1>12 DEF vars, tx
<1> QED BY <1>1, <1>2, <1>3, <1>4, <1>5, <1>6, <1>7, <1>8, <1>9, <1>10, <1>11, <1>12 DEF Next

\* A run that meets nobody is alone.
LEMMA NextAlone == TypeOK /\ AloneUnlessTroubled /\ [Next]_vars => AloneUnlessTroubled'
<1> SUFFICES ASSUME TypeOK, AloneUnlessTroubled, [Next]_vars PROVE AloneUnlessTroubled'
  OBVIOUS
<1> USE DEF TypeOK, AloneUnlessTroubled, Active
<1>1. ASSUME NEW w \in Writer, Start(w) PROVE AloneUnlessTroubled'
  BY <1>1 DEF Start, Goto, tx
<1>2. ASSUME NEW w \in Writer, DeleteStarts(w) PROVE AloneUnlessTroubled'
  BY <1>2 DEF DeleteStarts, Goto, tx
<1>3. ASSUME NEW w \in Writer, DeleteEnds(w) PROVE AloneUnlessTroubled'
  BY <1>3 DEF DeleteEnds, AfterDelete, Goto, tx
<1>4. ASSUME NEW w \in Writer, Nextval(w) PROVE AloneUnlessTroubled'
  BY <1>4 DEF Nextval, Goto, tx
<1>5. ASSUME NEW w \in Writer, Setval(w) PROVE AloneUnlessTroubled'
  BY <1>5 DEF Setval, Goto, tx
<1>6. ASSUME NEW w \in Writer, Copy(w) PROVE AloneUnlessTroubled'
  BY <1>6 DEF Copy, Goto, tx
<1>7. ASSUME NEW w \in Writer, Commit(w) PROVE AloneUnlessTroubled'
  BY <1>7 DEF Commit, EndTx, Goto, tx
<1>8. ASSUME NEW w \in Writer, Fail(w) PROVE AloneUnlessTroubled'
  BY <1>8 DEF Fail, EndTx, Goto, tx
<1>9. ASSUME NEW t \in Table, Truncate(t) PROVE AloneUnlessTroubled'
  BY <1>9 DEF Truncate, tx
<1>10. ASSUME CommitTruncate PROVE AloneUnlessTroubled'
  BY <1>10 DEF CommitTruncate, Cleared, tx
<1>11. ASSUME RollbackTruncate PROVE AloneUnlessTroubled'
  BY <1>11 DEF RollbackTruncate, tx
<1>12. ASSUME UNCHANGED vars PROVE AloneUnlessTroubled'
  BY <1>12 DEF vars, tx
<1> QED BY <1>1, <1>2, <1>3, <1>4, <1>5, <1>6, <1>7, <1>8, <1>9, <1>10, <1>11, <1>12 DEF Next

\* A run alone replaces the rows it saw, by rows with ids below the sequence.
LEMMA NextReplaces ==
  TypeOK /\ Stages /\ AloneUnlessTroubled /\ ReplacesWhatItSaw /\ [Next]_vars => ReplacesWhatItSaw'
<1> SUFFICES ASSUME TypeOK, Stages, AloneUnlessTroubled, ReplacesWhatItSaw, [Next]_vars PROVE ReplacesWhatItSaw'
  OBVIOUS
<1> USE DEF TypeOK, Stages, AloneUnlessTroubled, ReplacesWhatItSaw, Active, TableOf, TableAt, Table
<1>1. ASSUME NEW w \in Writer, Start(w) PROVE ReplacesWhatItSaw'
  BY <1>1 DEF Start, Goto, tx
<1>2. ASSUME NEW w \in Writer, DeleteStarts(w) PROVE ReplacesWhatItSaw'
  BY <1>2 DEF DeleteStarts, Goto, tx
<1>3. ASSUME NEW w \in Writer, DeleteEnds(w) PROVE ReplacesWhatItSaw'
  BY <1>3 DEF DeleteEnds, AfterDelete, Goto, tx
<1>4. ASSUME NEW w \in Writer, Nextval(w) PROVE ReplacesWhatItSaw'
  BY <1>4 DEF Nextval, Goto, tx
<1>5. ASSUME NEW w \in Writer, Setval(w) PROVE ReplacesWhatItSaw'
  <2>1. records[w] # {} /\ Count(w) \in Nat /\ Count(w) >= 1 /\ id[w] \in Nat
    BY <1>5, RecordsCounted DEF Setval
  <2>2. (id[w] + Count(w) - 1) - Count(w) + 1 = id[w]
    BY <2>1
  <2>3. seq' = [seq EXCEPT ![TableOf(w)] = id[w] + Count(w) - 1] /\ id' = [id EXCEPT ![w] = id[w]]
        /\ pc' = [pc EXCEPT ![w] = "copying"] /\ UNCHANGED <<rows, at, run, records, gone, pending, shown, troubled>>
    BY <1>5, <2>2 DEF Setval, Goto
  <2>4. Count(w)' = Count(w)
    BY <2>3 DEF Count
  <2>5. ASSUME NEW u \in (Active \ troubled)' PROVE u = w
    BY <1>5, <2>3, <2>5 DEF Setval
  <2> QED BY <1>5, <2>3, <2>4, <2>5 DEF Setval
<1>6. ASSUME NEW w \in Writer, Copy(w) PROVE ReplacesWhatItSaw'
  <2>1. ASSUME NEW u \in (Active \ troubled)' PROVE u = w /\ w \in Active \ troubled
    BY <1>6, <2>1 DEF Copy, Goto
  <2>2. ASSUME w \in Active \ troubled PROVE \A x \in NewRows(w) : x.id <= seq[TableOf(w)]
    BY <1>6, <2>2, NewRowsInRange DEF Copy
  <2>3. pending' = [pending EXCEPT ![w] = NewRows(w)]
    BY <1>6 DEF Copy
  <2> QED BY <1>6, <2>1, <2>2, <2>3 DEF Copy, Goto
<1>7. ASSUME NEW w \in Writer, Commit(w) PROVE ReplacesWhatItSaw'
  BY <1>7 DEF Commit, EndTx, Goto, tx
<1>8. ASSUME NEW w \in Writer, Fail(w) PROVE ReplacesWhatItSaw'
  BY <1>8 DEF Fail, EndTx, Goto, tx
<1>9. ASSUME NEW t \in Table, Truncate(t) PROVE ReplacesWhatItSaw'
  BY <1>9 DEF Truncate, tx
<1>10. ASSUME CommitTruncate PROVE ReplacesWhatItSaw'
  BY <1>10 DEF CommitTruncate, Cleared, tx
<1>11. ASSUME RollbackTruncate PROVE ReplacesWhatItSaw'
  BY <1>11 DEF RollbackTruncate, tx
<1>12. ASSUME UNCHANGED vars PROVE ReplacesWhatItSaw'
  <2>1. \A u \in Writer : Count(u)' = Count(u)
    BY <1>12 DEF vars, Count
  <2> QED BY <1>12, <2>1 DEF vars, tx
<1> QED BY <1>1, <1>2, <1>3, <1>4, <1>5, <1>6, <1>7, <1>8, <1>9, <1>10, <1>11, <1>12 DEF Next

\* Ids in a table that no run in trouble has written are below its sequence, and
\* below any id that a run is about to use.
LEMMA NextReserved ==
  TypeOK /\ Stages /\ AloneUnlessTroubled /\ ReplacesWhatItSaw /\ FirstIdIsNew /\ IdsAreReserved /\ [Next]_vars
    => (FirstIdIsNew /\ IdsAreReserved)'
<1> SUFFICES ASSUME TypeOK, Stages, AloneUnlessTroubled, ReplacesWhatItSaw, FirstIdIsNew, IdsAreReserved, [Next]_vars
             PROVE  (FirstIdIsNew /\ IdsAreReserved)'
  OBVIOUS
<1> USE DEF TypeOK, Stages, AloneUnlessTroubled, ReplacesWhatItSaw, FirstIdIsNew, IdsAreReserved, Active, TableOf,
            TableAt, Table, Row
<1>1. ASSUME NEW w \in Writer, Start(w) PROVE (FirstIdIsNew /\ IdsAreReserved)'
  BY <1>1 DEF Start, Goto, tx
<1>2. ASSUME NEW w \in Writer, DeleteStarts(w) PROVE (FirstIdIsNew /\ IdsAreReserved)'
  BY <1>2 DEF DeleteStarts, Goto, tx
<1>3. ASSUME NEW w \in Writer, DeleteEnds(w) PROVE (FirstIdIsNew /\ IdsAreReserved)'
  BY <1>3 DEF DeleteEnds, AfterDelete, Goto, tx
<1>4. ASSUME NEW w \in Writer, Nextval(w) PROVE (FirstIdIsNew /\ IdsAreReserved)'
  BY <1>4 DEF Nextval, Goto, tx
<1>5. ASSUME NEW w \in Writer, Setval(w) PROVE (FirstIdIsNew /\ IdsAreReserved)'
  BY <1>5, RecordsCounted DEF Setval, Goto, tx
<1>6. ASSUME NEW w \in Writer, Copy(w) PROVE (FirstIdIsNew /\ IdsAreReserved)'
  BY <1>6 DEF Copy, Goto, tx
<1>7. ASSUME NEW w \in Writer, Commit(w) PROVE (FirstIdIsNew /\ IdsAreReserved)'
  BY <1>7 DEF Commit, EndTx, Goto, tx
<1>8. ASSUME NEW w \in Writer, Fail(w) PROVE (FirstIdIsNew /\ IdsAreReserved)'
  BY <1>8 DEF Fail, EndTx, Goto, tx
<1>9. ASSUME NEW t \in Table, Truncate(t) PROVE (FirstIdIsNew /\ IdsAreReserved)'
  BY <1>9 DEF Truncate, tx
<1>10. ASSUME CommitTruncate PROVE (FirstIdIsNew /\ IdsAreReserved)'
  BY <1>10 DEF CommitTruncate, Cleared, tx
<1>11. ASSUME RollbackTruncate PROVE (FirstIdIsNew /\ IdsAreReserved)'
  BY <1>11 DEF RollbackTruncate, tx
<1>12. ASSUME UNCHANGED vars PROVE (FirstIdIsNew /\ IdsAreReserved)'
  BY <1>12 DEF vars, tx
<1> QED BY <1>1, <1>2, <1>3, <1>4, <1>5, <1>6, <1>7, <1>8, <1>9, <1>10, <1>11, <1>12 DEF Next

\* A table shows what its last run wrote, and the two tables the same run.
LEMMA NextShown ==
  TypeOK /\ Stages /\ AloneUnlessTroubled /\ ReplacesWhatItSaw /\ ShowsOneSnapshot /\ TablesInStep /\ [Next]_vars
    => (ShowsOneSnapshot /\ TablesInStep)'
<1> SUFFICES ASSUME TypeOK, Stages, AloneUnlessTroubled, ReplacesWhatItSaw, ShowsOneSnapshot, TablesInStep, [Next]_vars
             PROVE  (ShowsOneSnapshot /\ TablesInStep)'
  OBVIOUS
<1> USE DEF TypeOK, Stages, AloneUnlessTroubled, ReplacesWhatItSaw, ShowsOneSnapshot, TablesInStep, Active, TableOf,
            TableAt, Table
<1>1. ASSUME NEW w \in Writer, Start(w) PROVE (ShowsOneSnapshot /\ TablesInStep)'
  BY <1>1 DEF Start, Goto, tx
<1>2. ASSUME NEW w \in Writer, DeleteStarts(w) PROVE (ShowsOneSnapshot /\ TablesInStep)'
  BY <1>2 DEF DeleteStarts, Goto, tx
<1>3. ASSUME NEW w \in Writer, DeleteEnds(w) PROVE (ShowsOneSnapshot /\ TablesInStep)'
  BY <1>3 DEF DeleteEnds, AfterDelete, Goto, tx
<1>4. ASSUME NEW w \in Writer, Nextval(w) PROVE (ShowsOneSnapshot /\ TablesInStep)'
  BY <1>4 DEF Nextval, Goto, tx
<1>5. ASSUME NEW w \in Writer, Setval(w) PROVE (ShowsOneSnapshot /\ TablesInStep)'
  BY <1>5 DEF Setval, Goto, tx
<1>6. ASSUME NEW w \in Writer, Copy(w) PROVE (ShowsOneSnapshot /\ TablesInStep)'
  BY <1>6 DEF Copy, Goto, tx
<1>7. ASSUME NEW w \in Writer, Commit(w) PROVE (ShowsOneSnapshot /\ TablesInStep)'
  <2>1. /\ \A t \in Table : t # TableOf(w) => rows'[t] = rows[t] /\ shown'[t] = shown[t] /\ (t \in tainted' <=> t \in tainted)
        /\ rows'[TableOf(w)] = (rows[TableOf(w)] \ gone[w]) \union pending[w]
        /\ shown'[TableOf(w)] = [run |-> run[w], rows |-> pending[w]]
        /\ TableOf(w) \in tainted' <=> w \in troubled
    BY <1>7, TableOfAt DEF Commit
  <2>2. pc[w] = "committing"
    BY <1>7 DEF Commit
  <2>3. ShowsOneSnapshot'
    <3>1. ASSUME w \notin troubled PROVE rows'[TableOf(w)] = shown'[TableOf(w)].rows
      BY <2>1, <2>2, <3>1
    <3>2. ASSUME NEW t \in Table \ tainted' PROVE rows'[t] = shown'[t].rows
      <4>1. CASE t = TableOf(w)
        BY <2>1, <3>1, <4>1
      <4>2. CASE t # TableOf(w)
        BY <2>1, <4>2
      <4> QED BY <4>1, <4>2
    <3> QED BY ONLY <3>2 DEF ShowsOneSnapshot
  <2>4. CASE at[w] = 1
    <3>1. at'[w] = 2
      BY <1>7, <2>4 DEF Commit
    <3> QED BY <2>3, <3>1
  <2>5. CASE at[w] # 1
    <3>1. at[w] = 2 /\ TableOf(w) = "rt_stop_time" /\ torn' = (w \in troubled)
      BY <1>7, <2>5, TableOfAt DEF Commit
    <3>2. CASE w \in troubled
      BY <2>3, <3>1, <3>2
    <3>3. CASE w \notin troubled
      <4>1. shown["rt_trip"].run = run[w]
        BY <2>2, <3>1, <3>3
      <4> QED BY <2>1, <2>3, <3>1, <4>1
    <3> QED BY <3>2, <3>3
  <2> QED BY <2>4, <2>5
<1>8. ASSUME NEW w \in Writer, Fail(w) PROVE (ShowsOneSnapshot /\ TablesInStep)'
  BY <1>8 DEF Fail, EndTx, Goto, tx
<1>9. ASSUME NEW t \in Table, Truncate(t) PROVE (ShowsOneSnapshot /\ TablesInStep)'
  BY <1>9 DEF Truncate, tx
<1>10. ASSUME CommitTruncate PROVE (ShowsOneSnapshot /\ TablesInStep)'
  BY <1>10 DEF CommitTruncate, Cleared, tx
<1>11. ASSUME RollbackTruncate PROVE (ShowsOneSnapshot /\ TablesInStep)'
  BY <1>11 DEF RollbackTruncate, tx
<1>12. ASSUME UNCHANGED vars PROVE (ShowsOneSnapshot /\ TablesInStep)'
  BY <1>12 DEF vars, tx
<1> QED BY <1>1, <1>2, <1>3, <1>4, <1>5, <1>6, <1>7, <1>8, <1>9, <1>10, <1>11, <1>12 DEF Next

\* All of it holds of every run of the imports (gtfs_realtime_importers.py).
THEOREM Invariance == Spec => []IInv
<1>1. Init => IInv
  <2> SUFFICES ASSUME Init PROVE IInv
    OBVIOUS
  <2>1. TypeOK
    <3>1. Cleared \in [run : 0..MaxRuns, rows : SUBSET Row]
      BY RunsAssumption DEF Cleared
    <3>2. rows \in [Table -> SUBSET Row] /\ seq \in [Table -> Nat] /\ shown \in [Table -> [run : 0..MaxRuns, rows : SUBSET Row]]
      BY <3>1 DEF Init
    <3>3. gone \in [Writer -> SUBSET Row] /\ pending \in [Writer -> SUBSET Row] /\ records \in [Writer -> SUBSET Key]
      BY DEF Init
    <3>4. pc \in [Writer -> {"idle", "ready", "deleting", "reserving", "setting", "copying", "committing"}]
          /\ at \in [Writer -> 1..2] /\ run \in [Writer -> 0..MaxRuns] /\ id \in [Writer -> Nat]
      BY RunsAssumption DEF Init
    <3>5. truncated \subseteq Table /\ troubled \subseteq Writer /\ tainted \subseteq Table
      BY DEF Init
    <3>6. runs \in 0..MaxRuns
      BY RunsAssumption DEF Init
    <3>7. cleared \in BOOLEAN /\ torn \in BOOLEAN
      BY DEF Init
    <3> QED BY <3>2, <3>3, <3>4, <3>5, <3>6, <3>7 DEF TypeOK
  <2>2. Active = {} /\ Stages
    BY DEF Init, Active, Stages
  <2>3. AloneUnlessTroubled /\ ReplacesWhatItSaw
    BY <2>2 DEF Init, AloneUnlessTroubled, ReplacesWhatItSaw
  <2>4. FirstIdIsNew /\ ShowsOneSnapshot /\ IdsAreReserved
    BY DEF Init, FirstIdIsNew, ShowsOneSnapshot, IdsAreReserved, Cleared
  <2>5. TablesInStep
    BY DEF Init, TablesInStep, Cleared, Table
  <2> QED BY <2>1, <2>2, <2>3, <2>4, <2>5 DEF IInv
<1>2. IInv /\ [Next]_vars => IInv'
  BY NextStages, NextAlone, NextReplaces, NextReserved, NextShown DEF IInv
<1> QED BY <1>1, <1>2, PTL DEF Spec

\* Every variable keeps its type.
THEOREM TypeCorrect == Spec => []TypeOK
<1>1. IInv => TypeOK
  BY DEF IInv
<1> QED BY <1>1, Invariance, PTL

\* A table shows the whole snapshot of one run: DELETE and COPY are one
\* transaction (gtfs_realtime_importers.py:172).
THEOREM OneSnapshot == Spec => []ShowsOneSnapshot
<1>1. IInv => ShowsOneSnapshot
  BY DEF IInv
<1> QED BY <1>1, Invariance, PTL

\* The next range of ids is free, whatever failed before (reserve_id_range).
THEOREM Reserved == Spec => []IdsAreReserved
<1>1. IInv => IdsAreReserved
  BY DEF IInv
<1> QED BY <1>1, Invariance, PTL

\* The tables are those of one run but between its two transactions and after a
\* run that broke there or met another (gtfs_realtime_importers.py:514-529).
THEOREM InStep == Spec => []TablesInStep
<1>1. IInv => TablesInStep
  BY DEF IInv
<1> QED BY <1>1, Invariance, PTL

=============================================================================
