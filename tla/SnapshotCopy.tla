---------------------------- MODULE SnapshotCopy ----------------------------
(***************************************************************************)
(* What the transactions of the realtime imports do to rt_trip and          *)
(* rt_stop_time: import_trip_updates replaces one table after the other     *)
(* with snapshot_copy_table (gtfs_realtime_importers.py), each in a         *)
(* transaction of its own, with ids from reserve_id_range, while another    *)
(* command may do the same and a static import may truncate both tables     *)
(* (clear_realtime_tables in gtfs_importers.py).                            *)
(*                                                                          *)
(* A Writer is a command: concurrency(1) keeps runs of one command apart,   *)
(* and nothing keeps importrealtime and seedrealtimefromfile apart.  The    *)
(* rows are those of one dataset.  PostgreSQL runs the transactions at READ *)
(* COMMITTED: a DELETE sees what was committed when it started, waits for   *)
(* the rows another transaction has deleted, and never sees rows committed  *)
(* meanwhile; a sequence is outside of transactions.                        *)
(***************************************************************************)
EXTENDS Naturals, FiniteSets

CONSTANTS
  Writer,   \* commands that import trip updates
  Keys,     \* distinct values of the unique key of a table
  MaxRuns   \* bound: runs started, all writers together

ASSUME KeysAssumption == Keys \in Nat \ {0}
ASSUME RunsAssumption == MaxRuns \in Nat

Table == {"rt_trip", "rt_stop_time"}
TableAt == <<"rt_trip", "rt_stop_time">>
Key == 1 .. Keys
Row == [key : Key, id : Nat, run : 0 .. MaxRuns]
Cleared == [run |-> 0, rows |-> {}]

VARIABLES
  rows,      \* committed rows of each table
  seq,       \* last value of each table's id sequence
  pc,        \* where each writer is
  at,        \* which table it is at: 1 or 2
  run,       \* the number of its run, or 0
  records,   \* keys of the records it has for the table
  gone,      \* rows its open transaction has deleted (or has seen, to delete)
  id,        \* what nextval gave it, then the first id of its range
  pending,   \* rows its open transaction has inserted
  truncated, \* tables the open transaction of a static import has truncated
  cleared,   \* whether the static import has been through (it runs once)
  runs,      \* runs started
  shown,      \* history: the run that last replaced each table, and its rows
  troubled,  \* history: writers whose run met another or a static import
  tainted,   \* history: tables last replaced by such a run
  torn       \* history: a run broke between its tables, or was troubled

tx == <<gone, id, pending>>
vars == <<rows, seq, pc, at, run, records, gone, id, pending, truncated, cleared, runs,
          shown, troubled, tainted, torn>>

TypeOK ==
  /\ rows \in [Table -> SUBSET Row]
  /\ seq \in [Table -> Nat]
  /\ pc \in [Writer -> {"idle", "ready", "deleting", "reserving", "setting", "copying", "committing"}]
  /\ at \in [Writer -> 1 .. 2]
  /\ run \in [Writer -> 0 .. MaxRuns]
  /\ records \in [Writer -> SUBSET Key]
  /\ gone \in [Writer -> SUBSET Row]
  /\ id \in [Writer -> Nat]
  /\ pending \in [Writer -> SUBSET Row]
  /\ truncated \subseteq Table
  /\ cleared \in BOOLEAN /\ torn \in BOOLEAN
  /\ runs \in 0 .. MaxRuns
  /\ shown \in [Table -> [run : 0 .. MaxRuns, rows : SUBSET Row]]
  /\ troubled \subseteq Writer /\ tainted \subseteq Table

Init ==
  /\ rows = [t \in Table |-> {}]
  /\ seq = [t \in Table |-> 0]
  /\ pc = [w \in Writer |-> "idle"]
  /\ at = [w \in Writer |-> 1]
  /\ run = [w \in Writer |-> 0]
  /\ records = [w \in Writer |-> {}]
  /\ gone = [w \in Writer |-> {}]
  /\ id = [w \in Writer |-> 0]
  /\ pending = [w \in Writer |-> {}]
  /\ truncated = {} /\ cleared = FALSE
  /\ runs = 0
  /\ shown = [t \in Table |-> Cleared]
  /\ troubled = {} /\ tainted = {} /\ torn = FALSE

TableOf(w) == TableAt[at[w]]
Active == {w \in Writer : pc[w] # "idle"}
InTx(w, t) == pc[w] \notin {"idle", "ready"} /\ TableOf(w) = t

\* Other open transactions on the table w is at.
Rivals(w) == {u \in Writer \ {w} : InTx(u, TableOf(w))}
Deleted(u) == IF pc[u] = "deleting" THEN {} ELSE gone[u]

Goto(w, label) == pc' = [pc EXCEPT ![w] = label]

\* The end of w's transaction, and with it of its locks.
EndTx(w) ==
  /\ gone' = [gone EXCEPT ![w] = {}]
  /\ id' = [id EXCEPT ![w] = 0]
  /\ pending' = [pending EXCEPT ![w] = {}]
  /\ records' = [records EXCEPT ![w] = {}]

-----------------------------------------------------------------------------
\* A run has its records built and comes to its first table.
Start(w) ==
  /\ pc[w] = "idle"
  /\ runs < MaxRuns
  /\ runs' = runs + 1
  /\ run' = [run EXCEPT ![w] = runs + 1]
  /\ at' = [at EXCEPT ![w] = 1]
  /\ Goto(w, "ready")
  /\ troubled' = IF Active # {} THEN troubled \union Active \union {w}
                 ELSE IF truncated # {} THEN {w} ELSE {}
  /\ UNCHANGED <<rows, seq, records, tx, truncated, cleared, shown, tainted, torn>>

\* engine.begin() and the start of DELETE: it sees the rows committed by now.
\* A TRUNCATE that is not committed yet keeps it out of the table.
DeleteStarts(w) ==
  /\ pc[w] = "ready"
  /\ TableOf(w) \notin truncated
  /\ gone' = [gone EXCEPT ![w] = rows[TableOf(w)]]
  /\ \E ks \in SUBSET Key : records' = [records EXCEPT ![w] = ks]
  /\ Goto(w, "deleting")
  /\ UNCHANGED <<rows, seq, at, run, id, pending, truncated, cleared, runs, shown,
                 troubled, tainted, torn>>

AfterDelete(w) == Goto(w, IF records[w] = {} THEN "committing" ELSE "reserving")

\* Mutant: the DELETE is committed before the COPY.
DeleteCommitted(w) ==
  /\ pc[w] = "deleting"
  /\ rows' = [rows EXCEPT ![TableOf(w)] = @ \ gone[w]]
  /\ gone' = [gone EXCEPT ![w] = {}]
  /\ AfterDelete(w)
  /\ UNCHANGED <<seq, at, run, records, id, pending, truncated, cleared, runs, shown,
                 troubled, tainted, torn>>

\* DELETE is done once no other transaction holds a row it saw; without records
\* the function returns and only the deletion is committed.
DeleteEnds(w) ==
  /\ pc[w] = "deleting"
  /\ \A u \in Rivals(w) : Deleted(u) \intersect gone[w] = {}
  /\ gone' = [gone EXCEPT ![w] = @ \intersect rows[TableOf(w)]]
  /\ AfterDelete(w)
  /\ UNCHANGED <<rows, seq, at, run, records, id, pending, truncated, cleared, runs,
                 shown, troubled, tainted, torn>>

\* reserve_id_range: nextval ...
Nextval(w) ==
  /\ pc[w] = "reserving"
  /\ seq' = [seq EXCEPT ![TableOf(w)] = @ + 1]
  /\ id' = [id EXCEPT ![w] = seq[TableOf(w)] + 1]
  /\ Goto(w, "setting")
  /\ UNCHANGED <<rows, at, run, records, gone, pending, truncated, cleared, runs, shown,
                 troubled, tainted, torn>>

Count(w) == Cardinality(records[w])

\* Mutant: nothing is reserved past the first id.
SetvalMissing(w) ==
  /\ pc[w] = "setting"
  /\ Goto(w, "copying")
  /\ UNCHANGED <<rows, seq, at, run, records, tx, truncated, cleared, runs, shown,
                 troubled, tainted, torn>>

\* ... and, in the same SELECT but not in the same instant, setval; the first
\* id is last - count + 1.
Setval(w) ==
  /\ pc[w] = "setting"
  /\ LET last == id[w] + Count(w) - 1 IN
       /\ seq' = [seq EXCEPT ![TableOf(w)] = last]
       /\ id' = [id EXCEPT ![w] = last - Count(w) + 1]
  /\ Goto(w, "copying")
  /\ UNCHANGED <<rows, at, run, records, gone, pending, truncated, cleared, runs, shown,
                 troubled, tainted, torn>>

\* records_with_ids.
NewRows(w) ==
  {[key |-> k, id |-> id[w] + Cardinality({j \in records[w] : j < k}), run |-> run[w]] :
     k \in records[w]}

Clash(xs, ys) == \E x \in xs, y \in ys : x.key = y.key \/ x.id = y.id

\* COPY: waits for rows with its keys or ids in other open transactions; with
\* such a row committed it raises, and Fail is all that is left.
Copy(w) ==
  /\ pc[w] = "copying"
  /\ ~Clash(NewRows(w), rows[TableOf(w)] \ gone[w])
  /\ \A u \in Rivals(w) : ~Clash(NewRows(w), pending[u])
  /\ pending' = [pending EXCEPT ![w] = NewRows(w)]
  /\ Goto(w, "committing")
  /\ UNCHANGED <<rows, seq, at, run, records, gone, id, truncated, cleared, runs, shown,
                 troubled, tainted, torn>>

\* engine.begin() commits on the way out, and the run goes to its next table
\* or to its end.
Commit(w) ==
  /\ pc[w] = "committing"
  /\ LET t == TableOf(w) IN
       /\ rows' = [rows EXCEPT ![t] = (@ \ gone[w]) \union pending[w]]
       /\ shown' = [shown EXCEPT ![t] = [run |-> run[w], rows |-> pending[w]]]
       /\ tainted' = IF w \in troubled THEN tainted \union {t} ELSE tainted \ {t}
  /\ IF at[w] = 1
       THEN /\ at' = [at EXCEPT ![w] = 2]
            /\ Goto(w, "ready")
            /\ UNCHANGED <<run, torn>>
       ELSE /\ at' = [at EXCEPT ![w] = 1]
            /\ run' = [run EXCEPT ![w] = 0]
            /\ Goto(w, "idle")
            /\ torn' = (w \in troubled)
  /\ EndTx(w)
  /\ UNCHANGED <<seq, truncated, cleared, runs, troubled>>

\* Mutant: each table has an except of its own, and the run goes on.
FailAtFirstTableOnly(w) ==
  /\ pc[w] # "idle"
  /\ at' = [at EXCEPT ![w] = 2]
  /\ Goto(w, "ready")
  /\ EndTx(w)
  /\ UNCHANGED <<rows, seq, run, truncated, cleared, runs, shown, troubled, tainted, torn>>

\* Any statement raises, or the process dies: the open transaction is rolled
\* back, the table before it stays replaced, the run ends.
Fail(w) ==
  /\ pc[w] # "idle"
  /\ at' = [at EXCEPT ![w] = 1]
  /\ run' = [run EXCEPT ![w] = 0]
  /\ Goto(w, "idle")
  /\ torn' = (torn \/ at[w] = 2)
  /\ EndTx(w)
  /\ UNCHANGED <<rows, seq, truncated, cleared, runs, shown, troubled, tainted>>

-----------------------------------------------------------------------------
\* clear_realtime_tables, in one transaction, rt_stop_time first.  TRUNCATE
\* waits for every transaction that has touched the table.
Truncate(t) ==
  /\ ~cleared
  /\ t \notin truncated
  /\ t = "rt_stop_time" \/ "rt_stop_time" \in truncated
  /\ \A w \in Writer : ~InTx(w, t)
  /\ truncated' = truncated \union {t}
  /\ troubled' = troubled \union Active
  /\ UNCHANGED <<rows, seq, pc, at, run, records, tx, cleared, runs, shown, tainted, torn>>

\* The commit; RESTART IDENTITY restarts the sequences the tables own.
CommitTruncate ==
  /\ truncated = Table
  /\ truncated' = {} /\ cleared' = TRUE
  /\ rows' = [t \in Table |-> {}]
  /\ shown' = [t \in Table |-> Cleared]
  /\ tainted' = {} /\ torn' = FALSE
  /\ seq' \in {seq, [t \in Table |-> 0]}
  /\ UNCHANGED <<pc, at, run, records, tx, runs, troubled>>

\* The transaction of the static import is rolled back, and the import is over.
RollbackTruncate ==
  /\ truncated # {}
  /\ truncated' = {} /\ cleared' = TRUE
  /\ UNCHANGED <<rows, seq, pc, at, run, records, tx, runs, shown, troubled, tainted, torn>>

Next ==
  \/ \E w \in Writer :
       \/ Start(w)
       \/ DeleteStarts(w)
       \/ DeleteEnds(w)
       \/ Nextval(w)
       \/ Setval(w)
       \/ Copy(w)
       \/ Commit(w)
       \/ Fail(w)
  \/ \E t \in Table : Truncate(t)
  \/ CommitTruncate
  \/ RollbackTruncate

Spec == Init /\ [][Next]_vars

-----------------------------------------------------------------------------
\* A table always shows one whole snapshot, that of the run that replaced it
\* last (gtfs_realtime_importers.py:172): never the gap between a DELETE and its
\* COPY, never rows of two runs - unless the runs of two commands met, or a run
\* met a static import.
ShowsOneSnapshot == \A t \in Table \ tainted : rows[t] = shown[t].rows

\* The sequence is past every id in the table, so that the next range is free
\* (gtfs_importers.py:175), also after runs that failed between reserving and
\* committing and after a TRUNCATE that restarted it - again unless runs met.
IdsAreReserved ==
  \A t \in Table \ tainted : \A x \in rows[t] : x.id <= seq[t]

\* The two tables are those of one run, but while a run is between them and
\* after one broke there or met another run or a static import
\* (gtfs_realtime_importers.py:514-529): nothing else tears them apart.
TablesInStep ==
  shown["rt_trip"].run # shown["rt_stop_time"].run => torn \/ \E w \in Writer : at[w] = 2

\* The inductive invariant: the stages of a run, ...
Stages ==
  \A w \in Writer :
    /\ pc[w] \in {"reserving", "setting", "copying"} => records[w] # {}
    /\ pc[w] # "committing" => pending[w] = {}
    /\ at[w] = 2 => w \in Active

\* ... a run that is not troubled has everything to itself, ...
AloneUnlessTroubled ==
  /\ \A w \in Active \ troubled : Active = {w}
  /\ truncated # {} => Active \subseteq troubled

\* ... so that it replaces what it has seen with ids it has reserved, ...
ReplacesWhatItSaw ==
  \A w \in Active \ troubled :
    /\ at[w] = 2 => shown["rt_trip"].run = run[w]
    /\ pc[w] # "ready" => gone[w] = rows[TableOf(w)]
    /\ pc[w] = "copying" => seq[TableOf(w)] = id[w] + Count(w) - 1
    /\ pc[w] = "committing" => \A x \in pending[w] : x.id <= seq[TableOf(w)]

\* ... and a first id is past the rows, whoever got it.
FirstIdIsNew ==
  \A w \in Writer : pc[w] = "setting" /\ TableOf(w) \notin tainted
                      => \A x \in rows[TableOf(w)] : x.id < id[w]

IInv ==
  /\ TypeOK /\ Stages /\ AloneUnlessTroubled /\ ReplacesWhatItSaw /\ FirstIdIsNew
  /\ ShowsOneSnapshot /\ IdsAreReserved /\ TablesInStep
=============================================================================
