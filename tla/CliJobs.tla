------------------------------ MODULE CliJobs ------------------------------
(***************************************************************************)
(* The CLI jobs of SimplyTransport/cli.py that share the Redis locks and    *)
(* the realtime tables: importgtfs under the static-import lock, and the    *)
(* realtime jobs, which look at that lock (skip_if_lock_held) and then take *)
(* the mutex of their own command (concurrency(1)).  Each Job is a slot of  *)
(* successive processes running one command.                                *)
(*                                                                          *)
(* A lock is kept as its holder: what RedisMutex shows of one key while     *)
(* runs are shorter than their leases (concurrency.py:176).  Of the data    *)
(* the model keeps what the order of the jobs decides: whether the rows of  *)
(* a realtime table were resolved against the static rows of today or       *)
(* against static rows that have since been replaced.                       *)
(***************************************************************************)
EXTENDS Naturals, Sequences

CONSTANTS
  Job,        \* slots of CLI processes
  CommandOf,  \* the command each slot runs
  Nobody,     \* a lock that is free
  Orphan,     \* a lock whose holder died: it stays until its TTL is over
  Files,      \* number of files importgtfs replaces
  MaxImports, \* bound: static imports started
  MaxFaults   \* bound: crashes, errors and flushes, all together

Commands == {"importgtfs", "importrealtime", "importrealtimevehicles",
             "seedrealtimefromfile", "recorddelays"}

ASSUME CommandAssumption == CommandOf \in [Job -> Commands]
ASSUME HolderAssumption == Nobody \notin Job /\ Orphan \notin Job /\ Nobody # Orphan
ASSUME BoundAssumption == Files \in Nat \ {0} /\ MaxImports \in Nat /\ MaxFaults \in Nat

VARIABLES
  lock,      \* holder of each lock
  pc,        \* where each process is
  done,      \* files replaced, or tables written, by each run so far
  view,      \* what each run's static lookups are worth by now
  rows,      \* what each realtime table's rows are worth by now
  imports,   \* static imports started
  faults,    \* faults so far
  unguarded, \* history: runs whose lock a flush deleted
  raced,     \* history: realtime runs that met a static import
  tainted    \* history: tables last written by such a run

vars == <<lock, pc, done, view, rows, imports, faults, unguarded, raced, tainted>>

-----------------------------------------------------------------------------
StaticLock == "gtfs_static_import"
LockOf(j) == IF CommandOf[j] = "importgtfs" THEN StaticLock ELSE CommandOf[j]
Locks == (Commands \ {"importgtfs"}) \union {StaticLock}

Importers == {j \in Job : CommandOf[j] = "importgtfs"}
Seeders == {j \in Job : CommandOf[j] = "seedrealtimefromfile"}
Realtime == Job \ Importers

Tables == {"rt_trip", "rt_stop_time", "rt_vehicle"}

\* The tables a command snapshots, in order, each in a transaction of its own.
Writes(j) ==
  CASE CommandOf[j] \in {"importrealtime", "seedrealtimefromfile"} ->
         <<"rt_trip", "rt_stop_time">>
    [] CommandOf[j] = "importrealtimevehicles" -> <<"rt_vehicle">>
    [] OTHER -> <<>>

\* current: resolved against the static rows there are; outdated: against
\* static rows that have been replaced since.
Worth == {"none", "current", "outdated"}
Aged(w) == IF w = "none" THEN "none" ELSE "outdated"

\* leaving: the event, the deletion of cached pages and finally's release.
Body == {"clearing", "loading", "fetching", "resolving", "writing", "leaving"}
Inside(j) == pc[j] \in Body

TypeOK ==
  /\ lock \in [Locks -> Job \union {Nobody, Orphan}]
  /\ pc \in [Job -> Body \union {"idle", "checking", "locking"}]
  /\ done \in [Job -> Nat]
  /\ \A j \in Job : done[j] <= (IF j \in Importers THEN Files ELSE Len(Writes(j)))
  /\ view \in [Job -> Worth]
  /\ rows \in [Tables -> Worth]
  /\ imports \in 0 .. MaxImports
  /\ faults \in 0 .. MaxFaults
  /\ unguarded \subseteq Job /\ raced \subseteq Realtime /\ tainted \subseteq Tables
  /\ \A j \in Job : pc[j] = "idle" => view[j] = "none" /\ j \notin unguarded

Init ==
  /\ lock = [l \in Locks |-> Nobody]
  /\ pc = [j \in Job |-> "idle"]
  /\ done = [j \in Job |-> 0]
  /\ view = [j \in Job |-> "none"]
  /\ rows = [t \in Tables |-> "none"]
  /\ imports = 0 /\ faults = 0
  /\ unguarded = {} /\ raced = {} /\ tainted = {}

Goto(j, label) == pc' = [pc EXCEPT ![j] = label]

\* The process is gone; the next one in its slot starts from nothing.
Leave(j) ==
  /\ Goto(j, "idle")
  /\ done' = [done EXCEPT ![j] = 0]
  /\ view' = [view EXCEPT ![j] = "none"]
  /\ unguarded' = unguarded \ {j}
  /\ raced' = raced \ {j}

Fault == faults < MaxFaults /\ faults' = faults + 1

-----------------------------------------------------------------------------
\* Getting in.

\* cron or a hand starts the command.
Start(j) ==
  /\ pc[j] = "idle"
  /\ IF j \in Importers
       THEN imports < MaxImports /\ imports' = imports + 1 /\ Goto(j, "locking")
       ELSE /\ Goto(j, IF j \in Seeders THEN "locking" ELSE "checking")
            /\ UNCHANGED imports
  /\ UNCHANGED <<lock, done, view, rows, faults, unguarded, raced, tainted>>

\* skip_if_lock_held: EXISTS, and the process ends here if the key is there.
Check(j) ==
  /\ pc[j] = "checking"
  /\ IF lock[StaticLock] = Nobody
       THEN Goto(j, "locking") /\ UNCHANGED <<done, view, unguarded, raced>>
       ELSE Leave(j)
  /\ UNCHANGED <<lock, rows, imports, faults, tainted>>

\* History: who is in its body together with whom.
Meet(j) ==
  raced' = IF j \in Importers THEN raced \union {r \in Realtime : Inside(r)}
           ELSE IF \E g \in Importers : Inside(g) THEN raced \union {j}
           ELSE raced

Enter(j) ==
  /\ lock' = [lock EXCEPT ![LockOf(j)] = j]
  /\ Meet(j)
  /\ Goto(j, IF j \in Importers THEN "clearing"
             ELSE IF j \in Seeders \/ CommandOf[j] = "recorddelays" THEN "resolving"
             ELSE "fetching")
  /\ UNCHANGED <<done, view, unguarded>>

\* try_acquire_lock or concurrency(1): in, or the process ends.
Acquire(j) ==
  /\ pc[j] = "locking"
  /\ IF lock[LockOf(j)] = Nobody
       THEN Enter(j)
       ELSE Leave(j) /\ UNCHANGED lock
  /\ UNCHANGED <<rows, imports, faults, tainted>>

-----------------------------------------------------------------------------
\* importgtfs.

\* Mutant: the realtime tables are left as they are.
ClearNothing(g) ==
  /\ pc[g] = "clearing"
  /\ Goto(g, "loading")
  /\ UNCHANGED <<lock, done, view, rows, imports, faults, unguarded, raced, tainted>>

\* clear_realtime_tables: one transaction truncates the three tables.
ClearRealtime(g) ==
  /\ pc[g] = "clearing"
  /\ rows' = [t \in Tables |-> "none"]
  /\ tainted' = {}
  /\ Goto(g, "loading")
  /\ UNCHANGED <<lock, done, view, imports, faults, unguarded, raced>>

\* One file: clear_table and import_data replace static rows, and whatever was
\* resolved against the old ones is outdated.
LoadFile(g) ==
  /\ pc[g] = "loading"
  /\ view' = [j \in Job |-> Aged(view[j])]
  /\ rows' = [t \in Tables |-> Aged(rows[t])]
  /\ done' = [done EXCEPT ![g] = @ + 1]
  /\ Goto(g, IF done[g] + 1 = Files THEN "leaving" ELSE "loading")
  /\ UNCHANGED <<lock, imports, faults, unguarded, raced, tainted>>

-----------------------------------------------------------------------------
\* The realtime jobs.

\* get_data returns the feed ...
FetchOk(j) ==
  /\ pc[j] = "fetching"
  /\ Goto(j, "resolving")
  /\ UNCHANGED <<lock, done, view, rows, imports, faults, unguarded, raced, tainted>>

\* ... or None, and the command returns without an event.
FetchNone(j) ==
  /\ pc[j] = "fetching"
  /\ Goto(j, "leaving")
  /\ UNCHANGED <<lock, done, view, rows, imports, faults, unguarded, raced, tainted>>

\* load_realtime_lookups (or recorddelays reading schedules) in a session that
\* ends before anything is written.
Resolve(j) ==
  /\ pc[j] = "resolving"
  /\ view' = [view EXCEPT ![j] = "current"]
  /\ Goto(j, IF Writes(j) = <<>> THEN "leaving" ELSE "writing")
  /\ UNCHANGED <<lock, done, rows, imports, faults, unguarded, raced, tainted>>

\* Mutant: the rows are appended, the old ones of the dataset stay.
AppendTable(j) ==
  /\ pc[j] = "writing"
  /\ LET t == Writes(j)[done[j] + 1] IN
       /\ rows' = [rows EXCEPT ![t] = IF @ = "outdated" THEN @ ELSE view[j]]
       /\ tainted' = IF j \in raced THEN tainted \union {t} ELSE tainted
  /\ done' = [done EXCEPT ![j] = @ + 1]
  /\ Goto(j, IF done[j] + 1 = Len(Writes(j)) THEN "leaving" ELSE "writing")
  /\ UNCHANGED <<lock, view, imports, faults, unguarded, raced>>

\* snapshot_copy_table: the table's rows are those of this run.
WriteTable(j) ==
  /\ pc[j] = "writing"
  /\ LET t == Writes(j)[done[j] + 1] IN
       /\ rows' = [rows EXCEPT ![t] = view[j]]
       /\ tainted' = IF j \in raced THEN tainted \union {t} ELSE tainted \ {t}
  /\ done' = [done EXCEPT ![j] = @ + 1]
  /\ Goto(j, IF done[j] + 1 = Len(Writes(j)) THEN "leaving" ELSE "writing")
  /\ UNCHANGED <<lock, view, imports, faults, unguarded, raced>>

-----------------------------------------------------------------------------
\* Getting out.

\* Mutant: DEL without comparing the token.
ReleaseAnyone(j) ==
  /\ pc[j] = "leaving"
  /\ lock' = [lock EXCEPT ![LockOf(j)] = Nobody]
  /\ Leave(j)
  /\ UNCHANGED <<rows, imports, faults, tainted>>

\* The event is recorded, the cached pages are deleted, and finally's
\* compare-and-delete gives the lock back.
Release(j) ==
  /\ pc[j] = "leaving"
  /\ lock' = [lock EXCEPT ![LockOf(j)] = IF @ = j THEN Nobody ELSE @]
  /\ Leave(j)
  /\ UNCHANGED <<rows, imports, faults, tainted>>

\* A step of the body raises; what it and the steps before it did stays done.
Fail(j) ==
  /\ Fault
  /\ Inside(j)
  /\ Goto(j, "leaving")
  /\ UNCHANGED <<lock, done, view, rows, imports, unguarded, raced, tainted>>

\* The process is killed, or Redis does not answer its release: its key stays.
Die(j) ==
  /\ Fault
  /\ pc[j] # "idle"
  /\ lock' = [l \in Locks |-> IF lock[l] = j THEN Orphan ELSE lock[l]]
  /\ Leave(j)
  /\ UNCHANGED <<rows, imports, tainted>>

-----------------------------------------------------------------------------
\* The TTL of an orphaned key is over.
Expire ==
  /\ \E l \in Locks : lock[l] = Orphan /\ lock' = [lock EXCEPT ![l] = Nobody]
  /\ UNCHANGED <<pc, done, view, rows, imports, faults, unguarded, raced, tainted>>

\* flushredis deletes the lock keys with the cached pages.
FlushRedis ==
  /\ Fault
  /\ lock' = [l \in Locks |-> Nobody]
  /\ unguarded' = unguarded \union {j \in Job : Inside(j)}
  /\ UNCHANGED <<pc, done, view, rows, imports, raced, tainted>>

JobStep(j) ==
  \/ Start(j)
  \/ Check(j)
  \/ Acquire(j)
  \/ ClearRealtime(j)
  \/ LoadFile(j)
  \/ FetchOk(j)
  \/ FetchNone(j)
  \/ Resolve(j)
  \/ WriteTable(j)
  \/ Release(j)

Next ==
  \/ \E j \in Job : JobStep(j) \/ Fail(j) \/ Die(j)
  \/ Expire
  \/ FlushRedis

Spec == Init /\ [][Next]_vars

\* cron starts the realtime commands every minute (README.md:68), a started
\* process runs to its end, an orphaned key expires, and the feed is not down
\* for ever.  Nothing makes anyone start a static import or a seed.
Fairness ==
  /\ \A j \in Job :
       /\ WF_vars(pc[j] # "idle" /\ JobStep(j))
       /\ SF_vars(FetchOk(j))
  /\ \A j \in Realtime \ Seeders : WF_vars(Start(j))
  /\ WF_vars(Expire)

FairSpec == Spec /\ Fairness

-----------------------------------------------------------------------------
\* No two runs of one command are in their bodies together (concurrency.py:174)
\* - through skips, failures, crashes and orphaned keys - unless flushredis took
\* the lock of one of them.
SameCommandExclusive ==
  \A i, j \in Job :
    i # j /\ Inside(i) /\ Inside(j) /\ LockOf(i) = LockOf(j)
      => i \in unguarded \/ j \in unguarded

\* Realtime rows that refer to replaced static rows can only come from a run
\* that met a static import: were the two exclusive, none would exist, also
\* after an import that failed half way (gtfs_dataset.py:61).
OutdatedOnlyByRace ==
  \A t \in Tables : rows[t] = "outdated" => t \in tainted

\* The inductive invariant: where each command can be and how far it is, ...
PlacesOfCommands ==
  \A j \in Job :
    /\ j \in Importers => pc[j] \in {"idle", "locking", "clearing", "loading", "leaving"}
    /\ j \in Realtime => pc[j] \notin {"clearing", "loading"}
    /\ pc[j] \notin {"loading", "writing", "leaving"} => done[j] = 0
    /\ pc[j] = "loading" => done[j] < Files
    /\ pc[j] = "writing" => done[j] < Len(Writes(j))

\* ... who is inside holds its lock unless that was flushed, ...
LockHeld == \A j \in Job : Inside(j) /\ j \notin unguarded => lock[LockOf(j)] = j

\* ... and what a realtime run that is not noted as raced knows is current, and
\* what it writes is not there while static rows are being replaced.
MetIsRaced == \A g \in Importers, j \in Realtime : Inside(g) /\ Inside(j) => j \in raced
ViewOfRun ==
  \A j \in Job :
    /\ view[j] # "none" => Inside(j) /\ j \in Realtime
    /\ view[j] = "outdated" => j \in raced
LoadingTaints ==
  (\E g \in Importers : pc[g] = "loading") => \A t \in Tables : rows[t] # "none" => t \in tainted

RaceInv == MetIsRaced /\ ViewOfRun /\ LoadingTaints /\ OutdatedOnlyByRace

IInv == TypeOK /\ PlacesOfCommands /\ LockHeld /\ RaceInv

\* Once the static imports and the faults are over, the realtime tables that a
\* running cron line writes end up current, whatever races left behind.
Fed == UNION {{Writes(j)[n] : n \in DOMAIN Writes(j)} : j \in Realtime \ Seeders}

RealtimeCatchesUp == <>[](\A t \in Fed : rows[t] = "current")
=============================================================================
