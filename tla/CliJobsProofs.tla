--------------------------- MODULE CliJobsProofs ---------------------------
(***************************************************************************)
(* Proofs about CliJobs for every set of slots, whichever commands they run,*)
(* and any number of files, imports and faults.                             *)
(***************************************************************************)
EXTENDS CliJobs, TLAPS

\* What a command writes are realtime tables; a static import writes none.
LEMMA WritesTables ==
  ASSUME NEW j \in Job
  PROVE  /\ Len(Writes(j)) \in Nat
         /\ Writes(j) # <<>> => 0 < Len(Writes(j))
         /\ \A n \in 1..Len(Writes(j)) : Writes(j)[n] \in Tables
         /\ j \in Importers => Writes(j) = <<>>
<1>1. CASE CommandOf[j] \in {"importrealtime", "seedrealtimefromfile"}
  BY <1>1 DEF Writes, Tables, Importers
<1>2. CASE CommandOf[j] = "importrealtimevehicles"
  BY <1>2 DEF Writes, Tables, Importers
<1>3. CASE CommandOf[j] \notin {"importrealtime", "seedrealtimefromfile", "importrealtimevehicles"}
  <2>1. Writes(j) = <<>>
    BY <1>3 DEF Writes
  <2> QED BY <2>1
<1> QED BY <1>1, <1>2, <1>3

\* The command of a slot has a lock.
LEMMA LockOfInLocks == \A j \in Job : LockOf(j) \in Locks
  BY CommandAssumption DEF LockOf, Locks, Commands

\* Every step keeps the types, and each command in its own places.
LEMMA NextPlaces == TypeOK /\ PlacesOfCommands /\ [Next]_vars => (TypeOK /\ PlacesOfCommands)'
<1> SUFFICES ASSUME TypeOK, PlacesOfCommands, [Next]_vars PROVE (TypeOK /\ PlacesOfCommands)'
  OBVIOUS
<1> USE BoundAssumption, WritesTables, LockOfInLocks DEF TypeOK, PlacesOfCommands, Realtime, Body, Inside, Worth
<1>1. ASSUME NEW j \in Job, Start(j) PROVE (TypeOK /\ PlacesOfCommands)'
  <2>1. PICK p \in {"locking", "checking"} : pc' = [pc EXCEPT ![j] = p] /\ (j \in Importers => p = "locking")
    BY <1>1 DEF Start, Goto
  <2>2. imports' \in 0..MaxImports
    BY <1>1, BoundAssumption DEF Start
  <2>3. pc[j] = "idle" /\ UNCHANGED <<lock, done, view, rows, faults, unguarded, raced, tainted>>
    BY <1>1 DEF Start
  <2> QED BY <2>1, <2>2, <2>3
<1>2. ASSUME NEW j \in Job, Check(j) PROVE (TypeOK /\ PlacesOfCommands)'
  <2>1. pc[j] = "checking" /\ UNCHANGED <<lock, rows, imports, faults, tainted>>
    BY <1>2 DEF Check
  <2>2. CASE lock[StaticLock] = Nobody
    <3>1. pc' = [pc EXCEPT ![j] = "locking"] /\ UNCHANGED <<done, view, unguarded, raced>>
      BY <1>2, <2>2 DEF Check, Goto
    <3> QED BY <2>1, <3>1
  <2>3. CASE lock[StaticLock] # Nobody
    <3>1. Leave(j)
      BY <1>2, <2>3 DEF Check
    <3> QED BY <2>1, <3>1 DEF Leave, Goto
  <2> QED BY <2>2, <2>3
<1>3. ASSUME NEW j \in Job, Acquire(j) PROVE (TypeOK /\ PlacesOfCommands)'
  <2>1. pc[j] = "locking" /\ UNCHANGED <<rows, imports, faults, tainted>>
    BY <1>3 DEF Acquire
  <2>2. CASE lock[LockOf(j)] = Nobody
    <3>1. Enter(j)
      BY <1>3, <2>2 DEF Acquire
    <3>2. PICK p \in {"clearing", "resolving", "fetching"} :
            pc' = [pc EXCEPT ![j] = p] /\ (j \in Importers <=> p = "clearing")
      BY <3>1 DEF Enter, Goto
    <3>3. lock' \in [Locks -> Job \union {Nobody, Orphan}]
      BY <3>1, LockOfInLocks DEF Enter
    <3>4. UNCHANGED <<done, view, unguarded>>
      BY <3>1 DEF Enter
    <3>5. raced \subseteq raced' /\ raced' \subseteq Realtime
          /\ (j \in Importers => \A r \in Realtime : Inside(r) => r \in raced')
          /\ (j \in Realtime => ((\E g \in Importers : Inside(g)) => j \in raced'))
      <4>1. Meet(j)
        BY <3>1 DEF Enter
      <4> QED BY <4>1 DEF Meet
    <3> QED BY <2>1, <3>2, <3>3, <3>4, <3>5
  <2>3. CASE lock[LockOf(j)] # Nobody
    <3>1. Leave(j) /\ UNCHANGED lock
      BY <1>3, <2>3 DEF Acquire
    <3> QED BY <2>1, <3>1 DEF Leave, Goto
  <2> QED BY <2>2, <2>3
<1>4. ASSUME NEW j \in Job, ClearRealtime(j) PROVE (TypeOK /\ PlacesOfCommands)'
  BY <1>4 DEF ClearRealtime, Goto
<1>5. ASSUME NEW j \in Job, LoadFile(j) PROVE (TypeOK /\ PlacesOfCommands)'
  BY <1>5 DEF LoadFile, Goto, Aged
<1>6. ASSUME NEW j \in Job, FetchOk(j) PROVE (TypeOK /\ PlacesOfCommands)'
  BY <1>6 DEF FetchOk, Goto
<1>7. ASSUME NEW j \in Job, FetchNone(j) PROVE (TypeOK /\ PlacesOfCommands)'
  BY <1>7 DEF FetchNone, Goto
<1>8. ASSUME NEW j \in Job, Resolve(j) PROVE (TypeOK /\ PlacesOfCommands)'
  BY <1>8 DEF Resolve, Goto
<1>9. ASSUME NEW j \in Job, WriteTable(j) PROVE (TypeOK /\ PlacesOfCommands)'
  BY <1>9 DEF WriteTable, Goto
<1>10. ASSUME NEW j \in Job, Release(j) PROVE (TypeOK /\ PlacesOfCommands)'
  BY <1>10 DEF Release, Leave, Goto
<1>11. ASSUME NEW j \in Job, Fail(j) PROVE (TypeOK /\ PlacesOfCommands)'
  BY <1>11 DEF Fail, Fault, Goto
<1>12. ASSUME NEW j \in Job, Die(j) PROVE (TypeOK /\ PlacesOfCommands)'
  BY <1>12 DEF Die, Fault, Leave, Goto
<1>13. ASSUME Expire PROVE (TypeOK /\ PlacesOfCommands)'
  BY <1>13 DEF Expire
<1>14. ASSUME FlushRedis PROVE (TypeOK /\ PlacesOfCommands)'
  BY <1>14 DEF FlushRedis, Fault
<1>15. ASSUME UNCHANGED vars PROVE (TypeOK /\ PlacesOfCommands)'
  BY <1>15 DEF vars
<1> QED BY <1>1, <1>2, <1>3, <1>4, <1>5, <1>6, <1>7, <1>8, <1>9, <1>10, <1>11, <1>12, <1>13, <1>14, <1>15 DEF Next, JobStep

\* Nobody enters but with a free lock, and gives back another's.
LEMMA NextLockHeld == TypeOK /\ LockHeld /\ [Next]_vars => LockHeld'
<1> SUFFICES ASSUME TypeOK, LockHeld, [Next]_vars PROVE LockHeld'
  OBVIOUS
<1> USE HolderAssumption, LockOfInLocks DEF TypeOK, LockHeld, Body, Inside
<1>1. ASSUME NEW j \in Job, Start(j) PROVE LockHeld'
  BY <1>1 DEF Start, Goto
<1>2. ASSUME NEW j \in Job, Check(j) PROVE LockHeld'
  BY <1>2 DEF Check, Goto, Leave
<1>3. ASSUME NEW j \in Job, Acquire(j) PROVE LockHeld'
  BY <1>3 DEF Acquire, Enter, Meet, Goto, Leave
<1>4. ASSUME NEW j \in Job, ClearRealtime(j) PROVE LockHeld'
  BY <1>4 DEF ClearRealtime, Goto
<1>5. ASSUME NEW j \in Job, LoadFile(j) PROVE LockHeld'
  BY <1>5 DEF LoadFile, Goto, Aged
<1>6. ASSUME NEW j \in Job, FetchOk(j) PROVE LockHeld'
  BY <1>6 DEF FetchOk, Goto
<1>7. ASSUME NEW j \in Job, FetchNone(j) PROVE LockHeld'
  BY <1>7 DEF FetchNone, Goto
<1>8. ASSUME NEW j \in Job, Resolve(j) PROVE LockHeld'
  BY <1>8 DEF Resolve, Goto
<1>9. ASSUME NEW j \in Job, WriteTable(j) PROVE LockHeld'
  BY <1>9 DEF WriteTable, Goto
<1>10. ASSUME NEW j \in Job, Release(j) PROVE LockHeld'
  BY <1>10 DEF Release, Leave, Goto
<1>11. ASSUME NEW j \in Job, Fail(j) PROVE LockHeld'
  BY <1>11 DEF Fail, Fault, Goto
<1>12. ASSUME NEW j \in Job, Die(j) PROVE LockHeld'
  BY <1>12 DEF Die, Fault, Leave, Goto
<1>13. ASSUME Expire PROVE LockHeld'
  BY <1>13 DEF Expire
<1>14. ASSUME FlushRedis PROVE LockHeld'
  BY <1>14 DEF FlushRedis, Fault
<1>15. ASSUME UNCHANGED vars PROVE LockHeld'
  BY <1>15 DEF vars
<1> QED BY <1>1, <1>2, <1>3, <1>4, <1>5, <1>6, <1>7, <1>8, <1>9, <1>10, <1>11, <1>12, <1>13, <1>14, <1>15 DEF Next, JobStep

\* What outdates realtime rows is a static import that the run met.
LEMMA NextRace == TypeOK /\ PlacesOfCommands /\ RaceInv /\ [Next]_vars => RaceInv'
<1> SUFFICES ASSUME TypeOK, PlacesOfCommands, RaceInv, [Next]_vars PROVE RaceInv'
  OBVIOUS
<1> USE WritesTables
    DEF TypeOK, PlacesOfCommands, Realtime, Body, Inside, Worth, RaceInv, MetIsRaced, ViewOfRun, LoadingTaints, OutdatedOnlyByRace
<1>1. ASSUME NEW j \in Job, Start(j) PROVE RaceInv'
  <2>1. PICK p \in {"locking", "checking"} : pc' = [pc EXCEPT ![j] = p] /\ (j \in Importers => p = "locking")
    BY <1>1 DEF Start, Goto
  <2>2. imports' \in 0..MaxImports
    BY <1>1, BoundAssumption DEF Start
  <2>3. pc[j] = "idle" /\ UNCHANGED <<lock, done, view, rows, faults, unguarded, raced, tainted>>
    BY <1>1 DEF Start
  <2> QED BY <2>1, <2>2, <2>3
<1>2. ASSUME NEW j \in Job, Check(j) PROVE RaceInv'
  <2>1. pc[j] = "checking" /\ UNCHANGED <<lock, rows, imports, faults, tainted>>
    BY <1>2 DEF Check
  <2>2. CASE lock[StaticLock] = Nobody
    <3>1. pc' = [pc EXCEPT ![j] = "locking"] /\ UNCHANGED <<done, view, unguarded, raced>>
      BY <1>2, <2>2 DEF Check, Goto
    <3> QED BY <2>1, <3>1
  <2>3. CASE lock[StaticLock] # Nobody
    <3>1. Leave(j)
      BY <1>2, <2>3 DEF Check
    <3> QED BY <2>1, <3>1 DEF Leave, Goto
  <2> QED BY <2>2, <2>3
<1>3. ASSUME NEW j \in Job, Acquire(j) PROVE RaceInv'
  <2>1. pc[j] = "locking" /\ UNCHANGED <<rows, imports, faults, tainted>>
    BY <1>3 DEF Acquire
  <2>2. CASE lock[LockOf(j)] = Nobody
    <3>1. Enter(j)
      BY <1>3, <2>2 DEF Acquire
    <3>2. PICK p \in {"clearing", "resolving", "fetching"} :
            pc' = [pc EXCEPT ![j] = p] /\ (j \in Importers <=> p = "clearing")
      BY <3>1 DEF Enter, Goto
    <3>3. lock' \in [Locks -> Job \union {Nobody, Orphan}]
      BY <3>1, LockOfInLocks DEF Enter
    <3>4. UNCHANGED <<done, view, unguarded>>
      BY <3>1 DEF Enter
    <3>5. raced \subseteq raced' /\ raced' \subseteq Realtime
          /\ (j \in Importers => \A r \in Realtime : Inside(r) => r \in raced')
          /\ (j \in Realtime => ((\E g \in Importers : Inside(g)) => j \in raced'))
      <4>1. Meet(j)
        BY <3>1 DEF Enter
      <4> QED BY <4>1 DEF Meet
    <3>6. \A i \in Job : i # j => pc'[i] = pc[i]
      BY <3>2
    <3>7. MetIsRaced'
      <4> SUFFICES ASSUME NEW g \in Importers, NEW r \in Realtime, Inside(g)', Inside(r)' PROVE r \in raced'
        BY DEF MetIsRaced
      <4>1. CASE g = j
        BY <3>5, <3>6, <4>1
      <4>2. CASE r = j
        BY <3>5, <3>6, <4>2, g # j DEF Importers
      <4>3. CASE g # j /\ r # j
        BY <3>5, <3>6, <4>3 DEF Importers
      <4> QED BY <4>1, <4>2, <4>3
    <3>8. ViewOfRun'
      <4> SUFFICES ASSUME NEW i \in Job, view'[i] # "none"
                   PROVE  Inside(i)' /\ i \in Realtime /\ (view'[i] = "outdated" => i \in raced')
        BY DEF ViewOfRun
      <4>1. view[i] # "none" /\ view'[i] = view[i]
        BY <3>4
      <4>2. Inside(i) /\ i \in Realtime /\ (view[i] = "outdated" => i \in raced)
        BY ONLY RaceInv, <4>1, i \in Job DEF RaceInv, ViewOfRun
      <4>3. i # j
        BY ONLY <2>1, <4>2 DEF Inside, Body
      <4>4. pc'[i] = pc[i]
        BY <3>6, <4>3
      <4>5. Inside(i)'
        BY ONLY <4>2, <4>4 DEF Inside
      <4> QED BY ONLY <3>5, <4>1, <4>2, <4>5
    <3>9. LoadingTaints'
      BY <2>1, <3>2
    <3>10. OutdatedOnlyByRace'
      BY <2>1
    <3> QED BY <3>7, <3>8, <3>9, <3>10
  <2>3. CASE lock[LockOf(j)] # Nobody
    <3>1. Leave(j) /\ UNCHANGED lock
      BY <1>3, <2>3 DEF Acquire
    <3> QED BY <2>1, <3>1 DEF Leave, Goto
  <2> QED BY <2>2, <2>3
<1>4. ASSUME NEW j \in Job, ClearRealtime(j) PROVE RaceInv'
  BY <1>4 DEF ClearRealtime, Goto
<1>5. ASSUME NEW j \in Job, LoadFile(j) PROVE RaceInv'
  BY <1>5 DEF LoadFile, Goto, Aged
<1>6. ASSUME NEW j \in Job, FetchOk(j) PROVE RaceInv'
  BY <1>6 DEF FetchOk, Goto
<1>7. ASSUME NEW j \in Job, FetchNone(j) PROVE RaceInv'
  BY <1>7 DEF FetchNone, Goto
<1>8. ASSUME NEW j \in Job, Resolve(j) PROVE RaceInv'
  <2>1. MetIsRaced'
    BY <1>8 DEF Resolve, Goto
  <2>2. ViewOfRun'
    BY <1>8 DEF Resolve, Goto
  <2>3. LoadingTaints' /\ OutdatedOnlyByRace'
    BY <1>8 DEF Resolve, Goto
  <2> QED BY <2>1, <2>2, <2>3
<1>9. ASSUME NEW j \in Job, WriteTable(j) PROVE RaceInv'
  BY <1>9 DEF WriteTable, Goto
<1>10. ASSUME NEW j \in Job, Release(j) PROVE RaceInv'
  BY <1>10 DEF Release, Leave, Goto
<1>11. ASSUME NEW j \in Job, Fail(j) PROVE RaceInv'
  BY <1>11 DEF Fail, Fault, Goto
<1>12. ASSUME NEW j \in Job, Die(j) PROVE RaceInv'
  BY <1>12 DEF Die, Fault, Leave, Goto
<1>13. ASSUME Expire PROVE RaceInv'
  BY <1>13 DEF Expire
<1>14. ASSUME FlushRedis PROVE RaceInv'
  BY <1>14 DEF FlushRedis, Fault
<1>15. ASSUME UNCHANGED vars PROVE RaceInv'
  BY <1>15 DEF vars
<1> QED BY <1>1, <1>2, <1>3, <1>4, <1>5, <1>6, <1>7, <1>8, <1>9, <1>10, <1>11, <1>12, <1>13, <1>14, <1>15 DEF Next, JobStep

\* All of it holds of every run of the commands (cli.py).
THEOREM Invariance == Spec => []IInv
<1>1. Init => IInv
  <2> SUFFICES ASSUME Init PROVE IInv
    OBVIOUS
  <2>1. \A j \in Job : pc[j] = "idle" /\ done[j] = 0 /\ view[j] = "none"
    BY DEF Init
  <2>2. TypeOK
    <3>1. \A j \in Job : done[j] <= (IF j \in Importers THEN Files ELSE Len(Writes(j)))
      <4> SUFFICES ASSUME NEW j \in Job PROVE done[j] <= (IF j \in Importers THEN Files ELSE Len(Writes(j)))
        OBVIOUS
      <4>1. done[j] = 0 /\ Len(Writes(j)) \in Nat
        BY <2>1, WritesTables
      <4> QED BY <4>1, BoundAssumption
    <3> QED BY <3>1, BoundAssumption DEF Init, TypeOK, Worth
  <2>3. PlacesOfCommands
    BY <2>1 DEF PlacesOfCommands
  <2>4. LockHeld
    BY <2>1 DEF LockHeld, Inside, Body
  <2>5. RaceInv
    BY <2>1 DEF Init, RaceInv, MetIsRaced, ViewOfRun, LoadingTaints, OutdatedOnlyByRace, Inside, Body, Importers
  <2> QED BY <2>2, <2>3, <2>4, <2>5 DEF IInv
<1>2. IInv /\ [Next]_vars => IInv'
  BY NextPlaces, NextLockHeld, NextRace DEF IInv
<1> QED BY <1>1, <1>2, PTL DEF Spec

\* Every variable keeps its type; a process past its end keeps nothing.
THEOREM TypeCorrect == Spec => []TypeOK
<1>1. IInv => TypeOK
  BY DEF IInv
<1> QED BY <1>1, Invariance, PTL

\* However runs are skipped, fail or die: two of one command are never in their
\* bodies together, unless flushredis took a lock (concurrency.py:174).
THEOREM Exclusive == Spec => []SameCommandExclusive
<1>1. IInv => SameCommandExclusive
  BY DEF IInv, LockHeld, SameCommandExclusive
<1> QED BY <1>1, Invariance, PTL

\* Realtime rows are outdated only by a run that met a static import
\* (gtfs_dataset.py:61).
THEOREM OnlyByRace == Spec => []OutdatedOnlyByRace
<1>1. IInv => OutdatedOnlyByRace
  BY DEF IInv, RaceInv
<1> QED BY <1>1, Invariance, PTL

=============================================================================
