----------------------------- MODULE BatchQueue -----------------------------
(***************************************************************************)
(* One file of a static import that goes through the ORM: the tasks of      *)
(* OrmBatchImporter.import_data in SimplyTransport/lib/gtfs_importers.py (a *)
(* producer of batches, a bounded asyncio.Queue, consumers that commit them *)
(* and leave on a None), gather's first exception, and what importgtfs and  *)
(* asyncio.run do about the tasks gather leaves running.                    *)
(*                                                                          *)
(* The queue is first in, first out and the producer puts its batches, then *)
(* one None per consumer: the n-th item is batch n, or a None past the last *)
(* batch, and two counters say which items are in the queue.                *)
(***************************************************************************)
EXTENDS Naturals, FiniteSets

CONSTANTS
  Consumer,  \* the consumer tasks (NUMBER_OF_CONSUMERS)
  Batches,   \* batches in the file
  QueueMax   \* QUEUE_MAXSIZE

ASSUME ConsumerAssumption == IsFiniteSet(Consumer) /\ Consumer # {}
ASSUME SizeAssumption == Batches \in Nat /\ QueueMax \in Nat \ {0}

VARIABLES
  put,       \* items the producer has put so far
  taken,     \* items the consumers have taken so far
  held,      \* the batch each consumer has taken and not committed, or 0
  task,      \* where each consumer is
  producer,  \* where the producer is
  main,      \* where the command is: import_data, its finally, asyncio.run
  locked,    \* whether importgtfs still has the static-import lock
  committed  \* batches whose rows are in the table

queueVars == <<put, taken, held, task, producer, main, locked, committed>>

Batch == 1 .. Batches
Items == Batches + Cardinality(Consumer)

QueueTypeOK ==
  /\ put \in 0 .. Items
  /\ taken \in 0 .. put
  /\ put - taken <= QueueMax
  /\ held \in [Consumer -> 0 .. Batches]
  /\ task \in [Consumer -> {"getting", "committing", "done", "failed", "cancelled"}]
  /\ producer \in {"putting", "done", "failed", "cancelled"}
  /\ main \in {"gathering", "returned", "raised", "released", "closed"}
  /\ locked \in BOOLEAN
  /\ committed \subseteq Batch

QueueInit ==
  /\ put = 0 /\ taken = 0
  /\ held = [c \in Consumer |-> 0]
  /\ task = [c \in Consumer |-> "getting"]
  /\ producer = "putting"
  /\ main = "gathering"
  /\ locked = TRUE
  /\ committed = {}

Running == main # "closed"

-----------------------------------------------------------------------------
\* The producer.

\* await q.put: the next batch, or one of the Nones; waits while the queue is
\* full.
Put ==
  /\ Running /\ producer = "putting"
  /\ put - taken < QueueMax
  /\ put' = put + 1
  /\ producer' = IF put' = Items THEN "done" ELSE "putting"
  /\ UNCHANGED <<taken, held, task, main, locked, committed>>

\* build_model raises on a row, or the reader does: no None is ever put.
ProducerFails ==
  /\ Running /\ producer = "putting"
  /\ put < Batches
  /\ producer' = "failed"
  /\ UNCHANGED <<put, taken, held, task, main, locked, committed>>

-----------------------------------------------------------------------------
\* A consumer.

\* await q.get: a batch to commit, or a None to leave on.
Get(c) ==
  /\ Running /\ task[c] = "getting"
  /\ taken < put
  /\ taken' = taken + 1
  /\ IF taken' \in Batch
       THEN /\ held' = [held EXCEPT ![c] = taken']
            /\ task' = [task EXCEPT ![c] = "committing"]
       ELSE /\ task' = [task EXCEPT ![c] = "done"]
            /\ UNCHANGED held
  /\ UNCHANGED <<put, producer, main, locked, committed>>

Commit(c) ==
  /\ Running /\ task[c] = "committing"
  /\ committed' = committed \union {held[c]}
  /\ held' = [held EXCEPT ![c] = 0]
  /\ task' = [task EXCEPT ![c] = "getting"]
  /\ UNCHANGED <<put, taken, producer, main, locked>>

\* Mutant: the consumer logs the error and takes the next batch.
CommitFailsQuietly(c) ==
  /\ Running /\ task[c] = "committing"
  /\ held' = [held EXCEPT ![c] = 0]
  /\ task' = [task EXCEPT ![c] = "getting"]
  /\ UNCHANGED <<put, taken, producer, main, locked, committed>>

\* session.commit raises: the task ends with the exception, its session rolls
\* back - unless it was only the answer of the COMMIT that was lost.
CommitFails(c) ==
  /\ Running /\ task[c] = "committing"
  /\ committed' \in {committed, committed \union {held[c]}}
  /\ held' = [held EXCEPT ![c] = 0]
  /\ task' = [task EXCEPT ![c] = "failed"]
  /\ UNCHANGED <<put, taken, producer, main, locked>>

-----------------------------------------------------------------------------
\* The command.

AllDone == producer = "done" /\ \A c \in Consumer : task[c] = "done"
SomeFailed == producer = "failed" \/ \E c \in Consumer : task[c] = "failed"

Continue(label) ==
  /\ main' = label
  /\ UNCHANGED <<put, taken, held, task, producer, locked, committed>>

\* asyncio.gather: every task has ended well ...
GatherReturns == main = "gathering" /\ AllDone /\ Continue("returned")

\* Mutant: gather(return_exceptions=True), the first exception raised at the end.
GatherWaitsForAll ==
  /\ main = "gathering" /\ SomeFailed
  /\ producer # "putting"
  /\ \A c \in Consumer : task[c] \notin {"getting", "committing"}
  /\ Continue("raised")

\* ... or one has raised: import_data raises at once, and the others run on.
GatherRaises == main = "gathering" /\ SomeFailed /\ Continue("raised")

\* importgtfs's finally gives the static-import lock back; an await, during
\* which the tasks that are left still run.
Release ==
  /\ main \in {"returned", "raised"}
  /\ main' = "released"
  /\ locked' = FALSE
  /\ UNCHANGED <<put, taken, held, task, producer, committed>>

\* asyncio.run cancels what is left; a commit on its way may still take place.
Close ==
  /\ main = "released"
  /\ main' = "closed"
  /\ task' = [c \in Consumer |->
                IF task[c] \in {"getting", "committing"} THEN "cancelled" ELSE task[c]]
  /\ producer' = IF producer = "putting" THEN "cancelled" ELSE producer
  /\ \E late \in SUBSET {held[c] : c \in {d \in Consumer : task[d] = "committing"}} :
       committed' = committed \union late
  /\ held' = [c \in Consumer |-> 0]
  /\ UNCHANGED <<put, taken, locked>>

QueueNext ==
  \/ Put
  \/ ProducerFails
  \/ \E c \in Consumer : Get(c) \/ Commit(c) \/ CommitFails(c)
  \/ GatherReturns
  \/ GatherRaises
  \/ Release
  \/ Close

QueueSpec == QueueInit /\ [][QueueNext]_queueVars

\* The event loop runs every task that can run, and asyncio.run its last step.
FairQueueSpec == QueueSpec /\ WF_queueVars(QueueNext)

-----------------------------------------------------------------------------
\* When import_data returns, and with it the file counts as imported
\* (gtfs_dataset.py:99-110), every batch of the file is in the table, whichever
\* consumers the batches and the Nones went to.
ImportedIsComplete == main = "returned" => committed = Batch

\* Every batch the consumers took is in the table or in the hands of a
\* consumer, but for at most one per consumer that failed or was cancelled.
Missing == {b \in Batch : b <= taken /\ b \notin committed /\ \A c \in Consumer : held[c] # b}
Ended == {c \in Consumer : task[c] \in {"failed", "cancelled"}}

LossIsBounded == Cardinality(Missing) <= Cardinality(Ended)

\* The inductive invariant: a consumer holds a batch exactly while it commits it,
\* a None lies behind all batches, and gather returns when all is done.
HeldWhileCommitting == \A c \in Consumer : held[c] # 0 <=> task[c] = "committing"
PuttingHasMore == producer = "putting" => put < Items
DoneIsPast == \A c \in Consumer : task[c] = "done" => taken > Batches
ReturnedIsDone == main = "returned" => AllDone

QueueInv ==
  /\ QueueTypeOK
  /\ HeldWhileCommitting /\ PuttingHasMore /\ DoneIsPast /\ ReturnedIsDone
  /\ LossIsBounded

\* The command comes to an end whatever fails, also when every consumer is gone
\* and the producer waits for room in a full queue.
Terminates == <>(main = "closed")
=============================================================================
