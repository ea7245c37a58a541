---------------------------- MODULE StaticImport ----------------------------
(***************************************************************************)
(* The static timetable's way from the provider to the tables: the nightly  *)
(* script deployment_linux/gtfs_tfi_checker.sh (download, compare dates,    *)
(* unpack, importgtfs), the loop of import_gtfs_dataset over the files, the *)
(* strategies of clear_table and the secondary indexes of the COPY imports. *)
(*                                                                          *)
(* A Script slot runs the script, for the dataset TFI; a Manual slot is an  *)
(* importgtfs that a person starts on another directory.  Feeds are numbered*)
(* as they are published; a date is the number of the feed it belongs to.   *)
(* A table shows, for each dataset, the feed its rows are from, and 0 when  *)
(* it has none of a file's rows or only a part of them (BatchQueue tells    *)
(* what is in the part).  The realtime tables that an import clears first   *)
(* are left to CliJobs and SnapshotCopy, cached pages to the TTLs.  The lock*)
(* is kept as its holder, for runs shorter than its four hours.             *)
(***************************************************************************)
EXTENDS Naturals, Sequences, FiniteSets

CONSTANTS
  Scripts,   \* slots of runs of the script
  Manual,    \* slots of importgtfs -dir <another directory>
  FileSeq,   \* FILES_TO_IMPORT, the first one agency.txt, or a part of it
  CopyFiles, \* the files that are imported by COPY
  Nobody,    \* the lock is free
  Orphan,    \* the lock's holder was killed: it stays until its TTL is over
  MaxFeeds,  \* bound: feeds published
  MaxManual, \* bound: commands that a person starts
  MaxFaults  \* bound: failures and kills, all together

Runs == Scripts \union Manual
FileIndex == 1..Len(FileSeq)
Files == {FileSeq[i] : i \in FileIndex}

ASSUME SlotAssumption == Scripts \intersect Manual = {}
ASSUME LockAssumption == {Nobody, Orphan} \intersect Runs = {} /\ Nobody # Orphan
ASSUME FileAssumption ==
  /\ FileSeq \in Seq(STRING) /\ Len(FileSeq) > 0 /\ FileSeq[1] = "agency"
  /\ \A i, j \in FileIndex : FileSeq[i] = FileSeq[j] => i = j
  /\ CopyFiles \subseteq Files
ASSUME BoundAssumption == {MaxFeeds, MaxManual, MaxFaults} \subseteq Nat /\ MaxFeeds > 0

VARIABLES
  feed,      \* the feed the provider offers
  zip,       \* the archive in DOWNLOAD_DIR
  date,      \* the agency.txt extracted from it
  dir,       \* the files in EXISTING_DIR; 0: there is none
  table,     \* the feed that each dataset's rows of a table are from
  missing,   \* tables without their secondary indexes
  lock,      \* holder of gtfs_static_import
  pc,        \* where each run is
  at,        \* the file of FileSeq an import is at
  todo,      \* the files a script has yet to unpack
  opened,    \* the archive it unpacks
  others,    \* whether clear_table saw rows of another dataset
  forced,    \* runs started with -f
  manual,    \* commands a person has started
  faults,    \* faults so far
  lost,      \* history: an unpacked feed did not, or not as one, reach the tables
  disturbed, \* history: imports whose files were not all there, of one feed, throughout
  broken     \* history: tables whose indexes a kill or a failed rebuild took

fileVars == <<zip, date, dir>>
tableVars == <<table, missing, broken>>
runVars == <<at, todo, opened, others, forced>>
counters == <<feed, manual, faults>>
vars == <<feed, zip, date, dir, table, missing, lock, pc, at, todo, opened,
          others, forced, manual, faults, lost, disturbed, broken>>

-----------------------------------------------------------------------------
Datasets == {"TFI", "OTHER"}
DatasetOf(r) == IF r \in Scripts THEN "TFI" ELSE "OTHER"

\* The version of file f that run r would read now.
Source(r, f) == IF r \in Scripts THEN dir[f] ELSE 1
File(r) == FileSeq[at[r]]

Loading == {"choosing", "clearing", "dropping", "copying", "rebuilding",
            "unwinding", "loading"}
Importing(r) == pc[r] \in Loading \union {"announcing", "leaving"}

TypeOK ==
  /\ feed \in 1..MaxFeeds /\ zip \in 0..feed /\ date \in 0..zip
  /\ dir \in [Files -> 0..zip]
  /\ table \in [Datasets -> [Files -> 0..feed]]
  /\ missing \subseteq CopyFiles /\ broken \subseteq missing
  /\ lock \in Runs \union {Nobody, Orphan}
  /\ pc \in [Runs -> Loading \union
              {"idle", "downloading", "extracting", "comparing", "unpacking",
               "acquiring", "announcing", "leaving"}]
  /\ at \in [Runs -> FileIndex]
  /\ todo \in [Runs -> SUBSET Files]
  /\ opened \in [Runs -> 0..zip]
  /\ others \in [Runs -> BOOLEAN]
  /\ forced \subseteq Scripts /\ disturbed \subseteq Runs
  /\ manual \in 0..MaxManual /\ faults \in 0..MaxFaults
  /\ lost \in BOOLEAN

\* Nothing downloaded, unpacked or imported yet.
Init ==
  /\ feed = 1 /\ zip = 0 /\ date = 0
  /\ dir = [f \in Files |-> 0]
  /\ table = [d \in Datasets |-> [f \in Files |-> 0]]
  /\ missing = {} /\ broken = {}
  /\ lock = Nobody
  /\ pc = [r \in Runs |-> "idle"]
  /\ at = [r \in Runs |-> 1]
  /\ todo = [r \in Runs |-> {}]
  /\ opened = [r \in Runs |-> 0]
  /\ others = [r \in Runs |-> FALSE]
  /\ forced = {} /\ disturbed = {}
  /\ manual = 0 /\ faults = 0
  /\ lost = FALSE

-----------------------------------------------------------------------------
(* The script.  It does not stop at a command that fails.                   *)

Goto(r, place) == pc' = [pc EXCEPT ![r] = place]

\* The run is over; its locals are gone.
Ends(r) ==
  /\ Goto(r, "idle")
  /\ at' = [at EXCEPT ![r] = 1]
  /\ todo' = [todo EXCEPT ![r] = {}]
  /\ opened' = [opened EXCEPT ![r] = 0]
  /\ others' = [others EXCEPT ![r] = FALSE]
  /\ forced' = forced \ {r}
  /\ disturbed' = disturbed \ {r}

Fault == faults < MaxFaults /\ faults' = faults + 1

\* The provider publishes a feed.
Publish ==
  /\ feed < MaxFeeds
  /\ feed' = feed + 1
  /\ UNCHANGED <<fileVars, tableVars, runVars, lock, pc, manual, faults, lost, disturbed>>

StartNightly(r) ==
  /\ pc[r] = "idle"
  /\ Goto(r, "downloading")
  /\ UNCHANGED <<fileVars, tableVars, runVars, counters, lock, lost, disturbed>>

\* A person runs the script with -f.
StartForced(r) ==
  /\ pc[r] = "idle" /\ manual < MaxManual
  /\ manual' = manual + 1
  /\ forced' = forced \union {r}
  /\ Goto(r, "downloading")
  /\ UNCHANGED <<fileVars, tableVars, feed, faults, lock, at, todo, opened, others,
                 lost, disturbed>>

\* wget -N: nothing is written unless the server's archive is newer.
Download(r) ==
  /\ pc[r] = "downloading"
  /\ zip' = feed
  /\ Goto(r, "extracting")
  /\ UNCHANGED <<date, dir, tableVars, runVars, counters, lock, lost, disturbed>>

DownloadFails(r) ==
  /\ pc[r] = "downloading"
  /\ Fault
  /\ Goto(r, "extracting")
  /\ UNCHANGED <<fileVars, tableVars, runVars, feed, manual, lock, lost, disturbed>>

\* Mutant: the date of the last extraction stays.
ExtractNothing(r) ==
  /\ pc[r] = "extracting"
  /\ Goto(r, "comparing")
  /\ UNCHANGED <<fileVars, tableVars, runVars, counters, lock, lost, disturbed>>

\* unzip keeps the date a file has in the archive.
Extract(r) ==
  /\ pc[r] = "extracting"
  /\ date' = zip
  /\ Goto(r, "comparing")
  /\ UNCHANGED <<zip, dir, tableVars, runVars, counters, lock, lost, disturbed>>

ToUpdate(r) == r \in forced \/ date > dir["agency"]

NothingToDo(r) ==
  /\ pc[r] = "comparing" /\ ~ToUpdate(r)
  /\ Ends(r)
  /\ UNCHANGED <<fileVars, tableVars, counters, lock, lost>>

Compare(r) ==
  /\ pc[r] = "comparing" /\ ToUpdate(r)
  /\ todo' = [todo EXCEPT ![r] = Files]
  /\ opened' = [opened EXCEPT ![r] = zip]
  /\ Goto(r, "unpacking")
  /\ UNCHANGED <<fileVars, tableVars, counters, lock, at, others, forced, lost, disturbed>>

\* One file is replaced; imports that are under way may read the old or the
\* new one.
UnpackFile(r, f) ==
  /\ pc[r] = "unpacking" /\ f \in todo[r] /\ zip = opened[r]
  /\ dir' = [dir EXCEPT ![f] = zip]
  /\ todo' = [todo EXCEPT ![r] = @ \ {f}]
  /\ Goto(r, IF todo[r] = {f} THEN "acquiring" ELSE "unpacking")
  /\ disturbed' = IF dir[f] = zip THEN disturbed
                  ELSE disturbed \union {i \in Scripts : Importing(i)}
  /\ UNCHANGED <<zip, date, tableVars, counters, lock, at, opened, others, forced, lost>>

\* unzip gives up: the archive was overwritten under it, or it fails.  The
\* next command is importgtfs all the same.
UnpackStops(r) ==
  /\ pc[r] = "unpacking"
  /\ \/ zip # opened[r] /\ UNCHANGED faults
     \/ Fault
  /\ todo' = [todo EXCEPT ![r] = {}]
  /\ lost' = TRUE
  /\ Goto(r, "acquiring")
  /\ UNCHANGED <<fileVars, tableVars, feed, manual, lock, at, opened, others, forced,
                 disturbed>>

-----------------------------------------------------------------------------
(* importgtfs.                                                              *)

StartOther(r) ==
  /\ pc[r] = "idle" /\ manual < MaxManual
  /\ manual' = manual + 1
  /\ Goto(r, "acquiring")
  /\ UNCHANGED <<fileVars, tableVars, runVars, feed, faults, lock, lost, disturbed>>

Begins(r) ==
  /\ lock' = r
  /\ disturbed' = IF \E f, g \in Files : Source(r, f) = 0 \/ Source(r, f) # Source(r, g)
                  THEN disturbed \union {r} ELSE disturbed
  /\ Goto(r, "choosing")
  /\ UNCHANGED <<fileVars, tableVars, runVars, counters, lost>>

\* Mutant: no lock is asked for.
AcquireAnyway(r) == pc[r] = "acquiring" /\ Begins(r)

\* try_acquire_lock.  The realtime tables are cleared before the first file.
Acquire(r) == pc[r] = "acquiring" /\ lock = Nobody /\ Begins(r)

\* Another import holds the lock: the command ends, with exit code 0.
Refused(r) ==
  /\ pc[r] = "acquiring" /\ lock # Nobody
  /\ lost' = (lost \/ r \in Scripts)
  /\ Ends(r)
  /\ UNCHANGED <<fileVars, tableVars, counters, lock>>

\* The loop goes on to the next file, or on to the event.
NextFile(r) ==
  IF at[r] < Len(FileSeq)
  THEN at' = [at EXCEPT ![r] = @ + 1] /\ Goto(r, "choosing")
  ELSE Goto(r, "announcing") /\ UNCHANGED at

\* The file does not exist: its table is kept as it is.
SkipFile(r) ==
  /\ pc[r] = "choosing" /\ Source(r, File(r)) = 0
  /\ NextFile(r)
  /\ UNCHANGED <<fileVars, tableVars, counters, lock, todo, opened, others, forced,
                 lost, disturbed>>

OtherDatasetExists(r) == \E d \in Datasets \ {DatasetOf(r)} : table[d][File(r)] # 0

\* clear_table, its first statement: are there rows of another dataset?
ChooseStrategy(r) ==
  /\ pc[r] = "choosing" /\ Source(r, File(r)) # 0
  /\ others' = [others EXCEPT ![r] = OtherDatasetExists(r)]
  /\ Goto(r, "clearing")
  /\ UNCHANGED <<fileVars, tableVars, counters, lock, at, todo, opened, forced,
                 lost, disturbed>>

Cleared(r, datasets) ==
  /\ table' = [d \in Datasets |-> IF d \in datasets
                                  THEN [table[d] EXCEPT ![File(r)] = 0] ELSE table[d]]
  /\ Goto(r, IF File(r) \in CopyFiles THEN "dropping" ELSE "loading")
  /\ UNCHANGED <<fileVars, missing, broken, runVars, counters, lock, lost, disturbed>>

\* Mutant: the strategies are swapped.
ClearTableSwapped(r) ==
  pc[r] = "clearing" /\ Cleared(r, IF others[r] THEN Datasets ELSE {DatasetOf(r)})

\* Its second statement: DELETE of this dataset's rows if there are others,
\* TRUNCATE of the table if not.
ClearTable(r) ==
  pc[r] = "clearing" /\ Cleared(r, IF others[r] THEN {DatasetOf(r)} ELSE Datasets)

ReadInto(r) == table' = [table EXCEPT ![DatasetOf(r)][File(r)] = Source(r, File(r))]

\* A file whose rows go through the ORM, as BatchQueue shows in detail.
Load(r) ==
  /\ pc[r] = "loading"
  /\ ReadInto(r)
  /\ NextFile(r)
  /\ UNCHANGED <<fileVars, missing, broken, counters, lock, todo, opened, others, forced,
                 lost, disturbed>>

DropIndexes(r) ==
  /\ pc[r] = "dropping"
  /\ missing' = missing \union {File(r)}
  /\ Goto(r, "copying")
  /\ UNCHANGED <<fileVars, table, broken, runVars, counters, lock, lost, disturbed>>

CopyFile(r) ==
  /\ pc[r] = "copying"
  /\ ReadInto(r)
  /\ Goto(r, "rebuilding")
  /\ UNCHANGED <<fileVars, missing, broken, runVars, counters, lock, lost, disturbed>>

Rebuilt(r) == missing' = missing \ {File(r)} /\ broken' = broken \ {File(r)}

\* finally, after a COPY that succeeded.
Rebuild(r) ==
  /\ pc[r] = "rebuilding"
  /\ Rebuilt(r)
  /\ NextFile(r)
  /\ UNCHANGED <<fileVars, table, counters, lock, todo, opened, others, forced,
                 lost, disturbed>>

\* The event that the data were updated.
Announce(r) ==
  /\ pc[r] = "announcing"
  /\ lost' = IF r \in Scripts THEN r \in disturbed ELSE lost
  /\ Goto(r, "leaving")
  /\ UNCHANGED <<fileVars, tableVars, runVars, counters, lock, disturbed>>

\* release_lock deletes the key only if it is still this run's.
Freed(r) == IF lock = r THEN Nobody ELSE lock

\* Cached pages are deleted and finally releases the lock.
Leave(r) ==
  /\ pc[r] = "leaving"
  /\ lock' = Freed(r)
  /\ Ends(r)
  /\ UNCHANGED <<fileVars, tableVars, counters, lost>>

-----------------------------------------------------------------------------
(* Failures.                                                                *)

\* An exception ends the command; what was done so far stays.
Raises(r) ==
  /\ lock' = Freed(r)
  /\ lost' = (lost \/ (r \in Scripts /\ pc[r] # "leaving"))
  /\ Ends(r)

Fail(r) ==
  /\ pc[r] \in {"choosing", "clearing", "dropping", "loading", "announcing", "leaving"}
  /\ Fault
  /\ Raises(r)
  /\ UNCHANGED <<fileVars, tableVars, feed, manual>>

\* Mutant: the exception is swallowed by finally.
CopyFailsQuietly(r) ==
  /\ pc[r] = "copying"
  /\ Fault
  /\ Goto(r, "rebuilding")
  /\ UNCHANGED <<fileVars, tableVars, runVars, feed, manual, lock, lost, disturbed>>

\* Mutant: there is no finally.
CopyFailsAtOnce(r) ==
  /\ pc[r] = "copying"
  /\ Fault
  /\ Raises(r)
  /\ UNCHANGED <<fileVars, tableVars, feed, manual>>

\* COPY fails: finally rebuilds the indexes and the exception goes on.
CopyFails(r) ==
  /\ pc[r] = "copying"
  /\ Fault
  /\ Goto(r, "unwinding")
  /\ UNCHANGED <<fileVars, tableVars, runVars, feed, manual, lock, lost, disturbed>>

Unwind(r) ==
  /\ pc[r] = "unwinding"
  /\ Rebuilt(r)
  /\ Raises(r)
  /\ UNCHANGED <<fileVars, table, counters>>

\* create_secondary_indexes fails, all of it: it is one transaction.
RebuildFails(r) ==
  /\ pc[r] \in {"rebuilding", "unwinding"}
  /\ Fault
  /\ broken' = broken \union (missing \intersect {File(r)})
  /\ Raises(r)
  /\ UNCHANGED <<fileVars, table, missing, feed, manual>>

\* The process, or the machine, dies: no finally.
Kill(r) ==
  /\ pc[r] # "idle"
  /\ Fault
  /\ lock' = IF lock = r THEN Orphan ELSE lock
  /\ broken' = IF pc[r] \in {"copying", "rebuilding", "unwinding"}
               THEN broken \union (missing \intersect {File(r)}) ELSE broken
  /\ lost' = (lost \/ (r \in Scripts /\ pc[r] \notin
                 {"downloading", "extracting", "comparing", "leaving"}))
  /\ Ends(r)
  /\ UNCHANGED <<fileVars, table, missing, feed, manual>>

\* The lock's TTL is over.
Expire ==
  /\ lock = Orphan
  /\ lock' = Nobody
  /\ UNCHANGED <<fileVars, tableVars, runVars, counters, pc, lost, disturbed>>

\* The command recreate_indexes, on all tables, in one transaction.
RecreateIndexes ==
  /\ manual < MaxManual
  /\ manual' = manual + 1
  /\ missing' = {} /\ broken' = {}
  /\ UNCHANGED <<fileVars, table, runVars, feed, faults, lock, pc, lost, disturbed>>

-----------------------------------------------------------------------------
ScriptStep(r) ==
  \/ Download(r) \/ Extract(r) \/ NothingToDo(r) \/ Compare(r)
  \/ \E f \in Files : UnpackFile(r, f)
  \/ zip # opened[r] /\ UnpackStops(r)

ImportStep(r) ==
  \/ Acquire(r) \/ Refused(r) \/ SkipFile(r) \/ ChooseStrategy(r) \/ ClearTable(r)
  \/ Load(r) \/ DropIndexes(r) \/ CopyFile(r) \/ Rebuild(r) \/ Unwind(r)
  \/ Announce(r) \/ Leave(r)

Next ==
  \/ Publish \/ Expire \/ RecreateIndexes
  \/ \E r \in Scripts :
       \/ StartNightly(r) \/ StartForced(r) \/ ScriptStep(r)
       \/ DownloadFails(r) \/ UnpackStops(r)
  \/ \E r \in Manual : StartOther(r)
  \/ \E r \in Runs :
       ImportStep(r) \/ Fail(r) \/ CopyFails(r) \/ RebuildFails(r) \/ Kill(r)

\* cron starts the script every night (README.md:67), a process that runs goes
\* on, and keys expire.  Nobody has to publish a feed or to start a command.
Fairness ==
  /\ WF_vars(\E r \in Scripts : StartNightly(r))
  /\ \A r \in Scripts : WF_vars(ScriptStep(r))
  /\ \A r \in Runs : WF_vars(ImportStep(r))
  /\ WF_vars(Expire)

Spec == Init /\ [][Next]_vars /\ Fairness

-----------------------------------------------------------------------------
\* An import that gets to its event has replaced every table by its own file,
\* all of one feed, unless the directory changed under it, or lacked files or
\* held files of several feeds when it began: the lock keeps every other import away from
\* the tables for as long as the loop takes (cli.py:185-197,
\* gtfs_dataset.py:64-110).
CompletedIsWhole ==
  \A r \in Runs :
    (pc[r] \in {"announcing", "leaving"} /\ r \notin disturbed) =>
       \A f \in Files : Source(r, f) # 0 /\ table[DatasetOf(r)][f] = Source(r, f)

\* While no import runs, the tables of TFI show one feed, unless an import was
\* refused, failed or met a changing directory since the last one that was
\* announced whole (gtfs_dataset.py:64-110).
TablesOfOneFeed ==
  (\A r \in Scripts : ~Importing(r)) =>
     lost \/ \A f, g \in Files : table["TFI"][f] = table["TFI"][g]

\* The rows of a dataset change only at the hands of the import of that dataset
\* that holds the lock: TRUNCATE is chosen by a look at the table that must
\* still be true when the table is truncated (gtfs_importers.py:218-234).
OtherDatasetKept ==
  [][\A d \in Datasets : table'[d] # table[d] =>
       \E r \in Runs : lock = r /\ DatasetOf(r) = d /\ pc[r] \in Loading]_vars

\* A table is without its indexes only during its COPY, or after a process was
\* killed in it or the rebuild itself failed, and then until the next rebuild
\* (gtfs_importers.py:377-381).
IndexesComeBack ==
  missing \subseteq broken \union
     {File(r) : r \in {x \in Runs : pc[x] \in {"copying", "rebuilding", "unwinding"}}}

\* The inductive invariant: the loop begins at the first file and leaves the
\* indexes of other files alone, only the holder of the lock imports, ...
LoopPlaces ==
  \A r \in Runs : /\ ~Importing(r) => at[r] = 1
                  /\ pc[r] = "dropping" => File(r) \in CopyFiles

LockHeld == \A r \in Runs : Importing(r) => lock = r

\* ... what it saw of the other dataset is still true when it clears a table, ...
OthersKnown ==
  \A r \in Runs : pc[r] = "clearing" /\ ~others[r] => ~OtherDatasetExists(r)

\* ... the files it is through with are in the tables, of one feed, ...
Loaded(r) ==
  {i \in FileIndex : \/ i < at[r]
                     \/ i = at[r] /\ pc[r] = "rebuilding"
                     \/ pc[r] \in {"announcing", "leaving"}}
OfOneFeed(r) ==
  /\ \A f, g \in Files : Source(r, f) # 0 /\ Source(r, f) = Source(r, g)
  /\ \A i \in Loaded(r) : table[DatasetOf(r)][FileSeq[i]] = Source(r, FileSeq[i])
LoadedSoFar == \A r \in Runs : Importing(r) /\ r \notin disturbed => OfOneFeed(r)

\* ... and so are all the tables once it has told so.
OneFeedUnlessImporting ==
  (\A r \in Scripts : pc[r] \notin Loading \union {"announcing"}) =>
     lost \/ \A f, g \in Files : table["TFI"][f] = table["TFI"][g]

IInv ==
  /\ TypeOK /\ LoopPlaces /\ LockHeld /\ OthersKnown
  /\ LoadedSoFar /\ OneFeedUnlessImporting /\ IndexesComeBack

UpToDate == \A f \in Files : table["TFI"][f] = feed

\* When feeds, faults and manual commands are over, the tables show the last
\* feed for good, unless an unpacked feed was lost (gtfs_tfi_checker.sh:19-33).
CatchesUp == <>[](lost \/ UpToDate)

=============================================================================
