---------------------------- MODULE StopFeatures ----------------------------
(***************************************************************************)
(* The table stop_feature and the two imports that change it.  The script   *)
(* deployment_linux/tfi_stop_features_checker.sh downloads, compares dates, *)
(* unpacks and runs importstopfeatures, which takes no lock: it deletes the *)
(* dataset's features in one transaction and inserts the new ones in        *)
(* another.  The static import replaces the stops that features refer to,   *)
(* and the foreign key takes the features with them.                        *)
(*                                                                          *)
(* Archives are numbered as they are published, 0 is none; a date is the    *)
(* number of its archive, and the files of one are unpacked, and the stops  *)
(* loaded, in one step.  Of the static import there are only the steps on   *)
(* the table stop; its lock keeps its runs apart, so there is one.          *)
(***************************************************************************)
EXTENDS Naturals, FiniteSets

CONSTANTS
  Scripts,     \* slots of runs of the script
  MaxArchives, \* bound: archives published
  MaxImports,  \* bound: static imports
  MaxForced,   \* bound: runs started with -f
  MaxFaults    \* bound: failures and kills

ASSUME BoundAssumption ==
  {MaxArchives, MaxImports, MaxForced, MaxFaults} \subseteq Nat /\ MaxArchives > 0

VARIABLES
  archive,  \* ptims.zip at the provider
  zip,      \* the archive in DOWNLOAD_DIR
  date,     \* the stops.geojson extracted from it
  dir,      \* the archive unpacked into EXISTING_DIR
  shared,   \* whether the table stop holds stops of another dataset as well
  stops,    \* whether it holds the stops of this dataset
  static,   \* whether a static import is between clearing and loading it
  copies,   \* the archive whose features each slot has put into the table, or 0
  pc,       \* where each run of the script is
  content,  \* the archive whose files it has read
  known,    \* whether it found the stops in the table
  replaced, \* runs whose stops were replaced after they had read them
  forced,   \* runs started with -f
  imports, forces, faults, \* what the bounds count
  lost,     \* history: the table lacks what has been unpacked
  met       \* history: importstopfeatures cleared the table inside another run

vars == <<archive, zip, date, dir, shared, stops, static, copies, pc, content, known,
          replaced, forced, imports, forces, faults, lost, met>>
fileVars == <<zip, date, dir>>
tableVars == <<stops, static, copies, imports>>
runVars == <<content, known, replaced, forced>>

-----------------------------------------------------------------------------
Places == {"idle", "downloading", "extracting", "comparing", "reading", "clearing",
           "looking", "inserting", "announcing"}

TypeOK ==
  /\ archive \in 1..MaxArchives /\ zip \in 0..archive
  /\ date \in 0..zip /\ dir \in 0..zip
  /\ {shared, stops, static, lost, met} \subseteq BOOLEAN
  /\ copies \in [Scripts -> 0..dir]
  /\ pc \in [Scripts -> Places]
  /\ content \in [Scripts -> 0..dir]
  /\ known \in [Scripts -> BOOLEAN]
  /\ replaced \subseteq {r \in Scripts : pc[r] = "inserting"}
  /\ forced \subseteq Scripts
  /\ imports \in 0..MaxImports /\ forces \in 0..MaxForced /\ faults \in 0..MaxFaults

NoCopies == [r \in Scripts |-> 0]

\* A timetable has been imported, features never.
Init ==
  /\ archive = 1 /\ zip = 0 /\ date = 0 /\ dir = 0
  /\ shared \in BOOLEAN /\ stops = TRUE /\ static = FALSE
  /\ copies = NoCopies
  /\ pc = [r \in Scripts |-> "idle"]
  /\ content = [r \in Scripts |-> 0]
  /\ known = [r \in Scripts |-> FALSE]
  /\ replaced = {} /\ forced = {}
  /\ imports = 0 /\ forces = 0 /\ faults = 0
  /\ lost = FALSE /\ met = FALSE

Goto(r, place) == pc' = [pc EXCEPT ![r] = place]

Ends(r) ==
  /\ Goto(r, "idle")
  /\ content' = [content EXCEPT ![r] = 0]
  /\ known' = [known EXCEPT ![r] = FALSE]
  /\ replaced' = replaced \ {r}
  /\ forced' = forced \ {r}

Fault == faults < MaxFaults /\ faults' = faults + 1

-----------------------------------------------------------------------------
(* The script.                                                              *)

Publish ==
  /\ archive < MaxArchives
  /\ archive' = archive + 1
  /\ UNCHANGED <<fileVars, shared, tableVars, pc, runVars, forces, faults, lost, met>>

StartNightly(r) ==
  /\ pc[r] = "idle"
  /\ Goto(r, "downloading")
  /\ UNCHANGED <<archive, fileVars, shared, tableVars, runVars, forces, faults, lost, met>>

\* A person runs the script with -f.
StartForced(r) ==
  /\ pc[r] = "idle" /\ forces < MaxForced
  /\ forces' = forces + 1
  /\ forced' = forced \union {r}
  /\ Goto(r, "downloading")
  /\ UNCHANGED <<archive, fileVars, shared, tableVars, content, known, replaced, faults,
                 lost, met>>

Download(r) ==
  /\ pc[r] = "downloading"
  /\ zip' = archive
  /\ Goto(r, "extracting")
  /\ UNCHANGED <<archive, date, dir, shared, tableVars, runVars, forces, faults, lost, met>>

\* The script goes on with the archive it has.
DownloadFails(r) ==
  /\ pc[r] = "downloading"
  /\ Fault
  /\ Goto(r, "extracting")
  /\ UNCHANGED <<archive, fileVars, shared, tableVars, runVars, forces, lost, met>>

Extract(r) ==
  /\ pc[r] = "extracting"
  /\ date' = zip
  /\ Goto(r, "comparing")
  /\ UNCHANGED <<archive, zip, dir, shared, tableVars, runVars, forces, faults, lost, met>>

\* Mutant: the dates are compared the other way round.
ToUpdateIfOlder(r) == r \in forced \/ date < dir

\* Strings of stat -c %y, compared as such.
ToUpdate(r) == r \in forced \/ date > dir

NothingToDo(r) ==
  /\ pc[r] = "comparing" /\ ~ToUpdate(r)
  /\ Ends(r)
  /\ UNCHANGED <<archive, fileVars, shared, tableVars, forces, faults, lost, met>>

\* The dates say that there is something new, or -f does: unzip -o.
Unpack(r) ==
  /\ pc[r] = "comparing" /\ ToUpdate(r)
  /\ dir' = zip
  /\ lost' = TRUE
  /\ Goto(r, "reading")
  /\ UNCHANGED <<archive, zip, date, shared, tableVars, runVars, forces, faults, met>>

-----------------------------------------------------------------------------
(* importstopfeatures.                                                      *)

\* The four files are read before anything is cleared.
ReadFiles(r) ==
  /\ pc[r] = "reading" /\ dir # 0
  /\ content' = [content EXCEPT ![r] = dir]
  /\ Goto(r, "clearing")
  /\ UNCHANGED <<archive, fileVars, shared, tableVars, known, replaced, forced, forces,
                 faults, lost, met>>

\* There are no files: the command ends before it has cleared anything.
FilesMissing(r) ==
  /\ pc[r] = "reading" /\ dir = 0
  /\ Ends(r)
  /\ UNCHANGED <<archive, fileVars, shared, tableVars, forces, faults, lost, met>>

\* A transaction of its own, which leaves the copies `left'.
Clears(r, left) ==
  /\ pc[r] = "clearing"
  /\ copies' = left
  /\ lost' = TRUE
  /\ met' = (\E q \in Scripts \ {r} : pc[q] \in {"looking", "inserting"})
  /\ Goto(r, "looking")
  /\ UNCHANGED <<archive, fileVars, shared, stops, static, imports, runVars, forces,
                 faults>>

\* Mutant: the features of earlier runs stay.
ClearNothing(r) == Clears(r, copies)

\* clear_database: the features of the dataset, whoever put them there.
ClearDatabase(r) == Clears(r, NoCopies)

\* The second transaction begins: which stops are there?
ReadStops(r) ==
  /\ pc[r] = "looking"
  /\ known' = [known EXCEPT ![r] = stops]
  /\ Goto(r, "inserting")
  /\ UNCHANGED <<archive, fileVars, shared, tableVars, content, replaced, forced, forces,
                 faults, lost, met>>

\* The transaction that ReadStops began is committed.
Inserts(r) ==
  /\ pc[r] = "inserting" /\ (known[r] => stops)
  /\ copies' = [copies EXCEPT ![r] = IF known[r] THEN content[r] ELSE 0]
  /\ lost' = (~known[r] \/ content[r] # dir)
  /\ Goto(r, "announcing")
  /\ UNCHANGED <<archive, fileVars, shared, stops, static, imports, content, known,
                 forced, forces, faults, met>>

\* add_all and commit.  Without known stops nothing is inserted, and the run
\* goes on all the same; with them, the foreign key must find every one.
Insert(r) == Inserts(r) /\ replaced' = replaced \ {r}

\* A stop is gone, or not part of the new timetable.
ForeignKeyFails(r) ==
  /\ pc[r] = "inserting" /\ known[r] /\ (~stops \/ r \in replaced)
  /\ lost' = TRUE
  /\ Ends(r)
  /\ UNCHANGED <<archive, fileVars, shared, tableVars, forces, faults, met>>

\* The event that the features were updated, and the end.
Announce(r) ==
  /\ pc[r] = "announcing"
  /\ Ends(r)
  /\ UNCHANGED <<archive, fileVars, shared, tableVars, forces, faults, lost, met>>

\* An exception, or the process is killed: PostgreSQL undoes the transaction
\* under way.
Fail(r) ==
  /\ pc[r] # "idle"
  /\ Fault
  /\ Ends(r)
  /\ UNCHANGED <<archive, fileVars, shared, tableVars, forces, lost, met>>

-----------------------------------------------------------------------------
(* The static import, and the table stop.                                   *)

\* What happens to the stops, whatever the foreign key does.
StopsCleared ==
  /\ ~static /\ imports < MaxImports
  /\ shared \/ \A r \in Scripts : pc[r] # "inserting"
  /\ imports' = imports + 1
  /\ stops' = FALSE /\ static' = TRUE
  /\ replaced' = {r \in Scripts : pc[r] = "inserting"}
  /\ lost' = TRUE
  /\ UNCHANGED <<archive, fileVars, shared, pc, content, known, forced, forces, faults, met>>

\* Mutant: the foreign key does not cascade.
ClearStopsOnly == StopsCleared /\ UNCHANGED copies

\* clear_table.  TRUNCATE CASCADE, chosen if the stops are the only ones, waits
\* for transactions that have read the table; DELETE does not.  Either takes
\* the features of the stops.
ClearStops == StopsCleared /\ copies' = NoCopies

\* The import of stops.txt.
LoadStops ==
  /\ static
  /\ stops' = TRUE /\ static' = FALSE
  /\ UNCHANGED <<archive, fileVars, shared, copies, imports, pc, runVars, forces, faults,
                 lost, met>>

\* It fails: the stops stay away until an import succeeds.
LoadFails ==
  /\ static
  /\ Fault
  /\ static' = FALSE
  /\ UNCHANGED <<archive, fileVars, shared, stops, copies, imports, pc, runVars, forces,
                 lost, met>>

-----------------------------------------------------------------------------
Step(r) ==
  \/ Download(r) \/ Extract(r) \/ NothingToDo(r) \/ Unpack(r)
  \/ ReadFiles(r) \/ FilesMissing(r) \/ ClearDatabase(r) \/ ReadStops(r)
  \/ Insert(r) \/ ForeignKeyFails(r) \/ Announce(r)

Next ==
  \/ Publish \/ ClearStops \/ LoadStops \/ LoadFails
  \/ \E r \in Scripts :
       StartNightly(r) \/ StartForced(r) \/ Step(r) \/ DownloadFails(r) \/ Fail(r)

\* The script runs every night (index.html:80), what runs goes on.  Nobody has
\* to publish an archive, to import a timetable or to use -f.
Fairness ==
  /\ WF_vars(\E r \in Scripts : StartNightly(r))
  /\ \A r \in Scripts : WF_vars(Step(r))
  /\ WF_vars(LoadStops \/ LoadFails)

Spec == Init /\ [][Next]_vars /\ Fairness

-----------------------------------------------------------------------------
InTable == {r \in Scripts : copies[r] # 0}

\* A stop has the features of one run only, as StopModel.stop_feature takes for
\* granted: they are deleted before they are inserted.  Nothing else keeps two
\* copies out of the table - there is no lock and no unique key - so two runs
\* that meet can leave both (stop_features_importer.py:42-52, cli.py:445-449).
OneCopy == met \/ Cardinality(InTable) <= 1

\* Features refer to stops that are there, whichever way a static import clears
\* the stops while features are being inserted (stop_feature_model.py:26-28,
\* gtfs_importers.py:218-234).
FeaturesHaveStops == InTable # {} => stops

UpToDate == \E r \in Scripts : copies[r] = archive

\* The inductive invariant: unless runs met, one run at most is between clearing
\* and inserting, and the table is empty while it is.
Between == {r \in Scripts : pc[r] \in {"looking", "inserting"}}
AloneInBetween ==
  \/ met
  \/ /\ \A q, r \in Between : q = r
     /\ Between # {} => InTable = {}
     /\ \A q, r \in InTable : q = r

IInv == TypeOK /\ AloneInBetween /\ FeaturesHaveStops

\* When archives, static imports and faults are over, the table shows the last
\* archive for good, unless what was unpacked was lost
\* (tfi_stop_features_checker.sh:18-29).
CatchesUp == <>[](lost \/ UpToDate)

\* "Stop Features ... Nightly (if needed)" (templates/index.html:72-80): while
\* the stops are there, the table sooner or later shows their features.
NightlyIfNeeded == <>[](stops => UpToDate)
=============================================================================
