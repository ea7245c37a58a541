# A TLA+ development of SimplyTransport

SimplyTransport imports the GTFS timetable of Ireland's public transport and its
realtime feed into PostgreSQL, records delays in a Timescale database, and serves
timetables, departures and maps over HTTP. This directory holds TLA+ models of the
parts of it in which something can go wrong between steps, the TLC runs that check
them on small instances, and theorems about them that TLAPS has checked.

Line numbers refer to the files under `src/`; `PROJECT.json` gives, for every
definition that models code, the lines it stands for, and lists the hazards of the
code at the lines where they bite.

## 1. The system

### 1.1 Components

| component | state it keeps | operations | where |
|---|---|---|---|
| Redis mutex and semaphore | one Redis key per lock: a string with a TTL, or a sorted set of leases | acquire, release, expiry | `lib/concurrency.py` |
| CLI jobs | none of their own; the locks and tables below | `importgtfs`, `importrealtime`, `importrealtimevehicles`, `seedrealtimefromfile`, `recorddelays`, cleanups, statistics, `flushredis` | `cli.py` |
| Static import | the static tables (agency ... shape), their secondary indexes | clear, batches through the ORM, COPY, event, cache invalidation | `lib/gtfs_dataset.py`, `lib/gtfs_importers.py`, `lib/db/services.py` |
| Realtime import | `rt_trip`, `rt_stop_time`, `rt_vehicle`, their id sequences | fetch with retries, look up, build records, replace a table | `lib/gtfs_realtime_importers.py` |
| Realtime overlay | none: reads the realtime tables | choose an update for every static stop time | `domain/realtime/realtime_schedule/` |
| Schedules | none: reads the static tables | query by day and window, calendar exceptions, sort | `domain/services/schedule_service.py`, `domain/schedule/schedule_repo.py` |
| Delay recording | the Timescale table, dedup keys in Redis | record, clean up | `timescale/` |
| Response cache | cached pages in Redis | fill on a request, delete by pattern, flush | `lib/cache.py`, `lib/cache_keys.py` |
| Access tokens | a cookie in the browser | issue, check, renew | `lib/auth.py`, `templates/base.html` |
| Statistics, events | two append-only tables | write counts or events, clean up | `domain/services/statistics_service.py`, `domain/events/` |
| Stop features | one table, with a foreign key to `stop` | clear, import | `lib/stop_features_importer.py` |
| Nightly scripts | the dates of two files each | download, compare, unpack, `importgtfs` or `importstopfeatures` | `deployment_linux/*_checker.sh` |
| Map frontend | the page: maps, popups, layer panels, flags on elements, the sorted tables | initialise once, refresh, open a popup, switch layers, sort | `static/static/js/`, `static/static/tablesort.js` |
| Map service, controllers, telemetry | none | render, configure, log | `domain/services/map_service.py`, `controllers/`, `lib/` |

### 1.2 How they interact

cron starts the realtime commands every minute (`README.md:68`) and the nightly scripts,
which start `importgtfs` and `importstopfeatures` when their archive is newer than the one
they have unpacked. They are processes of their own; what they share is Redis (locks,
cached pages and dedup keys in one database) and PostgreSQL. Every command with
`@concurrency(1)` takes the mutex of its own name. `importgtfs` takes the lock
`gtfs_static_import`; the realtime commands only *look* at that lock before they start
(`skip_if_lock_held`). The static import first truncates the realtime tables and then
replaces the static tables one after the other; the realtime import resolves the trips
and stops of the feed against the static tables and then replaces `rt_trip` and
`rt_stop_time`, each in a transaction of its own. The web process reads all of it and
caches what it renders in Redis; the commands delete cached pages by pattern when they
are through. In the browser, htmx swaps bodies into one document and keeps old ones
for the history; the scripts of the maps are loaded with a body and outlive it.

### 1.3 What is hard, and what correctness means

* **Locks.** A holder can crash, outlive its TTL, lose an answer of Redis, release late,
  or lose its key to `flushredis`. Correct: never more than `limit` live leases, nobody
  takes another one's lease away, every grant ends.
* **Jobs.** A check and the action it guards are far apart; the seed does not look at
  all. Correct: one run per command; rows that refer to replaced static rows only where a
  run met a static import, and not for ever.
* **Static import.** Tasks of one event loop with a bounded queue; exceptions that leave
  other tasks running. Correct: what counts as imported is complete; what is lost is
  bounded; the command ends.
* **Realtime tables.** Two transactions for one logical replacement, sequences outside of
  transactions, two writers under different mutexes, truncation. Correct: a table shows
  one whole snapshot, ids are reserved, the tables belong to one run.
* **Partial failure.** A static import is a loop without a transaction around it, and the
  scripts remember an update by a file they write before it has succeeded. Correct: an
  import that reports success shows one whole feed; a dataset keeps to itself; indexes come
  back; what is published arrives, or it is known why not.
* **Stop features.** No lock, two transactions, and a foreign key that another import
  cascades through. Correct: one copy, of stops that are there, of the last archive.
* **Caches.** A page is rendered from rows read before a command commits and stored after
  the command has looked for keys to delete. Correct: a cached page that shows replaced
  rows is about to be deleted, or it is known why it is not; in the end pages are current.
* **Time.** Times of day without a date: windows, sort orders and countdowns over midnight.
  Correct: the board shows the departures of its window in their order, and the true
  minutes to them.
* **The page.** Several events start one map; a fetch may end in another page than the one
  that began it; one popup is filled by several requests. Correct: a page has its own map,
  once; Refresh removes what is there and comes back; a popup shows what was asked for;
  boxes tell what is hidden.

## 2. Modules

| module | models | extended by |
|---|---|---|
| `LeasePool` | what a lock promises, abstractly: at most `Limit` leases that end by themselves | instance in the next two |
| `RedisMutex` | `concurrency(1)`, `try_acquire_lock`, `release_lock` on one key | `MCRedisMutex`, `RedisMutexProofs` |
| `RedisSemaphore` | `concurrency(limit)`, `limit > 1`, with its Lua script | `MCRedisSemaphore`, `RedisSemaphoreProofs` |
| `CliJobs` | the commands as users of the locks and of the realtime tables | `MCCliJobs`, `CliJobsProofs` |
| `BatchQueue` | one file of a static import through producer, queue and consumers | `MCBatchQueue`, `StaticImportProofs` |
| `SnapshotCopy` | the transactions on `rt_trip` and `rt_stop_time` | `MCSnapshotCopy`, `SnapshotCopyProofs` |
| `StaticImport` | the nightly script, the loop over the files, `clear_table`, the indexes | `MCStaticImport`, `StaticImportProofs` |
| `StopFeatures` | the features' script and import, beside the static import's step on `stop` | `MCStopFeatures`, `StopFeaturesProofs` |
| `ResponseCache` | cached pages: fills by requests against the commands' commits and deletions | `MCResponseCache`, `SiteProofs` |
| `PageMaps` | the maps of a browser tab: what starts, refreshes, replaces and restores them | `MCPageMaps`, `MapFrontendProofs` |
| `LayerSwitches` | what a layer panel promises, abstractly: switches and one button for all of them | instance in `LayerPanel` |
| `LayerPanel` | the panels of the five maps: boxes, button, layers | `MapWidgets` |
| `MapWidgets` | a loaded map: its popups and its panel | `MCMapWidgets`, `MapFrontendProofs` |
| `VehicleHeading`, `RealtimeOverlay`, `DepartureTimes`, `TableSort` | pure functions: the heading of a vehicle's icon, the realtime row of a stop, a board over midnight, a sorted table | `Algorithms` |
| `Algorithms` | their inputs, and what the functions are to agree with | `MCAlgorithms`, `SiteProofs` |

Operators whose comment starts with *Mutant* are wrong variants of the operator that
follows; no specification uses them. They show which mistake each property would notice.

### 2.1 RedisMutex and RedisSemaphore

A *process* is a slot of successive runs. Its `pc` follows the wrapper
(`concurrency.py:187-223`): idle, acquiring (the command is under way), running (`func`),
releasing (`finally`). `token` is the wrapper's local variable. The key is `store`, a token
and its remaining time, or `members` with `left`, the time to the end of each lease; time
is relative, so no clock grows without bound. A token is drawn from those nobody uses,
which is what a uuid4 amounts to. Every answer of Redis can be lost, with the command
executed (`SetUnanswered`, `AcquireUnanswered`) or not; a release can be lost
(`ReleaseUnanswered`), a process can die anywhere (`Crash`), `func` can take any number of
ticks, and `flushredis` can delete the key at any time (`Flush`).

Two history variables say what the processes cannot see: `lease[p]` is the time left of
the lease Redis granted to the run of `p`, `exposure` the time until every lease that a
flush forgot has ended. A lease is what the mutex can promise; a process that runs on
after its lease is, as `concurrency.py:176-177` says, on its own.

Checked: `MutualExclusion` and `AtMostLimit` (live leases), `HolderKeepsKey` (a running
holder loses its key to time or a flush only: the compare-and-delete of
`concurrency.py:104-110`), `EveryGrantEnds` (nothing keeps an orphaned key alive),
`RefusedOnlyWhenFull` (lapsed members do not count), and that both are implementations of
`LeasePool` under the mapping `left`.

### 2.2 CliJobs

A *job* is a slot of runs of one command. Its `pc`: checking (`skip_if_lock_held`), locking,
and the body - clearing and loading for `importgtfs`; fetching, resolving and writing for
the realtime commands; leaving (event, deletion of cached pages, `finally`). A lock is kept
as its holder, the view `RedisMutex` justifies for runs shorter than their leases; `Orphan`
is a key whose holder died. Of the tables it keeps whether their rows were resolved
against the static rows of today (`current`) or against replaced ones (`outdated`). Faults
are bounded together: an exception in a body (`Fail`), a killed process (`Die`),
`flushredis`. History: `unguarded` (runs whose lock a flush deleted), `raced` (realtime runs
that met a static import) and `tainted` (tables last written by such a run).

Checked: `SameCommandExclusive`, `OutdatedOnlyByRace`, and `RealtimeCatchesUp`: after the
imports and faults are over, the tables that a cron line feeds end up current.

The comment at `cli.py:35` calls the lock of the static import a mutex "static GTFS import vs
realtime / delays jobs". It excludes less than that: a realtime job asks once, before it
takes its own lock, and an import may start right after. `OutdatedOnlyByRace` shows that this
race, and the seed that does not ask, are the only sources of outdated rows,
`RealtimeCatchesUp` that they do not stay.

### 2.3 BatchQueue

The queue is first in, first out, and the producer puts its batches in order and then one
`None` per consumer, so the queue is the items between two counters, `put` and `taken`;
item `n` is batch `n`, or a `None` past the last batch. A consumer commits one batch at a
time; a commit that raises has or has not taken place. `gather` raises the first exception
and leaves the others running (`GatherRaises`); `importgtfs` gives its lock back
(`Release`), and `asyncio.run` cancels what is left (`Close`), where a commit on its way may
still take place.

Checked: `ImportedIsComplete`, `LossIsBounded` (one batch for each failed consumer),
`Terminates`. In the tail of a failed import the table still changes after the lock has been
given back.

### 2.4 SnapshotCopy

A *writer* is a command, `importrealtime` or `seedrealtimefromfile`: the mutex of a command
keeps its runs apart, and nothing keeps the two commands apart. A run replaces `rt_trip`,
then `rt_stop_time`: DELETE (what it sees when it starts; it then waits for rows another
transaction has deleted), `nextval` and `setval` as two steps, COPY (which waits for
uncommitted rows with its keys or ids, and fails on committed ones), COMMIT. `Fail` rolls
the open transaction back wherever it is. `Truncate` is `clear_realtime_tables`, table by
table in one transaction, waiting for transactions that have touched the table. Whether
`RESTART IDENTITY` restarts a sequence depends on whether the table owns it, which the
sources leave open: both happen. What PostgreSQL does is modelled from its use here and
marked external in `PROJECT.json`.

Checked: `ShowsOneSnapshot`, `IdsAreReserved`, `TablesInStep` - each up to the runs that
met another run or a static import, which the history variables name. The docstring of
`snapshot_copy_table` says that the dataset's rows are replaced
(`gtfs_realtime_importers.py:172`); when `importrealtime` and `seedrealtimefromfile` meet, rows
that one commits after the other's DELETE has started stay beside the new ones.

### 2.5 StaticImport

A *script* slot runs `gtfs_tfi_checker.sh`, nightly or with `-f`; a *manual* slot is an
`importgtfs` on another directory, hence of another dataset. Feeds are numbered, and since
unzip keeps the dates of an archive, a date is the number of its feed: `feed` at the
provider, `zip` and `date` in the download directory, `dir`, file by file, where imports
read. The script's places are downloading, extracting, comparing, unpacking; those of an
import acquiring, then for each file choosing and clearing (the two statements of
`clear_table`), then loading, or dropping, copying and rebuilding for a file that goes
through COPY, at last announcing and leaving. `table` is, for each dataset and file, the
feed the rows are from; 0 stands for none or a part. `missing` are the tables without
indexes.

Any step of an import can raise (`Fail`; `CopyFails` and `Unwind` for the `finally` around
the COPY; `RebuildFails`) and a process can be killed anywhere (`Kill`), which leaves the
lock as `Orphan`. A download can fail and the script goes on with what it has; unpacking
can stop half way, also because another run overwrites the archive under it.
`recreate_indexes` is an action of its own. History: `lost`, set when an unpacked feed does
not reach the tables as one and reset when an import reports success on a whole feed;
`disturbed`, imports whose directory changed or was not of one feed; `broken`, tables whose
indexes a kill or a failed rebuild took.

Checked: `CompletedIsWhole`, `TablesOfOneFeed`, `OtherDatasetKept` (the look for other
datasets and the TRUNCATE it leads to are two statements, and only the lock holds them
together), `IndexesComeBack`, `CatchesUp`.

The script says that it updates the database if the data have been updated
(`gtfs_tfi_checker.sh:3`). It unpacks over the date it compares with before the import runs:
after one import that fails, or finds the lock taken, it takes the feed for imported and
does nothing until another one is published. `CatchesUp` states it with that reservation,
`lost`: such a loss is the only reason for tables that stay behind.

### 2.6 StopFeatures

The script's part as before, with the files of an archive unpacked in one step. The import
reads its files, clears the table in one transaction (`ClearDatabase`), asks in a second one
which stops there are (`ReadStops`) and inserts the features of those (`Insert`), or runs
into the foreign key (`ForeignKeyFails`). `copies` holds, for each slot, the archive whose
features it has put into the table. `ClearStops` is `clear_table` on `stop`: TRUNCATE CASCADE
waits for transactions that have read the table, DELETE, taken if the table is `shared` with
another dataset, does not; either takes the features along.

Checked: `OneCopy` (two copies only if two runs met: nothing excludes them),
`FeaturesHaveStops`, `CatchesUp`.

### 2.7 ResponseCache

A *family* stands for the pages of one template, whose keys one pattern matches. Three
tables of the module say what the handlers read, query by query (`Reads`), what each
transaction of a command changes (`Commits`) and which patterns the command deletes when it
is through (`Patterns`, from `cache_keys.py` and the callers; `*realtime:stop:*` also matches
the keys of `realtime:stop:table:`). A request misses, makes its queries one by one and
stores its page, whatever has happened meanwhile; a page expires at some time; a command
commits, asks for the keys of a pattern (`Keys`) and deletes those it was given (`Del`), one
pattern after the other (`importgtfs`) or all at once. A command can fail between any two
steps, Redis can be flushed. Of a page nothing is kept but which commands have replaced
rows it shows since they were read (`outdated`), and which of those will not delete it any
more (`missed`).

Checked: `NoneOutdatedUnnoticed` - an outdated page is about to be deleted, or its command
failed, or its command asked for keys while the page was being rendered from older rows, or
the command leaves such pages to expire. `LeftToExpire` lists the last: `importgtfs` leaves
the stop, table and trip pages, which live for two minutes at most; `importstopfeatures` and
`recorddelays` delete nothing, though pages with features and delays live for a day. A page
that was rendered across KEYS lives on for its whole lifetime, also up to a day, and so do
the pages filled from half-loaded tables while an import fails. `PagesCatchUp`: when no
command runs any more, pages end up current.

### 2.8 PageMaps

One tab and its document. The document has bodies, one after the other, as htmx swaps them;
each has its page, the state of its scripts, the mark on its element, its cleanup, its
panels and its button. A *job* is one call of an `initXMap`: its fetch, and the map it
builds into the body whose container it finds by id after the fetch. A *wait* is a
`whenMapLibreReady` or `whenMapWithPopupReady` that goes on until its libraries are there:
animation frames up to `FrameLimit`, `load`, then the fallback. The events are those of the
browser (`PopupScript`, `MapScript`, `Bundle`, `DOMContentLoaded`, `Load`, `Frame`), of htmx
(`Swap`, `Settle`, `Restore`) and of the user (`Refresh`). Where the five scripts differ is in a
record each: the libraries, the button, the panel.

Checked: `ShowsItsOwn`, `CleanupCovers`, `RefreshComesBack`, `MapArrives`. Their reservations
are behaviours of the code:

* A fetch, a wait or a map pending at a swap can build the map of the old page in the new
  one, whose container has the same id (`crossed`).
* htmx keeps the HTML of a body, with the mark "1" on its element and the disabled button.
  Coming back to it, the script takes the page for initialised: there is no map
  (`restored`).
* After a first request that failed, Refresh is enabled and does nothing: its handler is set
  only when a map has been built.

### 2.9 LayerPanel and MapWidgets

`LayerPanel` keeps the map's visible layers, the boxes that are checked and the `allOn` of the
button. A box sets the layers it names; the button inverts what it did last and sets boxes
and layers. The panels of a stop, a route and an agency each list layers twice, once for the
boxes and once for the button; the invariant `PanelMatchesMap` says that the boxes tell what
is hidden, and under it a panel implements `LayerSwitches`, independent switches with one
button for all (`PanelIsSwitches`).

`MapWidgets` adds the popups: a click on a layer closes the open popup (MapLibre's
`closeOnClick`, which has the last word), opens it at a stop with "Loading", and asks for the
stop's details; `Answer` and `Fail` put what came into the popup, whichever stop it is at by
then. `behind` remembers the requests that were under way when the popup was put there.

Checked: `ShowsWhatWasAsked` (a popup shows its own stop, or one whose details were under
way when it opened - this does happen, and it stays), `NeverJumps` (a second click on
another stop only closes the popup), `LoadingEnds`.

### 2.10 Algorithms

Pure functions, each in a module of its own, over bounded inputs that `Algorithms`
enumerates; tables and the clock move on.

* `VehicleHeading`: the segment of a line nearest to a vehicle, by squared distances as
  fractions, and the direction along it. `HeadingIsNearest`: a segment that has a length, and
  none is nearer.
* `RealtimeOverlay`: `overlay_for_static_schedule_row`. `OverlayIsBest` compares with a ranking:
  its own row, then one from before that is not SKIPPED, a SKIPPED one, then one from after;
  the nearest, the newest; no row unused.
* `DepartureTimes`: GTFS times to 29:59 folded into a day, the window of the board, its sort
  order, the countdown. `BoardInOrder`: the departures between start and end over midnight,
  in order - except while the board spans three o'clock, as hours up to 2 sort last
  (`schedule_service.py:51` says 00:00 to 02:00, the code takes hours up to 2, so 02:59).
  `EtaIsTrue`: the true minutes within an hour on either side, also over midnight; the wrap
  exists for the hours 23 and 0 only, so a departure further away on the other side is said
  to have "Left".
* `TableSort`: `sortTableByColumn` and its listeners. A fragment that carries its own copy of
  the script binds every table again, and a click is then heard twice. `ArrowTellsOrder`: the
  one arrow there is tells the order of the rows; a column without a type is sorted as text.

## 3. Runs

| run | instance | states | shows |
|---|---|---|---|
| `redis_mutex` | 3 processes, 4 tokens, TTL 2 | 51,491 | section 2.1 for the mutex |
| `redis_semaphore` | 3 processes, 5 tokens, limit 2, TTL 2, symmetric | 1,348 | section 2.1 for the semaphore |
| `cli_jobs` | an importgtfs, two slots of importrealtime, a seed; 2 files, 1 import, 1 fault | 227,553 | section 2.2 |
| `batch_queue` | 2 consumers, queue of 2 (the code's sizes), 6 batches | 3,911 | section 2.3 |
| `snapshot_copy` | 2 writers, 2 keys, 3 runs, symmetric | 7,154,509 | section 2.4 |
| `static_import` | 2 runs of the script, another dataset's import; 3 files (1 by COPY), 2 feeds, 1 manual command, 1 fault | 1,127,004 | section 2.5 |
| `stop_features` | 2 runs of the script; 2 archives, 2 static imports, 1 `-f`, 1 fault | 126,404 | section 2.6 |
| `stop_features_claim` | the same; 1 archive, 1 static import, no fault | stops at the violation | the finding below |
| `response_cache` | a page of two minutes and one of a day, `importgtfs` and `importrealtime`, 2 requests | 170,171 | section 2.7 |
| `page_maps` | six pages (each map, and a search), 4 bodies, 2 frames, 1 Refresh, 2 faults | 101,528 | section 2.8 |
| `map_widgets` | a map of each kind, 2 routes, 2 stops, 2 requests per stop | 11,266 | section 2.9 |
| `algorithms` | lines of 4 points, trips of 3 stops with 2 rows, a day of 24 short hours, tables of 3 rows | 119,049 | section 2.10 |

Why the bounds are enough. *Locks*: one process holds, one is late with a lease it has
lost, one contends; more tokens than processes leave fresh ones while keys are abandoned;
a TTL of 2 has a middle and an end; the theorems remove the bounds. *Jobs*: a cron line
that overlaps itself, a writer under another lock and an import that can be met at each of
two files; one fault reaches every state in which a lock is orphaned or deleted, and what
follows needs no second. *Queue*: six batches are more than the queue and the consumers
hold together, so the producer waits. *Snapshots*: two runs that meet and one after them;
with two keys snapshots are empty, equal, overlapping or disjoint.
*Static import*: three files are one that decides the date, one in the middle and one with
indexes; one manual command is a second run that overlaps the nightly one, an import of
another dataset or a rebuild of the indexes; one fault reaches every place at which an
import can end early, and a second would only end the next one. *Stop features*: two static
imports, so that features are wiped, imported again and met by a second wipe.
*Cache*: no bound but the number of slots; a page that two patterns match, so that a late
DEL finds a newer page, one that the other command leaves alone, and two requests for one
page, of which the slower stores older rows over newer ones. *Pages*: four bodies are a page,
one swapped in, one restored and one more; a wait needs one frame to succeed late and two to
give up; two faults are a script that does not arrive and a request that fails. *Widgets*:
two requests for a stop overlap with one for another. *Algorithms*: four points repeat,
turn back, tie and have a last segment; two rows are before, at and after a stop; times
up to half past 29 meet every time of the clock, with an hour of six minutes and a board
of an hour.

Fairness. `MCRedisMutex` assumes that time passes, `WF(Tick)`, and nothing of the
processes. `CliJobs` assumes that cron starts the realtime commands (`README.md:68`), that
a started process takes its steps, that keys expire, and `SF(FetchOk)`, as the feed is not
down for ever; nothing makes anyone start an import or a seed. `BatchQueue` assumes that
the event loop goes on, `WF(Next)`. `StaticImport` and `StopFeatures` assume that cron starts
the script (`README.md:67`, `templates/index.html:69-80`), that a process takes its steps and
that keys expire; nobody has to publish, to use `-f` or to start a command. Processes may die
at any step in all of them. `ResponseCache` assumes that a request ends and that a page
expires; nobody has to run a command. `PageMaps` assumes that a document is parsed and
loaded, that scripts and answers arrive or fail, that animation frames come and that the
map in the document loads; nobody has to click. `MapWidgets` assumes that a request ends.
`CHECK_DEADLOCK FALSE` is said where the system stops: the command of `BatchQueue` ends, the
bounded runs of `SnapshotCopy` and the bounded bodies of `PageMaps` are used up, a user of
`MapWidgets` may leave it at that, and most inputs of `Algorithms` have no next.

### Finding

`templates/index.html:72-80` says that stop features are updated nightly if needed. Every
static import deletes them with the stops, and their script imports them again only when
their own archive is newer (`stop_features_claim`): in the run nothing has failed.

## 4. Proofs

Eight modules prove for every value of the constants what the runs show on small
instances, for every invariant, action property and refinement of the runs. The assumptions
are the named ones on the constants, which TLC evaluates in the runs: finite, nonempty sets
of consumers and sizes that are numbers; a lock's `Nobody` and `Orphan` that are no process;
the first file being the one with the date, files without repetition; a positive TTL; a
focus among the stops; families of pages and commands among those that the code has
(`CacheAssumption`); pages with one of five maps or none (`PagesAssumption`); a minute shorter
than an hour, and a board shorter than a day, as it is from ten minutes before to an hour
after now (`TimesAssumption`, `realtime_controller.py:96-99`). Bounds on faults, runs, refreshes
and imports are constants as well, so the theorems hold for any number.

* *RedisMutexProofs.* `MutualExclusion` is not inductive: nothing in it says why a second SET
  must fail. `IInv` adds that tokens in use are distinct, that a lease which has outlived
  every flush is the one in the key, and that whoever finds its token in the key has exactly
  the time the key has left. Two processes with time left then both find their token in the
  one key. From it follow `TypeCorrect`, `Exclusion`, `KeepsKey` and `Refinement`: a SET that is
  granted finds an empty pool, every other step returns a lease, lets time pass, clears or
  stutters.
* *RedisSemaphoreProofs.* `IInv` says that a lease which has outlived every flush is a member
  with as much time left, that a token is no member before its script has run, and that
  there are never more than `Limit` members, lapsed ones included. With the cardinality
  lemmas (`MembersBounded`, `LiveIsPurged`) it gives `Bounded`, `Refused` and `Refinement`.
* *CliJobsProofs.* `LockHeld` (who is inside holds its lock unless that was flushed) gives
  `Exclusive`. `OnlyByRace` needs `RaceInv`: an import and a realtime run that are inside
  together have noted each other, what a run knows is outdated only if it is so noted, and
  while files are being loaded the realtime tables are empty or tainted - that is what
  clearing them first is for.
* *SnapshotCopyProofs.* A run that is not troubled is alone (`AloneUnlessTroubled`), deletes
  what is there (`ReplacesWhatItSaw`) and has reserved the ids it copies (`FirstIdIsNew`); from
  this `OneSnapshot`, `Reserved` and `InStep`.
* *StaticImportProofs.* Only the holder of the lock imports; what it saw of the other dataset
  stays true until it clears (`OthersKnown`), which is `OthersKept`; the files it is through
  with are in the tables, of one feed (`LoadedSoFar`), which at the last file is `Whole` and
  after it `OneFeed`; the indexes of a file are missing only at its place in the loop
  (`LoopPlaces`), which is `Indexes`.
  And of one file's queue (`BatchQueue`): `Loss` is inductive only with the place of a batch. A
  consumer holds one exactly while it commits it, so that a failed commit moves one batch, and
  one consumer, at a time. `Complete` follows: when `gather` returns, no consumer has ended
  otherwise than by a `None`, which lies behind all batches, so that nothing is missing.
* *StopFeaturesProofs.* Unless runs met, one is between clearing and inserting at most, and the
  table is empty while it is (`AloneInBetween`): `OneCopyOnly`. `HaveStops` is inductive by the
  foreign key.
* *MapFrontendProofs.* Of `MapWidgets`: the boxes tell what is hidden, for maps of every kind and
  any number of routes; under that invariant every click flips a switch or sets them all
  (`Refinement`). For `ShowsAsked` it has to be known that every request under way has been
  noted behind the popup (`PendingIsBehind`).
  Of `PageMaps`: `ShowsItsOwn` says nothing of why a second map does not come. `PageInv` adds
  what the scripts rely on without a check. Of the calls for the body in the document one at
  most is under way or shows its map; none as long as its element is not marked, and none is
  under way while Refresh is enabled; the cleanup and the panels on the element are those of
  its loaded map (`Alone`). The bodies before keep what they showed at the swap (`LeftBehind`).
  Every step is then a composition of a few changes of the tab - a body or a call replaced, a
  request, a cleanup, another body - each of which has a lemma that says it keeps a tab as it
  should be (`RequestFine`, `CleanupFree`, `DoInitFine`, `CatchFine`, `LoadedFine`, `ReplacedFine`).
  `PagesShowTheirOwn` and `RefreshRemovesWhatIsThere` follow, for any pages, links, bodies,
  refreshes and faults.
* *SiteProofs.* Of `ResponseCache`: that an outdated page is noticed is inductive once the same is
  said of a request that has not stored its page yet (`NoneReadUnnoticed`), and that a slot which
  is free keeps nothing, nor a command that is still committing any keys (`Tidy`).
  `ChangesAreDeletedOrExpire` compares, command by command, what its transactions change with
  what it deletes; `PagesAreAccountedFor` is the theorem.
  Of `Algorithms`: `IconsPointAlongTheLine` is about the loop over a line's segments. A segment is
  improved on only by a nearer one, so the best is the first of the nearest (`BestIsFirst`);
  distances are compared as fractions, of which it has to be shown that they are ordered
  (`LessIsAnOrder`); and a segment without length is never nearer than its neighbours, by
  Lagrange's identity (`Lagrange`, `NearerThanItsEnds`). `OverlaysAreBest`: among finitely many
  rows there is a newest, a nearest before and a nearest after (`NewestExists`,
  `PredecessorExists`, `SuccessorExists`), and the one chosen is best of all.
  `CountdownsAreTrue` and `BoardsAreInOrder` are arithmetic of times of day. `ArrowsAreTrue` is
  inductive: a click runs every listener of its heading, and each sorts the table and turns
  the arrow at once (`ListenerSorts`, `ClickSorts`).

Where a function is recursive (the best segment, the listeners of a click) or a set of rows
is any finite one, the proofs argue by the smallest counterexample (`SmallestNumber`,
`SmallestSet`, `LoopExists`), as the induction theorems of the library take a predicate as a
parameter, which the provers cannot instantiate.

Only model-checked: liveness, which is out of the prover's reach (`EveryGrantEnds`,
`RealtimeCatchesUp`, `Terminates`, `CatchesUp`, `PagesCatchUp`, `RefreshComesBack`, `MapArrives`,
`LoadingEnds`).

## 5. Not modelled

* **Delay recording.** One INSERT and then dedup keys in Redis, under the mutex that `CliJobs`
  has: that a crash between the two, or a flush, records delays twice follows from their
  order alone. The query for its window over midnight is `DepartureTimes!Selects`; the
  weekday it is combined with is not modelled.
* **Building realtime records.** Lookups, duplicated trips and dedup are one pass over one
  feed; `SnapshotCopy` takes what they return, records with distinct keys. Of the HTTP retry
  loop `CliJobs` has the outcome.
* **Deadlock between TRUNCATE and readers.** No module has a reader that holds locks on both
  realtime tables; PostgreSQL ends one of the two, which is a failed request or a failed
  import.
* **Access tokens.** Renewal by the server at half of the token's life and by a timer of the
  page depends on real durations and on browsers that suspend timers.
* **Statistics, events, cleanups.** Independent counts, an append-only table and single
  statements; the cache side of the statistics is named in the tables of `ResponseCache`.
* **Calendars and their exceptions, removed trips, the status of a departure.** Filters by
  date and comparisons with thresholds, without state.
* **The map service, controllers, telemetry, settings.** No state that a step of another actor
  could disturb; the drawing, styles and formatting of the maps likewise.
