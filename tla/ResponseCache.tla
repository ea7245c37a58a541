--------------------------- MODULE ResponseCache ---------------------------
\* Pages that the web process caches in Redis, and the commands that replace the
\* rows they show and then delete them: first the names of a pattern's keys, then
\* the keys (lib/cache.py, lib/cache_keys.py). Pages of one template are alike, so
\* a family stands for each of them. A page keeps what matters of it here: which
\* commands have replaced something it shows since it was read.
EXTENDS Naturals, Sequences

CONSTANTS
  Family,    \* the families of pages there are
  Command,   \* the commands that run
  Request    \* the requests under way at a time

\* Mind that "none" is no family: it is what a slot of requests is doing.
ASSUME CacheAssumption ==
  /\ Family \subseteq
       {"stop", "table", "schedule", "route", "trip", "stop_map", "route_map", "nearby",
        "static_map", "agency_map", "detailed", "delays", "stats"}
  /\ Command \subseteq
       {"importgtfs", "importrealtime", "seedrealtimefromfile", "importrealtimevehicles",
        "importstopfeatures", "generatestatistics", "recorddelays"}

VARIABLES
  page,      \* what is cached of each family
  request,
  command

vars == <<page, request, command>>

\* The tables that the handler of each family reads, query by query.
Reads ==
  [stop       |-> <<{"static", "features"}, {"static"}>>,
   table      |-> <<{"static"}, {"realtime"}>>,
   schedule   |-> <<{"static"}>>,
   route      |-> <<{"static"}>>,
   trip       |-> <<{"static"}, {"realtime"}>>,
   stop_map   |-> <<{"static"}, {"vehicles"}, {"static"}>>,
   route_map  |-> <<{"static"}, {"vehicles"}, {"static"}>>,
   nearby     |-> <<{"static"}>>,
   static_map |-> <<{"static", "features"}>>,
   agency_map |-> <<{"static"}>>,
   detailed   |-> <<{"static", "features"}, {"static"}>>,
   delays     |-> <<{"delays"}>>,
   stats      |-> <<{"statistics"}>>]

\* The transactions of each command, and what each of them changes. An import of
\* static tables is one per batch and table: some come, and then the last.
Commits ==
  [importgtfs             |-> <<{"realtime", "vehicles"}, {"static", "features"}, {"static"}>>,
   importrealtime         |-> <<{"realtime"}, {"realtime"}>>,
   seedrealtimefromfile   |-> <<{"static"}, {"realtime"}, {"realtime"}>>,
   importrealtimevehicles |-> <<{"vehicles"}>>,
   importstopfeatures     |-> <<{"features"}, {"features"}>>,
   generatestatistics     |-> <<{"statistics"}, {"statistics"}>>,
   recorddelays           |-> <<{"delays"}>>]

\* The families whose keys match each pattern: "*realtime:stop:*" also matches
\* the keys "realtime:stop:table:...".
RealtimePatterns == <<{"stop", "table"}, {"table"}, {"trip"}>>
VehiclePatterns == <<{"stop_map"}, {"route_map"}>>
StaticPatterns ==
  <<{"stop_map"}, {"nearby"}, {"route_map"}, {"schedule"}, {"agency_map"},
    {"static_map"}, {"detailed"}, {"route"}>>

\* Mutant: the pages with details of a stop are forgotten.
PatternsButDetailed(c) ==
  CASE c = "importgtfs" -> SubSeq(StaticPatterns, 1, 6)
    [] OTHER -> <<>>

\* The patterns that each command deletes when it has committed.
Patterns(c) ==
  CASE c = "importgtfs" -> StaticPatterns
    [] c \in {"importrealtime", "seedrealtimefromfile"} -> RealtimePatterns
    [] c = "importrealtimevehicles" -> VehiclePatterns
    [] c = "generatestatistics" -> <<{"stats"}>>
    [] OTHER -> <<>>

\* Those of them that match a family there is, by their places in the sequence.
Deletes(c) == {i \in DOMAIN Patterns(c) : Patterns(c)[i] \intersect Family # {}}

\* delete_keys_by_patterns runs them concurrently, import_gtfs_dataset in turn.
Concurrent(c) == c # "importgtfs"

NoPage == [cached |-> FALSE, outdated |-> {}, missed |-> {}]
NoRequest == [of |-> "none", queries |-> 0, outdated |-> {}, missed |-> {}]
Idle == [at |-> "idle", done |-> 0, todo |-> {}, found |-> {}]

Init ==
  /\ page = [f \in Family |-> NoPage]
  /\ request = [r \in Request |-> NoRequest]
  /\ command = [c \in Command |-> Idle]

-----------------------------------------------------------------------------
\* The web process. A page that is cached is served as it is, which changes nothing.

Miss(r, f) ==
  /\ request[r].of = "none" /\ ~page[f].cached
  /\ request' = [request EXCEPT ![r].of = f]
  /\ UNCHANGED <<page, command>>

Rendered(r) == request[r].queries = Len(Reads[request[r].of])

Query(r) ==
  /\ request[r].of # "none" /\ ~Rendered(r)
  /\ request' = [request EXCEPT ![r].queries = @ + 1]
  /\ UNCHANGED <<page, command>>

\* The response is stored, whatever has been cached or deleted meanwhile.
Store(r) ==
  /\ request[r].of # "none" /\ Rendered(r)
  /\ page' = [page EXCEPT ![request[r].of] =
                [cached |-> TRUE, outdated |-> request[r].outdated, missed |-> request[r].missed]]
  /\ request' = [request EXCEPT ![r] = NoRequest]
  /\ UNCHANGED command

\* An error is not cached, and Redis may not answer.
RequestFails(r) ==
  /\ request[r].of # "none"
  /\ request' = [request EXCEPT ![r] = NoRequest]
  /\ UNCHANGED <<page, command>>

\* Mutant: pages are stored without an expiry.
NeverExpire(f) == page[f].cached /\ UNCHANGED vars

\* The end of a page's life, 20 seconds to a day after it was stored.
Expire(f) ==
  /\ page[f].cached
  /\ page' = [page EXCEPT ![f] = NoPage]
  /\ UNCHANGED <<request, command>>

-----------------------------------------------------------------------------
\* The commands.

Start(c) ==
  /\ command[c].at = "idle"
  /\ command' = [command EXCEPT ![c].at = "committing"]
  /\ UNCHANGED <<page, request>>

\* What a request has read so far.
Read(r) == UNION {Reads[request[r].of][q] : q \in 1..request[r].queries}
Shows(f) == UNION {Reads[f][q] : q \in DOMAIN Reads[f]}

Committed(c) ==
  LET n == command[c].done + 1
  IN  IF n < Len(Commits[c]) THEN [command[c] EXCEPT !.done = n]
      ELSE IF Deletes(c) = {} THEN Idle
      ELSE [at |-> "deleting", done |-> 0, todo |-> Deletes(c), found |-> {}]

\* The next transaction commits: what was read of its tables is outdated.
Commit(c) ==
  LET changed == Commits[c][command[c].done + 1]
      by(x, read) == IF read \intersect changed # {} THEN [x EXCEPT !.outdated = @ \union {c}] ELSE x
  IN  /\ command[c].at = "committing"
      /\ page' = [f \in Family |-> by(page[f], IF page[f].cached THEN Shows(f) ELSE {})]
      /\ request' = [r \in Request |-> by(request[r], Read(r))]
      /\ command' = [command EXCEPT ![c] = Committed(c)]

\* What c has outdated and will not delete any more is noted as missed.
Note(x, c, it) == IF it /\ c \in x.outdated THEN [x EXCEPT !.missed = @ \union {c}] ELSE x

\* A pattern is dealt with; the command ends with the last one.
Left(c, todo, found) ==
  IF todo = {} /\ found = {} THEN Idle ELSE [command[c] EXCEPT !.todo = todo, !.found = found]

\* KEYS with the i-th pattern. Without any there is no DEL.
Keys(c, i) ==
  LET pattern == Patterns(c)[i] \intersect Family
      keys == {f \in pattern : page[f].cached}
      dels == IF keys = {} THEN {} ELSE {[pattern |-> i, keys |-> keys]}
  IN  /\ i \in command[c].todo
      /\ Concurrent(c) \/ (command[c].found = {} /\ \A j \in command[c].todo : i <= j)
      /\ command' = [command EXCEPT ![c] = Left(c, @.todo \ {i}, @.found \union dels)]
      /\ request' = [r \in Request |-> Note(request[r], c, request[r].of \in pattern)]
      /\ UNCHANGED page

\* DEL of the keys that were found, whatever is cached there by now.
Del(c, d) ==
  /\ d \in command[c].found
  /\ page' = [f \in Family |-> IF f \in d.keys THEN NoPage ELSE page[f]]
  /\ command' = [command EXCEPT ![c] = Left(c, @.todo, @.found \ {d})]
  /\ UNCHANGED request

\* The command fails or is killed, at any step.
Fail(c) ==
  /\ command[c].at # "idle"
  /\ command' = [command EXCEPT ![c] = Idle]
  /\ page' = [f \in Family |-> Note(page[f], c, TRUE)]
  /\ request' = [r \in Request |-> Note(request[r], c, TRUE)]

\* delete_all_keys of flushredis.
FlushRedis ==
  /\ \E f \in Family : page[f].cached
  /\ page' = [f \in Family |-> NoPage]
  /\ UNCHANGED <<request, command>>

RequestStep(r) == Query(r) \/ Store(r) \/ RequestFails(r)

Next ==
  \/ \E r \in Request : RequestStep(r) \/ \E f \in Family : Miss(r, f)
  \/ \E f \in Family : Expire(f)
  \/ \E c \in Command :
       \/ Start(c) \/ Commit(c) \/ Fail(c)
       \/ \E i \in command[c].todo : Keys(c, i)
       \/ \E d \in command[c].found : Del(c, d)
  \/ FlushRedis

\* Requests end and pages expire; nobody has to run a command.
Spec ==
  /\ Init /\ [][Next]_vars
  /\ \A r \in Request : WF_vars(RequestStep(r))
  /\ \A f \in Family : WF_vars(Expire(f))

-----------------------------------------------------------------------------
\* The types of the variables.
Pages == [cached : BOOLEAN, outdated : SUBSET Command, missed : SUBSET Command]
Requests ==
  [of : Family \union {"none"}, queries : Nat, outdated : SUBSET Command, missed : SUBSET Command]
Found == [pattern : Nat, keys : SUBSET Family]
Commands == [at : {"idle", "committing", "deleting"}, done : Nat, todo : SUBSET Nat, found : SUBSET Found]
TypeOK ==
  /\ page \in [Family -> Pages]
  /\ request \in [Request -> Requests]
  /\ command \in [Command -> Commands]

\* Whether c has yet to ask for the keys of family f, or has asked and yet to
\* delete them.
ToAsk(c, f) ==
  \E i \in (IF command[c].at = "committing" THEN Deletes(c) ELSE command[c].todo) : f \in Patterns(c)[i]
ToDelete(c, f) == ToAsk(c, f) \/ \E d \in command[c].found : f \in d.keys

\* What the commands leave to expire: the static import the pages that live for
\* two minutes at most, and two commands all pages, though they live for a day.
LeftToExpire ==
  ({"importgtfs"} \X {"stop", "table", "trip"})
  \union ({"seedrealtimefromfile"} \X (Family \ {"stop", "table", "trip"}))
  \union ({"importstopfeatures", "recorddelays"} \X Family)

\* A cached page shows what is in the tables, up to a command that is still going
\* to delete it, one that failed before it did, or one whose KEYS came while the
\* page was being rendered from rows read before - such a page outlives the
\* invalidation, and with it a day (cache.py:95-97, gtfs_dataset.py:124-136).
NoneOutdatedUnnoticed ==
  \A f \in Family : \A c \in page[f].outdated :
    c \in page[f].missed \/ ToDelete(c, f) \/ <<c, f>> \in LeftToExpire

\* Why it holds, and the inductive invariant of the proofs: what a request has
\* read of outdated rows is noted as missed when the KEYS for its page come, so
\* that it does not matter when it stores it; and a page that is not cached, or
\* a command that is not deleting, has nothing of an earlier one about it.
Tidy ==
  /\ \A f \in Family : ~page[f].cached => page[f] = NoPage
  /\ \A r \in Request :
       IF request[r].of = "none" THEN request[r] = NoRequest
       ELSE request[r].queries <= Len(Reads[request[r].of])
  /\ \A c \in Command :
       /\ command[c].at = "idle" => command[c] = Idle
       /\ command[c].at = "committing" =>
            command[c].done < Len(Commits[c]) /\ command[c].todo = {} /\ command[c].found = {}
       /\ command[c].todo \subseteq Deletes(c)
NoneReadUnnoticed ==
  \A r \in Request : \A c \in request[r].outdated :
    c \in request[r].missed \/ ToAsk(c, request[r].of) \/ <<c, request[r].of>> \in LeftToExpire
IInv == TypeOK /\ Tidy /\ NoneReadUnnoticed /\ NoneOutdatedUnnoticed

\* When no command runs any more, cached pages end up showing what is in the
\* tables, whatever was missed (cache.py:71, the "cache" of each handler).
NothingRuns == \A c \in Command : command[c].at = "idle"
Current == \A f \in Family : page[f].outdated = {}
PagesCatchUp == <>[]NothingRuns => <>[]Current

=============================================================================
