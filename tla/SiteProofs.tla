----------------------------- MODULE SiteProofs -----------------------------
(***************************************************************************)
(* Proofs about what the web process keeps and what it and its pages work   *)
(* out: ResponseCache for any pages, requests and commands of those it      *)
(* knows, any lifetime and any order of the deletions; and Algorithms for   *)
(* every line and point of a grid, every finite set of realtime rows, every *)
(* board shorter than a day and every table.                                *)
(***************************************************************************)
EXTENDS ResponseCache, Algorithms, WellFoundedInduction, FiniteSetTheorems, TLAPS

\* What a transaction of a command changes shows on no page but those whose keys
\* it deletes afterwards and those it leaves to expire (the lists of patterns of
\* cache_keys.py against the queries of the handlers).
LEMMA ChangesAreDeletedOrExpire ==
  ASSUME NEW c \in Command, NEW f \in Family, NEW n \in 1..Len(Commits[c]),
         Shows(f) \intersect Commits[c][n] # {}
  PROVE  (\E i \in Deletes(c) : f \in Patterns(c)[i]) \/ <<c, f>> \in LeftToExpire
<1>1. ASSUME NEW i \in DOMAIN Patterns(c), f \in Patterns(c)[i]
      PROVE  \E j \in Deletes(c) : f \in Patterns(c)[j]
  BY <1>1 DEF Deletes
<1>2. CASE c = "importgtfs"
  BY <1>1, <1>2, CacheAssumption, SMTT(30) DEF Shows, Reads, Commits, Patterns, StaticPatterns, LeftToExpire
<1>3. CASE c = "importrealtime"
  BY <1>1, <1>3, CacheAssumption DEF Shows, Reads, Commits, Patterns, RealtimePatterns, LeftToExpire
<1>4. CASE c = "seedrealtimefromfile"
  BY <1>1, <1>4, CacheAssumption DEF Shows, Reads, Commits, Patterns, RealtimePatterns, LeftToExpire
<1>5. CASE c = "importrealtimevehicles"
  BY <1>1, <1>5, CacheAssumption DEF Shows, Reads, Commits, Patterns, VehiclePatterns, LeftToExpire
<1>6. CASE c = "generatestatistics"
  BY <1>1, <1>6, CacheAssumption DEF Shows, Reads, Commits, Patterns, LeftToExpire
<1>7. CASE c \in {"importstopfeatures", "recorddelays"}
  BY <1>7 DEF LeftToExpire
<1>8. QED
  BY <1>2, <1>3, <1>4, <1>5, <1>6, <1>7, CacheAssumption

\* What a request has read is part of what its page will show, and nothing as
\* long as it is for no page.
LEMMA ReadsOfAPage ==
  ASSUME TypeOK, Tidy, NEW r \in Request
  PROVE  IF request[r].of = "none" THEN Read(r) = {} ELSE Read(r) \subseteq Shows(request[r].of)
<1>1. CASE request[r].of = "none"
  <2>1. request[r].queries = 0
    BY <1>1 DEF Tidy, NoRequest
  <2>2. QED
    BY <1>1, <2>1 DEF Read
<1>2. CASE request[r].of # "none"
  <2>1. /\ request[r].of \in Family /\ request[r].queries \in Nat
        /\ request[r].queries <= Len(Reads[request[r].of])
    BY <1>2 DEF TypeOK, Tidy, Requests
  <2>2. \A f \in Family : DOMAIN Reads[f] = 1..Len(Reads[f]) /\ Len(Reads[f]) \in Nat
    BY CacheAssumption DEF Reads
  <2>3. 1..request[r].queries \subseteq DOMAIN Reads[request[r].of]
    BY <2>1, <2>2
  <2>4. QED
    BY <1>2, <2>3 DEF Read, Shows
<1>3. QED
  BY <1>1, <1>2

-----------------------------------------------------------------------------
\* To begin with nothing is cached, requested or running (the web process has just
\* connected to Redis, app.py).
LEMMA InitInv == Init => IInv
<1> SUFFICES ASSUME Init PROVE IInv
  OBVIOUS
<1>1. TypeOK
  BY DEF Init, TypeOK, NoPage, NoRequest, Idle, Pages, Requests, Commands
<1>2. Tidy
  BY DEF Init, Tidy, NoPage, NoRequest, Idle
<1>3. NoneReadUnnoticed /\ NoneOutdatedUnnoticed
  BY DEF Init, NoneReadUnnoticed, NoneOutdatedUnnoticed, NoPage, NoRequest
<1>4. QED
  BY <1>1, <1>2, <1>3 DEF IInv

\* A request whose page is not cached begins with nothing read, and so has missed
\* nothing (a handler with a "cache" of its own, controllers/).
LEMMA MissInv ==
  ASSUME IInv, NEW r \in Request, NEW f \in Family, Miss(r, f)
  PROVE  IInv'
<1> USE DEF IInv, Miss
<1>1. TypeOK'
  BY DEF TypeOK, Requests
<1>2. request[r] = NoRequest /\ request'[r] = [NoRequest EXCEPT !.of = f]
  BY DEF Tidy, TypeOK
<1>3. \A q \in Request \ {r} : request'[q] = request[q]
  BY DEF TypeOK
<1>4. f # "none" /\ Len(Reads[f]) \in Nat
  BY CacheAssumption DEF Reads
<1>5. Tidy'
  BY <1>2, <1>3, <1>4 DEF Tidy, NoRequest, NoPage, Deletes
<1>6. NoneReadUnnoticed'
  BY <1>2, <1>3 DEF NoneReadUnnoticed, ToAsk, NoRequest
<1>7. NoneOutdatedUnnoticed'
  BY DEF NoneOutdatedUnnoticed, ToDelete, ToAsk
<1>8. QED
  BY <1>1, <1>5, <1>6, <1>7

\* A query of a request reads what has been committed by then (the handlers).
LEMMA QueryInv ==
  ASSUME IInv, NEW r \in Request, Query(r)
  PROVE  IInv'
<1> USE DEF IInv, Query
<1>1. TypeOK'
  BY SMTT(30) DEF TypeOK, Pages, Requests
<1>2. request'[r] = [request[r] EXCEPT !.queries = @ + 1]
  BY DEF TypeOK
<1>3. \A q \in Request \ {r} : request'[q] = request[q]
  BY DEF TypeOK
<1>4. /\ request'[r].of = request[r].of /\ request'[r].queries = request[r].queries + 1
      /\ request'[r].outdated = request[r].outdated /\ request'[r].missed = request[r].missed
  BY <1>2 DEF TypeOK
<1>5. request[r].of \in Family /\ Len(Reads[request[r].of]) \in Nat
  BY CacheAssumption DEF TypeOK, Reads, Requests
<1>6. request[r].queries + 1 <= Len(Reads[request[r].of])
  BY <1>5 DEF Tidy, TypeOK, Rendered, Requests
<1>7. Tidy'
  BY <1>3, <1>4, <1>6 DEF Tidy
<1>8. NoneReadUnnoticed'
  BY <1>3, <1>4 DEF NoneReadUnnoticed, ToAsk
<1>9. NoneOutdatedUnnoticed'
  BY DEF NoneOutdatedUnnoticed, ToDelete, ToAsk
<1>10. QED
  BY <1>1, <1>7, <1>8, <1>9

\* The page that is stored is as outdated as its request was, and what that has
\* missed is noted.
LEMMA StoreInv ==
  ASSUME IInv, NEW r \in Request, Store(r)
  PROVE  IInv'
<1> USE DEF IInv, Store
<1>1. TypeOK'
  BY DEF TypeOK, NoRequest, Pages, Requests
<1> DEFINE f == request[r].of
<1>2. f \in Family
  BY DEF TypeOK, Requests
<1>3. /\ page'[f] = [cached |-> TRUE, outdated |-> request[r].outdated, missed |-> request[r].missed]
      /\ \A g \in Family \ {f} : page'[g] = page[g]
  BY <1>2 DEF TypeOK
<1>4. request'[r] = NoRequest /\ \A q \in Request \ {r} : request'[q] = request[q]
  BY DEF TypeOK
<1>5. Tidy'
  BY <1>3, <1>4 DEF Tidy, NoRequest
<1>6. NoneReadUnnoticed'
  BY <1>4 DEF NoneReadUnnoticed, ToAsk, NoRequest
<1>7. NoneOutdatedUnnoticed'
  <2>1. \A c, g : ToDelete(c, g)' <=> ToDelete(c, g)
    BY DEF ToDelete, ToAsk
  <2>2. \A c \in request[r].outdated :
          c \in request[r].missed \/ ToDelete(c, f) \/ <<c, f>> \in LeftToExpire
    BY DEF NoneReadUnnoticed, ToDelete
  <2>3. ASSUME NEW g \in Family, NEW c \in page'[g].outdated
        PROVE  c \in page'[g].missed \/ ToDelete(c, g) \/ <<c, g>> \in LeftToExpire
    <3>1. CASE g = f
      BY <3>1, <2>2, <2>3, <1>3
    <3>2. CASE g # f
      BY <3>2, <2>3, <1>3 DEF NoneOutdatedUnnoticed
    <3>3. QED
      BY <3>1, <3>2
  <2>4. QED
    BY <2>1, <2>3 DEF NoneOutdatedUnnoticed, LeftToExpire
<1>8. QED
  BY <1>1, <1>5, <1>6, <1>7

\* A request that raises caches nothing.
LEMMA RequestFailsInv ==
  ASSUME IInv, NEW r \in Request, RequestFails(r)
  PROVE  IInv'
<1> USE DEF IInv, RequestFails
<1>1. TypeOK'
  BY DEF TypeOK, NoRequest, Requests
<1>2. request'[r] = NoRequest /\ \A q \in Request \ {r} : request'[q] = request[q]
  BY DEF TypeOK
<1>3. Tidy'
  BY <1>2 DEF Tidy, NoRequest
<1>4. NoneReadUnnoticed'
  BY <1>2 DEF NoneReadUnnoticed, ToAsk, NoRequest
<1>5. NoneOutdatedUnnoticed'
  BY DEF NoneOutdatedUnnoticed, ToDelete, ToAsk
<1>6. QED
  BY <1>1, <1>3, <1>4, <1>5

\* A page that expires or is flushed shows nothing that could be outdated.
LEMMA PagesGoInv ==
  ASSUME IInv, UNCHANGED <<request, command>>,
         page' \in [Family -> Pages],
         \A f \in Family : page'[f] \in {page[f], NoPage}
  PROVE  IInv'
<1> USE DEF IInv
<1>1. TypeOK'
  BY DEF TypeOK
<1>2. Tidy'
  BY DEF Tidy, NoPage
<1>3. NoneReadUnnoticed'
  BY DEF NoneReadUnnoticed, ToAsk
<1>4. NoneOutdatedUnnoticed'
  <2>1. \A c, g : ToDelete(c, g)' <=> ToDelete(c, g)
    BY DEF ToDelete, ToAsk
  <2>2. \A f \in Family : page'[f] = page[f] \/ page'[f].outdated = {}
    BY DEF NoPage
  <2>3. QED
    BY <2>1, <2>2 DEF NoneOutdatedUnnoticed
<1>5. QED
  BY <1>1, <1>2, <1>3, <1>4

-----------------------------------------------------------------------------
-----------------------------------------------------------------------------
\* The steps of a command.

\* Each command has a transaction at least (the commands of cli/).
LEMMA CommandsCommit ==
  ASSUME NEW c \in Command
  PROVE  Len(Commits[c]) \in Nat /\ 0 < Len(Commits[c])
<1>1. CASE c = "importgtfs"
  BY <1>1 DEF Commits
<1>2. CASE c = "importrealtime"
  BY <1>2 DEF Commits
<1>3. CASE c = "seedrealtimefromfile"
  BY <1>3 DEF Commits
<1>4. CASE c = "importrealtimevehicles"
  BY <1>4 DEF Commits
<1>5. CASE c = "importstopfeatures"
  BY <1>5 DEF Commits
<1>6. CASE c = "generatestatistics"
  BY <1>6 DEF Commits
<1>7. CASE c = "recorddelays"
  BY <1>7 DEF Commits
<1>8. QED
  BY <1>1, <1>2, <1>3, <1>4, <1>5, <1>6, <1>7, CacheAssumption

\* A command that a step leaves alone has as much to ask for and to delete as
\* before.
LEMMA OtherCommand ==
  ASSUME NEW b \in Command, command'[b] = command[b], NEW g
  PROVE  /\ ToAsk(b, g)' <=> ToAsk(b, g)
         /\ ToDelete(b, g)' <=> ToDelete(b, g)
BY DEF ToAsk, ToDelete

\* A command starts with nothing to delete (the commands of cli/).
LEMMA StartInv ==
  ASSUME IInv, NEW c \in Command, Start(c)
  PROVE  IInv'
<1> USE DEF IInv, Start
<1>1. TypeOK'
  BY DEF TypeOK, Commands
<1>2. \A b \in Command \ {c} : command'[b] = command[b]
  BY DEF TypeOK
<1>3. command[c] = Idle /\ command'[c] = [Idle EXCEPT !.at = "committing"]
  BY DEF TypeOK, Tidy
<1>4. 0 < Len(Commits[c])
  BY CommandsCommit
<1>5. Tidy'
  BY <1>2, <1>3, <1>4 DEF Tidy, Idle, Deletes
<1>6. \A g : ~ToAsk(c, g) /\ ~ToDelete(c, g)
  BY <1>3 DEF ToAsk, ToDelete, Idle
<1>7. \A b \in Command : \A g : (ToAsk(b, g) => ToAsk(b, g)') /\ (ToDelete(b, g) => ToDelete(b, g)')
  BY <1>2, <1>6, OtherCommand
<1>8. NoneReadUnnoticed' /\ NoneOutdatedUnnoticed'
  <2>1. \A r \in Request : request[r].outdated \subseteq Command
    BY DEF TypeOK, Requests
  <2>2. \A f \in Family : page[f].outdated \subseteq Command
    BY DEF TypeOK, Pages
  <2> USE <1>7 DEF LeftToExpire
  <2>3. NoneReadUnnoticed'
    BY <2>1 DEF NoneReadUnnoticed
  <2>4. NoneOutdatedUnnoticed'
    BY <2>2 DEF NoneOutdatedUnnoticed
  <2>5. QED
    BY <2>3, <2>4
<1>9. QED
  BY <1>1, <1>5, <1>8

\* While it commits, a command has yet to ask for all the keys it will delete;
\* what it outdates is among them or left to expire.
LEMMA CommitInv ==
  ASSUME IInv, NEW c \in Command, Commit(c)
  PROVE  IInv'
<1> DEFINE changed == Commits[c][command[c].done + 1]
           asks(g) == \E i \in Deletes(c) : g \in Patterns(c)[i]
<1> USE DEF IInv
<1>1. /\ command[c].at = "committing" /\ command[c].done \in Nat
      /\ command[c].done < Len(Commits[c]) /\ command[c].todo = {} /\ command[c].found = {}
  BY DEF Commit, Tidy, TypeOK, Commands
<1>2. Len(Commits[c]) \in Nat
  BY CommandsCommit
<1>3. command[c].done + 1 \in 1..Len(Commits[c])
  BY <1>1, <1>2
<1>4. command' = [command EXCEPT ![c] = Committed(c)]
  BY DEF Commit
<1>5. command'[c] = Committed(c) /\ \A b \in Command \ {c} : command'[b] = command[b]
  BY <1>4 DEF TypeOK
<1>6. Deletes(c) \subseteq Nat
  BY CacheAssumption DEF Deletes, Patterns, StaticPatterns, RealtimePatterns, VehiclePatterns
<1>7. \/ /\ Committed(c) = [command[c] EXCEPT !.done = command[c].done + 1]
         /\ command[c].done + 1 < Len(Commits[c])
      \/ Deletes(c) = {} /\ Committed(c) = Idle
      \/ Committed(c) = [at |-> "deleting", done |-> 0, todo |-> Deletes(c), found |-> {}]
  BY DEF Committed
<1>8. \A f \in Family :
        /\ page'[f].cached = page[f].cached /\ page'[f].missed = page[f].missed
        /\ \/ page'[f] = page[f]
           \/ page'[f].outdated = page[f].outdated \union {c} /\ page[f].cached /\ Shows(f) \intersect changed # {}
  BY DEF Commit, TypeOK
<1>9. \A r \in Request :
        /\ request'[r].of = request[r].of /\ request'[r].queries = request[r].queries
        /\ request'[r].missed = request[r].missed
        /\ \/ request'[r] = request[r]
           \/ request'[r].outdated = request[r].outdated \union {c} /\ Read(r) \intersect changed # {}
  BY DEF Commit, TypeOK
<1>10. /\ Committed(c) \in Commands
       /\ Committed(c).at = "idle" => Committed(c) = Idle /\ Deletes(c) = {}
       /\ Committed(c).at = "committing" =>
            Committed(c).done < Len(Commits[c]) /\ Committed(c).todo = {} /\ Committed(c).found = {}
       /\ Committed(c).at # "committing" => Committed(c).todo = Deletes(c)
  <2>1. CASE /\ Committed(c) = [command[c] EXCEPT !.done = command[c].done + 1]
             /\ command[c].done + 1 < Len(Commits[c])
    BY <1>1, <2>1 DEF TypeOK, Commands
  <2>2. CASE Deletes(c) = {} /\ Committed(c) = Idle
    BY <2>2 DEF Idle, Commands, Found
  <2>3. CASE Committed(c) = [at |-> "deleting", done |-> 0, todo |-> Deletes(c), found |-> {}]
    BY <2>3, <1>6 DEF Commands, Found
  <2>4. QED
    BY <2>1, <2>2, <2>3, <1>7
<1>11. TypeOK'
  <2>1. page' \in [Family -> Pages]
    <3>1. ASSUME NEW x \in Pages
          PROVE  [x EXCEPT !.outdated = @ \union {c}] \in
                   Pages
      BY DEF Pages
    <3>2. QED
      BY <3>1 DEF TypeOK, Commit
  <2>2. request' \in [Request -> Requests]
    BY DEF TypeOK, Commit, Requests
  <2>3. QED
    BY <1>4, <1>10, <2>1, <2>2 DEF TypeOK
<1>12. Tidy'
  <2>1. \A f \in Family : ~page'[f].cached => page'[f] = NoPage
    BY <1>8 DEF Tidy, TypeOK
  <2>2. \A r \in Request : IF request'[r].of = "none" THEN request'[r] = NoRequest
                           ELSE request'[r].queries <= Len(Reads[request'[r].of])
    <3> TAKE r \in Request
    <3>1. request'[r].of = request[r].of /\ request'[r].queries = request[r].queries
      BY <1>9 DEF TypeOK
    <3>2. request[r].of = "none" => request'[r] = request[r]
      BY <1>9, ReadsOfAPage
    <3>3. QED
      BY <3>1, <3>2 DEF Tidy
  <2>3. \A b \in Command :
          /\ command'[b].at = "idle" => command'[b] = Idle
          /\ command'[b].at = "committing" =>
               command'[b].done < Len(Commits[b]) /\ command'[b].todo = {} /\ command'[b].found = {}
          /\ command'[b].todo \subseteq Deletes(b)
    <3> TAKE b \in Command
    <3>1. CASE b = c
      BY <3>1, <1>5, <1>10
    <3>2. CASE b # c
      BY <3>2, <1>5 DEF Tidy
    <3>3. QED
      BY <3>1, <3>2
  <2>4. QED
    BY <2>1, <2>2, <2>3 DEF Tidy, Deletes
<1>13. \A g : asks(g) <=> ToAsk(c, g)
  BY <1>1 DEF ToAsk
<1>14. \A g : asks(g) <=> ToAsk(c, g)'
  BY <1>5, <1>10 DEF ToAsk, Deletes
<1>15. \A b \in Command : \A g : (ToAsk(b, g) => ToAsk(b, g)') /\ (ToDelete(b, g) => ToDelete(b, g)')
  <2> TAKE b \in Command
  <2>1. CASE b = c
    BY <2>1, <1>1, <1>13, <1>14 DEF ToDelete
  <2>2. CASE b # c
    BY <2>2, <1>5, OtherCommand
  <2>3. QED
    BY <2>1, <2>2
<1>16. \A g \in Family : Shows(g) \intersect changed # {} => ToAsk(c, g)' \/ <<c, g>> \in LeftToExpire
  BY <1>3, <1>14, ChangesAreDeletedOrExpire
<1>17. NoneReadUnnoticed'
  <2> SUFFICES ASSUME NEW r \in Request, NEW b \in request'[r].outdated
               PROVE  \/ b \in request'[r].missed \/ ToAsk(b, request[r].of)'
                      \/ <<b, request[r].of>> \in LeftToExpire
    BY <1>9 DEF NoneReadUnnoticed, LeftToExpire
  <2>1. b \in Command /\ request'[r].missed = request[r].missed
    BY <1>9, <1>11 DEF TypeOK, Requests
  <2>2. CASE b \in request[r].outdated
    BY <2>1, <2>2, <1>9, <1>15 DEF NoneReadUnnoticed
  <2>3. CASE b \notin request[r].outdated
    <3>1. b = c /\ Read(r) \intersect changed # {}
      BY <2>3, <1>9 DEF TypeOK
    <3>2. request[r].of \in Family /\ Shows(request[r].of) \intersect changed # {}
      BY <3>1, ReadsOfAPage DEF TypeOK, Requests
    <3>3. QED
      BY <3>1, <3>2, <1>9, <1>16
  <2>4. QED
    BY <2>2, <2>3
<1>18. NoneOutdatedUnnoticed'
  <2> SUFFICES ASSUME NEW f \in Family, NEW b \in page'[f].outdated
               PROVE  b \in page'[f].missed \/ ToDelete(b, f)' \/ <<b, f>> \in LeftToExpire
    BY DEF NoneOutdatedUnnoticed, LeftToExpire
  <2>1. b \in Command /\ page'[f].missed = page[f].missed
    BY <1>8, <1>11 DEF TypeOK, Pages
  <2>2. CASE b \in page[f].outdated
    BY <2>1, <2>2, <1>15 DEF NoneOutdatedUnnoticed
  <2>3. CASE b \notin page[f].outdated
    <3>1. b = c /\ Shows(f) \intersect changed # {}
      BY <2>3, <1>8 DEF TypeOK
    <3>2. QED
      BY <3>1, <1>16 DEF ToDelete
  <2>4. QED
    BY <2>2, <2>3
<1>19. QED
  BY <1>11, <1>12, <1>17, <1>18

\* What a command keeps of its patterns and keys is part of what it had; when
\* nothing is left it is idle (delete_keys_by_pattern, cache.py:88-97).
LEMMA LeftIsLess ==
  ASSUME IInv, NEW c \in Command, command[c].todo # {} \/ command[c].found # {},
         NEW todo \in SUBSET command[c].todo,
         NEW found \in SUBSET Found
  PROVE  /\ Left(c, todo, found).todo = todo /\ Left(c, todo, found).found = found
         /\ Left(c, todo, found).at \in {"idle", "deleting"}
         /\ Left(c, todo, found).at = "idle" => Left(c, todo, found) = Idle
         /\ Left(c, todo, found) \in
              Commands
<1>1. command[c].at = "deleting"
  BY DEF IInv, TypeOK, Tidy, Idle, Commands
<1>2. CASE todo = {} /\ found = {}
  BY <1>2 DEF Left, Idle, Commands, Found
<1>3. CASE ~(todo = {} /\ found = {})
  BY <1>1, <1>3 DEF IInv, TypeOK, Left, Commands
<1>4. QED
  BY <1>2, <1>3

\* A request that has read outdated rows when the KEYS for its page come is noted
\* as having missed them; a page that is cached then is among the keys found.
LEMMA KeysInv ==
  ASSUME IInv, NEW c \in Command, NEW i \in command[c].todo, Keys(c, i)
  PROVE  IInv'
<1> DEFINE pattern == Patterns(c)[i] \intersect Family
           keys == {f \in pattern : page[f].cached}
           dels == IF keys = {} THEN {} ELSE {[pattern |-> i, keys |-> keys]}
           now == Left(c, command[c].todo \ {i}, command[c].found \union dels)
<1>1. /\ page' = page
      /\ request' = [r \in Request |-> Note(request[r], c, request[r].of \in pattern)]
  BY DEF Keys
<1>2. command'[c] = now /\ \A b \in Command \ {c} : command'[b] = command[b]
  BY DEF Keys, IInv, TypeOK
<1>3. i \in Nat /\ dels \subseteq Found
  BY DEF IInv, TypeOK, Commands, Found
<1>4. command[c].found \union dels \in SUBSET Found
  BY <1>3 DEF IInv, TypeOK, Commands
<1>5. /\ now.todo = command[c].todo \ {i} /\ now.found = command[c].found \union dels
      /\ now.at \in {"idle", "deleting"} /\ (now.at = "idle" => now = Idle)
      /\ now \in Commands
  <2> DEFINE rest == command[c].todo \ {i}
             found == command[c].found \union dels
  <2>1. command[c].todo # {} /\ rest \in SUBSET command[c].todo
    OBVIOUS
  <2>2. found \in SUBSET Found
    BY <1>4
  <2> HIDE DEF rest, found
  <2>3. LET left == Left(c, rest, found)
        IN  /\ left.todo = rest /\ left.found = found
            /\ left.at \in {"idle", "deleting"} /\ (left.at = "idle" => left = Idle)
            /\ left \in Commands
    BY <2>1, <2>2, LeftIsLess
  <2>4. QED
    BY <2>3 DEF rest, found
<1>6. \A r \in Request :
        /\ request'[r].of = request[r].of /\ request'[r].queries = request[r].queries
        /\ request'[r].outdated = request[r].outdated /\ request[r].missed \subseteq request'[r].missed
        /\ request[r].of \in pattern /\ c \in request[r].outdated => c \in request'[r].missed
        /\ request'[r].missed \subseteq request[r].missed \union {c}
        /\ c \notin request[r].outdated => request'[r] = request[r]
  BY <1>1 DEF IInv, TypeOK, Note
<1> HIDE DEF dels, keys, pattern, now
<1>7. TypeOK'
  <2>1. request' \in [Request -> Requests]
    BY <1>1 DEF IInv, TypeOK, Note, Requests
  <2>2. command' \in [Command -> Commands]
    BY <1>5 DEF IInv, TypeOK, Keys, now, dels, keys, pattern
  <2>3. QED
    BY <1>1, <2>1, <2>2 DEF IInv, TypeOK
<1>8. Tidy'
  <2>1. \A r \in Request : IF request'[r].of = "none" THEN request'[r] = NoRequest
                           ELSE request'[r].queries <= Len(Reads[request'[r].of])
    BY <1>6 DEF IInv, Tidy, NoRequest
  <2>2. \A b \in Command :
          /\ command'[b].at = "idle" => command'[b] = Idle
          /\ command'[b].at = "committing" =>
               command'[b].done < Len(Commits[b]) /\ command'[b].todo = {} /\ command'[b].found = {}
          /\ command'[b].todo \subseteq Deletes(b)
    BY <1>2, <1>5 DEF IInv, Tidy
  <2>3. QED
    BY <1>1, <2>1, <2>2 DEF IInv, Tidy, Deletes
<1>9. \A g : ToAsk(c, g) /\ g \notin Patterns(c)[i] => ToAsk(c, g)'
  BY <1>2, <1>5 DEF IInv, Tidy, ToAsk
<1>10. NoneReadUnnoticed'
  <2> SUFFICES ASSUME NEW r \in Request, NEW b \in request'[r].outdated
               PROVE  \/ b \in request'[r].missed \/ ToAsk(b, request[r].of)'
                      \/ <<b, request[r].of>> \in LeftToExpire
    BY <1>6 DEF NoneReadUnnoticed, LeftToExpire
  <2>1. b \in Command /\ request[r].of \in Family
    BY <1>6 DEF IInv, TypeOK, Tidy, NoRequest, Requests
  <2>2. b \in request[r].missed \/ ToAsk(b, request[r].of) \/ <<b, request[r].of>> \in LeftToExpire
    BY <1>6 DEF IInv, NoneReadUnnoticed
  <2>3. CASE b # c
    BY <2>1, <2>2, <2>3, <1>2, <1>6, OtherCommand
  <2>4. CASE b = c /\ request[r].of \in Patterns(c)[i]
    BY <2>1, <2>4, <1>6 DEF pattern
  <2>5. CASE b = c /\ request[r].of \notin Patterns(c)[i]
    BY <2>2, <2>5, <1>6, <1>9
  <2>6. QED
    BY <2>3, <2>4, <2>5
<1>11. \A g \in Family : page[g].cached /\ ToDelete(c, g) => ToDelete(c, g)'
  <2> SUFFICES ASSUME NEW g \in Family, page[g].cached, ToDelete(c, g)
               PROVE  ToDelete(c, g)'
    OBVIOUS
  <2>1. CASE g \in pattern
    <3>1. g \in keys
      BY <2>1 DEF keys
    <3>2. [pattern |-> i, keys |-> keys] \in now.found
      BY <3>1, <1>5 DEF dels
    <3>3. QED
      BY <3>1, <3>2, <1>2 DEF ToDelete
  <2>2. CASE g \notin pattern
    BY <2>2, <1>2, <1>5, <1>9 DEF ToDelete, pattern
  <2>3. QED
    BY <2>1, <2>2
<1>12. NoneOutdatedUnnoticed'
  <2> SUFFICES ASSUME NEW f \in Family, NEW b \in page[f].outdated
               PROVE  b \in page[f].missed \/ ToDelete(b, f)' \/ <<b, f>> \in LeftToExpire
    BY <1>1 DEF NoneOutdatedUnnoticed, LeftToExpire
  <2>1. b \in Command /\ page[f].cached
    BY DEF IInv, TypeOK, Tidy, NoPage, Pages
  <2>2. b \in page[f].missed \/ ToDelete(b, f) \/ <<b, f>> \in LeftToExpire
    BY DEF IInv, NoneOutdatedUnnoticed
  <2>3. CASE b # c
    BY <2>1, <2>2, <2>3, <1>2, OtherCommand
  <2>4. CASE b = c
    BY <2>1, <2>2, <2>4, <1>11
  <2>5. QED
    BY <2>3, <2>4
<1>13. QED
  BY <1>7, <1>8, <1>10, <1>12 DEF IInv

\* Once its DEL is done, nothing is cached under the keys that were found.
LEMMA DelInv ==
  ASSUME IInv, NEW c \in Command, NEW d \in command[c].found, Del(c, d)
  PROVE  IInv'
<1> DEFINE now == Left(c, command[c].todo, command[c].found \ {d})
<1>1. /\ request' = request
      /\ page' = [f \in Family |-> IF f \in d.keys THEN NoPage ELSE page[f]]
  BY DEF Del
<1>2. command'[c] = now /\ \A b \in Command \ {c} : command'[b] = command[b]
  BY DEF Del, IInv, TypeOK
<1>3. command[c].found \ {d} \in SUBSET Found
  BY DEF IInv, TypeOK, Commands
<1>4. /\ now.todo = command[c].todo /\ now.found = command[c].found \ {d}
      /\ now.at \in {"idle", "deleting"} /\ (now.at = "idle" => now = Idle)
      /\ now \in Commands
  <2> DEFINE rest == command[c].todo
             found == command[c].found \ {d}
  <2>1. command[c].found # {} /\ rest \in SUBSET command[c].todo
    OBVIOUS
  <2>2. found \in SUBSET Found
    BY <1>3
  <2> HIDE DEF rest, found
  <2>3. LET left == Left(c, rest, found)
        IN  /\ left.todo = rest /\ left.found = found
            /\ left.at \in {"idle", "deleting"} /\ (left.at = "idle" => left = Idle)
            /\ left \in Commands
    BY <2>1, <2>2, LeftIsLess
  <2>4. QED
    BY <2>3 DEF rest, found
<1> HIDE DEF now
<1>5. TypeOK'
  <2>1. page' \in [Family -> Pages]
    BY <1>1 DEF IInv, TypeOK, NoPage, Pages
  <2>2. command' \in [Command -> Commands]
    BY <1>4 DEF IInv, TypeOK, Del, now
  <2>3. QED
    BY <1>1, <2>1, <2>2 DEF IInv, TypeOK
<1>6. \A b \in Command :
        /\ command'[b].at = "idle" => command'[b] = Idle
        /\ command'[b].at = "committing" =>
             command'[b].done < Len(Commits[b]) /\ command'[b].todo = {} /\ command'[b].found = {}
        /\ command'[b].todo \subseteq Deletes(b)
  BY <1>2, <1>4 DEF IInv, Tidy
<1>7. Tidy'
  BY <1>1, <1>6 DEF IInv, Tidy, NoPage, Deletes
<1>8. command[c].at # "committing"
  BY DEF IInv, Tidy
<1>9. \A g : ToAsk(c, g) => ToAsk(c, g)'
  BY <1>2, <1>4, <1>8 DEF ToAsk
<1>10. NoneReadUnnoticed'
  <2> SUFFICES ASSUME NEW r \in Request, NEW b \in request[r].outdated
               PROVE  \/ b \in request[r].missed \/ ToAsk(b, request[r].of)'
                      \/ <<b, request[r].of>> \in LeftToExpire
    BY <1>1 DEF NoneReadUnnoticed, LeftToExpire
  <2>1. b \in Command
    BY DEF IInv, TypeOK, Requests
  <2>2. b \in request[r].missed \/ ToAsk(b, request[r].of) \/ <<b, request[r].of>> \in LeftToExpire
    BY DEF IInv, NoneReadUnnoticed
  <2>3. ToAsk(b, request[r].of) => ToAsk(b, request[r].of)'
    BY <2>1, <1>1, <1>2, <1>9, OtherCommand
  <2>4. QED
    BY <2>2, <2>3
<1>11. NoneOutdatedUnnoticed'
  <2> SUFFICES ASSUME NEW f \in Family, NEW b \in page'[f].outdated
               PROVE  b \in page'[f].missed \/ ToDelete(b, f)' \/ <<b, f>> \in LeftToExpire
    BY DEF NoneOutdatedUnnoticed, LeftToExpire
  <2>1. f \notin d.keys /\ page'[f] = page[f]
    BY <1>1 DEF NoPage
  <2>2. b \in Command
    BY <2>1 DEF IInv, TypeOK, Pages
  <2>3. b \in page[f].missed \/ ToDelete(b, f) \/ <<b, f>> \in LeftToExpire
    BY <2>1 DEF IInv, NoneOutdatedUnnoticed
  <2>4. ToDelete(b, f) => ToDelete(b, f)'
    <3>1. CASE b = c
      BY <3>1, <2>1, <1>2, <1>4, <1>9 DEF ToDelete
    <3>2. CASE b # c
      BY <3>2, <2>2, <1>2, OtherCommand
    <3>3. QED
      BY <3>1, <3>2
  <2>5. QED
    BY <2>1, <2>3, <2>4
<1>12. QED
  BY <1>5, <1>7, <1>10, <1>11 DEF IInv

\* What a command that fails leaves undone is noted.
LEMMA FailInv ==
  ASSUME IInv, NEW c \in Command, Fail(c)
  PROVE  IInv'
<1>1. command'[c] = Idle /\ \A b \in Command \ {c} : command'[b] = command[b]
  BY DEF Fail, IInv, TypeOK
<1>2. \A r \in Request :
        /\ request'[r].of = request[r].of /\ request'[r].queries = request[r].queries
        /\ request'[r].outdated = request[r].outdated /\ request[r].missed \subseteq request'[r].missed
        /\ c \in request[r].outdated => c \in request'[r].missed
        /\ c \notin request[r].outdated => request'[r] = request[r]
  BY DEF Fail, IInv, TypeOK, Note
<1>3. \A f \in Family :
        /\ page'[f].cached = page[f].cached /\ page'[f].outdated = page[f].outdated
        /\ page[f].missed \subseteq page'[f].missed
        /\ c \in page[f].outdated => c \in page'[f].missed
        /\ c \notin page[f].outdated => page'[f] = page[f]
  BY DEF Fail, IInv, TypeOK, Note
<1>4. TypeOK'
  <2>1. page' \in [Family -> Pages]
    BY DEF Fail, IInv, TypeOK, Note, Pages
  <2>2. request' \in [Request -> Requests]
    BY DEF Fail, IInv, TypeOK, Note, Requests
  <2>3. command' \in [Command -> Commands]
    BY DEF Fail, IInv, TypeOK, Idle, Commands
  <2>4. QED
    BY <2>1, <2>2, <2>3 DEF TypeOK
<1>5. Tidy'
  <2>1. \A f \in Family : ~page'[f].cached => page'[f] = NoPage
    BY <1>3 DEF IInv, Tidy, NoPage
  <2>2. \A r \in Request : IF request'[r].of = "none" THEN request'[r] = NoRequest
                           ELSE request'[r].queries <= Len(Reads[request'[r].of])
    BY <1>2 DEF IInv, Tidy, NoRequest
  <2>3. \A b \in Command :
          /\ command'[b].at = "idle" => command'[b] = Idle
          /\ command'[b].at = "committing" =>
               command'[b].done < Len(Commits[b]) /\ command'[b].todo = {} /\ command'[b].found = {}
          /\ command'[b].todo \subseteq Deletes(b)
    BY <1>1 DEF IInv, Tidy, Idle
  <2>4. QED
    BY <2>1, <2>2, <2>3 DEF Tidy, Deletes
<1>6. NoneReadUnnoticed'
  <2> SUFFICES ASSUME NEW r \in Request, NEW b \in request[r].outdated
               PROVE  \/ b \in request'[r].missed \/ ToAsk(b, request[r].of)'
                      \/ <<b, request[r].of>> \in LeftToExpire
    BY <1>2 DEF NoneReadUnnoticed, LeftToExpire
  <2>1. b \in Command
    BY DEF IInv, TypeOK, Requests
  <2>2. b \in request[r].missed \/ ToAsk(b, request[r].of) \/ <<b, request[r].of>> \in LeftToExpire
    BY DEF IInv, NoneReadUnnoticed
  <2>3. CASE b = c
    BY <2>3, <1>2
  <2>4. CASE b # c
    BY <2>1, <2>2, <2>4, <1>1, <1>2, OtherCommand
  <2>5. QED
    BY <2>3, <2>4
<1>7. NoneOutdatedUnnoticed'
  <2> SUFFICES ASSUME NEW f \in Family, NEW b \in page[f].outdated
               PROVE  b \in page'[f].missed \/ ToDelete(b, f)' \/ <<b, f>> \in LeftToExpire
    BY <1>3 DEF NoneOutdatedUnnoticed, LeftToExpire
  <2>1. b \in Command
    BY DEF IInv, TypeOK, Pages
  <2>2. b \in page[f].missed \/ ToDelete(b, f) \/ <<b, f>> \in LeftToExpire
    BY DEF IInv, NoneOutdatedUnnoticed
  <2>3. CASE b = c
    BY <2>3, <1>3
  <2>4. CASE b # c
    BY <2>1, <2>2, <2>4, <1>1, <1>3, OtherCommand
  <2>5. QED
    BY <2>3, <2>4
<1>8. QED
  BY <1>4, <1>5, <1>6, <1>7 DEF IInv

-----------------------------------------------------------------------------
\* Where nothing happens to the cache, the invariant is about the same values.
LEMMA StutterInv ==
  ASSUME IInv, UNCHANGED vars
  PROVE  IInv'
BY DEF IInv, vars, TypeOK, Tidy, NoneReadUnnoticed, NoneOutdatedUnnoticed, ToAsk, ToDelete,
       Deletes, LeftToExpire

\* Every step of a request, of a command's transactions and deletions, and of
\* Redis (expiry, flushredis) keeps the invariant.
LEMMA NextInv ==
  ASSUME IInv, Next
  PROVE  IInv'
<1>1. ASSUME NEW r \in Request, RequestStep(r) \/ \E f \in Family : Miss(r, f)
      PROVE  IInv'
  BY <1>1, QueryInv, StoreInv, RequestFailsInv, MissInv DEF RequestStep
<1>2. ASSUME NEW f \in Family, Expire(f)
      PROVE  IInv'
  <2>1. /\ page' \in [Family -> Pages]
        /\ \A g \in Family : page'[g] \in {page[g], NoPage}
    BY <1>2 DEF Expire, IInv, TypeOK, NoPage, Pages
  <2>2. QED
    BY <1>2, <2>1, PagesGoInv DEF Expire
<1>3. ASSUME NEW c \in Command,
             \/ Start(c) \/ Commit(c) \/ Fail(c)
             \/ \E i \in command[c].todo : Keys(c, i)
             \/ \E d \in command[c].found : Del(c, d)
      PROVE  IInv'
  BY <1>3, StartInv, CommitInv, FailInv, KeysInv, DelInv
<1>4. CASE FlushRedis
  <2>1. /\ page' \in [Family -> Pages]
        /\ \A g \in Family : page'[g] \in {page[g], NoPage}
    BY <1>4 DEF FlushRedis, IInv, TypeOK, NoPage, Pages
  <2>2. QED
    BY <1>4, <2>1, PagesGoInv DEF FlushRedis
<1>5. QED
  BY <1>1, <1>2, <1>3, <1>4 DEF Next

\* The types of the variables, and the inductive invariant, at every step of the
\* pages, the requests and the commands.
THEOREM TypeCorrect == Spec => []TypeOK
<1>1. IInv /\ [Next]_vars => IInv'
  BY NextInv, StutterInv
<1>2. IInv => TypeOK
  BY DEF IInv
<1>3. QED
  BY <1>1, <1>2, InitInv, PTL DEF Spec

\* A cached page shows what is in the tables, but for what a command will still
\* delete, leaves to expire, failed to delete, or deleted while the page was being
\* rendered (delete_keys_by_pattern, cache.py:88-97, and its callers): whichever
\* pages there are, commands run at once and requests come.
THEOREM PagesAreAccountedFor == Spec => []NoneOutdatedUnnoticed
<1>1. IInv /\ [Next]_vars => IInv'
  BY NextInv, StutterInv
<1>2. IInv => NoneOutdatedUnnoticed
  BY DEF IInv
<1>3. QED
  BY <1>1, <1>2, InitInv, PTL DEF Spec

-----------------------------------------------------------------------------
(***************************************************************************)
(* Algorithms.  What a loop or a search over finite data does is proved      *)
(* through the smallest counterexample: a finite set of sets has a minimal   *)
(* member, a set of numbers a smallest one.                                  *)
(***************************************************************************)

\* Of some subsets of a finite set one is minimal: the realtime rows of a trip are
\* such a set (realtime_schedule_repo.py).
LEMMA SmallestSet ==
  ASSUME NEW S, IsFiniteSet(S), NEW F \in SUBSET SUBSET S, F # {}
  PROVE  \E T \in F : \A U \in F : U \subseteq T => U = T
<1>1. F \subseteq FiniteSubsetsOf(S)
  BY FS_FiniteSubsetsOfFinite
<1>2. PICK T \in F : \A U \in F : ~(<<U, T>> \in StrictSubsetOrdering(S))
  BY <1>1, FS_StrictSubsetOrderingWellFounded, WFMin
<1>3. QED
  BY <1>2 DEF StrictSubsetOrdering

\* A set of numbers has a smallest one: the loops over the segments of a line and
\* over the listeners of a heading are followed to the first step that goes wrong.
LEMMA SmallestNumber ==
  ASSUME NEW N \in SUBSET Nat, N # {}
  PROVE  \E n \in N : \A m \in N : n <= m
<1>1. PICK k \in N : TRUE
  OBVIOUS
<1> DEFINE F == {0..n : n \in {m \in N : m <= k}}
           K == 0..k
<1>2. IsFiniteSet(K)
  BY FS_Interval
<1>3. F \in SUBSET SUBSET K /\ F # {}
  BY <1>1
<1> HIDE DEF F, K
<1>4. PICK T \in F : \A U \in F : U \subseteq T => U = T
  BY <1>2, <1>3, SmallestSet
<1>5. PICK n \in N : n <= k /\ T = 0..n
  BY <1>4 DEF F
<1>6. ASSUME NEW m \in N, m < n
      PROVE  FALSE
  <2>1. 0..m \in F /\ 0..m \subseteq T
    BY <1>1, <1>5, <1>6 DEF F
  <2>2. n \in 0..n /\ n \notin 0..m
    BY <1>6
  <2>3. QED
    BY <1>4, <1>5, <2>1, <2>2
<1>7. QED
  BY <1>6

\* Of finitely many things with a number each, one has the largest (the newest row,
\* the last one before a stop).
LEMMA LargestExists ==
  ASSUME NEW S, IsFiniteSet(S), S # {}, NEW f \in [S -> Int]
  PROVE  \E x \in S : \A y \in S : f[y] <= f[x]
<1> DEFINE F == {T \in SUBSET S : T # {} /\ ~\E x \in T : \A y \in T : f[y] <= f[x]}
<1> SUFFICES F = {}
  OBVIOUS
<1> SUFFICES ASSUME F # {}
             PROVE  FALSE
  OBVIOUS
<1> HIDE DEF F
<1>1. F \in SUBSET SUBSET S
  BY DEF F
<1>2. PICK T \in F : \A U \in F : U \subseteq T => U = T
  BY <1>1, SmallestSet
<1>3. T \in SUBSET S /\ T # {} /\ ~\E x \in T : \A y \in T : f[y] <= f[x]
  BY <1>2 DEF F
<1>4. PICK a \in T : TRUE
  BY <1>3
<1>5. T \ {a} \notin F /\ T \ {a} \in SUBSET S
  BY <1>2, <1>3, <1>4
<1>6. CASE T \ {a} = {}
  BY <1>3, <1>4, <1>6
<1>7. CASE T \ {a} # {}
  <2>1. PICK b \in T \ {a} : \A y \in T \ {a} : f[y] <= f[b]
    BY <1>5, <1>7 DEF F
  <2>2. \A x \in T : f[x] \in Int
    BY <1>3
  <2>3. CASE f[a] <= f[b]
    BY <1>3, <2>1, <2>3
  <2>4. CASE f[b] < f[a]
    <3>1. \A y \in T : f[y] <= f[a]
      BY <1>4, <2>1, <2>2, <2>4
    <3>2. QED
      BY <1>3, <1>4, <3>1
  <2>5. QED
    BY <1>4, <2>1, <2>2, <2>3, <2>4
<1>8. QED
  BY <1>6, <1>7

\* Induction over an interval, for the segments of a line and the listeners of a
\* heading.
LEMMA Induction ==
  ASSUME NEW b \in Nat, NEW n \in Nat, NEW Good, b \in Good,
         \A i \in b..n : i > b /\ i - 1 \in Good => i \in Good
  PROVE  \A i \in b..n : i \in Good
<1> DEFINE N == {i \in b..n : i \notin Good}
<1>1. SUFFICES ASSUME N # {}
               PROVE  FALSE
  OBVIOUS
<1>2. N \in SUBSET Nat
  OBVIOUS
<1> HIDE DEF N
<1>3. PICK i \in N : \A j \in N : i <= j
  BY <1>1, <1>2, SmallestNumber
<1>4. i \in b..n /\ i \notin Good
  BY <1>3 DEF N
<1>5. i - 1 \in b..n /\ i - 1 \in Good /\ i > b
  BY <1>3, <1>4 DEF N
<1>6. QED
  BY <1>4, <1>5

\* A loop: a function whose value at each number is computed from that at the
\* number before.
Stays(step, D) == \A i \in Nat, x \in D : step[<<i, x>>] \in D
IsLoop(f, b, n, a, step) ==
  f[b] = a /\ \A i \in b..n : i > b => f[i] = step[<<i, f[i - 1]>>]
\* The loops of vehicleIconRotateDegreesFromLineString and of a click that several
\* listeners hear are recursive functions: a value for the number they start from,
\* and a step from each value to the next one. Such a function exists.
LEMMA LoopExists ==
  ASSUME NEW b \in Nat, NEW n \in Nat, b <= n, NEW D, NEW a \in D,
         NEW step, Stays(step, D)
  PROVE  \E f \in [b..n -> D] : IsLoop(f, b, n, a, step)
<1> DEFINE Loop(m, f) == f[b] = a /\ \A i \in b..m : i > b => f[i] = step[<<i, f[i - 1]>>]
           Good == {m \in b..n : \E f \in [b..m -> D] : Loop(m, f)}
<1>1. b \in Good
  <2> DEFINE g == [i \in b..b |-> a]
  <2>1. b \in b..b /\ \A i \in b..b : ~(i > b)
    OBVIOUS
  <2>2. g \in [b..b -> D] /\ g[b] = a
    BY <2>1
  <2> HIDE DEF g
  <2>3. QED
    BY <2>1, <2>2
<1>2. ASSUME NEW m \in b..n, m > b, m - 1 \in Good
      PROVE  m \in Good
  <2>1. PICK f \in [b..(m - 1) -> D] : Loop(m - 1, f)
    BY <1>2
  <2> DEFINE g == [i \in b..m |-> IF i = m THEN step[<<m, f[m - 1]>>] ELSE f[i]]
  <2>2. f[m - 1] \in D /\ m \in b..n
    <3>1. m - 1 \in b..(m - 1)
      BY <1>2
    <3>2. QED
      BY <2>1, <3>1
  <2>3. step[<<m, f[m - 1]>>] \in D
    BY <2>2 DEF Stays
  <2>4. g \in [b..m -> D]
    BY <2>1, <2>3
  <2>5. ASSUME NEW i \in b..m, i > b
        PROVE  g[i] = step[<<i, g[i - 1]>>]
    <3>1. i - 1 \in b..m /\ i - 1 # m /\ g[i - 1] = f[i - 1]
      BY <2>5
    <3>2. CASE i = m
      <4>1. g[m] = step[<<m, f[m - 1]>>]
        OBVIOUS
      <4>2. QED
        BY <3>1, <3>2, <4>1
    <3>3. CASE i # m
      <4>1. i \in b..(m - 1) /\ i > b
        BY <2>5, <3>3
      <4>2. g[i] = f[i] /\ f[i] = step[<<i, f[i - 1]>>]
        BY <2>1, <3>3, <4>1
      <4>3. QED
        BY <3>1, <4>2
    <3>4. QED
      BY <3>2, <3>3
  <2>6. g[b] = a
    <3>1. b \in b..m /\ b # m
      BY <1>2
    <3>2. QED
      BY <2>1, <3>1
  <2> HIDE DEF g
  <2>7. QED
    BY <2>2, <2>4, <2>5, <2>6
<1> HIDE DEF Good
<1>3. n \in Good
  BY <1>1, <1>2, Induction
<1>4. QED
  BY <1>3 DEF Good, IsLoop

-----------------------------------------------------------------------------

\* Realtime rows.
Rows(rows) ==
  IsFiniteSet(rows) /\ \A r \in rows : r.seq \in Nat /\ r.skipped \in BOOLEAN /\ r.created \in Nat

\* A newest row (max by created_at) is found where there is any.
LEMMA NewestExists ==
  ASSUME NEW rows, Rows(rows), rows # {}
  PROVE  Newest(rows) # {}
<1> DEFINE created == [r \in rows |-> r.created]
<1>1. created \in [rows -> Int]
  BY DEF Rows
<1> HIDE DEF created
<1>2. PICK r \in rows : \A o \in rows : created[o] <= created[r]
  BY <1>1, LargestExists DEF Rows
<1>3. QED
  BY <1>2 DEF Newest, created

\* A row to carry over from before the stop is found where there is any
\* (pick_predecessor_carry_forward).
LEMMA PredecessorExists ==
  ASSUME NEW rows, Rows(rows), NEW n \in Nat, {r \in rows : r.seq <= n} # {}
  PROVE  PickPredecessorCarryForward(rows, n) # {}
<1> DEFINE pool == Preferred({r \in rows : r.seq <= n})
           seq == [r \in pool |-> r.seq]
           last == {r \in pool : \A o \in pool : o.seq <= r.seq}
<1>1. pool \subseteq rows /\ pool # {}
  BY DEF Preferred, NonSkipped
<1>2. Rows(pool)
  BY <1>1, FS_Subset DEF Rows
<1>3. seq \in [pool -> Int]
  BY <1>2 DEF Rows
<1> HIDE DEF pool
<1>4. last # {}
  <2> HIDE DEF seq
  <2>1. PICK r \in pool : \A o \in pool : seq[o] <= seq[r]
    BY <1>1, <1>2, <1>3, LargestExists DEF Rows
  <2>2. QED
    BY <2>1 DEF seq
<1>5. Rows(last)
  BY <1>2, FS_Subset DEF Rows
<1> HIDE DEF last
<1>6. Newest(last) # {}
  BY <1>4, <1>5, NewestExists
<1>7. QED
  BY <1>6 DEF PickPredecessorCarryForward, last, pool

\* The same for a row from after the stop (pick_successor_carry_forward).
LEMMA SuccessorExists ==
  ASSUME NEW rows, Rows(rows), NEW n \in Nat, {r \in rows : r.seq >= n} # {}
  PROVE  PickSuccessorCarryForward(rows, n) # {}
<1> DEFINE pool == Preferred({r \in rows : r.seq >= n})
           seq == [r \in pool |-> 0 - r.seq]
           first == {r \in pool : \A o \in pool : r.seq <= o.seq}
<1>1. pool \subseteq rows /\ pool # {}
  BY DEF Preferred, NonSkipped
<1>2. Rows(pool)
  BY <1>1, FS_Subset DEF Rows
<1>3. seq \in [pool -> Int]
  BY <1>2 DEF Rows
<1> HIDE DEF pool
<1>4. first # {}
  <2> HIDE DEF seq
  <2>1. PICK r \in pool : \A o \in pool : seq[o] <= seq[r]
    BY <1>1, <1>2, <1>3, LargestExists DEF Rows
  <2>2. QED
    BY <1>2, <2>1 DEF seq, Rows
<1>5. Rows(first)
  BY <1>2, FS_Subset DEF Rows
<1> HIDE DEF first
<1>6. Newest(first) # {}
  BY <1>4, <1>5, NewestExists
<1>7. QED
  BY <1>6 DEF PickSuccessorCarryForward, first, pool

\* A row is found for a scheduled stop if its trip has any row.
LEMMA OverlayFound ==
  ASSUME NEW rows, Rows(rows), NEW stop, NEW n \in Nat
  PROVE  (OverlayForStaticScheduleRow(rows, stop, n) = {}) <=> (rows = {})
<1>1. Exact(rows, stop, n) \subseteq rows
  BY DEF Exact, Newest
<1>2. PickPredecessorCarryForward(rows, n) \subseteq rows
  BY DEF PickPredecessorCarryForward, Newest, Preferred, NonSkipped
<1>3. PickSuccessorCarryForward(rows, n) \subseteq rows
  BY DEF PickSuccessorCarryForward, Newest, Preferred, NonSkipped
<1>4. CASE rows = {}
  BY <1>1, <1>2, <1>3, <1>4 DEF OverlayForStaticScheduleRow
<1>5. CASE rows # {}
  <2>1. {r \in rows : r.seq <= n} # {} \/ {r \in rows : r.seq >= n} # {}
    BY <1>5 DEF Rows
  <2>2. QED
    BY <1>5, <2>1, PredecessorExists, SuccessorExists DEF OverlayForStaticScheduleRow
<1>6. QED
  BY <1>4, <1>5

\* It is the best one: it comes before any other row in the order the functions
\* ask for rows (realtime_schedule_repo.py:92-99).
LEMMA OverlayBest ==
  ASSUME NEW rows, Rows(rows), NEW stop, NEW n \in Nat,
         NEW r \in OverlayForStaticScheduleRow(rows, stop, n), NEW o \in rows
  PROVE  \/ Rank(r, stop, n) < Rank(o, stop, n)
         \/ Rank(r, stop, n) = Rank(o, stop, n) /\ Gap(r, n) < Gap(o, n)
         \/ Rank(r, stop, n) = Rank(o, stop, n) /\ Gap(r, n) = Gap(o, n) /\ r.created >= o.created
<1> DEFINE best == \/ Rank(r, stop, n) < Rank(o, stop, n)
                   \/ Rank(r, stop, n) = Rank(o, stop, n) /\ Gap(r, n) < Gap(o, n)
                   \/ Rank(r, stop, n) = Rank(o, stop, n) /\ Gap(r, n) = Gap(o, n) /\ r.created >= o.created
<1>1. \A x \in rows : x.seq \in Nat /\ x.skipped \in BOOLEAN /\ x.created \in Nat
  BY DEF Rows
<1>2. CASE Exact(rows, stop, n) # {}
  <2>1. r \in Exact(rows, stop, n)
    BY <1>2 DEF OverlayForStaticScheduleRow
  <2>2. /\ r \in rows /\ r.stop = stop /\ r.seq = n
        /\ o.stop = stop /\ o.seq = n => o.created <= r.created
    BY <2>1 DEF Exact, Newest
  <2>3. QED
    BY <1>1, <2>2 DEF Rank, Gap
<1>3. CASE Exact(rows, stop, n) = {} /\ PickPredecessorCarryForward(rows, n) # {}
  <2> DEFINE before == {x \in rows : x.seq <= n}
  <2>1. r \in PickPredecessorCarryForward(rows, n)
    BY <1>3 DEF OverlayForStaticScheduleRow
  <2>2. /\ r \in before /\ (r.skipped => \A x \in before : x.skipped)
        /\ o \in before /\ (o.skipped <=> r.skipped) =>
             o.seq < r.seq \/ (o.seq = r.seq /\ o.created <= r.created)
    <3> DEFINE pool == Preferred(before)
               last == {x \in pool : \A y \in pool : y.seq <= x.seq}
    <3>1. r \in pool /\ (\A y \in pool : y.seq <= r.seq) /\ \A y \in last : y.created <= r.created
      BY <2>1 DEF PickPredecessorCarryForward, Newest
    <3>2. pool \subseteq before /\ (r.skipped => \A x \in before : x.skipped)
      BY <3>1 DEF Preferred, NonSkipped
    <3>3. o \in before /\ (o.skipped <=> r.skipped) => o \in pool
      BY <3>1, <3>2 DEF Preferred, NonSkipped
    <3>4. o \in pool /\ o.seq = r.seq => o \in last
      BY <3>1
    <3> HIDE DEF pool, last
    <3>5. o \in pool => o.seq < r.seq \/ (o.seq = r.seq /\ o.created <= r.created)
      <4>1. r.seq \in Nat /\ o.seq \in Nat
        BY <1>1, <3>1, <3>2
      <4>2. o \in pool => o.seq <= r.seq
        BY <3>1
      <4>3. o \in pool /\ o.seq = r.seq => o.created <= r.created
        BY <3>1, <3>4
      <4>4. QED
        BY <4>1, <4>2, <4>3
    <3>6. r \in before
      BY <3>1, <3>2
    <3>7. QED
      BY <3>2, <3>3, <3>5, <3>6
  <2>3. \A x \in rows : ~(x.stop = stop /\ x.seq = n)
    <3> DEFINE exact == {x \in rows : x.stop = stop /\ x.seq = n}
    <3>1. Rows(exact)
      BY FS_Subset DEF Rows
    <3> HIDE DEF exact
    <3>2. exact = {}
      BY <1>3, <3>1, NewestExists DEF Exact, exact
    <3>3. QED
      BY <3>2 DEF exact
  <2>4. QED
    BY <1>1, <2>2, <2>3 DEF Rank, Gap
<1>4. CASE Exact(rows, stop, n) = {} /\ PickPredecessorCarryForward(rows, n) = {}
  <2>1. r \in PickSuccessorCarryForward(rows, n)
    BY <1>4 DEF OverlayForStaticScheduleRow
  <2>2. \A x \in rows : ~(x.seq <= n)
    BY <1>4, PredecessorExists
  <2>3. /\ r \in rows /\ (r.skipped => \A x \in rows : x.skipped)
        /\ (o.skipped <=> r.skipped) =>
             r.seq < o.seq \/ (o.seq = r.seq /\ o.created <= r.created)
    <3> DEFINE pool == Preferred({x \in rows : x.seq >= n})
               first == {x \in pool : \A y \in pool : x.seq <= y.seq}
    <3>1. r \in pool /\ (\A y \in pool : r.seq <= y.seq) /\ \A y \in first : y.created <= r.created
      BY <2>1 DEF PickSuccessorCarryForward, Newest
    <3>2. \A x \in rows : x.seq >= n
      BY <1>1, <2>2
    <3>3. pool \subseteq rows /\ (r.skipped => \A x \in rows : x.skipped)
      BY <3>1, <3>2 DEF Preferred, NonSkipped
    <3>4. (o.skipped <=> r.skipped) => o \in pool
      BY <3>1, <3>2, <3>3 DEF Preferred, NonSkipped
    <3>5. o \in pool /\ o.seq = r.seq => o \in first
      BY <3>1
    <3> HIDE DEF pool, first
    <3>6. o \in pool => r.seq < o.seq \/ (o.seq = r.seq /\ o.created <= r.created)
      <4>1. r.seq \in Nat /\ o.seq \in Nat
        BY <1>1, <3>1, <3>3
      <4>2. o \in pool => r.seq <= o.seq
        BY <3>1
      <4>3. o \in pool /\ o.seq = r.seq => o.created <= r.created
        BY <3>1, <3>5
      <4>4. QED
        BY <4>1, <4>2, <4>3
    <3>7. r \in rows
      BY <3>1, <3>3
    <3>8. QED
      BY <3>3, <3>4, <3>6, <3>7
  <2>4. QED
    BY <1>1, <2>2, <2>3 DEF Rank, Gap
<1>5. QED
  BY <1>2, <1>3, <1>4

-----------------------------------------------------------------------------
\* Times of day.

\* The remainder by a day of a sum or a difference of two times of day (datetime's
\* arithmetic, of which the code keeps the time).
LEMMA Remainder ==
  ASSUME NEW d \in Nat, d > 0, NEW a \in Int
  PROVE  /\ a % d \in 0..(d - 1)
         /\ -d <= a /\ a < 2 * d => a % d = IF a < 0 THEN a + d ELSE IF a < d THEN a ELSE a - d
OBVIOUS

\* The hours that the code compares with (t.hour), as bounds on the time itself.
LEMMA HoursAre ==
  ASSUME NEW t \in Nat
  PROVE  /\ (Hour(t) = 0) <=> (t < HourLen)
         /\ (Hour(t) = 23) <=> (23 * HourLen <= t /\ t < Day)
         /\ (Hour(t) > 23) <=> (Day <= t)
         /\ (Hour(t) \in 0..2) <=> (t < 3 * HourLen)
<1>1. ASSUME NEW d \in Nat, d > 0
      PROVE  /\ (t \div d = 0) <=> (t < d)
             /\ (t \div d = 23) <=> (23 * d <= t /\ t < 24 * d)
             /\ (t \div d > 23) <=> (24 * d <= t)
             /\ (t \div d \in 0..2) <=> (t < 3 * d)
  BY <1>1
<1>2. QED
  BY <1>1, TimesAssumption DEF Hour, Day
\* minutes_until_arrival is the time ahead, over midnight too, within an hour.
LEMMA EtaTrue ==
  ASSUME NEW arrival \in Times, NEW now \in Times
  PROVE  LET ahead == Ahead(arrival, now)
         IN  /\ ahead \in (1 - HourLen)..(HourLen - 1) => UntilArrival(arrival, now) = ahead
             /\ IsDueArrival(arrival, now) <=> ahead \in (1 - MinuteLen)..-1
             /\ IsDueArrival(arrival, now) <=> EtaText(arrival, now) = "Due"
<1> DEFINE a == arrival - now
           until == UntilArrival(arrival, now)
           ahead == Ahead(arrival, now)
<1>1. /\ arrival \in Nat /\ now \in Nat /\ arrival < Day /\ now < Day /\ Day = 24 * HourLen
      /\ HourLen \in Nat /\ HourLen > 0 /\ Day \in Nat /\ MinuteLen \in Nat /\ MinuteLen < HourLen
      /\ a \in Int
  BY TimesAssumption DEF Times, Day
<1>2. ahead = IF a < 0 THEN IF 2 * (a + Day) > Day THEN a ELSE a + Day
              ELSE IF 2 * a > Day THEN a - Day ELSE a
  <2>1. a % Day = IF a < 0 THEN a + Day ELSE a
    BY <1>1, Remainder
  <2> HIDE DEF a
  <2>2. QED
    BY <1>1, <2>1 DEF Ahead, a
<1>3. until = IF arrival >= 23 * HourLen /\ now < HourLen THEN a - Day
              ELSE IF arrival < HourLen /\ now >= 23 * HourLen THEN a + Day
              ELSE a
  BY <1>1, HoursAre DEF UntilArrival
<1>4. ahead \in Int /\ until \in Int
  BY <1>1, <1>2, <1>3
<1>5. ahead \in (1 - HourLen)..(HourLen - 1) => until = ahead
  BY <1>1, <1>2, <1>3
<1>6. IsDueArrival(arrival, now) <=> ahead \in (1 - MinuteLen)..-1
  BY <1>1, <1>2, <1>3, <1>4 DEF IsDueArrival
<1>7. IsDueArrival(arrival, now) <=> EtaText(arrival, now) = "Due"
  BY <1>1, <1>4 DEF IsDueArrival, EtaText
<1> HIDE DEF until
<1>8. QED
  BY <1>5, <1>6, <1>7 DEF until

\* The window of the board, whose end may be before its start, and its sort key.
LEMMA BoardTrue ==
  ASSUME NEW now \in Times
  PROVE  LET start == WindowStart(now)
             shown == {t \in Times : Selects(start, WindowEnd(now), t)}
             since(t) == (t - start) % Day
         IN  /\ shown = {(start + i) % Day : i \in 0..(Before + After)}
             /\ \A s, t \in shown : 3 * HourLen \notin {u \in shown : since(u) > 0} =>
                  (SortKey(s) < SortKey(t) <=> since(s) < since(t))
<1> DEFINE start == WindowStart(now)
           end == WindowEnd(now)
           shown == {t \in Times : Selects(start, end, t)}
           since(t) == (t - start) % Day
           width == Before + After
<1>1. /\ now \in Nat /\ now < Day /\ Day = 24 * HourLen /\ Day \in Nat /\ Day > 0
      /\ HourLen \in Nat /\ HourLen > 0 /\ Before \in Nat /\ After \in Nat
      /\ width \in Nat /\ width < Day
  BY TimesAssumption DEF Times, Day
<1>2. /\ start = IF now < Before THEN now - Before + Day ELSE now - Before
      /\ end = IF now + After < Day THEN now + After ELSE now + After - Day
  <2>1. start = IF now - Before < 0 THEN now - Before + Day
                ELSE IF now - Before < Day THEN now - Before ELSE now - Before - Day
    BY <1>1, Remainder DEF WindowStart
  <2>2. end = IF now + After < 0 THEN now + After + Day
              ELSE IF now + After < Day THEN now + After ELSE now + After - Day
    BY <1>1, Remainder DEF WindowEnd
  <2> HIDE DEF start, end
  <2>3. QED
    BY <1>1, <2>1, <2>2
<1>3. ASSUME NEW t \in Times
      PROVE  since(t) = IF t < start THEN t - start + Day ELSE t - start
  <2>1. /\ t \in Nat /\ t < Day /\ t - start \in Int /\ -Day <= t - start /\ t - start < Day
    BY <1>1, <1>2 DEF Times
  <2> HIDE DEF start
  <2>2. since(t) = IF t - start < 0 THEN t - start + Day
                   ELSE IF t - start < Day THEN t - start ELSE t - start - Day
    BY <1>1, <2>1, Remainder
  <2> HIDE DEF since
  <2>3. QED
    BY <1>1, <1>2, <2>1, <2>2
<1>4. ASSUME NEW t \in Times
      PROVE  t \in shown <=> since(t) <= width
  <2>1. t \in Nat /\ t < Day
    BY <1>1 DEF Times
  <2>2. t \in shown <=> Selects(start, end, t)
    OBVIOUS
  <2> HIDE DEF start, end, since, shown
  <2>3. QED
    BY <1>1, <1>2, <1>3, <2>1, <2>2 DEF Selects, width
<1>5. ASSUME NEW i \in 0..width
      PROVE  /\ (start + i) % Day = IF start + i < Day THEN start + i ELSE start + i - Day
             /\ (start + i) % Day \in Times /\ since((start + i) % Day) = i
  <2>1. i \in Nat /\ i < Day /\ start \in Nat /\ start < Day
    BY <1>1, <1>2
  <2> HIDE DEF start, width
  <2>2. (start + i) % Day = IF start + i < Day THEN start + i ELSE start + i - Day
    BY <1>1, <2>1, Remainder
  <2> DEFINE x == (start + i) % Day
  <2>3. x = IF start + i < Day THEN start + i ELSE start + i - Day
    BY <2>2
  <2> HIDE DEF x, since
  <2>4. x \in Times
    BY <1>1, <2>1, <2>3 DEF Times
  <2>5. since(x) = IF x < start THEN x - start + Day ELSE x - start
    BY <1>3, <2>4
  <2>6. since(x) = i
    BY <1>1, <2>1, <2>3, <2>5
  <2>7. QED
    BY <2>2, <2>4, <2>6 DEF x
<1>6. ASSUME NEW t \in Times
      PROVE  since(t) \in Nat /\ t = (start + since(t)) % Day
  <2>1. /\ t \in Nat /\ t < Day /\ start \in Nat /\ start < Day
    BY <1>1, <1>2 DEF Times
  <2> HIDE DEF start, since
  <2>2. since(t) \in Nat /\ start + since(t) = IF t < start THEN t + Day ELSE t
    BY <1>1, <1>3, <2>1
  <2> DEFINE x == start + since(t)
  <2>3. x \in Int /\ -Day <= x /\ x < 2 * Day /\ x = IF t < start THEN t + Day ELSE t
    BY <1>1, <2>1, <2>2
  <2> HIDE DEF x
  <2>4. x % Day = IF x < 0 THEN x + Day ELSE IF x < Day THEN x ELSE x - Day
    BY <1>1, <2>3, Remainder
  <2>5. x % Day = t
    BY <1>1, <2>1, <2>3, <2>4
  <2>6. QED
    BY <2>2, <2>5 DEF x
<1>7. shown = {(start + i) % Day : i \in 0..(Before + After)}
  <2>1. \A i \in 0..width : (start + i) % Day \in shown
    <3> HIDE DEF start, since, shown, width
    <3> TAKE i \in 0..width
    <3>1. (start + i) % Day \in Times /\ since((start + i) % Day) = i
      BY <1>5
    <3>2. (start + i) % Day \in shown <=> since((start + i) % Day) <= width
      BY <3>1, <1>4
    <3>3. QED
      BY <1>1, <3>1, <3>2
  <2>2. \A t \in shown : t \in Times
    OBVIOUS
  <2> HIDE DEF start, since, shown
  <2>3. \A t \in shown : \E i \in 0..width : t = (start + i) % Day
    <3> TAKE t \in shown
    <3> HIDE DEF width
    <3>1. since(t) \in 0..width
      <4>1. t \in Times
        BY <2>2
      <4>2. since(t) <= width
        BY <1>4, <4>1
      <4>3. since(t) \in Nat
        BY <1>6, <4>1
      <4>4. QED
        BY <1>1, <4>2, <4>3
    <3>2. QED
      BY <1>6, <2>2, <3>1
  <2>4. QED
    BY <2>1, <2>3 DEF width
<1>8. ASSUME NEW s \in shown, NEW t \in shown, 3 * HourLen \notin {u \in shown : since(u) > 0}
      PROVE  SortKey(s) < SortKey(t) <=> since(s) < since(t)
  <2>1. s \in Times /\ t \in Times
    OBVIOUS
  <2> DEFINE three == 3 * HourLen
  <2>2. three \in Times
    BY <1>1 DEF Times
  <2>3. ~(three \in shown /\ since(three) > 0)
    BY <1>8
  <2> HIDE DEF start, since, shown
  <2>4. /\ s \in Nat /\ t \in Nat /\ s < Day /\ t < Day /\ start \in Nat /\ start < Day
    BY <1>1, <1>2, <2>1 DEF Times, start
  <2>5. since(three) = 0 \/ since(three) > width
    BY <1>1, <1>4, <1>6, <2>2, <2>3
  <2>6. /\ SortKey(s) = IF s < three THEN Day + s ELSE s
        /\ SortKey(t) = IF t < three THEN Day + t ELSE t
    BY <2>4, HoursAre DEF SortKey
  <2>7. since(s) <= width /\ since(t) <= width
    BY <1>4, <2>1
  <2>8. /\ since(s) = IF s < start THEN s - start + Day ELSE s - start
        /\ since(t) = IF t < start THEN t - start + Day ELSE t - start
        /\ since(three) = IF three < start THEN three - start + Day ELSE three - start
    BY <1>3, <2>1, <2>2
  <2>9. QED
    BY <1>1, <2>4, <2>5, <2>6, <2>7, <2>8
<1> HIDE DEF start, end, shown
<1>9. QED
  BY <1>7, <1>8 DEF start, end, shown

-----------------------------------------------------------------------------
\* Vehicles on a line.

Fractions == Int \X (Nat \ {0})
Grid == Int \X Int

\* An inequality between multiples is one between the numbers: distances are
\* fractions, compared by cross multiplication.
LEMMA Cancel ==
  ASSUME NEW x \in Int, NEW y \in Int, NEW d \in Nat \ {0}, x * d <= y * d
  PROVE  x <= y
OBVIOUS

\* The same the other way round, used where distances are compared by cross
\* multiplication.
LEMMA Scaled ==
  ASSUME NEW x \in Int, NEW y \in Int, NEW d \in Nat, x <= y
  PROVE  x * d <= y * d
OBVIOUS

\* "Nearer than" is an order: not nearer and not nearer is not nearer.
LEMMA LessIsAnOrder ==
  ASSUME NEW x \in Fractions, NEW y \in Fractions, NEW z \in Fractions,
         ~Less(y, x), ~Less(z, y)
  PROVE  ~Less(z, x)
<1> DEFINE a == x[1]
           b == x[2]
           c == y[1]
           d == y[2]
           e == z[1]
           f == z[2]
<1>1. /\ a \in Int /\ c \in Int /\ e \in Int
      /\ b \in Nat \ {0} /\ d \in Nat \ {0} /\ f \in Nat \ {0}
  BY DEF Fractions
<1>2. ~(c * b < a * d) /\ ~(e * d < c * f)
  BY DEF Less
<1> SUFFICES ~(e * b < a * f)
  BY DEF Less
<1> HIDE DEF a, b, c, d, e, f
<1>3. a * d \in Int /\ c * b \in Int /\ c * f \in Int /\ e * d \in Int /\ a * f \in Int /\ e * b \in Int
  BY <1>1
<1>4. a * d <= c * b /\ c * f <= e * d
  BY <1>2, <1>3
<1>5. (a * d) * f <= (c * b) * f /\ (c * f) * b <= (e * d) * b
  BY <1>1, <1>3, <1>4, Scaled
<1>6. (a * d) * f = (a * f) * d /\ (c * b) * f = (c * f) * b /\ (e * d) * b = (e * b) * d
  BY <1>1
<1>7. (a * f) * d <= (e * b) * d
  <2>1. (a * d) * f \in Int /\ (c * b) * f \in Int /\ (e * d) * b \in Int
    BY <1>1, <1>3
  <2>2. QED
    BY <1>5, <1>6, <2>1
<1>8. a * f <= e * b
  BY <1>1, <1>3, <1>7, Cancel
<1>9. QED
  BY <1>3, <1>8

\* No distance is less than itself, nor each of two less than the other.
LEMMA LessIsTotal ==
  ASSUME NEW x \in Fractions, NEW y \in Fractions
  PROVE  /\ Less(x, y) => ~Less(y, x)
         /\ ~Less(x, x)
<1>1. x[1] \in Int /\ y[1] \in Int /\ x[2] \in Int /\ y[2] \in Int
  BY DEF Fractions
<1>2. x[1] * y[2] \in Int /\ y[1] * x[2] \in Int /\ x[1] * x[2] \in Int
  BY <1>1
<1>3. QED
  BY <1>2 DEF Less

\* Squares, of the differences that a distance is made of, are not negative.
LEMMA SquareIsNatural ==
  ASSUME NEW n \in Int
  PROVE  Square(n) \in Nat /\ (Square(n) = 0 => n = 0)
BY DEF Square

\* Two points are at no distance exactly if they are the same one.
LEMMA DistanceSqZero ==
  ASSUME NEW a \in Grid, NEW b \in Grid
  PROVE  /\ DistanceSq(a, b) \in Nat
         /\ DistanceSq(a, b) = 0 => a = b
         /\ a = b => DistanceSq(a, b) = 0
<1>1. /\ a[1] \in Int /\ a[2] \in Int /\ b[1] \in Int /\ b[2] \in Int
      /\ a = <<a[1], a[2]>> /\ b = <<b[1], b[2]>>
  BY DEF Grid
<1>2. a[1] - b[1] \in Int /\ a[2] - b[2] \in Int
  BY <1>1
<1>3. /\ Square(a[1] - b[1]) \in Nat /\ Square(a[2] - b[2]) \in Nat
      /\ Square(a[1] - b[1]) = 0 => a[1] - b[1] = 0
      /\ Square(a[2] - b[2]) = 0 => a[2] - b[2] = 0
  BY <1>2, SquareIsNatural
<1>4. DistanceSq(a, b) \in Nat
  BY <1>3 DEF DistanceSq
<1>5. ASSUME DistanceSq(a, b) = 0
      PROVE  a = b
  <2>1. a[1] - b[1] = 0 /\ a[2] - b[2] = 0
    BY <1>3, <1>5 DEF DistanceSq
  <2>2. a[1] = b[1] /\ a[2] = b[2]
    BY <1>1, <2>1
  <2>3. QED
    BY <1>1, <2>2
<1>6. ASSUME a = b
      PROVE  DistanceSq(a, b) = 0
  BY <1>1, <1>6 DEF DistanceSq, Square
<1>7. QED
  BY <1>4, <1>5, <1>6

Measured(x, y, u, v, along, across, pa, pb, lenSq) ==
  /\ x \in Int /\ y \in Int /\ u \in Int /\ v \in Int
  /\ along = x * u + y * v /\ across = x * v - y * u
  /\ pa = Square(x) + Square(y) /\ lenSq = Square(u) + Square(v)
  /\ pb = Square(x - u) + Square(y - v)
\* The squares of what lies along a segment and across it, and of the distances
\* from its two ends (distanceSqPointToSegment projects the point by them).
LEMMA Lagrange ==
  ASSUME NEW x, NEW y, NEW u, NEW v, NEW along, NEW across, NEW pa, NEW pb, NEW lenSq,
         Measured(x, y, u, v, along, across, pa, pb, lenSq)
  PROVE  /\ Square(across) + Square(along) = pa * lenSq
         /\ pb = pa - 2 * along + lenSq
         /\ pb * lenSq = Square(across) + Square(lenSq - along)
BY DEF Square, Measured

\* distanceSqPointToSegment: no end of a segment is nearer than the segment.
LEMMA NearerThanItsEnds ==
  ASSUME NEW p \in Grid, NEW a \in Grid, NEW b \in Grid
  PROVE  LET d == DistanceSqPointToSegment(p, a, b)
         IN  /\ d \in Fractions
             /\ ~Less(<<DistanceSq(p, a), 1>>, d)
             /\ ~Less(<<DistanceSq(p, b), 1>>, d)
             /\ a = b => d = <<DistanceSq(p, a), 1>>
<1> DEFINE x == p[1] - a[1]
           y == p[2] - a[2]
           u == b[1] - a[1]
           v == b[2] - a[2]
           along == x * u + y * v
           across == x * v - y * u
           lenSq == DistanceSq(a, b)
           pa == DistanceSq(p, a)
           pb == DistanceSq(p, b)
           d == DistanceSqPointToSegment(p, a, b)
<1>1. x \in Int /\ y \in Int /\ u \in Int /\ v \in Int /\ along \in Int /\ across \in Int
  BY DEF Grid
<1>2. pa \in Nat /\ pb \in Nat /\ lenSq \in Nat /\ (a = b => lenSq = 0)
  BY DistanceSqZero
<1>3. /\ pa = Square(x) + Square(y) /\ lenSq = Square(u) + Square(v)
      /\ pb = Square(x - u) + Square(y - v)
  <2>1. pa = Square(x) + Square(y)
    BY DEF DistanceSq
  <2>2. lenSq = Square(u) + Square(v)
    <3>1. a[1] - b[1] = -u /\ a[2] - b[2] = -v
      BY DEF Grid
    <3>2. Square(-u) = Square(u) /\ Square(-v) = Square(v)
      <4> HIDE DEF u, v
      <4>1. QED
        BY <1>1 DEF Square
    <3>3. QED
      BY <3>1, <3>2 DEF DistanceSq
  <2>3. pb = Square(x - u) + Square(y - v)
    <3>1. p[1] - b[1] = x - u /\ p[2] - b[2] = y - v
      BY DEF Grid
    <3>2. QED
      BY <3>1 DEF DistanceSq
  <2>4. QED
    BY <2>1, <2>2, <2>3
<1>4. d = IF lenSq = 0 \/ along <= 0 THEN <<pa, 1>>
          ELSE IF along >= lenSq THEN <<pb, 1>>
          ELSE <<Square(across), lenSq>>
  BY DEF DistanceSqPointToSegment
<1> HIDE DEF x, y, u, v, lenSq, pa, pb, d
<1>5. /\ Square(across) + Square(along) = pa * lenSq
      /\ pb = pa - 2 * along + lenSq
      /\ pb * lenSq = Square(across) + Square(lenSq - along)
  <2>1. Measured(x, y, u, v, along, across, pa, pb, lenSq)
    BY <1>1, <1>3 DEF Measured
  <2> HIDE DEF along, across
  <2>2. QED
    BY <2>1, Lagrange
<1> HIDE DEF along, across
<1>6. Square(across) \in Nat /\ Square(along) \in Nat /\ Square(lenSq - along) \in Nat
  BY <1>1, <1>2, SquareIsNatural
<1>7. d \in Fractions
  <2>1. lenSq # 0 => lenSq \in Nat \ {0}
    BY <1>2
  <2>2. QED
    BY <1>2, <1>4, <1>6, <2>1 DEF Fractions
<1>8. ~Less(<<pa, 1>>, d) /\ ~Less(<<pb, 1>>, d)
  <2>1. CASE lenSq = 0 \/ along <= 0
    <3>1. pa <= pb
      <4>1. CASE lenSq = 0
        <5>1. a = b
          BY <4>1, DistanceSqZero DEF lenSq
        <5>2. QED
          BY <1>2, <5>1 DEF pa, pb
      <4>2. CASE along <= 0
        BY <1>1, <1>2, <1>5, <4>2
      <4>3. QED
        BY <2>1, <4>1, <4>2
    <3>2. d[1] = pa /\ d[2] = 1
      BY <1>4, <2>1
    <3>3. QED
      BY <1>2, <3>1, <3>2 DEF Less
  <2>2. CASE lenSq # 0 /\ along > 0 /\ along >= lenSq
    <3>1. pb <= pa
      BY <1>1, <1>2, <1>5, <2>2
    <3>2. d[1] = pb /\ d[2] = 1
      BY <1>1, <1>4, <2>2
    <3>3. QED
      BY <1>2, <3>1, <3>2 DEF Less
  <2>3. CASE lenSq # 0 /\ along > 0 /\ along < lenSq
    <3>1. d[1] = Square(across) /\ d[2] = lenSq
      BY <1>1, <1>2, <1>4, <2>3
    <3>2. pa * lenSq \in Nat /\ pb * lenSq \in Nat
      BY <1>2
    <3>3. Square(across) <= pa * lenSq /\ Square(across) <= pb * lenSq
      BY <1>5, <1>6, <3>2
    <3>4. QED
      BY <1>2, <1>6, <3>1, <3>2, <3>3 DEF Less
  <2>4. QED
    BY <1>1, <1>2, <2>1, <2>2, <2>3
<1>9. a = b => d = <<pa, 1>>
  BY <1>2, <1>4
<1>10. QED
  BY <1>7, <1>8, <1>9 DEF d, pa, pb

-----------------------------------------------------------------------------
\* The loop over the segments ends with the first of the nearest ones.
LEMMA BestIsFirst ==
  ASSUME NEW line \in Seq(Grid), NEW p \in Grid, Len(line) > 1
  PROVE  LET n == Len(line) - 1
             b == Best(line, p)[n]
         IN  /\ b \in Segments(line)
             /\ \A k \in Segments(line) :
                  /\ ~Less(Distance(line, p, k), Distance(line, p, b))
                  /\ k < b => Less(Distance(line, p, b), Distance(line, p, k))
<1> DEFINE n == Len(line) - 1
           D == 1..n
           dist(k) == Distance(line, p, k)
           next(i, k) == IF Improves(line, p, i, k) THEN i ELSE k
           Loop(f) == f = [i \in D |-> IF i = 1 THEN 1 ELSE next(i, f[i - 1])]
<1>1. n \in Nat /\ n >= 1 /\ Segments(line) = D
  BY DEF Segments
<1>2. \A k \in D : dist(k) \in Fractions
  <2> TAKE k \in D
  <2>1. line[k] \in Grid /\ line[k + 1] \in Grid
    BY <1>1
  <2>2. QED
    BY <2>1, NearerThanItsEnds DEF Distance
<1>3. \E f : Loop(f)
  <2> DEFINE one == 1
             walk == [x \in Nat \X Nat |-> next(x[1], x[2])]
  <2>1. \A i \in Nat, k \in Nat : walk[<<i, k>>] = next(i, k)
    <3> HIDE DEF next
    <3>1. QED
      OBVIOUS
  <2> HIDE DEF walk
  <2>2. Stays(walk, Nat)
    BY <2>1 DEF Stays
  <2>3. one \in Nat /\ one <= n
    BY <1>1
  <2> HIDE DEF one, n
  <2>4. PICK f \in [one..n -> Nat] : IsLoop(f, one, n, one, walk)
    BY <1>1, <2>2, <2>3, LoopExists
  <2> HIDE DEF next
  <2>5. f \in [D -> Nat] /\ \A i \in D : f[i] = IF i = 1 THEN 1 ELSE next(i, f[i - 1])
    <3>1. \A i \in D : i # 1 => i > 1 /\ i - 1 \in D /\ i \in Nat /\ i - 1 \in one..n
      BY <1>1 DEF one
    <3>2. f \in [D -> Nat] /\ f[1] = 1 /\ \A i \in D : i > 1 => f[i] = walk[<<i, f[i - 1]>>]
      BY <2>4 DEF one, IsLoop
    <3>3. QED
      BY <2>1, <3>1, <3>2
  <2>6. f = [i \in D |-> f[i]]
    BY <2>5
  <2>7. Loop(f)
    BY <2>5, <2>6
  <2>8. QED
    BY <2>7
<1> DEFINE best == CHOOSE f : Loop(f)
<1>4. Loop(best)
  BY <1>3
<1>5. Best(line, p) = best
  BY <1>1 DEF Best
<1> HIDE DEF best, n
<1>6. \A i \in D : best[i] = IF i = 1 THEN 1 ELSE next(i, best[i - 1])
  <2> HIDE DEF next
  <2>1. QED
    BY <1>4
<1> HIDE DEF Loop
<1> DEFINE First(i, k) ==
             /\ k \in 1..i
             /\ \A j \in 1..i : ~Less(dist(j), dist(k)) /\ (j < k => Less(dist(k), dist(j)))
           Good == {i \in D : First(i, best[i])}
<1> HIDE DEF dist
<1>7. 1 \in Good
  <2>1. best[1] = 1 /\ 1 \in D /\ dist(1) \in Fractions
    BY <1>1, <1>2, <1>6
  <2>2. \A j \in 1..1 : j = 1
    OBVIOUS
  <2>3. QED
    BY <2>1, <2>2, LessIsTotal
<1>8. ASSUME NEW i \in D, i > 1, i - 1 \in Good
      PROVE  i \in Good
  <2> DEFINE k == best[i - 1]
  <2>1. /\ i - 1 \in D /\ First(i - 1, k) /\ k \in 1..(i - 1) /\ k \in D
    BY <1>1, <1>8
  <2>2. best[i] = next(i, k)
    <3> HIDE DEF next
    <3>1. QED
      BY <1>1, <1>6, <1>8
  <2>3. best[i] = IF Less(dist(i), dist(k)) THEN i ELSE k
    BY <2>2 DEF Improves, dist
  <2> HIDE DEF k, next
  <2>4. ASSUME NEW j \in 1..i, j # i
        PROVE  ~Less(dist(j), dist(k)) /\ (j < k => Less(dist(k), dist(j)))
    <3>1. j \in 1..(i - 1)
      BY <1>1, <1>8, <2>4
    <3>2. QED
      BY <2>1, <3>1
  <2>5. \A j \in 1..i : dist(j) \in Fractions
    BY <1>1, <1>2
  <2>6. dist(k) \in Fractions /\ dist(i) \in Fractions
    BY <1>1, <1>2, <2>1
  <2>7. CASE Less(dist(i), dist(k))
    <3>1. ASSUME NEW j \in 1..i
          PROVE  ~Less(dist(j), dist(i)) /\ (j < i => Less(dist(i), dist(j)))
      <4>1. CASE j = i
        BY <1>1, <2>6, <4>1, LessIsTotal
      <4>2. CASE j # i
        <5>1. dist(j) \in Fractions /\ ~Less(dist(j), dist(k)) /\ ~Less(dist(k), dist(i))
          BY <2>4, <2>5, <2>6, <2>7, <4>2, LessIsTotal
        <5>2. Less(dist(i), dist(j))
          BY <2>6, <2>7, <5>1, LessIsAnOrder
        <5>3. QED
          BY <2>6, <5>1, <5>2, LessIsTotal
      <4>3. QED
        BY <4>1, <4>2
    <3>2. best[i] = i /\ i \in 1..i
      BY <1>1, <1>8, <2>3, <2>7
    <3>3. QED
      BY <3>1, <3>2
  <2>8. CASE ~Less(dist(i), dist(k))
    <3>1. best[i] = k /\ k \in 1..i
      BY <1>1, <1>8, <2>1, <2>3, <2>8
    <3>2. ~(i < k)
      BY <1>1, <1>8, <2>1
    <3>3. \A j \in 1..i : ~Less(dist(j), dist(k)) /\ (j < k => Less(dist(k), dist(j)))
      BY <2>4, <2>8, <3>2
    <3>4. QED
      BY <3>1, <3>3
  <2>9. QED
    BY <2>7, <2>8
<1> HIDE DEF Good
<1>9. \A i \in D : i \in Good
  <2> DEFINE one == 1
  <2>1. one \in Nat /\ one \in Good /\ \A i \in one..n : i > one /\ i - 1 \in Good => i \in Good
    BY <1>7, <1>8
  <2> HIDE DEF one
  <2>2. \A i \in one..n : i \in Good
    BY <1>1, <2>1, Induction
  <2>3. QED
    BY <2>2 DEF one
<1>10. First(n, best[n])
  <2>1. n \in D
    BY <1>1
  <2>2. QED
    BY <1>9, <2>1 DEF Good
<1>11. QED
  BY <1>1, <1>5, <1>10 DEF dist, n

\* Along segments without a length, which bearingAlongLine skips, the line stays
\* at one point.
LEMMA WithoutLength ==
  ASSUME NEW line \in Seq(Grid), NEW i \in Nat \ {0}, NEW j \in Nat, i <= j, j <= Len(line),
         \A k \in i..(j - 1) : Degenerate(line, k)
  PROVE  line[i] = line[j]
<1> DEFINE Good == {k \in i..j : line[k] = line[i]}
<1>1. i \in Nat /\ i \in Good
  OBVIOUS
<1>2. ASSUME NEW k \in i..j, k > i, k - 1 \in Good
      PROVE  k \in Good
  <2>1. k - 1 \in i..(j - 1) /\ (k - 1) + 1 = k
    BY <1>2
  <2>2. line[k - 1] = line[k]
    BY <2>1 DEF Degenerate
  <2>3. QED
    BY <1>2, <2>2
<1> HIDE DEF Good
<1>3. \A k \in i..j : k \in Good
  BY <1>1, <1>2, Induction
<1>4. j \in Good
  BY <1>3
<1>5. QED
  BY <1>4 DEF Good

\* The segment whose bearing the icon gets has a length, and none is nearer; there
\* is one whenever the line has a segment with a length.
LEMMA HeadingTrue ==
  ASSUME NEW line \in Seq(Grid), NEW p \in Grid
  PROVE  LET proper == {i \in Segments(line) : ~Degenerate(line, i)}
             h == Heading(line, p)
         IN  /\ h \in proper \union {0} /\ (h = 0 <=> proper = {})
             /\ h # 0 => \A i \in Segments(line) :
                  ~Less(Distance(line, p, i), Distance(line, p, h))
<1> DEFINE proper == {i \in Segments(line) : ~Degenerate(line, i)}
           h == Heading(line, p)
           n == Len(line) - 1
           b == Best(line, p)[n]
           dist(i) == Distance(line, p, i)
           longer == {j \in Segments(line) : j >= b /\ ~Degenerate(line, j)}
<1>1. CASE Len(line) < 2
  <2>1. h = 0
    BY <1>1 DEF Heading
  <2>2. Segments(line) = {}
    BY <1>1 DEF Segments
  <2>3. QED
    BY <2>1, <2>2
<1>2. CASE Len(line) >= 2
  <2>1. Len(line) > 1 /\ n \in Nat /\ Segments(line) = 1..n
    BY <1>2 DEF Segments
  <2>2. /\ b \in Segments(line)
        /\ \A k \in Segments(line) : ~Less(dist(k), dist(b)) /\ (k < b => Less(dist(b), dist(k)))
    BY <2>1, BestIsFirst
  <2>3. h = IF longer = {} THEN 0 ELSE CHOOSE j \in longer : \A k \in longer : j <= k
    BY <1>2 DEF Heading, BearingAlongLine
  <2> HIDE DEF h, b
  <2>4. b \in Nat \ {0} /\ b <= n
    BY <2>1, <2>2
  <2>5. \A k \in Segments(line) : line[k] \in Grid /\ line[k + 1] \in Grid
    BY <2>1
  <2>6. \A k \in Segments(line) :
          /\ dist(k) \in Fractions
          /\ ~Less(<<DistanceSq(p, line[k]), 1>>, dist(k))
          /\ ~Less(<<DistanceSq(p, line[k + 1]), 1>>, dist(k))
          /\ Degenerate(line, k) => dist(k) = <<DistanceSq(p, line[k]), 1>>
    BY <2>5, NearerThanItsEnds DEF Distance, Degenerate
  <2> HIDE DEF dist
  <2>7. CASE longer = {}
    <3>1. h = 0
      BY <2>3, <2>7
    <3>2. \A k \in Segments(line) : k >= b => Degenerate(line, k)
      BY <2>7
    <3>3. ASSUME proper # {}
          PROVE  FALSE
      <4> DEFINE N == {m \in Nat : b - m \in proper}
      <4>1. N \in SUBSET Nat /\ N # {}
        <5>1. PICK j \in proper : TRUE
          BY <3>3
        <5>2. j \in Nat /\ j < b
          BY <2>1, <2>4, <3>2
        <5>3. b - j \in Nat /\ b - (b - j) = j
          BY <2>4, <5>2
        <5>4. QED
          BY <5>1, <5>3
      <4> HIDE DEF N
      <4>2. PICK m \in N : \A l \in N : m <= l
        BY <4>1, SmallestNumber
      <4> DEFINE j == b - m
      <4>3. m \in Nat /\ j \in proper /\ j \in Segments(line)
        BY <4>2 DEF N
      <4>4. j \in Nat /\ j < b
        BY <2>1, <2>4, <3>2, <4>3
      <4>5. ASSUME NEW k \in (j + 1)..(b - 1)
            PROVE  Degenerate(line, k)
        <5>1. k \in Segments(line) /\ b - k \in Nat /\ b - (b - k) = k /\ b - k < m
          BY <2>1, <2>4, <4>3, <4>4
        <5>2. b - k \notin N
          BY <4>2, <4>3, <5>1
        <5>3. QED
          BY <5>1, <5>2 DEF N
      <4> HIDE DEF j
      <4>6. line[j + 1] = line[b]
        <5>1. j + 1 \in Nat \ {0} /\ j + 1 <= b /\ b <= Len(line) /\ b \in Nat
          BY <2>1, <2>4, <4>4
        <5>2. QED
          BY <4>5, <5>1, WithoutLength
      <4>7. dist(b) = <<DistanceSq(p, line[j + 1]), 1>>
        <5>1. Degenerate(line, b)
          BY <2>2, <2>4, <3>2
        <5>2. QED
          BY <2>2, <2>6, <4>6, <5>1
      <4>8. ~Less(dist(b), dist(j))
        BY <2>6, <4>3, <4>7
      <4>9. QED
        BY <2>2, <4>3, <4>4, <4>8
    <3>4. QED
      BY <3>1, <3>3 DEF h
  <2>8. CASE longer # {}
    <3>1. longer \in SUBSET Nat
      BY <2>1
    <3>2. \E j \in longer : \A k \in longer : j <= k
      <4> HIDE DEF longer
      <4>1. QED
        BY <2>8, <3>1, SmallestNumber
    <3>3. h \in longer /\ \A k \in longer : h <= k
      <4> HIDE DEF longer
      <4>1. QED
        BY <2>3, <2>8, <3>2
    <3>4. h \in proper /\ h # 0 /\ h \in Nat /\ h >= b /\ h <= n
      BY <2>1, <3>3
    <3>5. ASSUME NEW k \in b..(h - 1)
          PROVE  Degenerate(line, k)
      <4>1. k \in Segments(line) /\ k >= b /\ k < h
        BY <2>1, <2>4, <3>4
      <4>2. k \notin longer
        BY <3>3, <3>4, <4>1
      <4>3. QED
        BY <4>1, <4>2
    <3>6. line[b] = line[h]
      <4>1. h <= Len(line)
        BY <2>1, <3>4
      <4>2. QED
        BY <2>4, <3>4, <3>5, <4>1, WithoutLength
    <3>7. ~Less(dist(b), dist(h))
      <4>1. CASE h = b
        BY <2>2, <4>1
      <4>2. CASE h # b
        <5>1. b \in b..(h - 1)
          BY <2>4, <3>4, <4>2
        <5>2. dist(b) = <<DistanceSq(p, line[h]), 1>>
          BY <2>2, <2>6, <3>5, <3>6, <5>1
        <5>3. QED
          BY <2>6, <3>4, <5>2
      <4>3. QED
        BY <4>1, <4>2
    <3>8. ASSUME NEW i \in Segments(line)
          PROVE  ~Less(dist(i), dist(h))
      <4>1. h \in Segments(line)
        BY <3>4
      <4>2. dist(i) \in Fractions /\ dist(b) \in Fractions /\ dist(h) \in Fractions
        BY <2>2, <2>6, <4>1
      <4>3. ~Less(dist(i), dist(b))
        BY <2>2
      <4>4. QED
        BY <3>7, <4>2, <4>3, LessIsAnOrder
    <3>9. QED
      BY <3>4, <3>8 DEF h, dist
  <2>9. QED
    BY <2>7, <2>8 DEF h
<1>3. QED
  BY <1>1, <1>2

-----------------------------------------------------------------------------
\* Tables.

\* sortTableByColumn leaves the table sorted as its one arrow tells.
LEMMA ListenerSorts ==
  ASSUME NEW t \in SortableTables, NEW c \in Column, NEW u \in Listener(t, c)
  PROVE  /\ u \in SortableTables /\ u.listeners = t.listeners
         /\ \A d \in Column \ {c} : u.class[d] = "none"
         /\ Ordered(u, c, u.class[c] = "asc")
<1> DEFINE asc == t.class[c] # "asc"
           word == IF asc THEN "asc" ELSE "desc"
           class == [d \in Column |-> IF d = c THEN word ELSE "none"]
<1>1. asc \in BOOLEAN
  OBVIOUS
<1> HIDE DEF asc
<1>2. PICK p \in SortedRows(t.rows, c, asc) : u = [t EXCEPT !.rows = p, !.class = class]
  BY DEF Listener, SortTableByColumn, asc
<1>3. /\ p \in Perms(Row) /\ p \in [1..Cardinality(Row) -> Row]
      /\ \A i, j \in DOMAIN p : i < j => MayPrecede(t.rows, c, asc, p[i], p[j])
  BY <1>2 DEF SortedRows, Perms
<1>4. class \in [Column -> {"none", "asc", "desc"}] /\ class[c] = word
      /\ \A d \in Column \ {c} : class[d] = "none"
  BY <1>1
<1> HIDE DEF class
<1>5. u \in SortableTables /\ u.listeners = t.listeners /\ u.rows = p /\ u.class = class
  BY <1>2, <1>3, <1>4 DEF SortableTables
<1>6. Ordered(u, c, asc)
  <2> DEFINE key == IF c \in Numeric THEN Number[c] ELSE TextRank[c]
  <2>1. key \in [Row -> Int]
    BY TableAssumption
  <2>2. ASSUME NEW i \in DOMAIN p, NEW j \in DOMAIN p, i < j
        PROVE  IF asc THEN key[p[i]] <= key[p[j]] ELSE key[p[i]] >= key[p[j]]
    <3>1. p[i] \in Row /\ p[j] \in Row /\ key[p[i]] \in Int /\ key[p[j]] \in Int
      BY <1>3, <2>1
    <3>2. MayPrecede(t.rows, c, asc, p[i], p[j])
      BY <1>3, <2>2
    <3>3. CASE c \in Numeric
      <4>1. \/ (IF asc THEN 1 ELSE -1) * key[p[i]] < (IF asc THEN 1 ELSE -1) * key[p[j]]
            \/ key[p[i]] = key[p[j]]
        BY <3>2, <3>3 DEF MayPrecede
      <4> HIDE DEF key
      <4>2. QED
        BY <3>1, <4>1
    <3>4. CASE c \notin Numeric
      <4>1. (IF asc THEN 1 ELSE -1) * key[p[i]] <= (IF asc THEN 1 ELSE -1) * key[p[j]]
        BY <3>2, <3>4 DEF MayPrecede
      <4> HIDE DEF key
      <4>2. QED
        BY <3>1, <4>1
    <3>5. QED
      BY <3>3, <3>4
  <2>3. QED
    BY <1>5, <2>2 DEF Ordered
<1>7. QED
  BY <1>1, <1>4, <1>5, <1>6

\* So does a click, however many listeners hear it one after the other.
LEMMA ClickSorts ==
  ASSUME NEW t \in SortableTables, NEW c \in Column, NEW u \in Clicked(t, c)
  PROVE  /\ u \in SortableTables /\ u.listeners = t.listeners
         /\ \A d \in Column \ {c} : u.class[d] = "none"
         /\ Ordered(u, c, u.class[c] = "asc")
<1> DEFINE n == t.listeners
           Same == {v \in SortableTables : v.listeners = n}
           D == SUBSET Same
           heard(X) == UNION {Listener(v, c) : v \in X}
           step == [x \in Nat \X D |-> heard(x[2])]
           Loop(f) == f = [i \in 0..n |-> IF i = 0 THEN {t} ELSE heard(f[i - 1])]
<1>1. n \in Nat /\ n > 0 /\ {t} \in D
  BY DEF SortableTables
<1>2. ASSUME NEW X \in D
      PROVE  heard(X) \in D
  BY ListenerSorts
<1>3. Stays(step, D)
  BY <1>2 DEF Stays
<1>4. \A i \in Nat, X \in D : step[<<i, X>>] = heard(X)
  OBVIOUS
<1> HIDE DEF step, n, D
<1> HIDE DEF Loop, heard
<1>5. PICK f \in [0..n -> D] : f[0] = {t} /\ \A i \in 0..n : i > 0 => f[i] = step[<<i, f[i - 1]>>]
  <2> DEFINE b == 0
             a == {t}
  <2>1. b \in Nat /\ b <= n /\ n \in Nat /\ a \in D
    BY <1>1
  <2> HIDE DEF b, a
  <2>2. \E f \in [b..n -> D] : IsLoop(f, b, n, a, step)
    BY <1>3, <2>1, LoopExists
  <2>3. QED
    BY <2>2 DEF IsLoop, b, a
<1>6. \A i \in 0..n : f[i] = IF i = 0 THEN {t} ELSE heard(f[i - 1])
  <2> TAKE i \in 0..n
  <2>1. CASE i = 0
    BY <1>5, <2>1
  <2>2. CASE i # 0
    <3>1. i > 0 /\ i - 1 \in 0..n
      BY <1>1, <2>2
    <3>2. f[i - 1] \in D
      BY <1>5, <3>1
    <3>3. i \in Nat /\ step[<<i, f[i - 1]>>] = heard(f[i - 1])
      BY <1>4, <3>1, <3>2
    <3>4. QED
      BY <1>5, <2>2, <3>1, <3>3
  <2>3. QED
    BY <2>1, <2>2
<1>7. Loop(f)
  <2>1. f = [i \in 0..n |-> f[i]]
    BY <1>5
  <2>2. QED
    BY <1>6, <2>1 DEF Loop
<1> DEFINE after == CHOOSE g : Loop(g)
<1>8. Loop(after)
  BY <1>7
<1>9. Clicked(t, c) = after[n]
  BY DEF Clicked, n, Loop, heard
<1> HIDE DEF after
<1>10. after[0] = {t} /\ \A i \in 0..n : i > 0 => after[i] = heard(after[i - 1])
  <2>1. \A i \in 0..n : after[i] = IF i = 0 THEN {t} ELSE heard(after[i - 1])
    BY <1>8 DEF Loop
  <2>2. QED
    BY <1>1, <2>1
<1>11. \A i \in 0..n : after[i] \in D
  <2> DEFINE Good == {i \in 0..n : after[i] \in D}
  <2>1. 0 \in Good
    <3>1. 0 \in 0..n /\ after[0] \in D
      BY <1>1, <1>10
    <3>2. QED
      BY <3>1
  <2>2. ASSUME NEW i \in 0..n, i > 0, i - 1 \in Good
        PROVE  i \in Good
    BY <1>1, <1>2, <1>10, <2>2
  <2> HIDE DEF Good
  <2>3. \A i \in 0..n : i \in Good
    BY <1>1, <2>1, <2>2, Induction
  <2>4. QED
    BY <2>3 DEF Good
<1>12. PICK v \in after[n - 1] : u \in Listener(v, c)
  <2>1. n \in 0..n /\ n > 0 /\ u \in after[n]
    BY <1>1, <1>9
  <2>2. u \in heard(after[n - 1])
    BY <1>10, <2>1
  <2>3. QED
    BY <2>2 DEF heard
<1>13. v \in SortableTables /\ v.listeners = n
  BY <1>1, <1>11, <1>12 DEF D
<1>14. QED
  BY <1>12, <1>13, ListenerSorts DEF n

-----------------------------------------------------------------------------
\* The inputs of the four functions, and the tables under clicks, are of their
\* types to begin with; a board's times are folded to a day (realtime_schedule_model.py).
LEMMA InputsStart == InputInit => InputOK /\ ArrowTellsOrder
<1> SUFFICES ASSUME InputInit
             PROVE  InputOK /\ ArrowTellsOrder
  OBVIOUS
<1>1. CASE input \in Headings \union Overlays
  <2>1. input.of # "table"
    BY <1>1 DEF Headings, Overlays
  <2>2. QED
    BY <1>1, <2>1 DEF InputOK, ArrowTellsOrder
<1>2. CASE input \in Boards({0})
  <2>1. 0 \in Times
    BY TimesAssumption DEF Times, Day
  <2>2. input \in Boards(Times) /\ input.of # "table"
    BY <1>2, <2>1 DEF Boards
  <2>3. QED
    BY <2>2 DEF InputOK, ArrowTellsOrder
<1>3. CASE input \in Tables({FreshTable(p) : p \in Perms(Row)})
  <2>1. PICK p \in Perms(Row) : input = [of |-> "table", table |-> FreshTable(p)]
    BY <1>3 DEF Tables
  <2>2. FreshTable(p) \in SortableTables
    BY DEF FreshTable, SortableTables
  <2>3. input \in Tables(SortableTables)
    BY <2>1, <2>2 DEF Tables
  <2>4. \A c \in Column : input.table.class[c] = "none"
    BY <2>1 DEF FreshTable
  <2>5. QED
    BY <2>3, <2>4 DEF InputOK, ArrowTellsOrder
<1>4. QED
  BY <1>1, <1>2, <1>3 DEF InputInit

\* The clock, a click and a fragment from htmx keep the inputs well typed, and
\* the arrow of a table true (tablesort.js:62-71).
LEMMA InputsStep == InputOK /\ ArrowTellsOrder /\ [InputNext]_input => InputOK' /\ ArrowTellsOrder'
<1> SUFFICES ASSUME InputOK, ArrowTellsOrder, [InputNext]_input
             PROVE  InputOK' /\ ArrowTellsOrder'
  OBVIOUS
<1>1. CASE ClockTicks
  <2>1. input \in Boards(Times) /\ input.now < Day - 1
    BY <1>1 DEF ClockTicks, InputOK, Headings, Overlays, Tables
  <2>2. input.now + 1 \in Times
    BY <2>1, TimesAssumption DEF Boards, Times, Day
  <2>3. input' \in Boards(Times)
    BY <1>1, <2>1, <2>2 DEF ClockTicks, Boards
  <2>4. input'.of # "table"
    BY <2>3 DEF Boards
  <2>5. QED
    BY <2>3, <2>4 DEF InputOK, ArrowTellsOrder
<1>2. CASE HeadingClicked
  <2>1. input \in Tables(SortableTables)
    BY <1>2 DEF HeadingClicked, InputOK, Headings, Overlays, Boards
  <2>2. PICK c \in Column : \E t \in Clicked(input.table, c) : input' = [input EXCEPT !.table = t]
    BY <1>2 DEF HeadingClicked
  <2>3. PICK t \in Clicked(input.table, c) : input' = [input EXCEPT !.table = t]
    BY <2>2
  <2>4. input.table \in SortableTables /\ input.of = "table"
    BY <2>1 DEF Tables
  <2>5. /\ t \in SortableTables
        /\ \A d \in Column \ {c} : t.class[d] = "none"
        /\ Ordered(t, c, t.class[c] = "asc")
    BY <2>3, <2>4, ClickSorts
  <2>6. input' \in Tables(SortableTables) /\ input'.table = t
    BY <2>1, <2>3, <2>5 DEF Tables
  <2>7. ArrowTellsOrder'
    <3>1. ASSUME NEW d \in Column, t.class[d] # "none"
          PROVE  /\ Ordered(t, d, t.class[d] = "asc")
                 /\ \A e \in Column \ {d} : t.class[e] = "none"
      <4>1. d = c
        BY <2>5, <3>1
      <4>2. QED
        BY <2>5, <4>1
    <3>2. QED
      BY <2>6, <3>1 DEF ArrowTellsOrder
  <2>8. QED
    BY <2>6, <2>7 DEF InputOK
<1>3. CASE FragmentComes
  <2>1. input \in Tables(SortableTables)
    BY <1>3 DEF FragmentComes, InputOK, Headings, Overlays, Boards
  <2> DEFINE t == ListenedAgain(input.table)
  <2>2. input.table \in SortableTables /\ input.of = "table"
    BY <2>1 DEF Tables
  <2>3. t \in SortableTables /\ t.class = input.table.class /\ t.rows = input.table.rows
    BY <2>2 DEF SortableTables, ListenedAgain
  <2>4. input' = [input EXCEPT !.table = t]
    BY <1>3 DEF FragmentComes
  <2> HIDE DEF t
  <2>5. input' \in Tables(SortableTables) /\ input'.table = t
    BY <2>1, <2>3, <2>4 DEF Tables
  <2>6. \A c \in Column : Ordered(t, c, t.class[c] = "asc") <=>
                            Ordered(input.table, c, input.table.class[c] = "asc")
    BY <2>3 DEF Ordered
  <2>7. ArrowTellsOrder'
    BY <2>2, <2>3, <2>5, <2>6 DEF ArrowTellsOrder
  <2>8. QED
    BY <2>5, <2>7 DEF InputOK
<1>4. CASE UNCHANGED input
  BY <1>4 DEF InputOK, ArrowTellsOrder
<1>5. QED
  BY <1>1, <1>2, <1>3, <1>4 DEF InputNext

\* The inputs keep their types, and at most one heading has an arrow, which tells
\* how the rows are ordered, whatever was clicked in whatever fragments
\* (tablesort.js:62-71).
THEOREM ArrowsAreTrue == InputSpec => [](InputOK /\ ArrowTellsOrder)
  BY InputsStart, InputsStep, PTL DEF InputSpec

\* The icon of a vehicle points along a nearest segment, for every line and point
\* of a grid (maplibre-map-shared.js:267-300).
THEOREM IconsPointAlongTheLine == InputSpec => []HeadingIsNearest
<1>1. InputOK => HeadingIsNearest
  <2> SUFFICES ASSUME InputOK, input.of = "heading"
               PROVE  HeadingIsNearest
    BY DEF HeadingIsNearest
  <2>1. input \in Headings
    BY DEF InputOK, Overlays, Boards, Tables
  <2>2. input.line \in Seq(Grid) /\ input.at \in Grid
    <3>1. input.line \in Seq(Points) /\ input.at \in Points /\ Points \subseteq Grid
      BY <2>1, InputsAssumption DEF Headings, Grid
    <3>2. QED
      BY <3>1
  <2>3. QED
    BY <2>2, HeadingTrue DEF HeadingIsNearest
<1>2. QED
  BY <1>1, ArrowsAreTrue, PTL

\* The realtime row of a scheduled stop is the best of all the rows of its trip,
\* for any rows that a feed can have left (realtime_schedule_repo.py:92-99).
THEOREM OverlaysAreBest == InputSpec => []OverlayIsBest
<1>1. InputOK => OverlayIsBest
  <2> SUFFICES ASSUME InputOK, input.of = "overlay"
               PROVE  OverlayIsBest
    BY DEF OverlayIsBest
  <2>1. input \in Overlays
    BY DEF InputOK, Headings, Boards, Tables
  <2>2. Rows(input.rows) /\ input.seq \in Nat
    BY <2>1, InputsAssumption DEF Overlays, Rows
  <2>3. QED
    BY <2>2, OverlayFound, OverlayBest DEF OverlayIsBest
<1>2. QED
  BY <1>1, ArrowsAreTrue, PTL

\* The scheduled time of a departure, folded, and the time it is expected at are
\* times of one day (realtime_schedule_model.py).
LEMMA BoardTimes ==
  ASSUME InputOK, input.of = "board"
  PROVE  /\ input.now \in Times
         /\ RealArrival(input.scheduled, input.delay) \in Times
<1>1. input \in Boards(Times)
  BY DEF InputOK, Headings, Overlays, Tables
<1>2. PICK t \in GtfsTimes : input.scheduled = Fold(t)
  BY <1>1 DEF Boards
<1>3. t \in Int /\ input.delay \in Int /\ Day \in Nat /\ Day > 0
  <2>1. input.delay \in Delays
    BY <1>1 DEF Boards
  <2>2. HourLen \in Nat /\ HourLen > 0
    BY TimesAssumption
  <2>3. t \in 0..(30 * HourLen - 1) /\ input.delay \in Int
    BY <2>1, InputsAssumption
  <2>4. QED
    BY <2>2, <2>3 DEF Day
<1>4. input.scheduled \in Int
  BY <1>2, <1>3 DEF Fold
<1>5. (input.scheduled + input.delay) % Day \in 0..(Day - 1)
  BY <1>3, <1>4, Remainder
<1>6. QED
  BY <1>1, <1>5 DEF Boards, RealArrival, Times

\* The countdown of the board is true within an hour of a departure, over midnight
\* too, whatever the delay (realtime_schedule_model.py:23).
THEOREM CountdownsAreTrue == InputSpec => []EtaIsTrue
<1>1. InputOK => EtaIsTrue
  BY BoardTimes, EtaTrue DEF EtaIsTrue
<1>2. QED
  BY <1>1, ArrowsAreTrue, PTL

\* The board shows its window and sorts it, at every minute of the day and for
\* every window shorter than a day (schedule_service.py:49-54).
THEOREM BoardsAreInOrder == InputSpec => []BoardInOrder
<1>1. InputOK => BoardInOrder
  BY BoardTimes, BoardTrue DEF BoardInOrder
<1>2. QED
  BY <1>1, ArrowsAreTrue, PTL
=============================================================================
