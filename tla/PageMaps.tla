------------------------------ MODULE PageMaps ------------------------------
\* The maps of one browser tab. The script of a map page looks for its element
\* whenever one of several page events says that it might be there, waits for
\* the libraries it needs, fetches its data, builds a map, and builds it anew on
\* Refresh; htmx meanwhile replaces the body of the document under it, or
\* restores a body that it saved (static/js/*-map.js, maplibre-ready.js).
EXTENDS Naturals, FiniteSets, Sequences

CONSTANTS
  Page,        \* the URLs one can be at
  KindOf,      \* the map on each page, or "none"
  First,       \* the pages that are loaded in full
  Pushes,      \* <<from, to>>: rows with hx-push-url
  Replaces,    \* <<from, to>>: rows with hx-replace-url
  NoPage,
  FrameLimit,  \* animation frames a wait goes on for
  MaxBodies,   \* bodies the document has one after the other
  MaxRefreshes,
  MaxFaults    \* scripts that do not arrive and requests that fail

ASSUME PagesAssumption ==
  /\ KindOf \in [Page -> {"stop", "route", "nearby", "static", "agency", "none"}]
  /\ First \subseteq Page /\ NoPage \notin Page
  /\ Pushes \subseteq Page \X Page /\ Replaces \subseteq Page \X Page
  /\ FrameLimit \in Nat \ {0}
  /\ {MaxBodies, MaxRefreshes, MaxFaults} \subseteq Nat

VARIABLES
  doc,      \* parsing, parsed (DOMContentLoaded was sent) or complete (load was)
  libs,     \* the libraries among the globals
  helper,   \* maplibre-ready.js has run
  known,    \* the kinds whose script has run: its listeners are on the body
  tab,      \* the bodies, the waits of their scripts, and the calls of initXMap
  trail,    \* the entries of the session history, and where one is
  saved,    \* the bodies htmx keeps for the history, by page
  faults, refreshes

pageVars == <<doc, libs, helper, known, tab, trail, saved, faults, refreshes>>

\* What the scripts differ in: the libraries that one waits for, whether its page
\* has a Refresh button, and whether its map gets a layer panel.
StopEmbed == [needs |-> {"maplibregl", "StopMapPopup"}, refresh |-> TRUE, panel |-> TRUE]
RouteEmbed == [needs |-> {"maplibregl", "StopMapPopup"}, refresh |-> TRUE, panel |-> TRUE]
NearbyEmbed == [needs |-> {"maplibregl", "StopMapPopup"}, refresh |-> FALSE, panel |-> FALSE]
StaticEmbed == [needs |-> {"maplibregl", "StopMapPopup"}, refresh |-> FALSE, panel |-> FALSE]
AgencyEmbed == [needs |-> {"maplibregl"}, refresh |-> FALSE, panel |-> TRUE]

Embed == [stop |-> StopEmbed, route |-> RouteEmbed, nearby |-> NearbyEmbed,
          static |-> StaticEmbed, agency |-> AgencyEmbed]
Kinds == DOMAIN Embed
Refreshable == {k \in Kinds : Embed[k].refresh}
Missing(k) == Embed[k].needs \ libs

\* tab.body[b] is the b-th body, tab.cur the one in the document. tab.job[j] is
\* the j-th call of an init function: its data are those of page, it found the
\* container of body into, and it has put its map into body at.
Body == tab.body
Cur == tab.cur
KindAt(t, b) == KindOf[t.body[b].page]

FreshBody(p) ==
  [page |-> p,
   script |-> IF KindOf[p] = "none" THEN "none" ELSE IF "StopMapPopup" \in Embed[KindOf[p]].needs THEN "popup" ELSE "map",
   flag |-> FALSE, waited |-> 0, settling |-> FALSE,
   disabled |-> FALSE, onclick |-> NoPage, loader |-> KindOf[p] # "none", error |-> FALSE,
   cleanup |-> 0, panels |-> {}, restored |-> FALSE, crossed |-> FALSE]

\* The call j goes on or ends.
Becomes(t, j, s) == [t EXCEPT !.job[j].st = s]

\* Mutant: the panel stays.
CleanupLeavingPanel(t, c) ==
  LET old == t.body[c].cleanup
  IN  [t EXCEPT !.job[old].st = "removed", !.body[c].cleanup = 0]

\* __stopMapCleanup and __routeMapCleanup, left on the element of body c: they
\* remove the map that registered them and its panel.
Cleanup(t, c) ==
  LET body == t.body[c]
      old == body.cleanup
  IN  [Becomes(t, old, "removed") EXCEPT !.body[c] = [body EXCEPT !.cleanup = 0, !.panels = @ \ {old}]]

\* A call of an init function starts a request; its container is that of the body
\* in the document, whichever body it is called for.
Request(t, p, k) ==
  [t EXCEPT !.job = Append(@, [page |-> p, kind |-> k, into |-> t.cur, at |-> 0, st |-> "fetching"])]

\* initStopMap and initRouteMap: the map that is registered with an element of
\* their own kind is removed first, and the loader is shown (stop-map.js:28-47).
InitRefreshable(t, p, k) ==
  LET c == t.cur
      cleaned == IF KindAt(t, c) = k /\ t.body[c].cleanup # 0 THEN Cleanup(t, c) ELSE t
  IN  Request([cleaned EXCEPT !.body[c].loader = TRUE], p, k)

\* The other init functions do without.
InitPlain(t, p, k) == Request(t, p, k)

InitMap(t, p, k) ==
  IF KindAt(t, t.cur) = "none" THEN t
  ELSE IF k \in Refreshable THEN InitRefreshable(t, p, k) ELSE InitPlain(t, p, k)

\* Mutant: doInit relies on the look at the mark when the page was bound.
DoInitAgain(t, b) ==
  IF Missing(KindAt(t, b)) # {} THEN t
  ELSE InitMap([t EXCEPT !.body[b].flag = TRUE], t.body[b].page, KindAt(t, b))

\* doInit, called for body b: nothing if its element is marked or, where it was
\* another one's wait that ended, a library is missing (nearby-map.js:281-290).
DoInit(t, b) ==
  IF t.body[b].flag \/ Missing(KindAt(t, b)) # {} THEN t
  ELSE InitMap([t EXCEPT !.body[b].flag = TRUE], t.body[b].page, KindAt(t, b))

\* The loop of a script that found no maplibre-ready.js: it asks for all the
\* libraries at once and counts its frames on the element (stop-map.js:579-595).
Fallback(t, b) ==
  LET w == [body |-> b, for |-> "all", left |-> FrameLimit, again |-> FALSE]
      n == t.body[b].waited + 1
      without == [t EXCEPT !.wait = @ \ {w}]
      counted == [t EXCEPT !.body[b].waited = n]
  IN  IF t.body[b].flag THEN without
      ELSE IF Missing(KindAt(t, b)) = {}
           THEN DoInit([without EXCEPT !.body[b].waited = 0], b)
      ELSE IF n > FrameLimit THEN without
      ELSE [counted EXCEPT !.wait = @ \union {w}]

\* whenMapLibreReady and in its callback whenStopMapPopupReady, called for body b:
\* doInit at once, or a wait for the first library missing. A wait for MapLibre made
\* before the load event polls anew after it (maplibre-ready.js:54-60, 97-101).
WhenReady(t, b, before) ==
  LET missing == Missing(KindAt(t, b))
      first == IF "maplibregl" \in missing THEN "maplibregl" ELSE "StopMapPopup"
  IN  IF missing = {} THEN DoInit(t, b)
      ELSE [t EXCEPT !.wait = @ \union
             {[body |-> b, for |-> first, left |-> FrameLimit, again |-> before /\ first = "maplibregl"]}]

\* bindXMapEmbed of the kinds ks, run on some event: only an element of the
\* document that is not marked yet is of interest.
Bind(t, ks, before) ==
  IF KindAt(t, t.cur) \notin ks \/ t.body[t.cur].flag THEN t
  ELSE IF helper THEN WhenReady(t, t.cur, before)
  ELSE Fallback(t, t.cur)

Fault == faults < MaxFaults /\ faults' = faults + 1

-----------------------------------------------------------------------------
\* Loading a document. Scripts in the body run while it is parsed, the deferred
\* bundles before DOMContentLoaded (base.html:21-28).

PageInit ==
  /\ \E p \in First :
       /\ tab = [cur |-> 1, body |-> <<FreshBody(p)>>, wait |-> {}, job |-> <<>>]
       /\ trail = [at |-> 1, pages |-> <<p>>]
  /\ doc = "parsing" /\ libs = {} /\ known = {}
  /\ helper \in BOOLEAN
  /\ saved = <<>>
  /\ faults = (IF helper THEN 0 ELSE 1) /\ faults <= MaxFaults
  /\ refreshes = 0

\* Scripts run in the order of the document, and those of a body that was
\* replaced meanwhile still run (htmx inserts them with async off).
Pending(b) == Body[b].script \in {"popup", "map"}
Turn(b) == Pending(b) /\ \A a \in 1..(b - 1) : ~Pending(a)

\* stop-detail-popup.js of body b, or its failure to arrive.
PopupScript(b) ==
  /\ Turn(b) /\ Body[b].script = "popup"
  /\ tab' = [tab EXCEPT !.body[b].script = "map"]
  /\ \/ libs' = libs \union {"StopMapPopup"} /\ UNCHANGED faults
     \/ Fault /\ UNCHANGED libs
  /\ UNCHANGED <<doc, helper, known, trail, saved, refreshes>>

\* Mutant: the script leaves the page it is in to the events.
MapScriptListens(b) ==
  /\ Turn(b) /\ Body[b].script = "map"
  /\ known' = known \union {KindAt(tab, b)}
  /\ tab' = [tab EXCEPT !.body[b].script = "ran"]
  /\ UNCHANGED <<doc, libs, helper, trail, saved, faults, refreshes>>

\* The map script of body b: its listeners are on the body and the window from
\* now on, and it binds at once if the document is parsed (stop-map.js:598-607).
MapScript(b) ==
  LET k == KindAt(tab, b)
      t == [tab EXCEPT !.body[b].script = "ran"]
  IN  /\ Turn(b) /\ Body[b].script = "map"
      /\ known' = known \union {k}
      /\ tab' = IF doc = "parsing" THEN t ELSE Bind(t, {k}, doc # "complete")
      /\ UNCHANGED <<doc, libs, helper, trail, saved, faults, refreshes>>

MapScriptFails(b) ==
  /\ Turn(b) /\ Body[b].script = "map"
  /\ Fault
  /\ tab' = [tab EXCEPT !.body[b].script = "failed"]
  /\ UNCHANGED <<doc, libs, helper, known, trail, saved, refreshes>>

\* The deferred bundle has run or has not arrived.
Bundle ==
  /\ doc = "parsing" /\ "maplibregl" \notin libs
  /\ ~Pending(Cur)
  /\ libs' = libs \union {"maplibregl"}
  /\ UNCHANGED <<doc, helper, known, tab, trail, saved, faults, refreshes>>

DOMContentLoaded ==
  /\ doc = "parsing"
  /\ ~Pending(Cur)
  /\ IF "maplibregl" \in libs THEN UNCHANGED faults ELSE Fault
  /\ doc' = "parsed"
  /\ tab' = Bind(tab, known, TRUE)
  /\ UNCHANGED <<libs, helper, known, trail, saved, refreshes>>

Load ==
  /\ doc = "parsed"
  /\ doc' = "complete"
  /\ tab' = Bind([tab EXCEPT !.wait =
                    {IF w.again THEN [w EXCEPT !.left = FrameLimit, !.again = FALSE] ELSE w : w \in @}],
                 known, FALSE)
  /\ UNCHANGED <<libs, helper, known, trail, saved, faults, refreshes>>

\* An animation frame for the wait w (maplibre-ready.js:29-39, 81-94).
Frame(w) ==
  LET without == [tab EXCEPT !.wait = @ \ {w}]
      fewer == [w EXCEPT !.left = @ - 1]
  IN  /\ w \in tab.wait /\ w.left > 0
      /\ tab' = IF w.for = "all" THEN Fallback(tab, w.body)
                ELSE IF w.for \in libs THEN WhenReady(without, w.body, FALSE)
                ELSE IF fewer.left = 0 /\ ~w.again THEN without
                ELSE [without EXCEPT !.wait = @ \union {fewer}]
      /\ UNCHANGED <<doc, libs, helper, known, trail, saved, faults, refreshes>>

-----------------------------------------------------------------------------
\* Data, maps and the Refresh button.

\* The button of kind k that the document has now, with its new state.
EnableButton(t, k, p) ==
  IF k \in Refreshable /\ KindAt(t, t.cur) = k
  THEN LET body == t.body[t.cur]
       IN  [t EXCEPT !.body[t.cur] =
              [body EXCEPT !.disabled = FALSE, !.onclick = IF p = NoPage THEN @ ELSE p]]
  ELSE t

\* Mutant: the button is forgotten.
CatchOnly(t, j) ==
  LET c == t.job[j].into
  IN  [t EXCEPT !.job[j].st = "failed", !.body[c].loader = FALSE, !.body[c].error = TRUE]

\* catch: the error replaces what is in the container the call found.
Catch(t, j) ==
  LET c == t.job[j].into
  IN  EnableButton([Becomes(t, j, "failed") EXCEPT !.body[c] = [@ EXCEPT !.loader = FALSE, !.error = TRUE]],
                   t.job[j].kind, NoPage)

\* The request of job j fails, or its answer is not ok.
RequestFails(j) ==
  /\ tab.job[j].st = "fetching"
  /\ Fault
  /\ tab' = Catch(tab, j)
  /\ UNCHANGED <<doc, libs, helper, known, trail, saved, refreshes>>

\* The answer arrives. The map is built in the element that has the id of the
\* container now; without one the constructor throws (stop-map.js:54-64).
DataArrive(j) ==
  LET shown == [tab EXCEPT !.body[tab.job[j].into].loader = FALSE]
  IN  /\ tab.job[j].st = "fetching"
      /\ tab' = IF KindAt(tab, Cur) = "none" THEN Catch(shown, j)
                ELSE [shown EXCEPT !.job[j] = [@ EXCEPT !.st = "built", !.at = Cur]]
      /\ UNCHANGED <<doc, libs, helper, known, trail, saved, faults, refreshes>>

\* The map's load event: the panel is appended beside the container the call
\* found, the cleanup is left on the element around it, and the button of the
\* document is set to call the init function again (stop-map.js:322-326, 418-437).
MapLoads(j) ==
  LET c == tab.job[j].into
      k == tab.job[j].kind
      body == Body[c]
      loaded == [Becomes(tab, j, "loaded") EXCEPT !.body[c] = [body EXCEPT
                   !.panels = IF Embed[k].panel THEN @ \union {j} ELSE @,
                   !.cleanup = IF k \in Refreshable /\ KindAt(tab, c) = k THEN j ELSE @]]
  IN  /\ tab.job[j].st = "built"
      /\ tab' = EnableButton(loaded, k, tab.job[j].page)
      /\ UNCHANGED <<doc, libs, helper, known, trail, saved, faults, refreshes>>

\* A click on Refresh (stop-map.js:430-436).
Refresh ==
  /\ refreshes < MaxRefreshes
  /\ ~Body[Cur].disabled /\ Body[Cur].onclick # NoPage
  /\ refreshes' = refreshes + 1
  /\ tab' = InitMap([tab EXCEPT !.body[Cur].disabled = TRUE], Body[Cur].onclick, KindAt(tab, Cur))
  /\ UNCHANGED <<doc, libs, helper, known, trail, saved, faults>>

-----------------------------------------------------------------------------
\* htmx. It works from DOMContentLoaded on and keeps the body it replaces: of a
\* body, what is in the HTML is kept - the flag, a disabled button, what the
\* maps drew - and nothing of what scripts have attached to it.

Unfinished(t) == t.wait # {} \/ \E j \in DOMAIN t.job : t.job[j].st \in {"fetching", "built"}

Replaced(t, record) ==
  [t EXCEPT !.cur = @ + 1, !.body = Append(@, [record EXCEPT !.crossed = Unfinished(t)])]

Keep ==
  saved' = [p \in DOMAIN saved \union {Body[Cur].page} |->
              IF p = Body[Cur].page THEN Body[Cur] ELSE saved[p]]

\* A row is clicked and its page comes into the body. The scripts that have run
\* before hear htmx:afterSwap at once.
Swap(p) ==
  LET here == Body[Cur].page
      entries == SubSeq(trail.pages, 1, trail.at)
  IN  /\ doc # "parsing" /\ Len(Body) < MaxBodies
      /\ <<here, p>> \in Pushes \union Replaces
      /\ Keep
      /\ trail' = IF <<here, p>> \in Pushes
                  THEN [at |-> trail.at + 1, pages |-> Append(entries, p)]
                  ELSE [trail EXCEPT !.pages[trail.at] = p]
      /\ tab' = Bind(Replaced(tab, [FreshBody(p) EXCEPT !.settling = TRUE]), known, doc # "complete")
      /\ UNCHANGED <<doc, libs, helper, known, faults, refreshes>>

\* htmx:afterSettle, some time after.
Settle ==
  /\ Body[Cur].settling
  /\ tab' = Bind([tab EXCEPT !.body[Cur].settling = FALSE], known, doc # "complete")
  /\ UNCHANGED <<doc, libs, helper, known, trail, saved, faults, refreshes>>

\* Back or Forward to the entry e. The scripts of the kept body run again, but
\* neither event that the listeners wait for is sent. (A body that htmx has not
\* kept is one the browser loads in full: a tab of its own, see First.)
Restore(e) ==
  /\ doc # "parsing" /\ Len(Body) < MaxBodies
  /\ e \in DOMAIN trail.pages /\ e # trail.at
  /\ trail.pages[e] \in DOMAIN saved
  /\ Keep
  /\ trail' = [trail EXCEPT !.at = e]
  /\ LET p == trail.pages[e]
         kept == saved'[p]
     IN  tab' = Replaced(tab, [FreshBody(p) EXCEPT
                   !.flag = kept.flag, !.waited = kept.waited, !.disabled = kept.disabled,
                   !.loader = kept.loader, !.error = kept.error, !.restored = TRUE])
  /\ UNCHANGED <<doc, libs, helper, known, faults, refreshes>>

-----------------------------------------------------------------------------
Bodies == DOMAIN Body
Jobs == DOMAIN tab.job

PageNext ==
  \/ Bundle \/ DOMContentLoaded \/ Load \/ Refresh \/ Settle
  \/ \E b \in Bodies : PopupScript(b) \/ MapScript(b) \/ MapScriptFails(b)
  \/ \E w \in tab.wait : Frame(w)
  \/ \E j \in Jobs : RequestFails(j) \/ DataArrive(j) \/ MapLoads(j)
  \/ \E p \in Page : Swap(p)
  \/ \E e \in DOMAIN trail.pages : Restore(e)

\* Scripts, events and answers come sooner or later, and a map in the document
\* loads; nobody has to click, and a map outside it may never load.
InDocument(j) == j \in Jobs /\ tab.job[j].at = Cur /\ MapLoads(j)
Fairness ==
  /\ WF_pageVars(Bundle \/ DOMContentLoaded) /\ WF_pageVars(Load) /\ WF_pageVars(Settle)
  /\ WF_pageVars(\E b \in Bodies : PopupScript(b) \/ MapScript(b) \/ MapScriptFails(b))
  /\ WF_pageVars(\E w \in tab.wait : Frame(w))
  /\ WF_pageVars(\E j \in Jobs : RequestFails(j) \/ DataArrive(j))
  /\ WF_pageVars(\E j \in Jobs : InDocument(j))

PageSpec == PageInit /\ [][PageNext]_pageVars /\ Fairness

-----------------------------------------------------------------------------
\* The types of the variables. A body with a script that is still to run, or a
\* wait, has a map; its button is set only where there is one.
BodyType ==
  [page : Page, script : {"none", "popup", "map", "ran", "failed"},
   flag : BOOLEAN, waited : 0..FrameLimit, settling : BOOLEAN,
   disabled : BOOLEAN, onclick : Page \union {NoPage}, loader : BOOLEAN, error : BOOLEAN,
   cleanup : Nat, panels : SUBSET Nat, restored : BOOLEAN, crossed : BOOLEAN]
WaitType ==
  [body : Nat, for : {"all", "maplibregl", "StopMapPopup"}, left : 0..FrameLimit, again : BOOLEAN]
JobType ==
  [page : Page, kind : Kinds, into : Nat, at : Nat,
   st : {"fetching", "built", "loaded", "removed", "failed"}]

TabType == [cur : Nat, body : Seq(BodyType), wait : SUBSET WaitType, job : Seq(JobType)]

BodyOK(t, b) ==
  /\ t.body[b].cleanup \in DOMAIN t.job \union {0} /\ t.body[b].panels \subseteq DOMAIN t.job
  /\ t.body[b].script \in {"popup", "map"} => KindAt(t, b) # "none"
  /\ t.body[b].onclick # NoPage => KindAt(t, b) \in Refreshable
TabOK(t) ==
  /\ t \in TabType
  /\ t.cur = Len(t.body) /\ t.cur > 0
  /\ \A b \in DOMAIN t.body : BodyOK(t, b)
  /\ \A w \in t.wait : w.body \in DOMAIN t.body /\ KindAt(t, w.body) # "none"
  /\ \A j \in DOMAIN t.job : t.job[j].into \in DOMAIN t.body /\ t.job[j].at \in DOMAIN t.body \union {0}

PageTypeOK ==
  /\ doc \in {"parsing", "parsed", "complete"}
  /\ libs \subseteq {"maplibregl", "StopMapPopup"} /\ helper \in BOOLEAN /\ known \subseteq Kinds
  /\ TabOK(tab)
  /\ trail \in [at : Nat, pages : Seq(Page)] /\ trail.at \in DOMAIN trail.pages
  /\ DOMAIN saved \subseteq Page /\ \A p \in DOMAIN saved : saved[p] \in BodyType
  /\ faults \in 0..MaxFaults /\ refreshes \in 0..MaxRefreshes

Live(t, b) == {j \in DOMAIN t.job : t.job[j].at = b /\ t.job[j].st \in {"built", "loaded"}}

\* The element of a page shows at most one map, and that page's data, however
\* often the events announce it, Refresh is clicked and requests fail; except
\* when a wait, a request or a map of the body before was unfinished at the swap
\* ("crossed"): its container is looked up by an id that every page uses, so
\* that map may come up here (stop-map.js:59-60).
ShowsItsOwn ==
  \A b \in Bodies : ~Body[b].crossed =>
    /\ Cardinality(Live(tab, b)) <= 1
    /\ \A j \in Live(tab, b) : tab.job[j].page = Body[b].page /\ tab.job[j].kind = KindAt(tab, b)

\* What the next Refresh will remove is exactly what is there: the cleanup on the
\* element is that of its loaded map, and the panels in it are those of its
\* loaded maps (stop-map.js:418-426, route-map.js:368-376).
CleanupCovers ==
  LET loaded == {j \in Live(tab, Cur) : tab.job[j].st = "loaded"}
  IN  ~Body[Cur].crossed /\ KindAt(tab, Cur) # "none" =>
        /\ KindAt(tab, Cur) \in Refreshable => loaded = {Body[Cur].cleanup} \ {0}
        /\ Body[Cur].panels = {j \in loaded : Embed[KindAt(tab, Cur)].panel}

\* A Refresh button that was disabled by a click is enabled again or its body is
\* replaced, whatever the request ends in. (A body that was kept while its button
\* was disabled comes back with a button that stays so.)
RefreshComesBack ==
  \A b \in 1..MaxBodies :
    (b = Cur /\ Body[b].disabled /\ ~Body[b].restored) ~> (Cur # b \/ ~Body[b].disabled)

\* A page whose scripts arrive gets its map or an error, whichever of the events
\* came when - in particular a page that htmx swapped in, for which neither
\* DOMContentLoaded nor load comes (stop-map.js:545-549). (A body that htmx kept
\* after its element was marked comes back marked, and without a map.)
Ready(b) ==
  /\ b = Cur /\ ~Body[b].restored /\ Body[b].script = "ran"
  /\ Missing(KindAt(tab, b)) = {}
MapArrives ==
  \A b \in 1..MaxBodies :
    Ready(b) ~> (Cur # b \/ Body[b].error \/ \E j \in Jobs : tab.job[j].st = "loaded" /\ tab.job[j].at = b)

=============================================================================
