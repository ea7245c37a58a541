----------------------------- MODULE MapWidgets -----------------------------
\* A loaded map with everything that reacts on it: its layer panel, and the
\* popups that a click on a stop or a vehicle opens, whose content is fetched
\* (openPopupForStopId in each map script, StopMapPopup).
EXTENDS LayerPanel, FiniteSets, Sequences

CONSTANTS
  Stop,
  Focus,        \* the stop that the map of a stop is about
  None,
  MaxRequests   \* requests for details in flight

ASSUME WidgetsAssumption == Focus \in Stop /\ None \notin Stop \union Route /\ MaxRequests \in Nat

VARIABLES
  popup,    \* of a stop: where it was put, and its content
  vehicle,  \* the popup of a vehicle: that of the route it is on, or None
  requests  \* for each stop, its requests for details that are under way

widgets == <<popup, vehicle, requests>>
vars == <<map, panelVars, widgets>>

Closed == [popup EXCEPT !.open = FALSE]

\* What a click can hit: features of layers that are shown and have a listener.
\* The circle and the label of a stop are layers of their own.
StopMapTargets ==
  {Focus} \union (IF OtherStops \intersect visible # {} THEN Stop ELSE {})
RouteMapTargets == IF RouteStops \intersect visible # {} THEN Stop ELSE {}
NearbyMapTargets == Stop
StaticMapTargets == Stop

StopTargets ==
  CASE map.kind = "stop" -> StopMapTargets
    [] map.kind = "route" -> RouteMapTargets
    [] map.kind = "nearby" -> NearbyMapTargets
    [] map.kind = "static" -> StaticMapTargets
    [] map.kind = "agency" -> {}

VehicleTargets == {r \in map.routes : {<<"vehicle", r>>, <<"vehicle-label", r>>} \intersect visible # {}}

\* buildLoadingPopupHtml, buildPopupHtmlFromDetailed and buildErrorPopupHtml: the
\* content of a popup and the stop that its title links to.
Loading(s) == [is |-> "loading", of |-> s]
Details(s) == [is |-> "details", of |-> s]
Error(s) == [is |-> "error", of |-> s]

-----------------------------------------------------------------------------
Init ==
  /\ InitPanel
  /\ popup = [open |-> FALSE, at |-> None, html |-> [is |-> "none", of |-> None], behind |-> {}]
  /\ vehicle = None
  /\ requests = [s \in Stop |-> 0]

\* Mutant: the popup keeps its content until the details arrive.
OpenStopsAsIs(p, ss) ==
  IF ss = <<>> THEN p
  ELSE [p EXCEPT !.open = TRUE, !.at = ss[Len(ss)],
                 !.behind = {s \in Stop : requests[s] > 0} \union {ss[i] : i \in DOMAIN ss}]

\* openPopupForStopId for each of the stops ss, one after the other. "behind"
\* notes whose answers are still to come then.
OpenStops(p, ss) ==
  IF ss = <<>> THEN p
  ELSE LET last == ss[Len(ss)]
       IN  [open |-> TRUE, at |-> last, html |-> Loading(last),
            behind |-> {s \in Stop : requests[s] > 0} \union {ss[i] : i \in DOMAIN ss}]

\* Mutant: an open popup is closed first, and what a listener then opens stays.
ClickClosingFirst(v, ss) ==
  /\ v \in VehicleTargets \union {None}
  /\ \A i \in DOMAIN ss : ss[i] \in StopTargets
  /\ popup' = OpenStops(Closed, ss)
  /\ vehicle' = IF ss # <<>> THEN None ELSE v
  /\ requests' = [s \in Stop |-> requests[s] + Cardinality({i \in DOMAIN ss : ss[i] = s})]
  /\ \A s \in Stop : requests'[s] <= MaxRequests
  /\ UNCHANGED <<map, panelVars>>

\* A click on the map. The listeners of the layers run in the order of their
\* registration, vehicles before stops, and after them those of the popups that
\* were open before the click: closeOnClick closes such a popup even if a
\* listener has just put it somewhere else.
Click(v, ss) ==
  /\ v \in VehicleTargets \union {None}
  /\ \A i \in DOMAIN ss : ss[i] \in StopTargets
  /\ popup' = [OpenStops(IF v = None THEN popup ELSE Closed, ss) EXCEPT !.open = @ /\ ~popup.open]
  /\ vehicle' = IF vehicle # None \/ ss # <<>> THEN None ELSE v
  /\ requests' = [s \in Stop |-> requests[s] + Cardinality({i \in DOMAIN ss : ss[i] = s})]
  /\ \A s \in Stop : requests'[s] <= MaxRequests
  /\ UNCHANGED <<map, panelVars>>

\* The close button of a popup.
Close ==
  /\ \/ popup.open /\ popup' = Closed /\ UNCHANGED vehicle
     \/ vehicle # None /\ vehicle' = None /\ UNCHANGED popup
  /\ UNCHANGED <<map, panelVars, requests>>

\* Details of stop s arrive, or its request fails: the popup gets them, wherever
\* it is by now, open or closed.
Arrived(s, html) ==
  /\ requests[s] > 0
  /\ requests' = [requests EXCEPT ![s] = @ - 1]
  /\ popup' = [popup EXCEPT !.html = html]
  /\ UNCHANGED <<map, panelVars, vehicle>>

Answer(s) == Arrived(s, Details(s))

\* Mutant: the catch does nothing.
FailSilently(s) == Arrived(s, popup.html)

Fail(s) == Arrived(s, Error(s))

Next ==
  \/ PanelNext /\ UNCHANGED widgets
  \/ \E v \in map.routes \union {None}, ss \in UNION {[1..n -> Stop] : n \in 0..2} : Click(v, ss)
  \/ Close
  \/ \E s \in Stop : Answer(s) \/ Fail(s)

\* Every request ends; nobody has to click.
Spec == Init /\ [][Next]_vars /\ \A s \in Stop : WF_vars(Answer(s) \/ Fail(s))

-----------------------------------------------------------------------------
Content == [is : {"none", "loading", "details", "error"}, of : Stop \union {None}]

\* The types of the variables.
TypeOK ==
  /\ map \in Map /\ visible \subseteq Layers(map) /\ checked \subseteq Boxes(map) /\ allOn \in BOOLEAN
  /\ popup \in [open : BOOLEAN, at : Stop \union {None}, html : Content, behind : SUBSET Stop]
  /\ vehicle \in map.routes \union {None}
  /\ requests \in [Stop -> 0..MaxRequests]

\* The inductive invariant: the boxes of the panel tell what is hidden. That the
\* panel is a set of switches rests on it.
IInv == TypeOK /\ PanelMatchesMap

\* What an open popup shows is about the stop it is at or, since answers are not
\* matched with the popup, about one whose details were under way when it was
\* put there; in particular never about a stop nobody has asked for since.
ShowsWhatWasAsked ==
  popup.open => popup.html.of \in {popup.at} \union popup.behind

\* While open, a popup stays where it is: a click on another stop closes it, as
\* closeOnClick has the last word, and only the next click opens it there.
NeverJumps == [][popup.open /\ popup'.open => popup'.at = popup.at]_vars

\* No popup goes on saying "Loading routes" for ever, though requests fail.
LoadingEnds == (popup.open /\ popup.html.is = "loading") ~> (~popup.open \/ popup.html.is # "loading")

\* The panel implements its switches, whatever goes on beside it.
PanelIsSwitches == Switches!Spec

=============================================================================
