-------------------------- MODULE MapFrontendProofs --------------------------
\* The panel of a map is a set of switches, for any routes and stops, and
\* whatever popups and answers come and go beside it (MapWidgets); and a page
\* shows one map and its own, whatever events announce it (PageMaps). The two
\* share no state.
EXTENDS MapWidgets, PageMaps, FiniteSetTheorems, SequenceTheorems, TLAPS

\* The layers that the boxes B of a panel name.
Named(m, B) == UNION {Names(m, b) : b \in B}

\* A layer is named by some of the boxes exactly if one of them names it.
LEMMA InNamed ==
  ASSUME NEW m, NEW B, NEW l
  PROVE  l \in Named(m, B) <=> \E b \in B : l \in Names(m, b)
  BY DEF Named

\* The layers a box names are on the map, and there is at least one: without a
\* layer, a switch could not be seen to be off (stop-map.js:506-538).
LEMMA NamesOnMap ==
  ASSUME NEW m \in Map, NEW b \in Boxes(m)
  PROVE  Names(m, b) \subseteq Layers(m) /\ Names(m, b) # {}
<1>1. CASE m.kind = "stop"
  <2>1. Names(m, b) = StopPanelNames(m, b) /\ Layers(m) = StopMapLayers(m)
    BY <1>1 DEF Names, Layers
  <2>2. CASE b = <<"stops">>
    BY <2>1, <2>2 DEF StopPanelNames, StopMapLayers, OtherStops
  <2>3. CASE \E r \in m.routes : b = <<"route", r>>
    <3>1. PICK r \in m.routes : b = <<"route", r>>
      BY <2>3
    <3>2. StopPanelNames(m, b) = {<<"line", r>>} \union (IF m.vehicles THEN VehicleLayers(r) ELSE {})
      BY <3>1 DEF StopPanelNames
    <3> QED BY <2>1, <3>2 DEF StopMapLayers
  <2> QED BY <1>1, <2>2, <2>3 DEF Boxes, StopPanelBoxes
<1>2. CASE m.kind = "agency"
  <2>1. PICK r \in m.routes : b = <<"route", r>>
    BY <1>2 DEF Boxes, AgencyPanelBoxes
  <2>2. Names(m, b) = {<<"line", r>>}
    BY <1>2, <2>1 DEF Names, AgencyPanelNames
  <2> QED BY <1>2, <2>2 DEF Layers, AgencyMapLayers
<1>3. CASE m.kind = "route"
  <2>1. Names(m, b) = RoutePanelNames(m, b) /\ Layers(m) = RouteMapLayers(m)
    BY <1>3 DEF Names, Layers
  <2>2. CASE b = <<"line">>
    <3>1. PICK r \in Route : m.routes = {r}
      BY <1>3, MapAssumption
    <3>2. Names(m, b) = {<<"line", r>>}
      BY <2>1, <2>2, <3>1 DEF RoutePanelNames
    <3> QED BY <2>1, <3>1, <3>2 DEF RouteMapLayers
  <2>3. CASE b = <<"stops">>
    BY <2>1, <2>3 DEF RoutePanelNames, RouteMapLayers, RouteStops
  <2>4. CASE b = <<"vehicles">> /\ m.vehicles
    <3>1. PICK r \in m.routes : TRUE
      BY <1>3, MapAssumption
    <3>2. Names(m, b) = UNION {VehicleLayers(q) : q \in m.routes}
      BY <2>1, <2>4 DEF RoutePanelNames
    <3>3. VehicleLayers(r) # {}
      BY DEF VehicleLayers
    <3> QED BY <2>1, <2>4, <3>1, <3>2, <3>3 DEF RouteMapLayers
  <2> QED BY <1>3, <2>2, <2>3, <2>4 DEF Boxes, RoutePanelBoxes
<1> QED BY <1>1, <1>2, <1>3, MapAssumption DEF Boxes

\* No layer is named by two boxes (route-map.js:422-457).
LEMMA NamesDisjoint ==
  ASSUME NEW m \in Map, NEW b \in Boxes(m), NEW c \in Boxes(m), b # c
  PROVE  Names(m, b) \intersect Names(m, c) = {}
<1>1. CASE m.kind = "stop"
  BY <1>1 DEF Names, Boxes, StopPanelNames, StopPanelBoxes, VehicleLayers, OtherStops
<1>2. CASE m.kind = "agency"
  BY <1>2 DEF Names, Boxes, AgencyPanelNames, AgencyPanelBoxes
<1>3. CASE m.kind = "route"
  BY <1>3 DEF Names, Boxes, RoutePanelNames, RoutePanelBoxes, VehicleLayers, RouteStops
<1> QED BY <1>1, <1>2, <1>3, MapAssumption DEF Boxes

\* The button names what the boxes name, all of it and nothing else
\* (stop-map.js:461-484, route-map.js:459-475, agency-map.js:24-36).
LEMMA ToggledIsAll ==
  ASSUME NEW m \in Map, Boxes(m) # {}
  PROVE  Toggled(m) = Named(m, Boxes(m))
<1>1. CASE m.kind = "stop"
  <2>1. \A r \in m.routes :
          /\ <<"route", r>> \in Boxes(m)
          /\ m.vehicles => Names(m, <<"route", r>>) = {<<"line", r>>} \union VehicleLayers(r)
          /\ ~m.vehicles => Names(m, <<"route", r>>) = {<<"line", r>>}
    BY <1>1 DEF Boxes, StopPanelBoxes, Names, StopPanelNames
  <2>2. <<"stops">> \in Boxes(m) /\ Names(m, <<"stops">>) = OtherStops
    BY <1>1 DEF Boxes, StopPanelBoxes, Names, StopPanelNames
  <2>3. \A b \in Boxes(m) : b = <<"stops">> \/ \E r \in m.routes : b = <<"route", r>>
    BY <1>1 DEF Boxes, StopPanelBoxes
  <2>4. Toggled(m) = StopPanelToggles(m)
    BY <1>1 DEF Toggled
  <2>5. \A l : l \in StopPanelToggles(m) <=>
          \/ l \in OtherStops
          \/ \E r \in m.routes : l = <<"line", r>>
          \/ m.vehicles /\ \E r \in m.routes : l \in VehicleLayers(r)
    <3>1. CASE m.vehicles
      BY <3>1, Zenon DEF StopPanelToggles
    <3>2. CASE ~m.vehicles
      BY <3>2, Zenon DEF StopPanelToggles
    <3> QED BY <3>1, <3>2
  <2>6. ASSUME NEW l PROVE l \in Named(m, Boxes(m)) <=> l \in StopPanelToggles(m)
    <3>1. l \in Named(m, Boxes(m)) <=> \E b \in Boxes(m) : l \in Names(m, b)
      BY InNamed
    <3>2. (\E b \in Boxes(m) : l \in Names(m, b)) <=>
            l \in OtherStops \/ \E r \in m.routes : l \in Names(m, <<"route", r>>)
      BY <2>1, <2>2, <2>3, Zenon
    <3>3. CASE m.vehicles
      <4>1. \A r \in m.routes : l \in Names(m, <<"route", r>>) <=> l = <<"line", r>> \/ l \in VehicleLayers(r)
        BY <2>1, <3>3, Zenon
      <4> QED BY <2>5, <3>1, <3>2, <3>3, <4>1, Zenon
    <3>4. CASE ~m.vehicles
      <4>1. \A r \in m.routes : l \in Names(m, <<"route", r>>) <=> l = <<"line", r>>
        BY <2>1, <3>4, Zenon
      <4> QED BY <2>5, <3>1, <3>2, <3>4, <4>1, Zenon
    <3> QED BY <3>3, <3>4
  <2> QED BY <2>4, <2>6 DEF StopPanelToggles, Named
<1>2. CASE m.kind = "agency"
  <2>1. \A r \in m.routes : <<"route", r>> \in Boxes(m) /\ Names(m, <<"route", r>>) = {<<"line", r>>}
    BY <1>2 DEF Boxes, AgencyPanelBoxes, Names, AgencyPanelNames
  <2>2. \A b \in Boxes(m) : \E r \in m.routes : b = <<"route", r>>
    BY <1>2 DEF Boxes, AgencyPanelBoxes
  <2>3. Toggled(m) = AgencyPanelToggles(m)
    BY <1>2 DEF Toggled
  <2>4. ASSUME NEW l PROVE l \in Named(m, Boxes(m)) <=> l \in AgencyPanelToggles(m)
    <3>1. l \in Named(m, Boxes(m)) <=> \E b \in Boxes(m) : l \in Names(m, b)
      BY InNamed
    <3> QED BY <2>1, <2>2, <3>1 DEF AgencyPanelToggles
  <2> QED BY <2>3, <2>4 DEF AgencyPanelToggles, Named
<1>3. CASE m.kind = "route"
  <2>1. /\ Boxes(m) = RoutePanelBoxes(m)
        /\ Names(m, <<"line">>) = {<<"line", r>> : r \in m.routes}
        /\ Names(m, <<"stops">>) = RouteStops
        /\ Names(m, <<"vehicles">>) = UNION {VehicleLayers(r) : r \in m.routes}
    BY <1>3 DEF Boxes, Names, RoutePanelNames
  <2>2. Toggled(m) = RoutePanelToggles(m)
    BY <1>3 DEF Toggled
  <2>3. ASSUME NEW l PROVE l \in Named(m, Boxes(m)) <=> l \in RoutePanelToggles(m)
    <3>1. l \in Named(m, Boxes(m)) <=> \E b \in Boxes(m) : l \in Names(m, b)
      BY InNamed
    <3>2. CASE m.vehicles
      <4>1. Boxes(m) = {<<"line">>, <<"stops">>, <<"vehicles">>}
        BY <2>1, <3>2 DEF RoutePanelBoxes
      <4> QED BY <2>1, <3>1, <3>2, <4>1 DEF RoutePanelToggles
    <3>3. CASE ~m.vehicles
      <4>1. Boxes(m) = {<<"line">>, <<"stops">>}
        BY <2>1, <3>3 DEF RoutePanelBoxes
      <4> QED BY <2>1, <3>1, <3>3, <4>1 DEF RoutePanelToggles
    <3> QED BY <3>2, <3>3
  <2> QED BY <2>2, <2>3 DEF RoutePanelToggles, Named
<1> QED BY <1>1, <1>2, <1>3, MapAssumption DEF Boxes

-----------------------------------------------------------------------------
\* Ticking and unticking a box keeps the panel true to the map.
LEMMA ChangeKeepsPanel ==
  ASSUME map \in Map, PanelMatchesMap, NEW b \in Boxes(map), Change(b)
  PROVE  PanelMatchesMap'
<1>1. map' = map /\ checked' \subseteq Boxes(map)
  BY DEF Change, PanelMatchesMap
<1>2. visible = Layers(map) \ Named(map, Boxes(map) \ checked)
  BY DEF PanelMatchesMap, Named
<1>3. visible' = Layers(map) \ Named(map, Boxes(map) \ checked')
  <2>1. CASE b \in checked
    <3>1. checked' = checked \ {b} /\ visible' = visible \ Names(map, b)
      BY <2>1 DEF Change, SetLayerVisibility
    <3>2. \A c : c \in Boxes(map) \ checked' <=> c \in Boxes(map) \ checked \/ c = b
      BY <3>1
    <3>3. \A l : l \in Named(map, Boxes(map) \ checked') <=>
                 l \in Named(map, Boxes(map) \ checked) \/ l \in Names(map, b)
      BY <3>2, InNamed
    <3> QED BY <1>2, <3>1, <3>3
  <2>2. CASE b \notin checked
    <3>1. checked' = checked \union {b} /\ visible' = visible \union (Names(map, b) \intersect Layers(map))
      BY <2>2 DEF Change, SetLayerVisibility
    <3>2. \A c : c \in Boxes(map) \ checked <=> c \in Boxes(map) \ checked' \/ c = b
      BY <3>1, <2>2
    <3>3. \A l : l \in Named(map, Boxes(map) \ checked) <=>
                 l \in Named(map, Boxes(map) \ checked') \/ l \in Names(map, b)
      BY <3>2, InNamed
    <3>4. \A c \in Boxes(map) \ checked' : c # b /\ c \in Boxes(map)
      BY <3>1
    <3>5. \A l \in Names(map, b) : l \notin Named(map, Boxes(map) \ checked')
      BY <3>4, NamesDisjoint, InNamed
    <3> QED BY <1>2, <3>1, <3>3, <3>5
  <2> QED BY <2>1, <2>2
<1> QED BY <1>1, <1>3 DEF PanelMatchesMap, Named

\* So does the button.
LEMMA ToggleKeepsPanel ==
  ASSUME map \in Map, PanelMatchesMap, allOn \in BOOLEAN, ToggleAll
  PROVE  PanelMatchesMap'
<1>1. map' = map /\ Toggled(map) = Named(map, Boxes(map))
  BY ToggledIsAll DEF ToggleAll
<1>2. visible = Layers(map) \ Named(map, Boxes(map) \ checked)
  BY DEF PanelMatchesMap, Named
<1>3. Named(map, Boxes(map) \ checked) \subseteq Toggled(map)
  BY <1>1, InNamed
<1>4. visible' = Layers(map) \ Named(map, Boxes(map) \ checked')
  <2>1. CASE allOn'
    <3>1. visible' = visible \union (Toggled(map) \intersect Layers(map)) /\ checked' = Boxes(map)
      BY <2>1 DEF ToggleAll, SetLayerVisibility
    <3>2. \A l : l \notin Named(map, Boxes(map) \ checked')
      BY <3>1, InNamed
    <3> QED BY <1>2, <1>3, <3>1, <3>2
  <2>2. CASE ~allOn'
    <3>1. visible' = visible \ Toggled(map) /\ checked' = {}
      BY <2>2 DEF ToggleAll, SetLayerVisibility
    <3>2. Boxes(map) \ checked' = Boxes(map)
      BY <3>1
    <3> QED BY <1>2, <1>1, <1>3, <3>1, <3>2
  <2> QED BY <2>1, <2>2
<1>5. checked' \subseteq Boxes(map)
  BY DEF ToggleAll
<1> QED BY <1>1, <1>4, <1>5 DEF PanelMatchesMap, Named

\* The groups shown are those whose box is ticked.
LEMMA ShownIsChecked ==
  ASSUME map \in Map, PanelMatchesMap
  PROVE  Shown = checked
<1>1. ASSUME NEW b \in Boxes(map), b \in checked
      PROVE  Names(map, b) \subseteq visible
  <2>1. \A c \in Boxes(map) \ checked : Names(map, b) \intersect Names(map, c) = {}
    BY <1>1, NamesDisjoint
  <2> QED BY <2>1, NamesOnMap DEF PanelMatchesMap
<1>2. ASSUME NEW b \in Boxes(map), b \notin checked
      PROVE  ~(Names(map, b) \subseteq visible)
  BY <1>2, NamesOnMap DEF PanelMatchesMap
<1> QED BY <1>1, <1>2 DEF Shown, PanelMatchesMap

-----------------------------------------------------------------------------
\* A map starts with everything shown and every box ticked.
LEMMA InitIInv == Init => IInv
<1> SUFFICES ASSUME Init PROVE IInv
  OBVIOUS
<1>1. TypeOK
  BY WidgetsAssumption DEF Init, InitPanel, TypeOK, Content
<1>2. PanelMatchesMap
  <2>1. Boxes(map) \ checked = {}
    BY DEF Init, InitPanel
  <2> QED BY <2>1 DEF Init, InitPanel, PanelMatchesMap
<1> QED BY <1>1, <1>2 DEF IInv

\* A click asks for a number of details, which the guard keeps within the bound.
LEMMA ClickTypeOK ==
  ASSUME TypeOK, NEW v \in map.routes \union {None}, NEW n \in 0..2, NEW ss \in [1..n -> Stop], Click(v, ss)
  PROVE  TypeOK'
<1> USE WidgetsAssumption DEF TypeOK
<1>1. \A s \in Stop : Cardinality({i \in DOMAIN ss : ss[i] = s}) \in Nat
  <2> SUFFICES ASSUME NEW s \in Stop PROVE Cardinality({i \in DOMAIN ss : ss[i] = s}) \in Nat
    OBVIOUS
  <2>1. IsFiniteSet(1..n)
    BY FS_Interval
  <2>2. {i \in DOMAIN ss : ss[i] = s} \subseteq 1..n
    OBVIOUS
  <2> QED BY <2>1, <2>2, FS_Subset, FS_CardinalityType
<1>2. requests' \in [Stop -> 0..MaxRequests]
  BY <1>1 DEF Click
<1>3. vehicle' \in map.routes \union {None}
  BY DEF Click
<1> DEFINE Popup == [open : BOOLEAN, at : Stop \union {None}, html : Content, behind : SUBSET Stop]
<1>4. popup' \in Popup
  <2> DEFINE before == IF v = None THEN popup ELSE Closed
  <2>1. before \in Popup
    BY DEF Closed
  <2> HIDE DEF before
  <2>2. OpenStops(before, ss) \in Popup
    <3>1. CASE ss = <<>>
      BY <2>1, <3>1 DEF OpenStops
    <3>2. CASE ss # <<>>
      <4>1. n # 0
        BY <3>2
      <4>2. Len(ss) = n /\ ss[n] \in Stop
        BY <4>1
      <4>3. Loading(ss[n]) \in Content
        BY <4>2 DEF Loading, Content
      <4>4. {s \in Stop : requests[s] > 0} \union {ss[i] : i \in DOMAIN ss} \in SUBSET Stop
        OBVIOUS
      <4> QED BY <3>2, <4>2, <4>3, <4>4 DEF OpenStops
    <3> QED BY <3>1, <3>2
  <2>3. popup' = [OpenStops(before, ss) EXCEPT !.open = OpenStops(before, ss).open /\ ~popup.open]
    BY DEF Click, before
  <2>4. (OpenStops(before, ss).open /\ ~popup.open) \in BOOLEAN
    OBVIOUS
  <2> QED BY <2>2, <2>3, <2>4
<1> QED BY <1>2, <1>3, <1>4 DEF Click, panelVars

\* Every click, tick and answer keeps the panel true to the map.
LEMMA NextIInv == IInv /\ [Next]_vars => IInv'
<1> SUFFICES ASSUME IInv, [Next]_vars PROVE IInv'
  OBVIOUS
<1> USE DEF IInv
<1>1. ASSUME NEW b \in Boxes(map), Change(b), UNCHANGED widgets PROVE IInv'
  <2>1. PanelMatchesMap'
    BY <1>1, ChangeKeepsPanel DEF TypeOK
  <2>2. map' = map /\ allOn' = allOn
    BY <1>1 DEF Change
  <2> QED BY <1>1, <2>1, <2>2 DEF TypeOK, PanelMatchesMap, widgets
<1>2. ASSUME ToggleAll, UNCHANGED widgets PROVE IInv'
  <2>1. PanelMatchesMap'
    BY <1>2, ToggleKeepsPanel DEF TypeOK
  <2>2. map' = map /\ allOn' \in BOOLEAN
    BY <1>2 DEF ToggleAll
  <2> QED BY <1>2, <2>1, <2>2 DEF TypeOK, PanelMatchesMap, widgets
<1>3. ASSUME NEW v \in map.routes \union {None}, NEW n \in 0..2, NEW ss \in [1..n -> Stop], Click(v, ss)
      PROVE IInv'
  <2>1. TypeOK'
    BY <1>3, ClickTypeOK
  <2>2. UNCHANGED <<map, panelVars>>
    BY <1>3 DEF Click
  <2> QED BY <2>1, <2>2 DEF PanelMatchesMap, panelVars
<1>4. ASSUME Close PROVE IInv'
  BY <1>4 DEF Close, Closed, TypeOK, PanelMatchesMap, panelVars
<1>5. ASSUME NEW s \in Stop, NEW html \in Content, Arrived(s, html) PROVE IInv'
  <2>1. requests' \in [Stop -> 0..MaxRequests]
    BY <1>5, WidgetsAssumption DEF Arrived, TypeOK
  <2> QED BY <1>5, <2>1 DEF Arrived, TypeOK, PanelMatchesMap, panelVars
<1>6. ASSUME NEW s \in Stop, Answer(s) \/ Fail(s) PROVE IInv'
  <2>1. Details(s) \in Content /\ Error(s) \in Content
    BY DEF Details, Error, Content
  <2> QED BY <1>5, <1>6, <2>1 DEF Answer, Fail
<1>7. ASSUME UNCHANGED vars PROVE IInv'
  BY <1>7 DEF vars, panelVars, widgets, TypeOK, PanelMatchesMap
<1> QED BY <1>1, <1>2, <1>3, <1>4, <1>6, <1>7 DEF Next, PanelNext

\* Every map, whatever its routes, stops and vehicles, and however boxes, button
\* and popups are clicked: its boxes tell what is hidden on it.
THEOREM Invariance == Spec => []IInv
<1>1. Init => IInv
  BY InitIInv
<1>2. IInv /\ [Next]_vars => IInv'
  BY NextIInv
<1> QED BY <1>1, <1>2, PTL DEF Spec

-----------------------------------------------------------------------------
\* A step of the widgets is a flip of one switch, a setting of all, or nothing.
LEMMA StepIsSwitch ==
  ASSUME IInv, IInv', [Next]_vars
  PROVE  [Switches!Next]_<<Boxes(map), Shown>>
<1>1. Shown = checked /\ Shown' = checked'
  <2>1. Shown = checked
    BY ShownIsChecked DEF IInv, TypeOK
  <2>2. (map \in Map /\ PanelMatchesMap => Shown = checked)'
    BY ShownIsChecked, PTL
  <2> QED BY <2>1, <2>2 DEF IInv, TypeOK
<1>2. ASSUME NEW b \in Boxes(map), Change(b) PROVE Switches!Next
  BY <1>1, <1>2 DEF Change, Switches!Next, Switches!Flip
<1>3. ASSUME ToggleAll PROVE Switches!Next
  BY <1>1, <1>3 DEF ToggleAll, Switches!Next, Switches!SetAll
<1>4. ASSUME UNCHANGED <<map, panelVars>> PROVE UNCHANGED <<Boxes(map), Shown>>
  BY <1>1, <1>4 DEF panelVars
<1>5. ASSUME NEW v, NEW ss, Click(v, ss) PROVE UNCHANGED <<map, panelVars>>
  BY <1>5 DEF Click
<1>6. ASSUME NEW s \in Stop, Answer(s) \/ Fail(s) PROVE UNCHANGED <<map, panelVars>>
  BY <1>6 DEF Answer, Fail, Arrived
<1>7. ASSUME Close PROVE UNCHANGED <<map, panelVars>>
  BY <1>7 DEF Close
<1>8. ASSUME UNCHANGED vars PROVE UNCHANGED <<map, panelVars>>
  BY <1>8 DEF vars
<1> QED BY <1>2, <1>3, <1>4, <1>5, <1>6, <1>7, <1>8 DEF Next, PanelNext

\* The panel of every map implements its switches (buildLayerPanel).
THEOREM Refinement == Spec => PanelIsSwitches
<1>1. Init => Switches!Init
  <2> SUFFICES ASSUME Init PROVE Shown = Boxes(map)
    BY DEF Switches!Init
  <2>1. IInv
    BY InitIInv
  <2> QED BY <2>1, ShownIsChecked DEF IInv, TypeOK, Init, InitPanel
<1>2. IInv /\ IInv' /\ [Next]_vars => [Switches!Next]_<<Boxes(map), Shown>>
  BY StepIsSwitch
<1> QED BY <1>1, <1>2, Invariance, PTL DEF Spec, PanelIsSwitches, Switches!Spec, Switches!vars

-----------------------------------------------------------------------------
\* A click leaves a popup open only if it was closed before, and then it is at
\* the last of the stops that were hit (closeOnClick after openPopupForStopId).
LEMMA ClickOpens ==
  ASSUME TypeOK, NEW v, NEW n \in 0..2, NEW ss \in [1..n -> Stop], Click(v, ss), popup'.open
  PROVE  /\ ~popup.open /\ n # 0
         /\ popup'.html.of = popup'.at /\ popup'.at = ss[n]
         /\ popup'.behind = {s \in Stop : requests[s] > 0} \union {ss[i] : i \in 1..n}
<1> DEFINE before == IF v = None THEN popup ELSE Closed
<1>1. before.open => popup.open
  BY DEF Closed, TypeOK
<1>2. before \in [open : BOOLEAN, at : Stop \union {None}, html : Content, behind : SUBSET Stop]
  BY DEF Closed, TypeOK
<1> HIDE DEF before
<1>3. popup' = [OpenStops(before, ss) EXCEPT !.open = OpenStops(before, ss).open /\ ~popup.open]
  BY DEF Click, before
<1>4. CASE ss = <<>>
  <2>1. OpenStops(before, ss) = before
    BY <1>4 DEF OpenStops
  <2> QED BY <1>1, <1>2, <1>3, <2>1
<1>5. CASE ss # <<>>
  <2>1. n # 0 /\ Len(ss) = n /\ DOMAIN ss = 1..n
    BY <1>5
  <2>2. OpenStops(before, ss) =
          [open |-> TRUE, at |-> ss[n], html |-> Loading(ss[n]),
           behind |-> {s \in Stop : requests[s] > 0} \union {ss[i] : i \in 1..n}]
    BY <1>5, <2>1 DEF OpenStops
  <2>3. popup' = [open |-> TRUE /\ ~popup.open, at |-> ss[n], html |-> Loading(ss[n]),
                  behind |-> {s \in Stop : requests[s] > 0} \union {ss[i] : i \in 1..n}]
    BY <1>3, <2>2
  <2> HIDE <2>2
  <2>4. Loading(ss[n]).of = ss[n]
    BY DEF Loading
  <2> QED BY <2>1, <2>3, <2>4
<1> QED BY <1>4, <1>5

\* A popup that is open stays where it is (openPopupForStopId, closeOnClick).
THEOREM StaysInPlace == Spec => NeverJumps
<1>1. ASSUME IInv, [Next]_vars PROVE [popup.open /\ popup'.open => popup'.at = popup.at]_vars
  <2>1. ASSUME NEW v, NEW n \in 0..2, NEW ss \in [1..n -> Stop], Click(v, ss)
        PROVE  ~(popup.open /\ popup'.open)
    BY <1>1, <2>1, ClickOpens DEF IInv
  <2>2. ASSUME NEW s \in Stop, NEW html, Arrived(s, html) PROVE popup'.at = popup.at
    BY <1>1, <2>2 DEF Arrived, IInv, TypeOK
  <2>3. ASSUME Close PROVE popup'.at = popup.at
    BY <1>1, <2>3 DEF Close, Closed, IInv, TypeOK
  <2>4. CASE UNCHANGED popup
    BY <2>4
  <2> QED BY <1>1, <2>1, <2>2, <2>3, <2>4 DEF Next, vars, widgets, Answer, Fail
<1> QED BY <1>1, Invariance, PTL DEF Spec, NeverJumps

\* What is under way while a popup is open was under way when it was opened: a
\* click on an open popup's map only closes it. This and ShowsWhatWasAsked are
\* inductive together.
PendingIsBehind == popup.open => \A s \in Stop : requests[s] > 0 => s \in popup.behind

\* The clicks of a popup's map keep what it shows to what was asked for.
LEMMA ClickKeepsAsked ==
  ASSUME TypeOK, NEW v, NEW n \in 0..2, NEW ss \in [1..n -> Stop], Click(v, ss)
  PROVE  (ShowsWhatWasAsked /\ PendingIsBehind)'
<1> SUFFICES ASSUME popup'.open
             PROVE  /\ popup'.html.of \in {popup'.at} \union popup'.behind
                    /\ \A s \in Stop : requests'[s] > 0 => s \in popup'.behind
  BY DEF ShowsWhatWasAsked, PendingIsBehind
<1>1. popup'.html.of = popup'.at
  BY ClickOpens
<1>2. ASSUME NEW s \in Stop, requests'[s] > 0, requests[s] = 0 PROVE \E i \in 1..n : ss[i] = s
  <2> DEFINE Hits == {i \in DOMAIN ss : ss[i] = s}
  <2>1. requests'[s] = requests[s] + Cardinality(Hits)
    BY <1>2 DEF Click
  <2>2. Cardinality({}) = 0
    BY FS_EmptySet
  <2> HIDE DEF Hits
  <2>3. Hits # {}
    <3>1. SUFFICES ASSUME Hits = {} PROVE FALSE
      OBVIOUS
    <3>2. Cardinality(Hits) = 0
      BY <2>2, <3>1, Zenon
    <3>3. requests'[s] = 0 + 0
      BY <1>2, <2>1, <3>2, Zenon
    <3> QED BY <1>2, <3>3
  <2> QED BY <2>3 DEF Hits
<1>3. popup'.behind = {s \in Stop : requests[s] > 0} \union {ss[i] : i \in 1..n}
  BY ClickOpens, ZenonT(40)
<1>4. ASSUME NEW s \in Stop, requests'[s] > 0 PROVE s \in popup'.behind
  <2>1. requests[s] > 0 \/ requests[s] = 0
    BY WidgetsAssumption DEF TypeOK
  <2>2. CASE requests[s] > 0
    BY <1>3, <2>2
  <2>3. CASE requests[s] = 0
    <3>1. PICK i \in 1..n : ss[i] = s
      BY <1>2, <1>4, <2>3
    <3> QED BY <1>3, <3>1
  <2> QED BY <2>1, <2>2, <2>3
<1> QED BY <1>1, <1>4

\* An open popup shows the stop it is at or one whose answer was under way when it
\* was opened, and no other (stop-map.js:265-312, stop-detail-popup.js).
THEOREM ShowsAsked == Spec => []ShowsWhatWasAsked
<1>1. Init => ShowsWhatWasAsked /\ PendingIsBehind
  BY DEF Init, ShowsWhatWasAsked, PendingIsBehind
<1>2. ASSUME IInv, ShowsWhatWasAsked, PendingIsBehind, [Next]_vars
      PROVE  (ShowsWhatWasAsked /\ PendingIsBehind)'
  <2> USE <1>2, WidgetsAssumption DEF IInv, TypeOK, ShowsWhatWasAsked, PendingIsBehind
  <2>1. ASSUME NEW v, NEW n \in 0..2, NEW ss \in [1..n -> Stop], Click(v, ss)
        PROVE  (ShowsWhatWasAsked /\ PendingIsBehind)'
    BY <2>1, ClickKeepsAsked
  <2>2. ASSUME NEW s \in Stop, NEW html, html.of = s, Arrived(s, html)
        PROVE  (ShowsWhatWasAsked /\ PendingIsBehind)'
    <3>1. popup'.open = popup.open /\ popup'.at = popup.at /\ popup'.behind = popup.behind /\ popup'.html.of = s
      BY <2>2 DEF Arrived
    <3>2. \A t \in Stop : requests'[t] > 0 => requests[t] > 0
      BY <2>2 DEF Arrived
    <3>3. requests[s] > 0
      BY <2>2 DEF Arrived
    <3> QED BY <3>1, <3>2, <3>3
  <2>3. ASSUME NEW s \in Stop, Answer(s) \/ Fail(s)
        PROVE  (ShowsWhatWasAsked /\ PendingIsBehind)'
    BY <2>2, <2>3 DEF Answer, Fail, Details, Error
  <2>4. ASSUME Close PROVE (ShowsWhatWasAsked /\ PendingIsBehind)'
    BY <2>4 DEF Close, Closed
  <2>5. CASE UNCHANGED widgets
    BY <2>5 DEF widgets
  <2> QED BY <2>1, <2>3, <2>4, <2>5 DEF Next, vars
<1> QED BY <1>1, <1>2, Invariance, PTL DEF Spec

-----------------------------------------------------------------------------
\* The maps of a tab (PageMaps). The inductive invariant: the body in the
\* document has the waits and the calls to itself, unless it is crossed; of its
\* calls one at most has neither failed nor been removed, none as long as the
\* element is not marked or while Refresh is enabled, but one whose map is loaded,
\* which its cleanup and its panels are of. The bodies before are left with what
\* they showed at the swap.
Under(t) == {j \in DOMAIN t.job : t.job[j].into = t.cur /\ t.job[j].st \in {"fetching", "built"}}
Loaded(t) == {j \in DOMAIN t.job : t.job[j].into = t.cur /\ t.job[j].st = "loaded"}
Alone(t) ==
  LET body == t.body[t.cur]
      kind == KindAt(t, t.cur)
  IN  ~body.crossed =>
        /\ \A w \in t.wait : w.body = t.cur
        /\ \A j \in DOMAIN t.job :
             t.job[j].at = t.cur \/ t.job[j].st \in {"fetching", "built"} => t.job[j].into = t.cur
        /\ \A j \in Under(t) \union Loaded(t) :
             /\ t.job[j].page = body.page /\ t.job[j].kind = kind
             /\ t.job[j].st # "fetching" => t.job[j].at = t.cur
        /\ \A i, j \in Under(t) \union Loaded(t) : i = j
        /\ ~body.flag => Under(t) \union Loaded(t) = {}
        /\ body.onclick # NoPage => body.onclick = body.page /\ body.flag
        /\ body.onclick # NoPage /\ ~body.disabled => Under(t) = {}
        /\ kind \in Refreshable => Loaded(t) = {body.cleanup} \ {0}
        /\ kind # "none" => body.panels = {j \in Loaded(t) : Embed[kind].panel}
LeftBehind(t) ==
  \A b \in DOMAIN t.body \ {t.cur} : ~t.body[b].crossed =>
    /\ \A i, j \in Live(t, b) : i = j
    /\ \A j \in Live(t, b) : t.job[j].page = t.body[b].page /\ t.job[j].kind = KindAt(t, b)
PageInv == PageTypeOK /\ Alone(tab) /\ LeftBehind(tab)

\* A tab that is as it should be, and tabs with one body or one call replaced.
Fine(t) == TabOK(t) /\ Alone(t) /\ LeftBehind(t)
WithBody(t, b, x) == [t EXCEPT !.body[b] = x]
WithJob(t, j, y) == [t EXCEPT !.job[j] = y]

\* Putting a record in the place of body b changes that body and nothing else; the
\* updates of the scripts, which nest EXCEPTs, are seen through it (stop-map.js:35-47).
LEMMA BodyPut ==
  ASSUME NEW t \in TabType, NEW b \in DOMAIN t.body, NEW x \in BodyType
  PROVE  LET r == WithBody(t, b, x)
         IN  /\ r \in TabType /\ r.cur = t.cur /\ r.wait = t.wait /\ r.job = t.job
             /\ DOMAIN r.body = DOMAIN t.body /\ Len(r.body) = Len(t.body)
             /\ r.body[b] = x /\ \A c \in DOMAIN t.body \ {b} : r.body[c] = t.body[c]
<1> DEFINE body == [t.body EXCEPT ![b] = x]
<1>1. t.body \in Seq(BodyType) /\ DOMAIN t.body = 1..Len(t.body)
  BY DEF TabType
<1>2. /\ body \in Seq(BodyType) /\ Len(body) = Len(t.body)
      /\ \A j \in 1..Len(t.body) : body[j] = IF j = b THEN x ELSE t.body[j]
  BY <1>1, ExceptSeq
<1>3. DOMAIN body = DOMAIN t.body
  OBVIOUS
<1> HIDE DEF body
<1>4. WithBody(t, b, x) = [t EXCEPT !.body = body]
  BY DEF WithBody, body
<1>5. /\ WithBody(t, b, x).cur = t.cur /\ WithBody(t, b, x).wait = t.wait
      /\ WithBody(t, b, x).job = t.job /\ WithBody(t, b, x).body = body
  BY <1>4 DEF TabType
<1>6. WithBody(t, b, x) \in TabType
  BY <1>2, <1>4 DEF TabType
<1>7. QED
  BY <1>1, <1>2, <1>3, <1>5, <1>6

\* Putting a record in the place of call j changes that call and nothing else.
LEMMA JobPut ==
  ASSUME NEW t \in TabType, NEW j \in DOMAIN t.job, NEW y \in JobType
  PROVE  LET r == WithJob(t, j, y)
         IN  /\ r \in TabType /\ r.cur = t.cur /\ r.wait = t.wait /\ r.body = t.body
             /\ DOMAIN r.job = DOMAIN t.job
             /\ r.job[j] = y /\ \A i \in DOMAIN t.job \ {j} : r.job[i] = t.job[i]
<1> DEFINE job == [t.job EXCEPT ![j] = y]
<1>1. t.job \in Seq(JobType) /\ DOMAIN t.job = 1..Len(t.job)
  BY DEF TabType
<1>2. /\ job \in Seq(JobType)
      /\ \A i \in 1..Len(t.job) : job[i] = IF i = j THEN y ELSE t.job[i]
  BY <1>1, ExceptSeq
<1>3. DOMAIN job = DOMAIN t.job
  OBVIOUS
<1> HIDE DEF job
<1>4. WithJob(t, j, y) = [t EXCEPT !.job = job]
  BY DEF WithJob, job
<1>5. /\ WithJob(t, j, y).cur = t.cur /\ WithJob(t, j, y).wait = t.wait
      /\ WithJob(t, j, y).body = t.body /\ WithJob(t, j, y).job = job
  BY <1>4 DEF TabType
<1>6. WithJob(t, j, y) \in TabType
  BY <1>2, <1>4 DEF TabType
<1>7. QED
  BY <1>1, <1>2, <1>3, <1>5, <1>6

\* Fields of no concern.
Like(x, y) ==
  /\ x.page = y.page /\ x.flag = y.flag /\ x.disabled = y.disabled /\ x.onclick = y.onclick
  /\ x.cleanup = y.cleanup /\ x.panels = y.panels /\ x.crossed = y.crossed

Waiting(t, b) ==
  b \in DOMAIN t.body /\ KindAt(t, b) # "none" /\ (~t.body[t.cur].crossed => b = t.cur)

\* Two tabs whose bodies, jobs and page are alike are alone alike.
LEMMA AloneAlike ==
  ASSUME NEW t, NEW r, Alone(t), r.cur = t.cur, r.job = t.job,
         Like(r.body[t.cur], t.body[t.cur]),
         ~t.body[t.cur].crossed => \A w \in r.wait : w.body = t.cur
  PROVE  Alone(r)
<1>1. Under(r) = Under(t) /\ Loaded(r) = Loaded(t)
  BY DEF Under, Loaded
<1>2. KindAt(r, r.cur) = KindAt(t, t.cur)
  BY DEF Like, KindAt
<1>3. QED
  BY <1>1, <1>2 DEF Alone, Like

\* What a body left behind shows depends on the calls and on its page alone.
LEMMA BehindAlike ==
  ASSUME NEW t, NEW r, LeftBehind(t), r.cur = t.cur, r.job = t.job, DOMAIN r.body = DOMAIN t.body,
         \A b \in DOMAIN t.body : r.body[b].page = t.body[b].page /\ r.body[b].crossed = t.body[b].crossed
  PROVE  LeftBehind(r)
BY DEF LeftBehind, Live, KindAt

\* A change of what is of no concern, say the loader or a counter on the element,
\* leaves a tab as it should be (stop-map.js:49-51, 579-595).
LEMMA Touched ==
  ASSUME NEW t, Fine(t), NEW b \in DOMAIN t.body, NEW x \in BodyType, Like(x, t.body[b]),
         x.script \in {"popup", "map"} => KindAt(t, b) # "none"
  PROVE  LET r == WithBody(t, b, x)
         IN  Fine(r) /\ (\A c \in DOMAIN t.body : Waiting(t, c) => Waiting(r, c))
<1> DEFINE r == WithBody(t, b, x)
<1>1. /\ r \in TabType /\ r.cur = t.cur /\ r.wait = t.wait /\ r.job = t.job
      /\ DOMAIN r.body = DOMAIN t.body /\ Len(r.body) = Len(t.body)
      /\ r.body[b] = x /\ \A c \in DOMAIN t.body \ {b} : r.body[c] = t.body[c]
  BY BodyPut DEF Fine, TabOK
<1> HIDE DEF r
<1>2. \A c \in DOMAIN t.body : Like(r.body[c], t.body[c]) /\ KindAt(r, c) = KindAt(t, c)
  BY <1>1 DEF Like, KindAt
<1>3. t.cur \in DOMAIN t.body
  BY DEF Fine, TabOK, TabType
<1>4. \A c \in DOMAIN t.body : BodyOK(r, c)
  <2>1. BodyOK(r, b)
    BY <1>1, <1>2 DEF Fine, TabOK, BodyOK, Like
  <2>2. \A c \in DOMAIN t.body \ {b} : BodyOK(r, c)
    BY <1>1, <1>2 DEF Fine, TabOK, BodyOK
  <2>3. QED
    BY <2>1, <2>2
<1>5. TabOK(r)
  BY <1>1, <1>2, <1>4 DEF Fine, TabOK
<1>6. Alone(r)
  BY <1>1, <1>2, <1>3, AloneAlike DEF Fine, Alone
<1>7. LeftBehind(r)
  BY <1>1, <1>2, BehindAlike DEF Fine, Like
<1>8. \A c \in DOMAIN t.body : Waiting(t, c) => Waiting(r, c)
  BY <1>1, <1>2, <1>3 DEF Waiting, Like
<1>9. QED
  BY <1>5, <1>6, <1>7, <1>8 DEF Fine, r

\* Waits may be started and given up as long as they are for bodies that may wait
\* (maplibre-ready.js:29-39).
LEMMA WaitsSet ==
  ASSUME NEW t, Fine(t), NEW W \in SUBSET WaitType, \A w \in W : Waiting(t, w.body)
  PROVE  LET r == [t EXCEPT !.wait = W]
         IN  Fine(r) /\ r.wait = W /\ r.cur = t.cur /\ r.body = t.body /\ r.job = t.job
             /\ (\A c \in DOMAIN t.body : Waiting(t, c) => Waiting(r, c))
<1> DEFINE r == [t EXCEPT !.wait = W]
<1>1. r \in TabType /\ r.cur = t.cur /\ r.wait = W /\ r.body = t.body /\ r.job = t.job
  BY DEF Fine, TabOK, TabType
<1> HIDE DEF r
<1>2. \A c \in DOMAIN t.body : KindAt(r, c) = KindAt(t, c)
  BY <1>1 DEF KindAt
<1>3. TabOK(r)
  BY <1>1, <1>2 DEF Fine, TabOK, BodyOK, Waiting
<1>4. Alone(r)
  BY <1>1, AloneAlike DEF Fine, Waiting, Like
<1>5. LeftBehind(r)
  BY <1>1, BehindAlike DEF Fine
<1>6. QED
  BY <1>1, <1>2, <1>3, <1>4, <1>5 DEF Fine, Waiting, r

\* Every wait is for a body that may wait: the one in the document, unless it is crossed.
LEMMA WaitsAre ==
  ASSUME NEW t, Fine(t)
  PROVE  \A w \in t.wait : w \in WaitType /\ Waiting(t, w.body)
BY DEF Fine, TabOK, TabType, Alone, Waiting

Startable(t, p, k) ==
  /\ p \in Page /\ k \in Kinds
  /\ ~t.body[t.cur].crossed =>
       /\ p = t.body[t.cur].page /\ k = KindAt(t, t.cur) /\ t.body[t.cur].flag
       /\ t.body[t.cur].onclick # NoPage => t.body[t.cur].disabled
       /\ Under(t) = {} /\ (k \in Refreshable \/ Loaded(t) = {})
Free(t, p, k) == Startable(t, p, k) /\ (~t.body[t.cur].crossed => Loaded(t) = {})

\* A call of an init function for the body in the document, none of whose maps is
\* there or under way, leaves a tab as it should be (stop-map.js:49-53).
LEMMA RequestFine ==
  ASSUME NEW t, NEW p, NEW k, Fine(t), Free(t, p, k)
  PROVE  Fine(Request(t, p, k))
<1> DEFINE new == [page |-> p, kind |-> k, into |-> t.cur, at |-> 0, st |-> "fetching"]
           n == Len(t.job)
           job == Append(t.job, new)
           r == Request(t, p, k)
<1>1. t \in TabType /\ t.job \in Seq(JobType) /\ n \in Nat /\ DOMAIN t.job = 1..n
  BY DEF Fine, TabOK, TabType
<1>2. new \in JobType
  BY <1>1 DEF Free, Startable, JobType, TabType
<1>3. /\ job \in Seq(JobType) /\ Len(job) = n + 1 /\ job[n + 1] = new
      /\ \A j \in DOMAIN t.job : job[j] = t.job[j]
  BY <1>1, <1>2, AppendProperties
<1>4. DOMAIN job = DOMAIN t.job \union {n + 1} /\ n + 1 \notin DOMAIN t.job /\ 0 \notin DOMAIN t.job
  BY <1>1, <1>3
<1>5. /\ new.page = p /\ new.kind = k /\ new.into = t.cur /\ new.at = 0 /\ new.st = "fetching"
  OBVIOUS
<1>6. t.cur \in DOMAIN t.body /\ 0 \notin DOMAIN t.body
  BY DEF Fine, TabOK, TabType
<1> HIDE DEF new, n, job
<1>7. r = [t EXCEPT !.job = job]
  BY DEF r, Request, job, new
<1>8. /\ r \in TabType /\ r.cur = t.cur /\ r.body = t.body /\ r.wait = t.wait /\ r.job = job
  BY <1>1, <1>3, <1>7 DEF TabType
<1> HIDE DEF r
<1>9. \A b : KindAt(r, b) = KindAt(t, b)
  BY <1>8 DEF KindAt
<1>10. \A b \in DOMAIN r.body : BodyOK(r, b)
  BY <1>4, <1>8, <1>9 DEF Fine, TabOK, BodyOK
<1>11. \A j \in DOMAIN r.job : r.job[j].into \in DOMAIN r.body /\ r.job[j].at \in DOMAIN r.body \union {0}
  BY <1>3, <1>4, <1>5, <1>6, <1>8 DEF Fine, TabOK
<1>12. TabOK(r)
  BY <1>8, <1>9, <1>10, <1>11 DEF Fine, TabOK
<1>13. \A b \in DOMAIN t.body : Live(r, b) = Live(t, b)
  BY <1>3, <1>4, <1>5, <1>8 DEF Live
<1>14. LeftBehind(r)
  BY <1>3, <1>8, <1>9, <1>13 DEF Fine, LeftBehind, Live
<1>15. ASSUME ~t.body[t.cur].crossed PROVE Alone(r)
  <2>1. Under(t) = {} /\ Loaded(t) = {} /\ p = t.body[t.cur].page /\ k = KindAt(t, t.cur)
        /\ t.body[t.cur].flag /\ (t.body[t.cur].onclick # NoPage => t.body[t.cur].disabled)
    BY <1>15 DEF Free, Startable
  <2>2. Under(r) = {n + 1}
    BY <1>3, <1>4, <1>5, <1>8, <2>1 DEF Under
  <2>3. Loaded(r) = {}
    BY <1>3, <1>4, <1>5, <1>8, <2>1 DEF Loaded
  <2>4. \A j \in DOMAIN r.job :
             r.job[j].at = r.cur \/ r.job[j].st \in {"fetching", "built"} => r.job[j].into = r.cur
    <3>1. \A j \in DOMAIN t.job :
             t.job[j].at = t.cur \/ t.job[j].st \in {"fetching", "built"} => t.job[j].into = t.cur
      BY <1>15 DEF Fine, Alone
    <3>2. r.job[n + 1].into = r.cur
      BY <1>3, <1>5, <1>8
    <3>3. DOMAIN r.job = DOMAIN t.job \union {n + 1} /\ \A j \in DOMAIN t.job : r.job[j] = t.job[j]
      BY <1>3, <1>4, <1>8
    <3>4. QED
      BY <1>8, <3>1, <3>2, <3>3
  <2>5. k # "none" => t.body[t.cur].panels = {}
    BY <1>15, <2>1 DEF Fine, Alone
  <2>6. k \in Refreshable => {t.body[t.cur].cleanup} \ {0} = {}
    BY <1>15, <2>1 DEF Fine, Alone
  <2>7. \A w \in r.wait : w.body = r.cur
    BY <1>8, <1>15 DEF Fine, Alone
  <2>8. t.body[t.cur].onclick # NoPage => t.body[t.cur].onclick = t.body[t.cur].page
    BY <1>15 DEF Fine, Alone
  <2>9. QED
    BY <1>3, <1>5, <1>8, <1>9, <2>1, <2>2, <2>3, <2>4, <2>5, <2>6, <2>7, <2>8 DEF Alone
<1>16. Alone(r)
  BY <1>8, <1>15 DEF Alone
<1>17. QED
  BY <1>12, <1>14, <1>16 DEF Fine, r

\* A job that goes on, in the document if it comes into view.
LEMMA JobSet ==
  ASSUME NEW t, TabOK(t), LeftBehind(t), NEW j \in DOMAIN t.job, NEW y \in JobType,
         y.page = t.job[j].page, y.kind = t.job[j].kind, y.into = t.job[j].into,
         y.at \in DOMAIN t.body \union {0},
         y.at # t.cur /\ y.st \in {"built", "loaded"} =>
           y.at = t.job[j].at /\ t.job[j].st \in {"built", "loaded"}
  PROVE  LET r == WithJob(t, j, y)
         IN  /\ TabOK(r) /\ LeftBehind(r) /\ r.cur = t.cur /\ r.body = t.body /\ r.wait = t.wait
             /\ DOMAIN r.job = DOMAIN t.job /\ r.job[j] = y
             /\ \A i \in DOMAIN t.job \ {j} : r.job[i] = t.job[i]
<1> DEFINE r == WithJob(t, j, y)
<1>1. t \in TabType /\ t.job[j] \in JobType
  BY DEF TabOK, TabType
<1>2. /\ r \in TabType /\ r.cur = t.cur /\ r.wait = t.wait /\ r.body = t.body
      /\ DOMAIN r.job = DOMAIN t.job
      /\ r.job[j] = y /\ \A i \in DOMAIN t.job \ {j} : r.job[i] = t.job[i]
  BY <1>1, JobPut
<1> HIDE DEF r
<1>3. \A b : KindAt(r, b) = KindAt(t, b)
  BY <1>2 DEF KindAt
<1>4. \A i \in DOMAIN t.job :
        r.job[i].page = t.job[i].page /\ r.job[i].kind = t.job[i].kind /\ r.job[i].into = t.job[i].into
        /\ r.job[i].at \in DOMAIN t.body \union {0}
  BY <1>2 DEF TabOK
<1>5. TabOK(r)
  BY <1>2, <1>3, <1>4 DEF TabOK, BodyOK
<1>6. \A b \in DOMAIN t.body \ {t.cur} : \A i \in Live(r, b) :
        i \in Live(t, b) /\ r.job[i].page = t.job[i].page /\ r.job[i].kind = t.job[i].kind
  BY <1>2, <1>4 DEF Live
<1>7. LeftBehind(r)
  BY <1>2, <1>3, <1>6 DEF LeftBehind
<1>8. QED
  BY <1>2, <1>5, <1>7 DEF r

\* A call that fails, and a map that is removed, are of the body in the document no
\* longer (stop-map.js:31-34, 440-455).
LEMMA JobEnds ==
  ASSUME NEW t, Fine(t), NEW j \in DOMAIN t.job, NEW s \in {"removed", "failed"}
  PROVE  LET r == Becomes(t, j, s)
         IN  /\ TabOK(r) /\ LeftBehind(r) /\ r.cur = t.cur /\ r.body = t.body /\ r.wait = t.wait
             /\ Under(r) = Under(t) \ {j} /\ Loaded(r) = Loaded(t) \ {j} /\ DOMAIN r.job = DOMAIN t.job
             /\ \A i \in DOMAIN t.job : r.job[i].page = t.job[i].page /\ r.job[i].kind = t.job[i].kind
                                        /\ r.job[i].into = t.job[i].into /\ r.job[i].at = t.job[i].at
             /\ \A i \in DOMAIN t.job \ {j} : r.job[i] = t.job[i]
             /\ r.job[j].st = s
<1> DEFINE y == [t.job[j] EXCEPT !.st = s]
           r == WithJob(t, j, y)
<1>1. t.job[j] \in JobType
  BY DEF Fine, TabOK, TabType
<1>2. /\ y \in JobType /\ y.page = t.job[j].page /\ y.kind = t.job[j].kind /\ y.into = t.job[j].into
      /\ y.at = t.job[j].at /\ y.st = s
  BY <1>1 DEF JobType
<1> HIDE DEF y
<1>3. /\ TabOK(r) /\ LeftBehind(r) /\ r.cur = t.cur /\ r.body = t.body /\ r.wait = t.wait
      /\ DOMAIN r.job = DOMAIN t.job /\ r.job[j] = y
      /\ \A i \in DOMAIN t.job \ {j} : r.job[i] = t.job[i]
  <2>1. y.at \in DOMAIN t.body \union {0} /\ y.st \notin {"built", "loaded"}
    BY <1>2 DEF Fine, TabOK
  <2>2. QED
    BY <1>2, <2>1, JobSet DEF Fine
<1> HIDE DEF r
<1>4. \A i \in DOMAIN t.job :
        /\ r.job[i].page = t.job[i].page /\ r.job[i].kind = t.job[i].kind
        /\ r.job[i].into = t.job[i].into /\ r.job[i].at = t.job[i].at
  BY <1>2, <1>3
<1>5. Under(r) = Under(t) \ {j} /\ Loaded(r) = Loaded(t) \ {j}
  BY <1>2, <1>3, <1>4 DEF Under, Loaded
<1>6. QED
  BY <1>2, <1>3, <1>4, <1>5 DEF r, y, Becomes, WithJob

\* Bodies that change together with the jobs.
LEMMA BodySet ==
  ASSUME NEW t, TabOK(t), LeftBehind(t), NEW x \in BodyType, NEW b \in DOMAIN t.body,
         x.page = t.body[b].page, x.crossed = t.body[b].crossed,
         x.cleanup \in DOMAIN t.job \union {0}, x.panels \subseteq DOMAIN t.job,
         x.script \in {"popup", "map"} => KindAt(t, b) # "none",
         x.onclick # NoPage => KindAt(t, b) \in Refreshable
  PROVE  LET r == WithBody(t, b, x)
         IN  /\ TabOK(r) /\ LeftBehind(r) /\ r.cur = t.cur /\ r.wait = t.wait /\ r.job = t.job
             /\ Under(r) = Under(t) /\ Loaded(r) = Loaded(t)
             /\ \A c \in DOMAIN t.body : KindAt(r, c) = KindAt(t, c)
             /\ r.body[b] = x /\ DOMAIN r.body = DOMAIN t.body
             /\ \A c \in DOMAIN t.body \ {b} : r.body[c] = t.body[c]
<1> DEFINE r == WithBody(t, b, x)
<1>1. /\ r \in TabType /\ r.cur = t.cur /\ r.wait = t.wait /\ r.job = t.job
      /\ DOMAIN r.body = DOMAIN t.body /\ Len(r.body) = Len(t.body)
      /\ r.body[b] = x /\ \A c \in DOMAIN t.body \ {b} : r.body[c] = t.body[c]
  BY BodyPut DEF TabOK
<1> HIDE DEF r
<1>2. \A c \in DOMAIN t.body : KindAt(r, c) = KindAt(t, c)
  BY <1>1 DEF KindAt
<1>3. \A c \in DOMAIN t.body : BodyOK(r, c)
  <2>1. BodyOK(r, b)
    BY <1>1, <1>2 DEF TabOK, BodyOK
  <2>2. \A c \in DOMAIN t.body \ {b} : BodyOK(r, c)
    BY <1>1, <1>2 DEF TabOK, BodyOK
  <2>3. QED
    BY <2>1, <2>2
<1>4. TabOK(r)
  BY <1>1, <1>2, <1>3 DEF TabOK
<1>5. LeftBehind(r)
  BY <1>1, BehindAlike
<1>6. Under(r) = Under(t) /\ Loaded(r) = Loaded(t)
  BY <1>1 DEF Under, Loaded
<1>7. QED
  BY <1>1, <1>2, <1>4, <1>5, <1>6 DEF r

\* A body with no map there or under way, and neither cleanup nor panel, is alone.
LEMMA AloneIdle ==
  ASSUME NEW r, Under(r) = {}, Loaded(r) = {}, \A w \in r.wait : w.body = r.cur,
         \A j \in DOMAIN r.job :
           r.job[j].at = r.cur \/ r.job[j].st \in {"fetching", "built"} => r.job[j].into = r.cur,
         r.body[r.cur].onclick # NoPage => r.body[r.cur].onclick = r.body[r.cur].page /\ r.body[r.cur].flag,
         KindAt(r, r.cur) \in Refreshable => r.body[r.cur].cleanup = 0, r.body[r.cur].panels = {}
  PROVE  Alone(r)
BY DEF Alone

\* The cleanup on the element frees it: no map of its is left (stop-map.js:418-426).
LEMMA CleanupFree ==
  ASSUME NEW t, NEW p, NEW k, Fine(t), Startable(t, p, k), k = KindAt(t, t.cur), k \in Refreshable,
         t.body[t.cur].cleanup # 0
  PROVE  LET r == Cleanup(t, t.cur) IN Fine(r) /\ Free(r, p, k) /\ r.cur = t.cur
<1> DEFINE c == t.cur
           b == t.body[c]
           old == b.cleanup
           t1 == Becomes(t, old, "removed")
           x == [b EXCEPT !.cleanup = 0, !.panels = @ \ {old}]
           r == WithBody(t1, c, x)
<1>1. c \in DOMAIN t.body /\ old \in DOMAIN t.job /\ b \in BodyType
  BY DEF Fine, TabOK, TabType, BodyOK
<1>2. /\ TabOK(t1) /\ LeftBehind(t1) /\ t1.cur = c /\ t1.body = t.body /\ t1.wait = t.wait
      /\ Under(t1) = Under(t) \ {old} /\ Loaded(t1) = Loaded(t) \ {old} /\ DOMAIN t1.job = DOMAIN t.job
      /\ \A i \in DOMAIN t.job : t1.job[i].page = t.job[i].page /\ t1.job[i].kind = t.job[i].kind
                                 /\ t1.job[i].into = t.job[i].into /\ t1.job[i].at = t.job[i].at
      /\ \A i \in DOMAIN t.job \ {old} : t1.job[i] = t.job[i]
      /\ t1.job[old].st = "removed"
  <2> HIDE DEF old, c
  <2>1. QED
    BY <1>1, JobEnds DEF c
<1>3. /\ x \in BodyType /\ x.page = b.page /\ x.crossed = b.crossed /\ x.cleanup = 0
      /\ x.panels = b.panels \ {old} /\ x.script = b.script /\ x.onclick = b.onclick
      /\ x.flag = b.flag /\ x.disabled = b.disabled
  BY <1>1 DEF BodyType
<1>4. Cleanup(t, c) = r
  BY DEF Cleanup, WithBody
<1> HIDE DEF x, t1
<1>5. \A d : KindAt(t1, d) = KindAt(t, d)
  BY <1>2 DEF KindAt
<1>6. /\ TabOK(r) /\ LeftBehind(r) /\ r.cur = c /\ r.wait = t1.wait /\ r.job = t1.job
      /\ Under(r) = Under(t1) /\ Loaded(r) = Loaded(t1)
      /\ \A d \in DOMAIN t.body : KindAt(r, d) = KindAt(t1, d)
      /\ r.body[c] = x
  <2>1. x.panels \subseteq DOMAIN t1.job /\ x.cleanup \in DOMAIN t1.job \union {0}
        /\ (x.script \in {"popup", "map"} => KindAt(t1, c) # "none")
        /\ (x.onclick # NoPage => KindAt(t1, c) \in Refreshable)
    BY <1>1, <1>2, <1>3, <1>5 DEF Fine, TabOK, BodyOK
  <2>2. x.page = t1.body[c].page /\ x.crossed = t1.body[c].crossed /\ c \in DOMAIN t1.body
    BY <1>1, <1>2, <1>3
  <2>3. QED
    BY <1>2, <1>3, <2>1, <2>2, BodySet
<1> HIDE DEF r
<1>7. ASSUME ~b.crossed PROVE Alone(r) /\ Free(r, p, k)
  <2>1. /\ Under(t) = {} /\ Loaded(t) = {old} /\ b.panels = {j \in Loaded(t) : Embed[k].panel}
        /\ b.onclick # NoPage => b.onclick = b.page
        /\ p = b.page /\ b.flag /\ (b.onclick # NoPage => b.disabled)
        /\ \A w \in t.wait : w.body = c
    BY <1>7 DEF Fine, Alone, Startable, Kinds, Refreshable, Embed
  <2>2. Under(r) = {} /\ Loaded(r) = {} /\ x.panels = {}
    BY <1>2, <1>3, <1>6, <2>1
  <2>3. \A j \in DOMAIN r.job :
             r.job[j].at = r.cur \/ r.job[j].st \in {"fetching", "built"} => r.job[j].into = r.cur
    <3>1. \A j \in DOMAIN t.job :
             t.job[j].at = t.cur \/ t.job[j].st \in {"fetching", "built"} => t.job[j].into = t.cur
      BY <1>7 DEF Fine, Alone
    <3>2. QED
      BY <1>2, <1>6, <3>1
  <2>4. KindAt(r, c) = k
    BY <1>1, <1>5, <1>6
  <2>5. Alone(r)
    <3>1. \A w \in r.wait : w.body = r.cur
      BY <1>2, <1>6, <2>1
    <3>2. /\ r.body[r.cur].onclick # NoPage =>
               r.body[r.cur].onclick = r.body[r.cur].page /\ r.body[r.cur].flag
          /\ r.body[r.cur].cleanup = 0 /\ r.body[r.cur].panels = {}
      BY <1>3, <1>6, <2>1, <2>2
    <3>3. QED
      BY <2>2, <2>3, <3>1, <3>2, AloneIdle
  <2>6. Free(r, p, k)
    BY <1>3, <1>6, <2>1, <2>2, <2>4 DEF Free, Startable
  <2>7. QED
    BY <2>5, <2>6
<1>8. CASE b.crossed
  BY <1>3, <1>4, <1>6, <1>8 DEF Fine, Alone, Free, Startable
<1>9. QED
  BY <1>4, <1>6, <1>7, <1>8 DEF Fine

\* The body in the document is one of the bodies, and has a map if its script is still to run.
LEMMA CurIsOK ==
  ASSUME NEW t, Fine(t)
  PROVE  /\ t.cur \in DOMAIN t.body /\ t.body[t.cur] \in BodyType
         /\ t.body[t.cur].script \in {"popup", "map"} => KindAt(t, t.cur) # "none"
BY DEF Fine, TabOK, TabType, BodyOK

\* The init functions leave a tab as it should be, wherever no call is under way and,
\* if they do not clean up themselves, no map is there (stop-map.js:28-53).
LEMMA InitMapFine ==
  ASSUME NEW t, NEW p, NEW k, Fine(t), Startable(t, p, k)
  PROVE  Fine(InitMap(t, p, k))
<1> DEFINE c == t.cur
<1>1. c \in DOMAIN t.body /\ t.body[c] \in BodyType
  BY DEF Fine, TabOK, TabType, BodyOK
<1>2. CASE KindAt(t, c) = "none"
  BY <1>2 DEF InitMap
<1>3. ASSUME k \in Refreshable, KindAt(t, c) # "none" PROVE Fine(InitRefreshable(t, p, k))
  <2> DEFINE cleaned == IF KindAt(t, c) = k /\ t.body[c].cleanup # 0 THEN Cleanup(t, c) ELSE t
             x == [cleaned.body[c] EXCEPT !.loader = TRUE]
             r == WithBody(cleaned, c, x)
  <2>1. Fine(cleaned) /\ Free(cleaned, p, k) /\ cleaned.cur = c
    <3>1. CASE KindAt(t, c) = k /\ t.body[c].cleanup # 0
      BY <1>3, <3>1, CleanupFree
    <3>2. CASE KindAt(t, c) = k /\ t.body[c].cleanup = 0
      BY <1>3, <3>2 DEF Fine, Alone, Free, Startable
    <3>3. CASE KindAt(t, c) # k
      BY <3>3 DEF Free, Startable
    <3>4. QED
      BY <3>1, <3>2, <3>3
  <2> HIDE DEF cleaned
  <2>2. c \in DOMAIN cleaned.body /\ cleaned.body[c] \in BodyType
        /\ (cleaned.body[c].script \in {"popup", "map"} => KindAt(cleaned, c) # "none")
    BY <2>1, CurIsOK
  <2>3. x \in BodyType /\ Like(x, cleaned.body[c]) /\ x.script = cleaned.body[c].script
    BY <2>2 DEF BodyType, Like
  <2>4. InitRefreshable(t, p, k) = Request(r, p, k)
    BY DEF InitRefreshable, WithBody, cleaned
  <2> HIDE DEF x
  <2>5. Fine(r)
    BY <2>1, <2>2, <2>3, Touched
  <2>6. /\ r.cur = c /\ r.job = cleaned.job /\ r.body[c] = x
    BY <2>1, <2>2, <2>3, BodyPut DEF Fine, TabOK
  <2>7. Under(r) = Under(cleaned) /\ Loaded(r) = Loaded(cleaned)
    BY <2>1, <2>6 DEF Under, Loaded
  <2>8. KindAt(r, c) = KindAt(cleaned, c)
    BY <2>3, <2>6 DEF KindAt, Like
  <2> HIDE DEF r
  <2>9. Free(r, p, k)
    BY <2>1, <2>3, <2>6, <2>7, <2>8 DEF Free, Startable, Like
  <2>10. QED
    BY <2>4, <2>5, <2>9, RequestFine
<1>4. ASSUME k \notin Refreshable PROVE Fine(InitPlain(t, p, k))
  <2>1. Free(t, p, k)
    BY <1>4 DEF Free, Startable
  <2>2. QED
    BY <2>1, RequestFine DEF InitPlain
<1>5. QED
  BY <1>2, <1>3, <1>4 DEF InitMap

\* A page has one of the five maps or none (base.html, the *-map.js files).
LEMMA KindsAre ==
  ASSUME NEW t, TabOK(t), NEW b \in DOMAIN t.body
  PROVE  /\ t.body[b].page \in Page /\ t.body[b] \in BodyType
         /\ KindAt(t, b) # "none" => KindAt(t, b) \in Kinds
<1>1. t.body[b] \in BodyType
  BY DEF TabOK, TabType
<1>2. t.body[b].page \in Page
  BY <1>1 DEF BodyType
<1>3. QED
  BY <1>1, <1>2, PagesAssumption DEF KindAt, Kinds, Embed

\* doInit does so, for whichever body it is called: one that is not marked yet has
\* no map, no call and no button that is set (stop-map.js:556-565).
LEMMA DoInitFine ==
  ASSUME NEW t, NEW b, Fine(t), Waiting(t, b)
  PROVE  Fine(DoInit(t, b))
<1> DEFINE x == [t.body[b] EXCEPT !.flag = TRUE]
           r == WithBody(t, b, x)
           k == KindAt(t, b)
           p == t.body[b].page
<1>1. /\ b \in DOMAIN t.body /\ t.body[b] \in BodyType /\ k \in Kinds /\ p \in Page
      /\ t.cur \in DOMAIN t.body
  BY KindsAre, CurIsOK DEF Fine, Waiting
<1>2. /\ x \in BodyType /\ x.page = p /\ x.crossed = t.body[b].crossed /\ x.cleanup = t.body[b].cleanup
      /\ x.panels = t.body[b].panels /\ x.script = t.body[b].script /\ x.onclick = t.body[b].onclick
      /\ x.disabled = t.body[b].disabled /\ x.flag = TRUE
  BY <1>1 DEF BodyType
<1>3. [t EXCEPT !.body[b].flag = TRUE] = r
  BY DEF WithBody
<1> HIDE DEF x, r
<1>4. /\ TabOK(r) /\ LeftBehind(r) /\ r.cur = t.cur /\ r.wait = t.wait /\ r.job = t.job
      /\ Under(r) = Under(t) /\ Loaded(r) = Loaded(t)
      /\ \A c \in DOMAIN t.body : KindAt(r, c) = KindAt(t, c)
      /\ r.body[b] = x /\ DOMAIN r.body = DOMAIN t.body
      /\ \A c \in DOMAIN t.body \ {b} : r.body[c] = t.body[c]
  <2>1. /\ x.cleanup \in DOMAIN t.job \union {0} /\ x.panels \subseteq DOMAIN t.job
        /\ x.script \in {"popup", "map"} => KindAt(t, b) # "none"
        /\ x.onclick # NoPage => KindAt(t, b) \in Refreshable
    BY <1>1, <1>2 DEF Fine, TabOK, BodyOK
  <2>2. QED
    BY <1>1, <1>2, <2>1, BodySet DEF Fine, r
<1>5. ASSUME ~t.body[b].flag PROVE Fine(InitMap(r, p, k))
  <2>1. CASE ~t.body[t.cur].crossed
    <3>1. b = t.cur
      BY <2>1 DEF Waiting
    <3>2. /\ Under(t) = {} /\ Loaded(t) = {} /\ t.body[b].onclick = NoPage
          /\ k \in Refreshable => {t.body[b].cleanup} \ {0} = {}
          /\ t.body[b].panels = {}
          /\ \A w \in t.wait : w.body = t.cur
      BY <1>5, <2>1, <3>1 DEF Fine, Alone, Waiting
    <3>3. Alone(r)
      <4>1. \A j \in DOMAIN r.job :
             r.job[j].at = r.cur \/ r.job[j].st \in {"fetching", "built"} => r.job[j].into = r.cur
        BY <1>4, <2>1 DEF Fine, Alone
      <4>2. KindAt(r, r.cur) = k
        BY <1>1, <1>4, <3>1
      <4>3. QED
        BY <1>2, <1>4, <3>1, <3>2, <4>1, <4>2, AloneIdle
    <3>4. Startable(r, p, k)
      BY <1>1, <1>2, <1>4, <3>1, <3>2 DEF Startable
    <3>5. QED
      BY <1>4, <3>3, <3>4, InitMapFine DEF Fine
  <2>2. CASE t.body[t.cur].crossed
    <3>1. r.body[r.cur].crossed
      BY <1>1, <1>2, <1>4, <2>2
    <3>2. Alone(r) /\ Startable(r, p, k)
      BY <1>1, <3>1 DEF Alone, Startable
    <3>3. QED
      BY <1>4, <3>2, InitMapFine DEF Fine
  <2>3. QED
    BY <2>1, <2>2
<1>6. QED
  BY <1>3, <1>5 DEF DoInit

\* So does a frame of the loop without maplibre-ready.js (stop-map.js:579-595).
LEMMA FallbackFine ==
  ASSUME NEW t, NEW b, Fine(t), Waiting(t, b)
  PROVE  Fine(Fallback(t, b))
<1> DEFINE w == [body |-> b, for |-> "all", left |-> FrameLimit, again |-> FALSE]
           n == t.body[b].waited + 1
           without == [t EXCEPT !.wait = @ \ {w}]
           x == [t.body[b] EXCEPT !.waited = n]
           counted == [t EXCEPT !.body[b].waited = n]
           y == [without.body[b] EXCEPT !.waited = 0]
           zeroed == [without EXCEPT !.body[b].waited = 0]
<1>1. /\ b \in DOMAIN t.body /\ t.body[b] \in BodyType /\ n \in Nat
      /\ t.body[b].script \in {"popup", "map"} => KindAt(t, b) # "none"
  BY KindsAre, PagesAssumption DEF Fine, Waiting, BodyType
<1>2. w \in WaitType /\ w.body = b
  <2>1. b \in Nat
    BY <1>1 DEF Fine, TabOK, TabType
  <2>2. QED
    BY <2>1, PagesAssumption DEF WaitType
<1>3. t.wait \in SUBSET WaitType
  BY DEF Fine, TabOK, TabType
<1>4. Fine(without) /\ Waiting(without, b) /\ without.body = t.body
  <2>1. t.wait \ {w} \in SUBSET WaitType /\ \A v \in t.wait \ {w} : Waiting(t, v.body)
    BY <1>3, WaitsAre
  <2>2. QED
    BY <1>1, <2>1, WaitsSet
<1>5. Fine(DoInit(zeroed, b))
  <2>1. without.body[b] \in BodyType /\ b \in DOMAIN without.body
        /\ (without.body[b].script \in {"popup", "map"} => KindAt(without, b) # "none")
    BY <1>1, <1>4 DEF Waiting
  <2>2. y \in BodyType /\ Like(y, without.body[b]) /\ y.script = without.body[b].script
    BY <2>1, PagesAssumption DEF BodyType, Like
  <2>3. zeroed = WithBody(without, b, y)
    BY DEF WithBody
  <2> HIDE DEF y, without
  <2>4. Fine(zeroed) /\ Waiting(zeroed, b)
    BY <1>4, <2>1, <2>2, <2>3, Touched
  <2>5. QED
    BY <2>4, DoInitFine
<1>6. ASSUME ~(n > FrameLimit) PROVE Fine([counted EXCEPT !.wait = @ \union {w}])
  <2>1. x \in BodyType /\ Like(x, t.body[b]) /\ x.script = t.body[b].script
    BY <1>1, <1>6, PagesAssumption DEF BodyType, Like
  <2>2. counted = WithBody(t, b, x)
    BY DEF WithBody
  <2> HIDE DEF x, counted
  <2>3. Fine(counted) /\ Waiting(counted, b)
    BY <1>1, <2>1, <2>2, Touched
  <2>4. counted.wait \union {w} \in SUBSET WaitType
    BY <1>2, <2>3 DEF Fine, TabOK, TabType
  <2>5. \A v \in counted.wait \union {w} : Waiting(counted, v.body)
    BY <1>2, <2>3, WaitsAre
  <2>6. QED
    BY <2>3, <2>4, <2>5, WaitsSet
<1>7. QED
  BY <1>4, <1>5, <1>6 DEF Fallback

\* So does whenMapLibreReady, called for a body that may wait (maplibre-ready.js:54-60).
LEMMA WhenReadyFine ==
  ASSUME NEW t, NEW b, Fine(t), Waiting(t, b), NEW before \in BOOLEAN
  PROVE  Fine(WhenReady(t, b, before))
<1> DEFINE missing == Missing(KindAt(t, b))
           first == IF "maplibregl" \in missing THEN "maplibregl" ELSE "StopMapPopup"
           w == [body |-> b, for |-> first, left |-> FrameLimit, again |-> before /\ first = "maplibregl"]
<1>1. CASE missing = {}
  BY <1>1, DoInitFine DEF WhenReady
<1>2. CASE missing # {}
  <2>1. KindAt(t, b) \in Kinds /\ b \in Nat
    BY KindsAre DEF Fine, Waiting, TabOK, TabType
  <2>3. w \in WaitType /\ w.body = b
    BY <2>1, PagesAssumption DEF WaitType
  <2> HIDE DEF w
  <2>4. t.wait \union {w} \in SUBSET WaitType
    BY <2>3 DEF Fine, TabOK, TabType
  <2>5. \A v \in t.wait \union {w} : Waiting(t, v.body)
    BY <2>3, WaitsAre
  <2>6. Fine([t EXCEPT !.wait = @ \union {w}])
    BY <2>4, <2>5, WaitsSet
  <2>7. QED
    BY <1>2, <2>6 DEF WhenReady, w
<1>3. QED
  BY <1>1, <1>2

\* So does bindXMapEmbed, whatever the event (stop-map.js:540-597).
LEMMA BindFine ==
  ASSUME NEW t, Fine(t), NEW ks \in SUBSET Kinds, NEW before \in BOOLEAN
  PROVE  Fine(Bind(t, ks, before))
<1>1. ASSUME KindAt(t, t.cur) \in ks PROVE Waiting(t, t.cur)
  BY <1>1, CurIsOK DEF Waiting, Kinds, Embed
<1>2. QED
  BY <1>1, WhenReadyFine, FallbackFine DEF Bind

\* Enabling the button is harmless when no call is under way (stop-map.js:430-436).
LEMMA EnableFine ==
  ASSUME NEW t, NEW k \in Kinds, NEW p \in Page \union {NoPage}, Fine(t),
         ~t.body[t.cur].crossed =>
           Under(t) = {} /\ (p # NoPage => p = t.body[t.cur].page /\ t.body[t.cur].flag)
  PROVE  Fine(EnableButton(t, k, p))
<1> DEFINE c == t.cur
           b == t.body[c]
           x == [b EXCEPT !.disabled = FALSE, !.onclick = IF p = NoPage THEN @ ELSE p]
           r == WithBody(t, c, x)
<1>1. /\ c \in DOMAIN t.body /\ b \in BodyType
      /\ b.script \in {"popup", "map"} => KindAt(t, c) # "none"
  BY CurIsOK
<1>2. /\ x \in BodyType /\ x.page = b.page /\ x.crossed = b.crossed /\ x.cleanup = b.cleanup
      /\ x.panels = b.panels /\ x.script = b.script /\ x.onclick = (IF p = NoPage THEN b.onclick ELSE p)
      /\ x.disabled = FALSE /\ x.flag = b.flag
  BY <1>1 DEF BodyType
<1> HIDE DEF x
<1>3. ASSUME k \in Refreshable, KindAt(t, c) = k PROVE Fine(r)
  <2>1. /\ x.cleanup \in DOMAIN t.job \union {0} /\ x.panels \subseteq DOMAIN t.job
    BY <1>1, <1>2 DEF Fine, TabOK, BodyOK
  <2>2. /\ TabOK(r) /\ LeftBehind(r) /\ r.cur = c /\ r.wait = t.wait /\ r.job = t.job
        /\ Under(r) = Under(t) /\ Loaded(r) = Loaded(t)
        /\ \A d \in DOMAIN t.body : KindAt(r, d) = KindAt(t, d)
        /\ r.body[c] = x
    BY <1>1, <1>2, <1>3, <2>1, BodySet DEF Fine
  <2> HIDE DEF r
  <2>3. ASSUME ~b.crossed PROVE Alone(r)
    <3>1. Under(t) = {} /\ (p # NoPage => p = b.page /\ b.flag)
      BY <2>3
    <3>2. x.onclick # NoPage => x.onclick = x.page /\ x.flag
      BY <1>2, <2>3, <3>1 DEF Fine, Alone
    <3>3. KindAt(r, c) = KindAt(t, c)
      BY <1>1, <2>2
    <3>4. QED
      BY <1>2, <2>2, <2>3, <3>1, <3>2, <3>3 DEF Fine, Alone
  <2>4. Alone(r)
    BY <1>2, <2>2, <2>3 DEF Alone
  <2>5. QED
    BY <2>2, <2>4 DEF Fine
<1>4. QED
  BY <1>3 DEF EnableButton, WithBody, x

\* The catch of a request that failed enables the button when no other call is under
\* way: the one that failed was the only one (stop-map.js:440-455).
LEMMA CatchFine ==
  ASSUME NEW t, Fine(t), NEW j \in DOMAIN t.job, t.job[j].st = "fetching"
  PROVE  Fine(Catch(t, j))
<1> DEFINE c == t.job[j].into
           t1 == Becomes(t, j, "failed")
           x == [t1.body[c] EXCEPT !.loader = FALSE, !.error = TRUE]
           r == WithBody(t1, c, x)
<1>1. t.job[j] \in JobType /\ c \in DOMAIN t.body /\ t.job[j].kind \in Kinds /\ t.cur \in DOMAIN t.body
  <2>1. t.job[j] \in JobType
    BY DEF Fine, TabOK, TabType
  <2>2. c \in DOMAIN t.body
    BY DEF Fine, TabOK
  <2>3. QED
    BY <2>1, <2>2, CurIsOK DEF JobType
<1>2. /\ TabOK(t1) /\ LeftBehind(t1) /\ t1.cur = t.cur /\ t1.body = t.body /\ t1.wait = t.wait
      /\ Under(t1) = Under(t) \ {j} /\ Loaded(t1) = Loaded(t) \ {j} /\ DOMAIN t1.job = DOMAIN t.job
      /\ \A i \in DOMAIN t.job : t1.job[i].page = t.job[i].page /\ t1.job[i].kind = t.job[i].kind
                                 /\ t1.job[i].into = t.job[i].into /\ t1.job[i].at = t.job[i].at
      /\ \A i \in DOMAIN t.job \ {j} : t1.job[i] = t.job[i]
      /\ t1.job[j].st = "failed"
  BY JobEnds
<1> HIDE DEF t1
<1>3. \A d : KindAt(t1, d) = KindAt(t, d)
  BY <1>2 DEF KindAt
<1>4. ASSUME ~t.body[t.cur].crossed PROVE Under(t1) = {} /\ Alone(t1)
  <2>1. j \in Under(t)
    BY <1>4 DEF Fine, Alone, Under
  <2>2. Under(t) = {j} /\ Loaded(t) = {}
    <3>1. \A i \in Under(t) \union Loaded(t) : i = j
      BY <1>4, <2>1 DEF Fine, Alone
    <3>2. j \notin Loaded(t)
      BY DEF Loaded
    <3>3. QED
      BY <2>1, <3>1, <3>2
  <2>3. Under(t1) = {} /\ Loaded(t1) = {}
    BY <1>2, <2>2
  <2>4. KindAt(t, t.cur) # "none"
    BY <1>1, <1>4, <2>1 DEF Fine, Alone, Kinds, Embed
  <2>5. /\ t.body[t.cur].onclick # NoPage => t.body[t.cur].onclick = t.body[t.cur].page /\ t.body[t.cur].flag
        /\ KindAt(t, t.cur) \in Refreshable => t.body[t.cur].cleanup = 0
        /\ t.body[t.cur].panels = {}
        /\ \A w \in t.wait : w.body = t.cur
    BY <1>4, <2>2, <2>4 DEF Fine, Alone
  <2>6. \A i \in DOMAIN t1.job :
             t1.job[i].at = t1.cur \/ t1.job[i].st \in {"fetching", "built"} => t1.job[i].into = t1.cur
    <3>1. \A i \in DOMAIN t.job :
             t.job[i].at = t.cur \/ t.job[i].st \in {"fetching", "built"} => t.job[i].into = t.cur
      BY <1>4 DEF Fine, Alone
    <3>2. QED
      BY <1>2, <3>1
  <2>7. Alone(t1)
    BY <1>2, <1>3, <2>3, <2>5, <2>6, AloneIdle
  <2>8. QED
    BY <2>3, <2>7
<1>5. Fine(t1)
  BY <1>2, <1>4 DEF Fine, Alone
<1>6. /\ t1.body[c] \in BodyType /\ c \in DOMAIN t1.body
      /\ t1.body[c].script \in {"popup", "map"} => KindAt(t1, c) # "none"
  BY <1>1, <1>2, KindsAre DEF TabOK, BodyOK
<1>7. x \in BodyType /\ Like(x, t1.body[c]) /\ x.script = t1.body[c].script
  BY <1>6 DEF BodyType, Like
<1> HIDE DEF x
<1>8. Fine(r)
  BY <1>5, <1>6, <1>7, Touched
<1>9. r.cur = t.cur /\ r.job = t1.job /\ r.body[c] = x /\ \A d \in DOMAIN t.body \ {c} : r.body[d] = t.body[d]
  <2>1. t1 \in TabType
    BY <1>2 DEF TabOK
  <2> HIDE DEF c
  <2>2. /\ r.cur = t1.cur /\ r.job = t1.job /\ r.body[c] = x
        /\ \A d \in DOMAIN t1.body \ {c} : r.body[d] = t1.body[d]
    BY <1>6, <1>7, <2>1, BodyPut
  <2>3. QED
    BY <1>2, <2>2
<1>10. Under(r) = Under(t1) /\ r.body[r.cur].crossed = t.body[t.cur].crossed
  <2>1. r.body[t.cur].crossed = t.body[t.cur].crossed
    BY <1>1, <1>2, <1>7, <1>9 DEF Like
  <2>2. Under(r) = Under(t1)
    BY <1>2, <1>9 DEF Under
  <2>3. QED
    BY <1>9, <2>1, <2>2
<1>11. Catch(t, j) = EnableButton(r, t.job[j].kind, NoPage)
  BY DEF Catch, WithBody, t1, x
<1> HIDE DEF r
<1>12. QED
  BY <1>1, <1>4, <1>8, <1>10, <1>11, EnableFine

\* The data arrive and the map is built.
LEMMA BuiltFine ==
  ASSUME NEW t, Fine(t), NEW j \in DOMAIN t.job, t.job[j].st = "fetching"
  PROVE  Fine([t EXCEPT !.job[j] = [@ EXCEPT !.st = "built", !.at = t.cur]])
<1> DEFINE y == [t.job[j] EXCEPT !.st = "built", !.at = t.cur]
           r == WithJob(t, j, y)
<1>1. t.job[j] \in JobType /\ t.cur \in Nat /\ t.cur \in DOMAIN t.body
  BY CurIsOK DEF Fine, TabOK, TabType
<1>2. /\ y \in JobType /\ y.page = t.job[j].page /\ y.kind = t.job[j].kind /\ y.into = t.job[j].into
      /\ y.at = t.cur /\ y.st = "built"
  BY <1>1 DEF JobType
<1>3. [t EXCEPT !.job[j] = [@ EXCEPT !.st = "built", !.at = t.cur]] = r
  BY DEF WithJob
<1> HIDE DEF y
<1>4. /\ TabOK(r) /\ LeftBehind(r) /\ r.cur = t.cur /\ r.body = t.body /\ r.wait = t.wait
      /\ DOMAIN r.job = DOMAIN t.job /\ r.job[j] = y
      /\ \A i \in DOMAIN t.job \ {j} : r.job[i] = t.job[i]
  BY <1>1, <1>2, JobSet DEF Fine
<1> HIDE DEF r
<1>5. Under(r) = Under(t) /\ Loaded(r) = Loaded(t)
  BY <1>2, <1>4 DEF Under, Loaded
<1>6. KindAt(r, r.cur) = KindAt(t, t.cur)
  BY <1>4 DEF KindAt
<1>7. Alone(r)
  <2> SUFFICES ASSUME ~t.body[t.cur].crossed PROVE Alone(r)
    BY <1>4 DEF Alone
  <2>1. \A i \in DOMAIN r.job :
             r.job[i].at = r.cur \/ r.job[i].st \in {"fetching", "built"} => r.job[i].into = r.cur
    BY <1>2, <1>4 DEF Fine, Alone
  <2>2. \A i \in Under(r) \union Loaded(r) :
          /\ r.job[i].page = t.body[t.cur].page /\ r.job[i].kind = KindAt(t, t.cur)
          /\ r.job[i].st # "fetching" => r.job[i].at = t.cur
    <3>1. \A i \in Under(t) \union Loaded(t) :
            /\ i \in DOMAIN t.job
            /\ t.job[i].page = t.body[t.cur].page /\ t.job[i].kind = KindAt(t, t.cur)
            /\ t.job[i].st # "fetching" => t.job[i].at = t.cur
      BY DEF Fine, Alone, Under, Loaded
    <3>2. QED
      BY <1>2, <1>4, <1>5, <3>1
  <2>3. QED
    BY <1>4, <1>5, <1>6, <2>1, <2>2 DEF Fine, Alone
<1>8. QED
  BY <1>3, <1>4, <1>7 DEF Fine

\* The tab when the map of call j has loaded.
WithMap(t, j) ==
  LET c == t.job[j].into
      k == t.job[j].kind
      body == t.body[c]
      loaded == [Becomes(t, j, "loaded") EXCEPT !.body[c] = [body EXCEPT
                   !.panels = IF Embed[k].panel THEN @ \union {j} ELSE @,
                   !.cleanup = IF k \in Refreshable /\ KindAt(t, c) = k THEN j ELSE @]]
  IN  EnableButton(loaded, k, t.job[j].page)

\* A map that loads is the only one, and leaves a cleanup and panels that are its own.
LEMMA LoadedFine ==
  ASSUME NEW t, Fine(t), NEW j \in DOMAIN t.job, t.job[j].st = "built"
  PROVE  Fine(WithMap(t, j))
<1> DEFINE c == t.job[j].into
           k == t.job[j].kind
           p == t.job[j].page
           t1 == Becomes(t, j, "loaded")
           y == [t.job[j] EXCEPT !.st = "loaded"]
           b == t.body[c]
           x == [b EXCEPT !.panels = IF Embed[k].panel THEN @ \union {j} ELSE @,
                          !.cleanup = IF k \in Refreshable /\ KindAt(t, c) = k THEN j ELSE @]
           r == WithBody(t1, c, x)
<1>1. t.job[j] \in JobType /\ c \in DOMAIN t.body /\ k \in Kinds /\ p \in Page /\ t.cur \in DOMAIN t.body
      /\ b \in BodyType /\ j \in Nat /\ j # 0
  <2>1. t.job[j] \in JobType /\ j \in Nat /\ j # 0
    BY DEF Fine, TabOK, TabType
  <2>2. c \in DOMAIN t.body
    BY DEF Fine, TabOK
  <2>3. QED
    BY <2>1, <2>2, CurIsOK, KindsAre DEF JobType, Fine
<1>2. /\ y \in JobType /\ y.page = p /\ y.kind = k /\ y.into = c /\ y.at = t.job[j].at /\ y.st = "loaded"
  BY <1>1 DEF JobType
<1>3. t1 = WithJob(t, j, y)
  BY DEF Becomes, WithJob
<1> HIDE DEF y
<1>4. /\ TabOK(t1) /\ LeftBehind(t1) /\ t1.cur = t.cur /\ t1.body = t.body /\ t1.wait = t.wait
      /\ DOMAIN t1.job = DOMAIN t.job /\ t1.job[j] = y
      /\ \A i \in DOMAIN t.job \ {j} : t1.job[i] = t.job[i]
  <2>1. y.at \in DOMAIN t.body \union {0}
    BY <1>2 DEF Fine, TabOK
  <2>2. QED
    BY <1>2, <1>3, <2>1, JobSet DEF Fine
<1>5. WithMap(t, j) = EnableButton(r, k, p)
  BY DEF WithMap, WithBody
<1>6. /\ x \in BodyType /\ x.page = b.page /\ x.crossed = b.crossed
      /\ x.script = b.script /\ x.onclick = b.onclick /\ x.disabled = b.disabled /\ x.flag = b.flag
      /\ x.panels = (IF Embed[k].panel THEN b.panels \union {j} ELSE b.panels)
      /\ x.cleanup = (IF k \in Refreshable /\ KindAt(t, c) = k THEN j ELSE b.cleanup)
  BY <1>1 DEF BodyType
<1> HIDE DEF x, t1
<1>7. \A d : KindAt(t1, d) = KindAt(t, d)
  BY <1>4 DEF KindAt
<1>8. /\ TabOK(r) /\ LeftBehind(r) /\ r.cur = t.cur /\ r.wait = t.wait /\ r.job = t1.job
      /\ Under(r) = Under(t1) /\ Loaded(r) = Loaded(t1)
      /\ \A d \in DOMAIN t.body : KindAt(r, d) = KindAt(t, d)
      /\ r.body[c] = x /\ \A d \in DOMAIN t.body \ {c} : r.body[d] = t.body[d]
  <2>1. BodyOK(t, c)
    BY <1>1 DEF Fine, TabOK
  <2>2. /\ x.cleanup \in DOMAIN t1.job \union {0} /\ x.panels \subseteq DOMAIN t1.job
        /\ x.script \in {"popup", "map"} => KindAt(t1, c) # "none"
        /\ x.onclick # NoPage => KindAt(t1, c) \in Refreshable
    BY <1>4, <1>6, <1>7, <2>1 DEF BodyOK
  <2>3. c \in DOMAIN t1.body /\ x.page = t1.body[c].page /\ x.crossed = t1.body[c].crossed
    BY <1>1, <1>4, <1>6
  <2>4. QED
    <3>1. /\ TabOK(r) /\ LeftBehind(r) /\ r.cur = t1.cur /\ r.wait = t1.wait /\ r.job = t1.job
          /\ Under(r) = Under(t1) /\ Loaded(r) = Loaded(t1)
          /\ \A d \in DOMAIN t1.body : KindAt(r, d) = KindAt(t1, d)
          /\ r.body[c] = x /\ \A d \in DOMAIN t1.body \ {c} : r.body[d] = t1.body[d]
      <4>1. TabOK(t1) /\ LeftBehind(t1) /\ x \in BodyType
        BY <1>4, <1>6
      <4> HIDE DEF c, r
      <4>2. LET q == WithBody(t1, c, x)
            IN  /\ TabOK(q) /\ LeftBehind(q) /\ q.cur = t1.cur /\ q.wait = t1.wait /\ q.job = t1.job
                /\ Under(q) = Under(t1) /\ Loaded(q) = Loaded(t1)
                /\ \A d \in DOMAIN t1.body : KindAt(q, d) = KindAt(t1, d)
                /\ q.body[c] = x /\ DOMAIN q.body = DOMAIN t1.body
                /\ \A d \in DOMAIN t1.body \ {c} : q.body[d] = t1.body[d]
        BY <2>2, <2>3, <4>1, BodySet
      <4>3. QED
        BY <4>2 DEF r
    <3>2. QED
      BY <1>4, <1>7, <3>1
<1>9. r.body[r.cur].crossed = t.body[t.cur].crossed
  BY <1>1, <1>6, <1>8
<1> HIDE DEF r
<1>10. ASSUME ~t.body[t.cur].crossed
       PROVE  Alone(r) /\ Under(r) = {} /\ p = r.body[r.cur].page /\ r.body[r.cur].flag
  <2>1. j \in Under(t)
    BY <1>10 DEF Fine, Alone, Under
  <2>2. c = t.cur
    BY <2>1 DEF Under
  <2>3. Under(t) = {j} /\ Loaded(t) = {}
    <3>1. \A i \in Under(t) \union Loaded(t) : i = j
      BY <1>10, <2>1 DEF Fine, Alone
    <3>2. j \notin Loaded(t)
      BY DEF Loaded
    <3>3. QED
      BY <2>1, <3>1, <3>2
  <2>4. Under(r) = {}
    <3>1. \A i \in DOMAIN t.job \ {j} : i \notin Under(t)
      BY <2>3
    <3>2. QED
      BY <1>2, <1>4, <1>8, <3>1 DEF Under
  <2>5. Loaded(r) = {j}
    <3>1. \A i \in DOMAIN t.job \ {j} : i \notin Loaded(t)
      BY <2>3
    <3>2. QED
      BY <1>2, <1>4, <1>8, <2>2, <3>1 DEF Loaded
  <2>6. p = b.page /\ k = KindAt(t, t.cur) /\ t.job[j].at = t.cur /\ b.flag
    BY <1>10, <2>1, <2>2 DEF Fine, Alone
  <2>7. k # "none"
    BY <1>1 DEF Kinds, Embed
  <2>8. b.panels = {} /\ (k \in Refreshable => b.cleanup = 0)
        /\ (b.onclick # NoPage => b.onclick = b.page) /\ \A w \in t.wait : w.body = t.cur
    BY <1>10, <2>2, <2>3, <2>6, <2>7 DEF Fine, Alone
  <2>9. KindAt(r, r.cur) = k
    BY <1>1, <1>8, <2>6
  <2>10. x.panels = {i \in {j} : Embed[k].panel}
    BY <1>6, <2>8
  <2>11. k \in Refreshable => {x.cleanup} \ {0} = {j}
    BY <1>1, <1>6, <2>2, <2>6
  <2>12. \A i \in DOMAIN r.job :
             r.job[i].at = r.cur \/ r.job[i].st \in {"fetching", "built"} => r.job[i].into = r.cur
    <3>1. \A i \in DOMAIN t.job :
             t.job[i].at = t.cur \/ t.job[i].st \in {"fetching", "built"} => t.job[i].into = t.cur
      BY <1>10 DEF Fine, Alone
    <3>2. r.job[j].into = r.cur
      BY <1>2, <1>4, <1>8, <2>2
    <3>3. \A i \in DOMAIN t.job \ {j} : r.job[i] = t.job[i]
      BY <1>4, <1>8
    <3>4. DOMAIN r.job = DOMAIN t.job /\ r.cur = t.cur
      BY <1>4, <1>8
    <3>5. QED
      BY <3>1, <3>2, <3>3, <3>4
  <2>13. r.body[r.cur] = x
    BY <1>8, <2>2
  <2>14. Alone(r)
    <3>1. r.job[j].page = x.page /\ r.job[j].kind = k /\ r.job[j].at = r.cur
      <4>1. r.job[j] = y /\ r.cur = t.cur
        BY <1>4, <1>8
      <4>2. QED
        BY <1>2, <1>6, <2>6, <4>1
    <3>2. x.flag /\ (x.onclick # NoPage => x.onclick = x.page)
      BY <1>6, <2>6, <2>8
    <3>3. \A w \in r.wait : w.body = r.cur
      BY <1>4, <1>8, <2>8
    <3>4. QED
      BY <2>4, <2>5, <2>9, <2>10, <2>11, <2>12, <2>13, <3>1, <3>2, <3>3 DEF Alone
  <2>15. QED
    BY <1>6, <2>4, <2>6, <2>13, <2>14
<1>11. Fine(r)
  BY <1>8, <1>9, <1>10 DEF Fine, Alone
<1>12. QED
  BY <1>1, <1>5, <1>9, <1>10, <1>11, EnableFine

\* Another body comes: it has no map yet, and the one before is left with what it
\* showed; if nothing was unfinished, no wait or call is for another body.
LEMMA ReplacedFine ==
  ASSUME NEW t, Fine(t), NEW x \in BodyType, x.cleanup = 0, x.panels = {}, x.onclick = NoPage,
         x.script \in {"popup", "map"} => KindOf[x.page] # "none"
  PROVE  Fine(Replaced(t, x))
<1> DEFINE y == [x EXCEPT !.crossed = Unfinished(t)]
           n == Len(t.body)
           body == Append(t.body, y)
           r == Replaced(t, x)
<1>1. t \in TabType /\ t.body \in Seq(BodyType) /\ n \in Nat /\ DOMAIN t.body = 1..n /\ t.cur = n
  BY DEF Fine, TabOK, TabType
<1>2. /\ y \in BodyType /\ y.cleanup = 0 /\ y.panels = {} /\ y.onclick = NoPage /\ y.script = x.script
      /\ y.page = x.page /\ y.crossed = Unfinished(t)
  BY DEF BodyType, Unfinished
<1> HIDE DEF y, n
<1>3. /\ body \in Seq(BodyType) /\ Len(body) = n + 1 /\ body[n + 1] = y
      /\ \A b \in DOMAIN t.body : body[b] = t.body[b]
  BY <1>1, <1>2, AppendProperties DEF n
<1>4. DOMAIN body = DOMAIN t.body \union {n + 1} /\ n + 1 \notin DOMAIN t.body
  BY <1>1, <1>3
<1> HIDE DEF body
<1>5. r = [t EXCEPT !.cur = n + 1, !.body = body]
  BY <1>1 DEF Replaced, y, body
<1>6. /\ r \in TabType /\ r.cur = n + 1 /\ r.body = body /\ r.wait = t.wait /\ r.job = t.job
  <2>1. r.cur = n + 1 /\ r.body = body /\ r.wait = t.wait /\ r.job = t.job
    BY <1>1, <1>5 DEF TabType
  <2>2. r = [cur |-> n + 1, body |-> body, wait |-> t.wait, job |-> t.job]
    BY <1>1, <1>5 DEF TabType
  <2>3. QED
    BY <1>1, <1>3, <2>1, <2>2 DEF TabType
<1> HIDE DEF r
<1>7. \A b \in DOMAIN t.body : KindAt(r, b) = KindAt(t, b)
  BY <1>3, <1>6 DEF KindAt
<1>8. \A b \in DOMAIN r.body : BodyOK(r, b)
  <2>1. BodyOK(r, n + 1)
    BY <1>2, <1>3, <1>6 DEF BodyOK, KindAt
  <2>2. \A b \in DOMAIN t.body : BodyOK(r, b)
    BY <1>3, <1>6, <1>7 DEF Fine, TabOK, BodyOK
  <2>3. QED
    BY <1>4, <1>6, <2>1, <2>2
<1>9. TabOK(r)
  BY <1>1, <1>3, <1>4, <1>6, <1>7, <1>8 DEF Fine, TabOK
<1>10. \A j \in DOMAIN t.job : t.job[j].into # n + 1 /\ t.job[j].at # n + 1
  <2>1. n + 1 # 0
    BY <1>1
  <2>2. QED
    BY <1>4, <2>1 DEF Fine, TabOK
<1>11. Under(r) = {} /\ Loaded(r) = {}
  BY <1>6, <1>10 DEF Under, Loaded
<1>12. Alone(r)
  <2>1. CASE ~y.crossed
    <3>1. t.wait = {} /\ \A j \in DOMAIN t.job : t.job[j].st \notin {"fetching", "built"}
      BY <1>2, <2>1 DEF Unfinished
    <3>2. \A j \in DOMAIN r.job :
           r.job[j].at = r.cur \/ r.job[j].st \in {"fetching", "built"} => r.job[j].into = r.cur
      BY <1>6, <1>10, <3>1
    <3>3. QED
      BY <1>2, <1>3, <1>6, <1>11, <3>1, <3>2, AloneIdle
  <2>2. CASE y.crossed
    BY <1>3, <1>6, <2>2 DEF Alone
  <2>3. QED
    BY <2>1, <2>2
<1>13. LeftBehind(r)
  <2> SUFFICES ASSUME NEW b \in DOMAIN t.body, ~t.body[b].crossed
               PROVE  /\ \A i, j \in Live(t, b) : i = j
                      /\ \A j \in Live(t, b) : t.job[j].page = t.body[b].page /\ t.job[j].kind = KindAt(t, b)
    <3>1. \A b \in DOMAIN t.body : Live(r, b) = Live(t, b)
      BY <1>6 DEF Live
    <3>2. \A b \in DOMAIN r.body \ {r.cur} : b \in DOMAIN t.body /\ r.body[b] = t.body[b]
      BY <1>3, <1>4, <1>6
    <3>3. QED
      BY <1>6, <1>7, <3>1, <3>2 DEF LeftBehind
  <2>1. CASE b = t.cur
    <3>1. \A j \in Live(t, b) : j \in Under(t) \union Loaded(t)
      BY <2>1 DEF Live, Under, Loaded, Fine, Alone
    <3>2. QED
      BY <2>1, <3>1 DEF Fine, Alone
  <2>2. CASE b # t.cur
    BY <2>2 DEF Fine, LeftBehind
  <2>3. QED
    BY <2>1, <2>2
<1>14. QED
  BY <1>9, <1>12, <1>13 DEF Fine, r

\* The script of a body runs or does not arrive.
LEMMA ScriptFine ==
  ASSUME NEW t, Fine(t), NEW b \in DOMAIN t.body, t.body[b].script \in {"popup", "map"},
         NEW s \in {"map", "ran", "failed"}
  PROVE  Fine([t EXCEPT !.body[b].script = s]) /\ KindAt(t, b) \in Kinds
<1> DEFINE x == [t.body[b] EXCEPT !.script = s]
<1>1. t.body[b] \in BodyType /\ KindAt(t, b) # "none" /\ KindAt(t, b) \in Kinds
  <2>1. BodyOK(t, b)
    BY DEF Fine, TabOK
  <2>2. QED
    BY <2>1, KindsAre DEF Fine, BodyOK
<1>2. x \in BodyType /\ Like(x, t.body[b])
  BY <1>1 DEF BodyType, Like
<1>3. [t EXCEPT !.body[b].script = s] = WithBody(t, b, x)
  BY DEF WithBody
<1> HIDE DEF x
<1>4. QED
  BY <1>1, <1>2, <1>3, Touched

\* The waits poll anew after the load event.
Anew(w) == IF w.again THEN [w EXCEPT !.left = FrameLimit, !.again = FALSE] ELSE w

\* Such waits are for the bodies they were for.
LEMMA AnewFine ==
  ASSUME NEW t, Fine(t)
  PROVE  Fine([t EXCEPT !.wait = {Anew(w) : w \in @}])
<1>1. \A w \in WaitType : Anew(w) \in WaitType /\ Anew(w).body = w.body
  <2> SUFFICES ASSUME NEW w \in WaitType PROVE Anew(w) \in WaitType /\ Anew(w).body = w.body
    OBVIOUS
  <2> DEFINE v == [w EXCEPT !.left = FrameLimit]
  <2>1. v \in WaitType /\ v.body = w.body
    BY PagesAssumption DEF WaitType
  <2> HIDE DEF v
  <2>2. [v EXCEPT !.again = FALSE] \in WaitType /\ [v EXCEPT !.again = FALSE].body = v.body
    BY <2>1 DEF WaitType
  <2>3. QED
    BY <2>1, <2>2 DEF Anew, v
<1>2. {Anew(w) : w \in t.wait} \in SUBSET WaitType
  BY <1>1, WaitsAre
<1>3. \A v \in {Anew(w) : w \in t.wait} : Waiting(t, v.body)
  BY <1>1, WaitsAre
<1>4. QED
  BY <1>2, <1>3, WaitsSet

\* A frame for a wait.
LEMMA FrameFine ==
  ASSUME NEW t, Fine(t), NEW w \in t.wait, w.left > 0
  PROVE  LET without == [t EXCEPT !.wait = @ \ {w}]
             fewer == [w EXCEPT !.left = @ - 1]
         IN  /\ Fine(Fallback(t, w.body)) /\ Fine(WhenReady(without, w.body, FALSE))
             /\ Fine(without) /\ Fine([without EXCEPT !.wait = @ \union {fewer}])
<1> DEFINE without == [t EXCEPT !.wait = @ \ {w}]
           fewer == [w EXCEPT !.left = @ - 1]
<1>1. w \in WaitType /\ Waiting(t, w.body)
  BY WaitsAre
<1>2. fewer \in WaitType /\ fewer.body = w.body
  BY <1>1, PagesAssumption DEF WaitType
<1>3. Fine(without) /\ Waiting(without, w.body)
  <2>1. t.wait \ {w} \in SUBSET WaitType /\ \A v \in t.wait \ {w} : Waiting(t, v.body)
    BY WaitsAre
  <2>2. w.body \in DOMAIN t.body
    BY <1>1 DEF Waiting
  <2>3. QED
    BY <1>1, <2>1, <2>2, WaitsSet
<1> HIDE DEF without, fewer
<1>4. Fine([without EXCEPT !.wait = @ \union {fewer}])
  <2>1. without.wait \union {fewer} \in SUBSET WaitType
    BY <1>2, <1>3, WaitsAre
  <2>2. \A v \in without.wait \union {fewer} : Waiting(without, v.body)
    BY <1>2, <1>3, WaitsAre
  <2>3. QED
    BY <1>3, <2>1, <2>2, WaitsSet
<1>5. Fine(WhenReady(without, w.body, FALSE))
  BY <1>3, WhenReadyFine
<1>6. QED
  BY <1>1, <1>3, <1>4, <1>5, FallbackFine DEF without, fewer

\* A click on Refresh: the button is enabled, so no call is under way.
LEMMA RefreshFine ==
  ASSUME NEW t, Fine(t), ~t.body[t.cur].disabled, t.body[t.cur].onclick # NoPage
  PROVE  Fine(InitMap([t EXCEPT !.body[t.cur].disabled = TRUE], t.body[t.cur].onclick, KindAt(t, t.cur)))
<1> DEFINE c == t.cur
           b == t.body[c]
           x == [b EXCEPT !.disabled = TRUE]
           r == WithBody(t, c, x)
           k == KindAt(t, c)
<1>1. c \in DOMAIN t.body /\ b \in BodyType /\ BodyOK(t, c)
  BY CurIsOK DEF Fine, TabOK
<1>2. /\ x \in BodyType /\ x.page = b.page /\ x.crossed = b.crossed /\ x.cleanup = b.cleanup
      /\ x.panels = b.panels /\ x.script = b.script /\ x.onclick = b.onclick
      /\ x.disabled = TRUE /\ x.flag = b.flag
  BY <1>1 DEF BodyType
<1>3. [t EXCEPT !.body[t.cur].disabled = TRUE] = r
  BY DEF WithBody
<1> HIDE DEF x, r
<1>4. k \in Refreshable /\ k \in Kinds /\ b.onclick \in Page
  BY <1>1 DEF BodyOK, Refreshable, BodyType
<1>5. /\ TabOK(r) /\ LeftBehind(r) /\ r.cur = c /\ r.wait = t.wait /\ r.job = t.job
      /\ Under(r) = Under(t) /\ Loaded(r) = Loaded(t)
      /\ \A d \in DOMAIN t.body : KindAt(r, d) = KindAt(t, d)
      /\ r.body[c] = x
  <2>1. /\ x.cleanup \in DOMAIN t.job \union {0} /\ x.panels \subseteq DOMAIN t.job
        /\ x.script \in {"popup", "map"} => KindAt(t, c) # "none"
        /\ x.onclick # NoPage => KindAt(t, c) \in Refreshable
    BY <1>1, <1>2 DEF BodyOK
  <2>2. QED
    BY <1>1, <1>2, <2>1, BodySet DEF Fine, r
<1>6. KindAt(r, r.cur) = k
  BY <1>1, <1>5
<1>7. Alone(r)
  BY <1>2, <1>5, <1>6 DEF Fine, Alone
<1>8. Startable(r, b.onclick, k)
  BY <1>2, <1>4, <1>5, <1>6 DEF Fine, Alone, Startable
<1>9. QED
  BY <1>3, <1>5, <1>7, <1>8, InitMapFine DEF Fine

\* htmx:afterSettle changes nothing of concern (stop-map.js:599-603).
LEMMA SettleFine ==
  ASSUME NEW t, Fine(t)
  PROVE  Fine([t EXCEPT !.body[t.cur].settling = FALSE])
<1> DEFINE x == [t.body[t.cur] EXCEPT !.settling = FALSE]
<1>1. x \in BodyType /\ Like(x, t.body[t.cur]) /\ x.script = t.body[t.cur].script
  BY CurIsOK DEF BodyType, Like
<1>2. [t EXCEPT !.body[t.cur].settling = FALSE] = WithBody(t, t.cur, x)
  BY DEF WithBody
<1> HIDE DEF x
<1>3. QED
  BY <1>1, <1>2, CurIsOK, Touched

\* The data of call j arrive.
LEMMA ArriveFine ==
  ASSUME NEW t, Fine(t), NEW j \in DOMAIN t.job, t.job[j].st = "fetching"
  PROVE  LET shown == [t EXCEPT !.body[t.job[j].into].loader = FALSE]
         IN  /\ Fine(Catch(shown, j))
             /\ Fine([shown EXCEPT !.job[j] = [@ EXCEPT !.st = "built", !.at = t.cur]])
<1> DEFINE c == t.job[j].into
           x == [t.body[c] EXCEPT !.loader = FALSE]
           shown == WithBody(t, c, x)
<1>1. c \in DOMAIN t.body /\ t.body[c] \in BodyType
      /\ (t.body[c].script \in {"popup", "map"} => KindAt(t, c) # "none")
  BY KindsAre DEF Fine, TabOK, BodyOK
<1>2. x \in BodyType /\ Like(x, t.body[c]) /\ x.script = t.body[c].script
  BY <1>1 DEF BodyType, Like
<1>3. [t EXCEPT !.body[t.job[j].into].loader = FALSE] = shown
  BY DEF WithBody
<1> HIDE DEF x
<1>4. Fine(shown) /\ shown.job = t.job /\ shown.cur = t.cur
  <2> HIDE DEF c
  <2>1. Fine(shown)
    BY <1>1, <1>2, Touched
  <2>2. QED
    BY <1>1, <1>2, <2>1, BodyPut DEF Fine, TabOK
<1> HIDE DEF shown
<1>5. Fine(Catch(shown, j)) /\ Fine([shown EXCEPT !.job[j] = [@ EXCEPT !.st = "built", !.at = shown.cur]])
  BY <1>4, CatchFine, BuiltFine
<1>6. QED
  BY <1>3, <1>4, <1>5

\* A body as the server sends it has no map, no cleanup and no button that is set.
LEMMA FreshBodyIs ==
  ASSUME NEW p \in Page
  PROVE  /\ FreshBody(p) \in BodyType /\ FreshBody(p).page = p /\ FreshBody(p).cleanup = 0
         /\ FreshBody(p).panels = {} /\ FreshBody(p).onclick = NoPage /\ ~FreshBody(p).flag
         /\ FreshBody(p).script \in {"popup", "map"} => KindOf[p] # "none"
BY PagesAssumption DEF FreshBody, BodyType

\* Nor has one that htmx has put in.
LEMMA SwappedIs ==
  ASSUME NEW p \in Page
  PROVE  LET x == [FreshBody(p) EXCEPT !.settling = TRUE]
         IN  /\ x \in BodyType /\ x.page = p /\ x.cleanup = 0 /\ x.panels = {} /\ x.onclick = NoPage
             /\ x.script \in {"popup", "map"} => KindOf[p] # "none"
<1> DEFINE f == FreshBody(p)
<1>1. /\ f \in BodyType /\ f.page = p /\ f.cleanup = 0 /\ f.panels = {} /\ f.onclick = NoPage
      /\ f.script \in {"popup", "map"} => KindOf[p] # "none"
  BY FreshBodyIs
<1> HIDE DEF f
<1>2. QED
  BY <1>1 DEF BodyType, f

\* Nor has one that htmx brings back: what scripts attached to it is lost, the mark
\* on its element is kept.
LEMMA RestoredIs ==
  ASSUME NEW p \in Page, NEW kept \in BodyType
  PROVE  LET x == [FreshBody(p) EXCEPT
                     !.flag = kept.flag, !.waited = kept.waited, !.disabled = kept.disabled,
                     !.loader = kept.loader, !.error = kept.error, !.restored = TRUE]
         IN  /\ x \in BodyType /\ x.page = p /\ x.cleanup = 0 /\ x.panels = {} /\ x.onclick = NoPage
             /\ x.script \in {"popup", "map"} => KindOf[p] # "none"
<1> DEFINE f == FreshBody(p)
<1>1. /\ f \in BodyType /\ f.page = p /\ f.cleanup = 0 /\ f.panels = {} /\ f.onclick = NoPage
      /\ f.script \in {"popup", "map"} => KindOf[p] # "none"
  BY FreshBodyIs
<1> HIDE DEF f
<1>2. QED
  BY <1>1 DEF BodyType, f

\* The tab of a document that is loaded in full.
LEMMA FreshTabFine ==
  ASSUME NEW p \in Page
  PROVE  Fine([cur |-> 1, body |-> <<FreshBody(p)>>, wait |-> {}, job |-> <<>>])
<1> DEFINE t == [cur |-> 1, body |-> <<FreshBody(p)>>, wait |-> {}, job |-> <<>>]
<1>1. /\ t.cur = 1 /\ t.body[1] = FreshBody(p) /\ DOMAIN t.body = {1} /\ Len(t.body) = 1 /\ t.wait = {}
      /\ DOMAIN t.job = {} /\ t \in TabType
  BY FreshBodyIs DEF TabType
<1> HIDE DEF t
<1>2. Under(t) = {} /\ Loaded(t) = {}
  BY <1>1 DEF Under, Loaded
<1>3. KindAt(t, 1) = KindOf[p]
  BY <1>1, FreshBodyIs DEF KindAt
<1>4. TabOK(t)
  BY <1>1, <1>3, FreshBodyIs DEF TabOK, BodyOK
<1>5. Alone(t)
  BY <1>1, <1>2, FreshBodyIs, AloneIdle
<1>6. LeftBehind(t)
  BY <1>1 DEF LeftBehind
<1>7. QED
  BY <1>4, <1>5, <1>6 DEF Fine, t

\* The other variables.
Others ==
  /\ doc \in {"parsing", "parsed", "complete"}
  /\ libs \subseteq {"maplibregl", "StopMapPopup"} /\ helper \in BOOLEAN /\ known \subseteq Kinds
  /\ trail \in [at : Nat, pages : Seq(Page)] /\ trail.at \in DOMAIN trail.pages
  /\ DOMAIN saved \subseteq Page /\ \A p \in DOMAIN saved : saved[p] \in BodyType
  /\ faults \in 0..MaxFaults /\ refreshes \in 0..MaxRefreshes

\* The invariant is about the tab, and types the other variables.
LEMMA PageInvIs == PageInv <=> Others /\ Fine(tab)
BY DEF PageInv, PageTypeOK, Others, Fine

\* The bound of the faults holds.
LEMMA FaultCounts == ASSUME Others, Fault PROVE faults' \in 0..MaxFaults
BY PagesAssumption DEF Others, Fault

\* The invariant holds while the document is parsed.
LEMMA PageInitInv == PageInit => PageInv
<1> SUFFICES ASSUME PageInit PROVE Others /\ Fine(tab)
  BY PageInvIs
<1>1. PICK p \in First :
        /\ tab = [cur |-> 1, body |-> <<FreshBody(p)>>, wait |-> {}, job |-> <<>>]
        /\ trail = [at |-> 1, pages |-> <<p>>]
  BY DEF PageInit
<1>2. p \in Page
  BY PagesAssumption
<1>3. trail \in [at : Nat, pages : Seq(Page)] /\ trail.at \in DOMAIN trail.pages
  BY <1>1, <1>2
<1>4. faults \in 0..MaxFaults /\ refreshes \in 0..MaxRefreshes
  BY PagesAssumption DEF PageInit
<1>5. saved = <<>> /\ DOMAIN saved = {}
  BY DEF PageInit
<1>6. Others
  BY <1>3, <1>4, <1>5 DEF PageInit, Others
<1>7. QED
  BY <1>1, <1>2, <1>6, FreshTabFine

\* What htmx keeps are bodies, by the page they are at.
LEMMA KeepIs ==
  ASSUME Others, Fine(tab), Keep
  PROVE  /\ DOMAIN saved' \subseteq Page /\ DOMAIN saved \subseteq DOMAIN saved'
         /\ \A p \in DOMAIN saved' : saved'[p] \in BodyType
<1>1. tab.body[tab.cur] \in BodyType /\ tab.body[tab.cur].page \in Page
  BY CurIsOK, KindsAre DEF Fine
<1>2. QED
  BY <1>1 DEF Keep, Others, Body, Cur

\* The scripts of a body keep the invariant, whichever body is in the document now.
LEMMA ScriptsStep ==
  ASSUME PageInv, NEW b \in Bodies, PopupScript(b) \/ MapScript(b) \/ MapScriptFails(b)
  PROVE  PageInv'
<1> USE DEF Turn, Pending, Bodies, Body
<1>1. Others /\ Fine(tab) /\ b \in DOMAIN tab.body
  BY PageInvIs
<1>2. CASE PopupScript(b)
  <2>1. Fine(tab')
    BY <1>1, <1>2, ScriptFine DEF PopupScript
  <2>2. Others'
    BY <1>1, <1>2, FaultCounts DEF PopupScript, Others
  <2>3. QED
    BY <2>1, <2>2 DEF PageInv, PageTypeOK, Others, Fine
<1>3. CASE MapScript(b)
  <2> DEFINE t == [tab EXCEPT !.body[b].script = "ran"]
             k == KindAt(tab, b)
  <2>1. Fine(t) /\ k \in Kinds
    BY <1>1, <1>3, ScriptFine DEF MapScript
  <2>2. tab' = (IF doc = "parsing" THEN t ELSE Bind(t, {k}, doc # "complete"))
    BY <1>3 DEF MapScript
  <2> HIDE DEF t, k
  <2>3. Fine(tab')
    BY <2>1, <2>2, BindFine
  <2>4. Others'
    BY <1>1, <1>3, <2>1 DEF MapScript, Others, k
  <2>5. QED
    BY <2>3, <2>4 DEF PageInv, PageTypeOK, Others, Fine
<1>4. CASE MapScriptFails(b)
  <2>1. Fine(tab')
    BY <1>1, <1>4, ScriptFine DEF MapScriptFails
  <2>2. Others'
    BY <1>1, <1>4, FaultCounts DEF MapScriptFails, Others
  <2>3. QED
    BY <2>1, <2>2 DEF PageInv, PageTypeOK, Others, Fine
<1>5. QED
  BY <1>2, <1>3, <1>4

\* So do the bundle and the page events, each of which may announce the same element.
LEMMA EventsStep ==
  ASSUME PageInv, Bundle \/ DOMContentLoaded \/ Load \/ Settle
  PROVE  PageInv'
<1>1. Others /\ Fine(tab)
  BY PageInvIs
<1>2. known \in SUBSET Kinds
  BY <1>1 DEF Others
<1>3. CASE Bundle
  BY <1>1, <1>3 DEF Bundle, PageInv, PageTypeOK, Others, Fine
<1>4. CASE DOMContentLoaded
  <2>1. Fine(tab')
    BY <1>1, <1>2, <1>4, BindFine DEF DOMContentLoaded
  <2>2. Others'
    BY <1>1, <1>4, FaultCounts DEF DOMContentLoaded, Others
  <2>3. QED
    BY <2>1, <2>2 DEF PageInv, PageTypeOK, Others, Fine
<1>5. CASE Load
  <2> DEFINE t == [tab EXCEPT !.wait = {Anew(w) : w \in @}]
  <2>1. Fine(t)
    BY <1>1, AnewFine
  <2>2. tab' = Bind(t, known, FALSE)
    BY <1>5 DEF Load, Anew
  <2> HIDE DEF t
  <2>3. Fine(tab')
    BY <1>2, <2>1, <2>2, BindFine
  <2>4. Others'
    BY <1>1, <1>5 DEF Load, Others
  <2>5. QED
    BY <2>3, <2>4 DEF PageInv, PageTypeOK, Others, Fine
<1>6. CASE Settle
  <2> DEFINE t == [tab EXCEPT !.body[tab.cur].settling = FALSE]
  <2>1. Fine(t)
    BY <1>1, SettleFine
  <2>2. tab' = Bind(t, known, doc # "complete")
    BY <1>6 DEF Settle, Cur
  <2> HIDE DEF t
  <2>3. Fine(tab')
    BY <1>2, <2>1, <2>2, BindFine
  <2>4. Others'
    BY <1>1, <1>6 DEF Settle, Others
  <2>5. QED
    BY <2>3, <2>4 DEF PageInv, PageTypeOK, Others, Fine
<1>7. QED
  BY <1>3, <1>4, <1>5, <1>6

\* So does an animation frame of any wait.
LEMMA FramesStep ==
  ASSUME PageInv, NEW w \in tab.wait, Frame(w)
  PROVE  PageInv'
<1> DEFINE without == [tab EXCEPT !.wait = @ \ {w}]
           fewer == [w EXCEPT !.left = @ - 1]
           counted == [without EXCEPT !.wait = @ \union {fewer}]
<1>1. Others /\ Fine(tab)
  BY PageInvIs
<1>2. w.left > 0
  BY DEF Frame
<1>3. /\ Fine(Fallback(tab, w.body)) /\ Fine(WhenReady(without, w.body, FALSE))
      /\ Fine(without) /\ Fine(counted)
  BY <1>1, <1>2, FrameFine
<1>4. tab' = IF w.for = "all" THEN Fallback(tab, w.body)
             ELSE IF w.for \in libs THEN WhenReady(without, w.body, FALSE)
             ELSE IF fewer.left = 0 /\ ~w.again THEN without
             ELSE counted
  BY DEF Frame
<1>5. Others'
  BY <1>1 DEF Frame, Others
<1> HIDE DEF without, counted, fewer
<1>6. Fine(tab')
  BY <1>3, <1>4
<1>7. QED
  BY <1>5, <1>6 DEF PageInv, PageTypeOK, Others, Fine

\* So does a click on Refresh.
LEMMA RefreshStep ==
  ASSUME PageInv, Refresh
  PROVE  PageInv'
<1>1. Others /\ Fine(tab)
  BY PageInvIs
<1>2. Fine(tab')
  BY <1>1, RefreshFine DEF Refresh, Body, Cur
<1>3. Others'
  BY <1>1, PagesAssumption DEF Refresh, Others
<1>4. QED
  BY <1>2, <1>3 DEF PageInv, PageTypeOK, Others, Fine

\* So do the answers, the failures and the maps' load events.
LEMMA DataStep ==
  ASSUME PageInv, NEW j \in Jobs, RequestFails(j) \/ DataArrive(j) \/ MapLoads(j)
  PROVE  PageInv'
<1>1. Others /\ Fine(tab) /\ j \in DOMAIN tab.job
  BY PageInvIs DEF Jobs
<1>2. CASE RequestFails(j)
  <2>1. Fine(tab')
    BY <1>1, <1>2, CatchFine DEF RequestFails
  <2>2. Others'
    BY <1>1, <1>2, FaultCounts DEF RequestFails, Others
  <2>3. QED
    BY <2>1, <2>2 DEF PageInv, PageTypeOK, Others, Fine
<1>3. CASE DataArrive(j)
  <2> DEFINE shown == [tab EXCEPT !.body[tab.job[j].into].loader = FALSE]
  <2>1. /\ Fine(Catch(shown, j))
        /\ Fine([shown EXCEPT !.job[j] = [@ EXCEPT !.st = "built", !.at = tab.cur]])
    BY <1>1, <1>3, ArriveFine DEF DataArrive
  <2>2. tab' = IF KindAt(tab, Cur) = "none" THEN Catch(shown, j)
               ELSE [shown EXCEPT !.job[j] = [@ EXCEPT !.st = "built", !.at = tab.cur]]
    BY <1>3 DEF DataArrive, Cur
  <2> HIDE DEF shown
  <2>3. Fine(tab')
    BY <2>1, <2>2
  <2>4. Others'
    BY <1>1, <1>3 DEF DataArrive, Others
  <2>5. QED
    BY <2>3, <2>4 DEF PageInv, PageTypeOK, Others, Fine
<1>4. CASE MapLoads(j)
  <2>1. tab' = WithMap(tab, j) /\ tab.job[j].st = "built"
    BY <1>4 DEF MapLoads, WithMap, Body
  <2>2. Fine(tab')
    BY <1>1, <2>1, LoadedFine
  <2>3. Others'
    BY <1>1, <1>4 DEF MapLoads, Others
  <2>4. QED
    BY <2>2, <2>3 DEF PageInv, PageTypeOK, Others, Fine
<1>5. QED
  BY <1>2, <1>3, <1>4

\* The history after a step back, forward or on.
LEMMA TrailOn ==
  ASSUME Others, NEW p \in Page
  PROVE  /\ LET r == [at |-> trail.at + 1, pages |-> Append(SubSeq(trail.pages, 1, trail.at), p)]
            IN  r \in [at : Nat, pages : Seq(Page)] /\ r.at \in DOMAIN r.pages
         /\ LET r == [trail EXCEPT !.pages[trail.at] = p]
            IN  r \in [at : Nat, pages : Seq(Page)] /\ r.at \in DOMAIN r.pages
         /\ \A e \in DOMAIN trail.pages :
              LET r == [trail EXCEPT !.at = e]
              IN  r \in [at : Nat, pages : Seq(Page)] /\ r.at \in DOMAIN r.pages
<1> DEFINE n == trail.at
           pages == trail.pages
           before == SubSeq(pages, 1, n)
           longer == Append(before, p)
           other == [pages EXCEPT ![n] = p]
<1>1. /\ trail = [at |-> n, pages |-> pages] /\ n \in Nat /\ pages \in Seq(Page)
      /\ n \in 1..Len(pages) /\ DOMAIN pages = 1..Len(pages)
  BY DEF Others
<1> HIDE DEF n, pages
<1>2. before \in Seq(Page) /\ Len(before) = n
  BY <1>1, SubSeqProperties
<1> HIDE DEF before
<1>3. longer \in Seq(Page) /\ Len(longer) = n + 1 /\ DOMAIN longer = 1..(n + 1)
  BY <1>1, <1>2, AppendProperties
<1>4. other \in Seq(Page) /\ DOMAIN other = DOMAIN pages
  BY <1>1, ExceptSeq
<1>5. [trail EXCEPT !.pages[n] = p] = [at |-> n, pages |-> other]
  BY <1>1
<1>6. \A e : [trail EXCEPT !.at = e] = [at |-> e, pages |-> pages]
  BY <1>1
<1> HIDE DEF longer, other
<1>7. QED
  BY <1>1, <1>3, <1>4, <1>5, <1>6 DEF n, pages, before, longer

\* A row that is clicked keeps the invariant: the body it brings in is bound at once
\* by the scripts that have run before.
LEMMA SwapStep ==
  ASSUME PageInv, NEW p \in Page, Swap(p)
  PROVE  PageInv'
<1> DEFINE x == [FreshBody(p) EXCEPT !.settling = TRUE]
           t == Replaced(tab, x)
<1>1. Others /\ Fine(tab)
  BY PageInvIs
<1>2. Fine(t)
  BY <1>1, SwappedIs, ReplacedFine
<1>3. tab' = Bind(t, known, doc # "complete")
  BY DEF Swap
<1> HIDE DEF t
<1>4. Fine(tab')
  BY <1>1, <1>2, <1>3, BindFine DEF Others
<1>5. trail' \in [at : Nat, pages : Seq(Page)] /\ trail'.at \in DOMAIN trail'.pages
  <2> DEFINE on == [at |-> trail.at + 1, pages |-> Append(SubSeq(trail.pages, 1, trail.at), p)]
             over == [trail EXCEPT !.pages[trail.at] = p]
  <2>1. trail' = on \/ trail' = over
    BY DEF Swap
  <2>2. /\ on \in [at : Nat, pages : Seq(Page)] /\ on.at \in DOMAIN on.pages
        /\ over \in [at : Nat, pages : Seq(Page)] /\ over.at \in DOMAIN over.pages
    BY <1>1, TrailOn
  <2> HIDE DEF on, over
  <2>3. QED
    BY <2>1, <2>2
<1>6. Others'
  BY <1>1, <1>5, KeepIs DEF Swap, Others
<1>7. QED
  BY <1>4, <1>6 DEF PageInv, PageTypeOK, Others, Fine

\* So does Back, which brings a body in that nothing binds.
LEMMA RestoreStep ==
  ASSUME PageInv, NEW e \in DOMAIN trail.pages, Restore(e)
  PROVE  PageInv'
<1> DEFINE p == trail.pages[e]
           kept == saved'[p]
           x == [FreshBody(p) EXCEPT
                   !.flag = kept.flag, !.waited = kept.waited, !.disabled = kept.disabled,
                   !.loader = kept.loader, !.error = kept.error, !.restored = TRUE]
<1>1. Others /\ Fine(tab) /\ Keep
  BY PageInvIs DEF Restore
<1>2. p \in Page /\ p \in DOMAIN saved
  BY <1>1 DEF Others, Restore
<1>3. DOMAIN saved' \subseteq Page /\ (\A q \in DOMAIN saved' : saved'[q] \in BodyType) /\ kept \in BodyType
  BY <1>1, <1>2, KeepIs
<1>4. /\ x \in BodyType /\ x.page = p /\ x.cleanup = 0 /\ x.panels = {} /\ x.onclick = NoPage
      /\ x.script \in {"popup", "map"} => KindOf[p] # "none"
  <2> HIDE DEF kept, p
  <2>1. QED
    BY <1>2, <1>3, RestoredIs
<1>5. tab' = Replaced(tab, x)
  BY DEF Restore
<1> HIDE DEF x
<1>6. Fine(tab')
  BY <1>1, <1>4, <1>5, ReplacedFine
<1>7. trail' \in [at : Nat, pages : Seq(Page)] /\ trail'.at \in DOMAIN trail'.pages
  <2> DEFINE to == [trail EXCEPT !.at = e]
  <2>1. trail' = to
    BY DEF Restore
  <2> HIDE DEF p
  <2>2. to \in [at : Nat, pages : Seq(Page)] /\ to.at \in DOMAIN to.pages
    BY <1>1, <1>2, TrailOn
  <2> HIDE DEF to
  <2>3. QED
    BY <2>1, <2>2
<1>8. Others'
  BY <1>1, <1>3, <1>7 DEF Restore, Others
<1>9. QED
  BY <1>6, <1>8 DEF PageInv, PageTypeOK, Others, Fine

\* Every step keeps the invariant.
LEMMA PageStep == PageInv /\ [PageNext]_pageVars => PageInv'
<1> SUFFICES ASSUME PageInv, [PageNext]_pageVars PROVE PageInv'
  OBVIOUS
<1>1. CASE Bundle \/ DOMContentLoaded \/ Load \/ Settle
  BY <1>1, EventsStep
<1>2. CASE \E b \in Bodies : PopupScript(b) \/ MapScript(b) \/ MapScriptFails(b)
  BY <1>2, ScriptsStep
<1>3. CASE \E w \in tab.wait : Frame(w)
  BY <1>3, FramesStep
<1>4. CASE \E j \in Jobs : RequestFails(j) \/ DataArrive(j) \/ MapLoads(j)
  BY <1>4, DataStep
<1>5. CASE Refresh
  BY <1>5, RefreshStep
<1>6. CASE \E p \in Page : Swap(p)
  BY <1>6, SwapStep
<1>7. CASE \E e \in DOMAIN trail.pages : Restore(e)
  BY <1>7, RestoreStep
<1>8. CASE UNCHANGED pageVars
  <2>1. Others'
    BY <1>8, PageInvIs DEF pageVars, Others
  <2>2. Fine(tab')
    BY <1>8, PageInvIs DEF pageVars
  <2>3. QED
    BY <2>1, <2>2 DEF PageInv, PageTypeOK, Others, Fine
<1>9. QED
  BY <1>1, <1>2, <1>3, <1>4, <1>5, <1>6, <1>7, <1>8 DEF PageNext

\* The invariant holds of every tab, whatever pages there are, however many bodies,
\* refreshes and faults (static/js/*-map.js).
THEOREM PageInvariant == PageSpec => []PageInv
BY PageInitInv, PageStep, PTL DEF PageSpec

\* The variables of a tab have their types; in particular a call is for a body that
\* there is, and a cleanup is that of a call.
THEOREM PagesTypeCorrect == PageSpec => []PageTypeOK
<1>1. PageInv => PageTypeOK
  BY DEF PageInv
<1>2. QED
  BY <1>1, PageInvariant, PTL

\* A set whose elements are all the same has one at most.
LEMMA AtMostOne ==
  ASSUME NEW S, \A x, y \in S : x = y
  PROVE  Cardinality(S) <= 1
<1>1. CASE S = {}
  BY <1>1, FS_EmptySet
<1>2. CASE S # {}
  <2>1. PICK x \in S : TRUE
    BY <1>2
  <2>2. S = {x}
    BY <2>1
  <2>3. QED
    BY <2>2, FS_Singleton
<1>3. QED
  BY <1>1, <1>2

\* An element shows at most one map, that of its page, unless something of the body
\* before was unfinished at the swap: for any pages and links, and any interleaving of
\* events, refreshes and failures (stop-map.js:28-64, 540-607).
THEOREM PagesShowTheirOwn == PageSpec => []ShowsItsOwn
<1>1. ASSUME PageInv PROVE ShowsItsOwn
  <2> SUFFICES ASSUME NEW b \in Bodies, ~Body[b].crossed
               PROVE  /\ Cardinality(Live(tab, b)) <= 1
                      /\ \A j \in Live(tab, b) :
                           tab.job[j].page = Body[b].page /\ tab.job[j].kind = KindAt(tab, b)
    BY DEF ShowsItsOwn
  <2>1. /\ \A i, j \in Live(tab, b) : i = j
        /\ \A j \in Live(tab, b) : tab.job[j].page = Body[b].page /\ tab.job[j].kind = KindAt(tab, b)
    <3>1. CASE b = tab.cur
      <4>1. Live(tab, b) \subseteq Under(tab) \union Loaded(tab)
        BY <1>1, <3>1 DEF Live, Under, Loaded, PageInv, Alone, Body
      <4>2. QED
        BY <1>1, <3>1, <4>1 DEF PageInv, Alone, Body
    <3>2. CASE b # tab.cur
      BY <1>1, <3>2 DEF PageInv, LeftBehind, Bodies, Body
    <3>3. QED
      BY <3>1, <3>2
  <2>2. QED
    BY <2>1, AtMostOne
<1>2. QED
  BY <1>1, PageInvariant, PTL

\* What the next Refresh removes is exactly what the element shows
\* (stop-map.js:418-426, route-map.js:368-376).
THEOREM RefreshRemovesWhatIsThere == PageSpec => []CleanupCovers
<1>1. ASSUME PageInv PROVE CleanupCovers
  <2> SUFFICES ASSUME ~Body[Cur].crossed, KindAt(tab, Cur) # "none"
               PROVE  LET loaded == {j \in Live(tab, Cur) : tab.job[j].st = "loaded"}
                      IN  /\ KindAt(tab, Cur) \in Refreshable => loaded = {Body[Cur].cleanup} \ {0}
                          /\ Body[Cur].panels = {j \in loaded : Embed[KindAt(tab, Cur)].panel}
    BY DEF CleanupCovers
  <2>1. {j \in Live(tab, tab.cur) : tab.job[j].st = "loaded"} = Loaded(tab)
    <3>1. \A j \in DOMAIN tab.job : tab.job[j].at = tab.cur => tab.job[j].into = tab.cur
      BY <1>1 DEF PageInv, Alone, Body, Cur
    <3>2. \A j \in Loaded(tab) : tab.job[j].at = tab.cur
      BY <1>1 DEF PageInv, Alone, Body, Cur, Loaded
    <3>3. QED
      BY <3>1, <3>2 DEF Live, Loaded
  <2>2. QED
    BY <1>1, <2>1 DEF PageInv, Alone, Body, Cur
<1>2. QED
  BY <1>1, PageInvariant, PTL

=============================================================================
