----------------------------- MODULE LayerPanel -----------------------------
\* The layers of a loaded map and the panel of checkboxes that hides and shows
\* them, for the maps of a stop, a route and an agency (buildLayerPanel). The
\* maps of nearby stops and of all stops of a type have no panel.
EXTENDS Naturals

CONSTANTS
  Route,
  Map      \* the map of each kind: its routes, and whether vehicles are on it

ASSUME MapAssumption ==
  \A m \in Map : /\ m.kind \in {"stop", "route", "nearby", "static", "agency"}
                 /\ m.routes \subseteq Route /\ m.vehicles \in BOOLEAN
                 /\ m.kind = "route" => \E r \in Route : m.routes = {r}

VARIABLES
  map,
  visible,  \* the layers whose visibility is not "none"
  checked,  \* the boxes that are ticked
  allOn     \* what the toggle-all button did last

panelVars == <<visible, checked, allOn>>

\* A layer is a tuple of its name and its route; a box is one, too.
VehicleLayers(r) == {<<"vehicle-pulse", r>>, <<"vehicle", r>>, <<"vehicle-label", r>>}
OtherStops == {<<"stops-other">>, <<"stops-labels-other">>}
StopsLabelsFocus == {<<"stops-labels-focus">>}

StopMapLayers(m) ==
  {<<"line", r>> : r \in m.routes} \union OtherStops \union {<<"stops-focus">>}
  \union StopsLabelsFocus
  \union (IF m.vehicles THEN UNION {VehicleLayers(r) : r \in m.routes} ELSE {})

RouteStops == {<<"stops-route">>, <<"stops-labels-route">>}
RouteMapLayers(m) ==
  {<<"line", r>> : r \in m.routes} \union RouteStops
  \union (IF m.vehicles THEN UNION {VehicleLayers(r) : r \in m.routes} ELSE {})

NearbyMapLayers ==
  {<<"search-radius">>, <<"search-radius-outline">>, <<"user-loc">>,
   <<"stops-nearby">>, <<"stops-labels-nearby">>}

StaticMapLayers == {<<"stops-static">>, <<"stops-labels-static">>}

AgencyMapLayers(m) == {<<"line", r>> : r \in m.routes}

Layers(m) ==
  CASE m.kind = "stop" -> StopMapLayers(m)
    [] m.kind = "route" -> RouteMapLayers(m)
    [] m.kind = "nearby" -> NearbyMapLayers
    [] m.kind = "static" -> StaticMapLayers
    [] m.kind = "agency" -> AgencyMapLayers(m)

\* The boxes of each panel, and the layers that each box names.
StopPanelBoxes(m) == {<<"route", r>> : r \in m.routes} \union {<<"stops">>}
RoutePanelBoxes(m) ==
  {<<"line">>, <<"stops">>} \union (IF m.vehicles THEN {<<"vehicles">>} ELSE {})
AgencyPanelBoxes(m) == {<<"route", r>> : r \in m.routes}

Boxes(m) ==
  CASE m.kind = "stop" -> StopPanelBoxes(m)
    [] m.kind = "route" -> RoutePanelBoxes(m)
    [] m.kind = "agency" -> AgencyPanelBoxes(m)
    [] OTHER -> {}

StopPanelNames(m, b) ==
  IF b = <<"stops">> THEN OtherStops
  ELSE {<<"line", b[2]>>} \union (IF m.vehicles THEN VehicleLayers(b[2]) ELSE {})

RoutePanelNames(m, b) ==
  CASE b = <<"line">> -> {<<"line", r>> : r \in m.routes}
    [] b = <<"stops">> -> RouteStops
    [] b = <<"vehicles">> -> UNION {VehicleLayers(r) : r \in m.routes}

AgencyPanelNames(b) == {<<"line", b[2]>>}

Names(m, b) ==
  CASE m.kind = "stop" -> StopPanelNames(m, b)
    [] m.kind = "route" -> RoutePanelNames(m, b)
    [] m.kind = "agency" -> AgencyPanelNames(b)

\* Mutant: the button of a stop's panel forgets the stops.
StopPanelTogglesRoutes(m) ==
  {<<"line", r>> : r \in m.routes}
  \union (IF m.vehicles THEN UNION {VehicleLayers(r) : r \in m.routes} ELSE {})

\* The layers that the button of each panel names.
StopPanelToggles(m) ==
  {<<"line", r>> : r \in m.routes} \union OtherStops
  \union (IF m.vehicles THEN UNION {VehicleLayers(r) : r \in m.routes} ELSE {})

\* Mutant: the button of a route's panel forgets the vehicles.
RoutePanelTogglesLine(m) == {<<"line", r>> : r \in m.routes} \union RouteStops

RoutePanelToggles(m) ==
  {<<"line", r>> : r \in m.routes} \union RouteStops
  \union (IF m.vehicles THEN UNION {VehicleLayers(r) : r \in m.routes} ELSE {})
AgencyPanelToggles(m) == {<<"line", r>> : r \in m.routes}

Toggled(m) ==
  CASE m.kind = "stop" -> StopPanelToggles(m)
    [] m.kind = "route" -> RoutePanelToggles(m)
    [] m.kind = "agency" -> AgencyPanelToggles(m)

\* setLayerVisibility for each of the layers ls; one that is not there is skipped.
SetLayerVisibility(ls, show) ==
  visible' = IF show THEN visible \union (ls \intersect Layers(map)) ELSE visible \ ls

-----------------------------------------------------------------------------
InitPanel ==
  /\ map \in Map
  /\ visible = Layers(map)
  /\ checked = Boxes(map)
  /\ allOn = TRUE

\* A box is ticked or unticked: its "change" listener.
Change(b) ==
  /\ b \in Boxes(map)
  /\ checked' = IF b \in checked THEN checked \ {b} ELSE checked \union {b}
  /\ SetLayerVisibility(Names(map, b), b \in checked')
  /\ UNCHANGED <<map, allOn>>

\* The button. It inverts what it did last, whatever the boxes say by now.
ToggleAll ==
  /\ Boxes(map) # {}
  /\ allOn' = ~allOn
  /\ SetLayerVisibility(Toggled(map), allOn')
  /\ checked' = IF allOn' THEN Boxes(map) ELSE {}
  /\ UNCHANGED map

PanelNext ==
  \/ ToggleAll
  \/ \E b \in Boxes(map) : Change(b)

-----------------------------------------------------------------------------
\* A layer is hidden exactly if the box that names it is not ticked, however
\* boxes and button were clicked; the layers no box names - the stop the page is
\* about, the area searched - are never hidden (stop-map.js:461-484, 506-538).
PanelMatchesMap ==
  /\ checked \subseteq Boxes(map)
  /\ visible = Layers(map) \ UNION {Names(map, b) : b \in Boxes(map) \ checked}

\* The groups that are shown on the map.
Shown == {b \in Boxes(map) : Names(map, b) \subseteq visible}

\* The panel implements its switches.
Switches == INSTANCE LayerSwitches WITH boxes <- Boxes(map), on <- Shown

=============================================================================
