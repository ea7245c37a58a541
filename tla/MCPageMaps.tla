----------------------------- MODULE MCPageMaps -----------------------------
\* A tab that starts at a search page or at one with a map. Rows lead from the
\* search to a route (hx-push-url), and from either to a stop (hx-replace-url).
EXTENDS PageMaps

CONSTANTS search, route, stop, static, nearby, agency

MCPage == {search, route, stop, static, nearby, agency}
MCKindOf == [p \in MCPage |->
  CASE p = search -> "none" [] p = route -> "route" [] p = nearby -> "nearby"
    [] p = static -> "static" [] p = agency -> "agency" [] OTHER -> "stop"]
MCFirst == MCPage \ {stop}
MCPushes == {<<search, route>>}
MCReplaces == {<<search, stop>>, <<route, stop>>}

=============================================================================
