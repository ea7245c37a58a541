---------------------------- MODULE MCMapWidgets ----------------------------
\* A map of each kind: one of a stop with two routes, with and without vehicles,
\* one of a route likewise, and one of each of the others.
EXTENDS MapWidgets

CONSTANTS r1, r2, s1, s2

MCRoute == {r1, r2}
MCStop == {s1, s2}
MCMap ==
  [kind : {"stop"}, routes : {{r1, r2}}, vehicles : BOOLEAN]
  \union [kind : {"route"}, routes : {{r1}}, vehicles : BOOLEAN]
  \union [kind : {"nearby", "static"}, routes : {{}}, vehicles : {FALSE}]
  \union [kind : {"agency"}, routes : {{r1, r2}}, vehicles : {FALSE}]

=============================================================================
