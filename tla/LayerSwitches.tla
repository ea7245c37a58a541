--------------------------- MODULE LayerSwitches ---------------------------
\* What the panel of a map promises: each of its boxes is a switch of its own
\* for one group of layers, and one button sets all of them alike.
VARIABLES
  boxes,   \* the groups there are
  on       \* those that are shown

vars == <<boxes, on>>

Init == on = boxes

Flip(b) == on' = IF b \in on THEN on \ {b} ELSE on \union {b}
SetAll == on' \in {{}, boxes}

Next == UNCHANGED boxes /\ (SetAll \/ \E b \in boxes : Flip(b))
Spec == Init /\ [][Next]_vars

=============================================================================
