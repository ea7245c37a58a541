--------------------------- MODULE VehicleHeading ---------------------------
\* Which way the icon of a vehicle points: along the segment of its route's line
\* that is nearest to it (vehicleIconRotateDegreesFromLineString). Points are on
\* a grid, and a bearing is the index of the segment it is taken from: the
\* trigonometry that turns a segment into degrees is left out.
EXTENDS Integers, Sequences

Square(n) == n * n
DistanceSq(p, q) == Square(p[1] - q[1]) + Square(p[2] - q[2])

\* The squared distance of p from the segment ab, as a fraction.
DistanceSqPointToSegment(p, a, b) ==
  LET lenSq == DistanceSq(a, b)
      along == (p[1] - a[1]) * (b[1] - a[1]) + (p[2] - a[2]) * (b[2] - a[2])
      across == (p[1] - a[1]) * (b[2] - a[2]) - (p[2] - a[2]) * (b[1] - a[1])
  IN  IF lenSq = 0 \/ along <= 0 THEN <<DistanceSq(p, a), 1>>
      ELSE IF along >= lenSq THEN <<DistanceSq(p, b), 1>>
      ELSE <<Square(across), lenSq>>

Less(d, e) == d[1] * e[2] < e[1] * d[2]

Segments(line) == 1..(Len(line) - 1)
Degenerate(line, i) == line[i] = line[i + 1]
Distance(line, p, i) == DistanceSqPointToSegment(p, line[i], line[i + 1])

\* Mutant: the last of the nearest.
ImprovesOrTies(line, p, i, best) == ~Less(Distance(line, p, best), Distance(line, p, i))

\* Whether the loop over the segments takes i in place of the best one so far.
Improves(line, p, i, best) == Less(Distance(line, p, i), Distance(line, p, best))

\* The best of the first i segments, for each i.
Best(line, p) ==
  LET best[i \in Segments(line)] ==
        IF i = 1 THEN 1 ELSE IF Improves(line, p, i, best[i - 1]) THEN i ELSE best[i - 1]
  IN  best

\* The first segment from i on that has a length; 0 if there is none.
BearingAlongLine(line, i) ==
  LET longer == {j \in Segments(line) : j >= i /\ ~Degenerate(line, j)}
  IN  IF longer = {} THEN 0 ELSE CHOOSE j \in longer : \A k \in longer : j <= k

\* The segment whose bearing the icon gets; 0 for an icon that is not rotated.
Heading(line, p) ==
  IF Len(line) < 2 THEN 0 ELSE BearingAlongLine(line, Best(line, p)[Len(line) - 1])

=============================================================================
