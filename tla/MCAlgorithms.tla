---------------------------- MODULE MCAlgorithms ----------------------------
\* Lines of up to four points of a grid; trips of three stops and up to two
\* realtime rows; a day of 24 hours of six minutes, whose board shows one minute
\* back and an hour ahead; a table of three rows with a number and a text.
EXTENDS Algorithms, TLC

CONSTANTS a, b, c

MCPoints == (0..2) \X (0..1)
MCLines == UNION {[1..n -> MCPoints] : n \in 1..4}
MCStops == {1, 2, 3}
MCRow == [stop : MCStops, seq : 1..3, skipped : BOOLEAN, created : 1..2]
MCFeedRows == {{}} \union {{r, s} : r, s \in MCRow}
MCRows == {a, b, c}
MCColumn == {"number", "text"}
MCNumber == [k \in MCColumn |-> (a :> 5 @@ b :> 10 @@ c :> 10)]
MCTextRank == [k \in MCColumn |-> (a :> 2 @@ b :> 1 @@ c :> 1)]
MCDelays == {-1, 0, 3, 12, 20}
MCGtfsTimes == {5 * k : k \in 0..71}

=============================================================================
