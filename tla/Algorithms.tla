----------------------------- MODULE Algorithms -----------------------------
\* The pure functions of the site and its pages, each over its own inputs: the
\* heading of a vehicle, the realtime row for a stop, the times on a board while
\* the clock goes on, and a table whose headings are clicked.
EXTENDS VehicleHeading, TableSort, RealtimeOverlay, DepartureTimes

CONSTANTS
  Lines, Points,       \* of the map
  FeedRows, Stops, Seqs,  \* the realtime rows of a trip, and its scheduled stops
  Delays, GtfsTimes,  \* of the scheduled departures: the hours go on to 29
  MaxListeners

ASSUME InputsAssumption ==
  /\ Points \subseteq Int \X Int /\ Lines \subseteq Seq(Points)
  /\ Seqs \subseteq Nat
  /\ \A rows \in FeedRows :
       /\ IsFiniteSet(rows)
       /\ \A r \in rows : r.seq \in Nat /\ r.skipped \in BOOLEAN /\ r.created \in Nat
  /\ Delays \subseteq Int /\ GtfsTimes \subseteq 0..(30 * HourLen - 1)

VARIABLE input  \* of one of the functions

Headings == [of : {"heading"}, line : Lines, at : Points]
Overlays == [of : {"overlay"}, rows : FeedRows, stop : Stops, seq : Seqs]
Boards(times) ==
  [of : {"board"}, now : times, scheduled : {Fold(t) : t \in GtfsTimes}, delay : Delays]
Tables(tables) == [of : {"table"}, table : tables]

InputOK ==
  input \in Headings \union Overlays \union Boards(Times) \union Tables(SortableTables)

InputInit ==
  input \in Headings \union Overlays \union Boards({0})
            \union Tables({FreshTable(p) : p \in Perms(Row)})

\* The clock of the server.
ClockTicks ==
  /\ input.of = "board" /\ input.now < Day - 1
  /\ input' = [input EXCEPT !.now = @ + 1]

HeadingClicked ==
  /\ input.of = "table"
  /\ \E c \in Column : \E t \in Clicked(input.table, c) : input' = [input EXCEPT !.table = t]

FragmentComes ==
  /\ input.of = "table" /\ input.table.listeners < MaxListeners
  /\ input' = [input EXCEPT !.table = ListenedAgain(@)]

InputNext == ClockTicks \/ HeadingClicked \/ FragmentComes
InputSpec == InputInit /\ [][InputNext]_input

-----------------------------------------------------------------------------
\* The icon of a vehicle points along a segment of the line that has a length,
\* none of the others being nearer, whatever points the line repeats; it is left
\* alone only if the line has no such segment ("Uses nearest segment",
\* maplibre-map-shared.js:267-268).
HeadingIsNearest ==
  input.of = "heading" =>
    LET line == input.line
        proper == {i \in Segments(line) : ~Degenerate(line, i)}
        h == Heading(line, input.at)
    IN  /\ h \in proper \union {0} /\ (h = 0 <=> proper = {})
        /\ h # 0 => \A i \in Segments(line) :
             ~Less(Distance(line, input.at, i), Distance(line, input.at, h))

\* The realtime row of a scheduled stop is one of its own if there is any, else
\* one that is not SKIPPED from as little before it as possible, else a SKIPPED
\* one from before it, and only then one from after it
\* (realtime_schedule_repo.py:92-99). No row is left unused.
Rank(r, stop, seq) ==
  IF r.stop = stop /\ r.seq = seq THEN 0
  ELSE IF r.seq <= seq THEN IF r.skipped THEN 2 ELSE 1
  ELSE IF r.skipped THEN 4 ELSE 3
Gap(r, seq) == IF r.seq <= seq THEN seq - r.seq ELSE r.seq - seq
OverlayIsBest ==
  input.of = "overlay" =>
    LET rank(r) == Rank(r, input.stop, input.seq)
        gap(r) == Gap(r, input.seq)
        found == OverlayForStaticScheduleRow(input.rows, input.stop, input.seq)
    IN  /\ (found = {}) <=> (input.rows = {})
        /\ \A r \in found, o \in input.rows :
             \/ rank(r) < rank(o)
             \/ rank(r) = rank(o) /\ gap(r) < gap(o)
             \/ rank(r) = rank(o) /\ gap(r) = gap(o) /\ r.created >= o.created

\* How far t is after s, at most half a day either way.
Ahead(t, s) == LET d == (t - s) % Day IN IF 2 * d > Day THEN d - Day ELSE d

\* Across midnight, too, the board counts down to a departure less than an hour
\* away on either side, and calls it Due in the minute after and at no other
\* time ("strictly between 0 and 60 seconds ago", realtime_schedule_model.py:23).
\* (One further away, on the other side of midnight, is said to have Left.)
EtaIsTrue ==
  input.of = "board" =>
    LET arrival == RealArrival(input.scheduled, input.delay)
        ahead == Ahead(arrival, input.now)
    IN  /\ ahead \in (1 - HourLen)..(HourLen - 1) => UntilArrival(arrival, input.now) = ahead
        /\ IsDueArrival(arrival, input.now) <=> ahead \in (1 - MinuteLen)..-1
        /\ IsDueArrival(arrival, input.now) <=> EtaText(arrival, input.now) = "Due"

\* The board shows the departures between its start and its end and no others,
\* over midnight, too, and in the order they come in; except while it reaches
\* from before three o'clock to after it, when the hour before sorts last
\* (schedule_service.py:49-54).
BoardInOrder ==
  input.of = "board" =>
    LET start == WindowStart(input.now)
        shown == {t \in Times : Selects(start, WindowEnd(input.now), t)}
        since(t) == (t - start) % Day
    IN  /\ shown = {(start + i) % Day : i \in 0..(Before + After)}
        /\ \A s, t \in shown : 3 * HourLen \notin {u \in shown : since(u) > 0} =>
             (SortKey(s) < SortKey(t) <=> since(s) < since(t))

\* At most one heading of a table says that the table is sorted by it, and then
\* it is, that way round; however often each click is heard, and though columns
\* without a type are sorted as text (tablesort.js:62-71).
Ordered(t, c, asc) ==
  \A i, j \in DOMAIN t.rows : i < j =>
    LET key == IF c \in Numeric THEN Number[c] ELSE TextRank[c]
    IN  IF asc THEN key[t.rows[i]] <= key[t.rows[j]] ELSE key[t.rows[i]] >= key[t.rows[j]]
ArrowTellsOrder ==
  input.of = "table" =>
    LET t == input.table
    IN  \A c \in Column : t.class[c] # "none" =>
          /\ Ordered(t, c, t.class[c] = "asc")
          /\ \A d \in Column \ {c} : t.class[d] = "none"

=============================================================================
