--------------------------- MODULE RealtimeOverlay ---------------------------
\* Which realtime row applies to a stop of a scheduled trip. A feed sends only
\* some of the stops of a trip, and the delay of another one is carried over
\* (realtime_schedule_repo.py). A row is one of the trip's recent rt_stop_time
\* rows: its stop, its sequence number, SKIPPED or not, and created_at. The
\* results are sets: of rows that tie in all of that, the first one the query
\* returned is taken, in an order the query does not fix.
EXTENDS Naturals

Newest(rows) == {r \in rows : \A o \in rows : o.created <= r.created}
NonSkipped(rows) == {r \in rows : ~r.skipped}

\* Mutant: SKIPPED rows are carried like any other.
PreferredAny(rows) == rows

\* The rows to choose from: those that are not SKIPPED, if there are any.
Preferred(rows) == IF NonSkipped(rows) # {} THEN NonSkipped(rows) ELSE rows

PickPredecessorCarryForward(rows, seq) ==
  LET pool == Preferred({r \in rows : r.seq <= seq})
  IN  Newest({r \in pool : \A o \in pool : o.seq <= r.seq})

PickSuccessorCarryForward(rows, seq) ==
  LET pool == Preferred({r \in rows : r.seq >= seq})
  IN  Newest({r \in pool : \A o \in pool : r.seq <= o.seq})

\* by_triple: of the rows of one stop and sequence number, a newest one.
Exact(rows, stop, seq) == Newest({r \in rows : r.stop = stop /\ r.seq = seq})

OverlayForStaticScheduleRow(rows, stop, seq) ==
  LET exact == Exact(rows, stop, seq)
      before == PickPredecessorCarryForward(rows, seq)
  IN  IF exact # {} THEN exact
      ELSE IF before # {} THEN before
      ELSE PickSuccessorCarryForward(rows, seq)

=============================================================================
