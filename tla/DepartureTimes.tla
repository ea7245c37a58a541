--------------------------- MODULE DepartureTimes ---------------------------
\* The arithmetic of the times of day on the board of a stop: which departures
\* are on it, in which order, and how long it is until each of them. Times are
\* of a day of 24 hours, without a date; the lengths of an hour and a minute and
\* the window of the board are parameters, in ticks.
EXTENDS Integers

CONSTANTS HourLen, MinuteLen, Before, After

ASSUME TimesAssumption ==
  /\ MinuteLen \in Nat \ {0} /\ HourLen \in Nat /\ MinuteLen < HourLen
  /\ {Before, After} \subseteq Nat /\ Before + After < 24 * HourLen

Day == 24 * HourLen
Times == 0..(Day - 1)
Hour(t) == t \div HourLen

\* convert_29_hours_to_24_hours: the times after midnight of a service day that
\* goes on are those of the hours 24 to 29.
Fold(t) == IF Hour(t) > 23 THEN t - Day ELSE t

\* The start and the end of what the board shows (realtime_controller.py:94-99).
WindowStart(now) == (now - Before) % Day
WindowEnd(now) == (now + After) % Day

\* _arrival_time_conditions: an end before the start is one of the next day.
Selects(start, end, t) ==
  IF start > end THEN t >= start \/ t <= end ELSE t >= start /\ t <= end

\* Mutant: the time itself.
SortKeyPlain(t) == t

\* custom_sort_key: the hours 0, 1 and 2 come after all the others.
SortKey(t) == IF Hour(t) \in 0..2 THEN Day + t ELSE t

\* real_arrival_time.
RealArrival(scheduled, delay) == (scheduled + delay) % Day

\* Mutant: midnight is not considered.
UntilArrivalToday(arrival, now) == arrival - now

\* minutes_until_arrival, in ticks: only the hours next to midnight are wrapped.
UntilArrival(arrival, now) ==
  IF Hour(arrival) = 23 /\ Hour(now) = 0 THEN arrival - now - Day
  ELSE IF Hour(arrival) = 0 /\ Hour(now) = 23 THEN arrival - now + Day
  ELSE arrival - now

IsDueArrival(arrival, now) ==
  -MinuteLen < UntilArrival(arrival, now) /\ UntilArrival(arrival, now) < 0

\* set_real_eta_text_and_due; whole minutes as a number.
EtaText(arrival, now) ==
  LET until == UntilArrival(arrival, now)
  IN  IF until <= -MinuteLen THEN "Left"
      ELSE IF until < 0 THEN "Due"
      ELSE IF until < MinuteLen THEN "<1 min"
      ELSE "min"

=============================================================================
