------------------------------- MODULE HourRules -------------------------------
(***************************************************************************)
(* The arithmetic of hours and days that healing and reconciliation rest   *)
(* on (heal.py and recon.py of the package): which hour files may hold the *)
(* events of a gap, which hours of a session can be reconciled, and how    *)
(* far back the merge has to look.                                         *)
(*                                                                         *)
(* Times are counted in ticks from a midnight, hours and days from it too. *)
(***************************************************************************)
EXTENDS Integers

CONSTANTS
    Hour,          \* ticks of an hour
    HoursPerDay,   \* 24 on the wall
    Lag            \* ticks from the end of an hour until its file has landed

ASSUME HourAssumption == Hour \in Nat \ {0} /\ HoursPerDay \in Nat \ {0} /\ Lag \in Nat

HourOf(t) == t \div Hour
DayOf(t) == t \div (Hour * HoursPerDay)

FloorHour(t) == Hour * HourOf(t)
CeilHour(t) == IF FloorHour(t) = t THEN t ELSE FloorHour(t) + Hour

\* gap_to_hours: from the hour of start, while the hour begins before end; and one more,
\* because an event is in the file of its hour, or in the next one if its block was late.
GapToHours(start, end) == HourOf(start)..HourOf(CeilHour(end))

\* Faulty variant: the leading partial hour is kept.
Window_FromFloor(start, end, now) ==
    [from |-> FloorHour(start),
     to |-> IF FloorHour(end) <= FloorHour(now - Lag)
            THEN FloorHour(end) ELSE FloorHour(now - Lag)]

\* reconcilable_window: full hours of the session, up to the last hour landed.
Window(start, end, now) ==
    [from |-> CeilHour(start),
     to |-> IF FloorHour(end) <= FloorHour(now - Lag)
            THEN FloorHour(end) ELSE FloorHour(now - Lag)]

\* No hour is both fully covered and landed: recon refuses.
IsEmpty(w) == w.to <= w.from

InWindow(w, t) == w.from <= t /\ t < w.to

\* Faulty variant: no day of slack.
LookbackDays_Exact(oldest, today) == today - DayOf(oldest)

\* lookback_days, oldest being the start of the oldest gap not healed.
LookbackDays(oldest, today) == today - DayOf(oldest) + 1

\* The day filter of the merge with that lookback: dt >= current_date - lookback.
InLookback(t, today, days) == DayOf(t) >= today - days
===============================================================================
