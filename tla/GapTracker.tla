------------------------------ MODULE GapTracker ------------------------------
(***************************************************************************)
(* The per-coin gap bookkeeping of the live ingester (class GapTracker of  *)
(* ingester.py), as operators over its two dictionaries:                   *)
(*   last[c]  last_trade_time_ms[c]     newest event time seen for coin c  *)
(*   open[c]  _open_gap_start_ms[c]     start of c's open gap              *)
(* A key that is absent from a dictionary has the value NoTime.            *)
(***************************************************************************)
EXTENDS Integers

CONSTANT Coins      \* the watchlist

NoTime == -1

Times == Nat \cup {NoTime}

Gap == [coin : Coins, start : Nat, end : Nat]

Trackers == [last : [Coins -> Times], open : [Coins -> Times]]

NoEntries == [c \in Coins |-> NoTime]

\* Both dictionaries of a tracker that has not seen a trade.
FreshTracker == [last |-> NoEntries, open |-> NoEntries]

\* Faulty variant: a replay of the last trade before the drop closes the gap.
Closes_OnReplay(tr, c, t) == tr.open[c] # NoTime /\ t >= tr.open[c]

\* Does a trade of coin c at time t close c's gap?  Only strictly after its start.
Closes(tr, c, t) == tr.open[c] # NoTime /\ t > tr.open[c]

\* What observe_trade returns: the closed gap, as a set of at most one gap.
ClosedBy(tr, c, t) ==
    IF Closes(tr, c, t)
    THEN {[coin |-> c, start |-> tr.open[c], end |-> t]}
    ELSE {}

\* Faulty variant: one timeline for the whole connection, closed by any coin.
Observe_Shared(tr, c, t) ==
    [last |-> IF t > tr.last[c] THEN [tr.last EXCEPT ![c] = t] ELSE tr.last,
     open |-> IF Closes(tr, c, t) THEN NoEntries ELSE tr.open]

\* The tracker after observe_trade(c, t): NoTime is below every time, so one
\* comparison covers "not seen yet" and "newer than the newest".
Observe(tr, c, t) ==
    [last |-> IF t > tr.last[c] THEN [tr.last EXCEPT ![c] = t] ELSE tr.last,
     open |-> IF Closes(tr, c, t) THEN [tr.open EXCEPT ![c] = NoTime] ELSE tr.open]

\* Faulty variant: the gap starts one tick after the last trade.
OnDisconnect_After(tr) ==
    [tr EXCEPT !.open =
        [c \in Coins |-> IF tr.open[c] # NoTime THEN tr.open[c]
                         ELSE IF tr.last[c] = NoTime THEN NoTime ELSE tr.last[c] + 1]]

\* The tracker after on_disconnect: setdefault keeps an earlier start, and a coin
\* never seen gets no gap, because its last time is NoTime as well.
OnDisconnect(tr) ==
    [tr EXCEPT !.open =
        [c \in Coins |-> IF tr.open[c] = NoTime THEN tr.last[c] ELSE tr.open[c]]]

\* max_time of close_open_gaps is t: the newest event time over every coin.
IsMaxTime(tr, t) ==
    /\ \E c \in Coins : tr.last[c] = t
    /\ \A c \in Coins : tr.last[c] <= t

\* The gaps close_open_gaps returns; a gap with no later event is skipped.
OpenGapsClosed(tr) ==
    {g \in {[coin |-> c, start |-> tr.open[c], end |-> tr.last[d]] : c, d \in Coins} :
        /\ IsMaxTime(tr, g.end)
        /\ g.start # NoTime
        /\ g.end > g.start}
===============================================================================
