---------------------------- MODULE IngesterProofs ----------------------------
(***************************************************************************)
(* Theorems about the live ingester, for every watchlist, every bound and  *)
(* every number of drops, kills and restarts.                              *)
(***************************************************************************)
EXTENDS Ingester, SequenceTheorems, DataInduction, TLAPS

-------------------------------------------------------------------------------
(* The tracker's operators.                                                *)

\* A tracker stays one under observe_trade, and what that returns is a gap.
LEMMA ObserveType ==
    ASSUME NEW tr \in Trackers, NEW c \in Coins, NEW t \in Nat
    PROVE  Observe(tr, c, t) \in Trackers /\ ClosedBy(tr, c, t) \subseteq Gap
<1>1. t \in Times /\ NoTime \in Times
  BY DEF Times
<1>2. Observe(tr, c, t) \in Trackers
  BY <1>1 DEF Observe, Trackers, NoEntries
<1>3. Closes(tr, c, t) => tr.open[c] \in Nat
  BY DEF Closes, Trackers, Times
<1>4. ClosedBy(tr, c, t) \subseteq Gap
  BY <1>3 DEF ClosedBy, Gap
<1>. QED
  BY <1>2, <1>4

\* So it does under on_disconnect.
LEMMA DisconnectType ==
    ASSUME NEW tr \in Trackers
    PROVE  OnDisconnect(tr) \in Trackers
BY DEF OnDisconnect, Trackers

\* close_open_gaps returns gaps that are not empty.
LEMMA CloseType ==
    ASSUME NEW tr \in Trackers
    PROVE  /\ OpenGapsClosed(tr) \subseteq Gap
           /\ \A g \in OpenGapsClosed(tr) : g.start < g.end
<1>. SUFFICES ASSUME NEW c \in Coins, NEW d \in Coins,
                     tr.open[c] # NoTime, tr.last[d] > tr.open[c]
              PROVE  [coin |-> c, start |-> tr.open[c], end |-> tr.last[d]] \in Gap
  BY DEF OpenGapsClosed, Trackers, Times, NoTime
<1>1. tr.open[c] \in Nat
  BY DEF Trackers, Times
<1>2. tr.last[d] \in Nat
  BY <1>1 DEF Trackers, Times, NoTime
<1>. QED
  BY <1>1, <1>2 DEF Gap

-------------------------------------------------------------------------------
(* Type correctness.                                                       *)

\* The message being read is one of a coin, and its trades are on that coin's tape.
FrameOK ==
    /\ frame.next \in Nat \ {0}
    /\ frame.next <= frame.to => frame.coin \in Coins /\ frame.to <= Len(tape[frame.coin])

Typed == TypeOK /\ FrameOK

\* The trade at the head of the message is a printed one, with a time and a kind.
LEMMA CurrentType ==
    ASSUME Typed, frame.next <= frame.to
    PROVE  /\ frame.coin \in Coins /\ frame.next \in Taped(frame.coin)
           /\ Current \in Trades /\ TimeOf(Current) \in Nat
           /\ Unread \subseteq Trades
<1>1. frame.coin \in Coins /\ frame.next \in Nat \ {0} /\ frame.to \in Nat
  BY DEF Typed, TypeOK, FrameOK
<1>2. tape[frame.coin] \in Seq([time : Nat, kind : Kinds])
  BY <1>1 DEF Typed, TypeOK
<1>3. frame.next \in 1..Len(tape[frame.coin])
  BY <1>1, <1>2 DEF Typed, FrameOK
<1>4. tape[frame.coin][frame.next] \in [time : Nat, kind : Kinds]
  BY <1>2, <1>3, ElementOfSeq
<1>. QED
  BY <1>1, <1>3, <1>4 DEF Taped, Current, Trades, TimeOf, Unread

\* Between two messages there is no frame; and what a new process starts with.
LEMMA NoFrameType == NoFrame \in [coin : Coins \cup {"none"}, next : Nat, to : Nat]
BY DEF NoFrame

\* The empty frame claims nothing of the tape.
LEMMA NoFrameOK ==
    ASSUME frame = NoFrame PROVE FrameOK
BY DEF NoFrame, FrameOK

\* A new GapTracker is one of the trackers.
LEMMA FreshTrackerType == FreshTracker \in Trackers
BY DEF FreshTracker, Trackers, NoEntries, Times

\* The attempt and the backoff a process starts with are inside their bounds.
LEMMA FreshNumbers == 1 \in 1..MaxAttempts /\ BackoffBase \in BackoffBase..BackoffMax
BY IngesterAssumption DEF IngesterAssumption

\* The first process starts well typed.
LEMMA TypedInit == Init => Typed
<1>. SUFFICES ASSUME Init PROVE Typed
  OBVIOUS
<1>1. FrameOK
  BY NoFrameOK DEF Init
<1>2. /\ drops \in 0..MaxDrops /\ kills \in 0..MaxKills /\ restarts \in 0..MaxRestarts
      /\ raises \in 0..MaxRaises /\ inject \in BOOLEAN
  BY IngesterAssumption DEF Init, IngesterAssumption
<1>3. tape \in [Coins -> Seq([time : Nat, kind : Kinds])] /\ cursor \in [Coins -> Nat \ {0}]
  BY DEF Init
<1>. QED
  BY <1>1, <1>2, <1>3, NoFrameType, FreshTrackerType, FreshNumbers
     DEF Init, Typed, TypeOK, Running

\* Every step of the process, of the exchange and of ECS keeps the types.
LEMMA TypedStep == Typed /\ [Next]_vars => Typed'
<1>. SUFFICES ASSUME Typed, [Next]_vars PROVE Typed'
  OBVIOUS
<1>1. CASE OuterLoop
  BY <1>1 DEF OuterLoop, Typed, TypeOK, FrameOK, Running, Stopped, conn, sends, flags,
       counts, history
<1>2. CASE Connect
  <2>1. ASSUME NEW c \in Coins PROVE SnapshotStart(c) \in Nat \ {0}
    BY IngesterAssumption DEF SnapshotStart, Typed, TypeOK, IngesterAssumption
  <2>2. cursor' \in [Coins -> Nat \ {0}]
    BY <1>2, <2>1 DEF Connect
  <2>. QED
    BY <1>2, <2>2, FreshNumbers
       DEF Connect, Typed, TypeOK, FrameOK, Running, sends, flags, counts, history
<1>3. CASE InnerLoop
  BY <1>3 DEF InnerLoop, Typed, TypeOK, FrameOK, Running, Stopped, conn, sends, flags,
       counts, history
<1>4. CASE RecvTimeout
  BY <1>4 DEF RecvTimeout, Typed, TypeOK, FrameOK, Running, Stopped, conn, sends, flags,
              counts, history
<1>5. CASE Disconnected
  <2>1. tracker' \in Trackers
    BY <1>5, DisconnectType DEF Disconnected, Typed, TypeOK
  <2>2. drops' \in 0..MaxDrops
    BY <1>5, IngesterAssumption DEF Disconnected, Typed, TypeOK, IngesterAssumption
  <2>. QED
    BY <1>5, <2>1, <2>2 DEF Disconnected, Typed, TypeOK, FrameOK, Running, Stopped, conn,
                            sends, flags, counts, history
<1>6. CASE BackoffOver
  <2>1. Doubled(backoff) \in BackoffBase..BackoffMax
    BY IngesterAssumption DEF Doubled, Typed, TypeOK, IngesterAssumption
  <2>. QED
    BY <1>6, <2>1
       DEF BackoffOver, Typed, TypeOK, FrameOK, Running, conn, sends, flags, counts, history
<1>7. ASSUME NEW c \in Coins, NEW n \in 0..MaxTrades, RecvFrame(c, n)
      PROVE  Typed'
  <2>1. n \in Nat /\ cursor[c] \in Nat \ {0} /\ cursor[c] + n - 1 \in Nat
    BY IngesterAssumption DEF Typed, TypeOK, IngesterAssumption
  <2>2. cursor' \in [Coins -> Nat \ {0}]
    <3>1. cursor' = [cursor EXCEPT ![c] = cursor[c] + n] /\ cursor[c] + n \in Nat \ {0}
      BY <1>7, <2>1 DEF RecvFrame
    <3>. QED
      BY <3>1 DEF Typed, TypeOK
  <2>3. frame' \in [coin : Coins \cup {"none"}, next : Nat, to : Nat]
    BY <1>7, <2>1 DEF RecvFrame
  <2>4. FrameOK'
    BY <1>7, <2>1 DEF RecvFrame, FrameOK
  <2>5. received' \subseteq Trades
    <3>1. {c} \X (cursor[c]..cursor[c] + n - 1) \subseteq Coins \X (Nat \ {0})
      BY <2>1
    <3>. QED
      BY <1>7, <3>1 DEF RecvFrame, Typed, TypeOK, Trades
  <2>. QED
    BY <1>7, <2>2, <2>3, <2>4, <2>5
       DEF RecvFrame, Typed, TypeOK, Running, Stopped, sends, flags, counts
<1>8. CASE IngestTrade
  <2>. USE <1>8 DEF IngestTrade
  <2>1. /\ frame.coin \in Coins /\ frame.next \in Taped(frame.coin)
        /\ Current \in Trades /\ TimeOf(Current) \in Nat /\ Unread \subseteq Trades
    BY CurrentType
  <2>2. /\ Observe(tracker, frame.coin, TimeOf(Current)) \in Trackers
        /\ ClosedBy(tracker, frame.coin, TimeOf(Current)) \subseteq Gap
    BY <2>1, ObserveType DEF Typed, TypeOK
  <2>3. tracker' \in Trackers /\ gaps' \subseteq Gap /\ observed' \subseteq Trades
    BY <2>1, <2>2 DEF ObserveCurrent, Typed, TypeOK
  <2>4. pending' \subseteq Trades /\ skipped' \subseteq Trades
    BY <2>1 DEF Typed, TypeOK
  <2>5. frame' \in [coin : Coins \cup {"none"}, next : Nat, to : Nat] /\ FrameOK'
    <3>1. CASE frame' = NoFrame
      BY <3>1, NoFrameType DEF NoFrame, FrameOK
    <3>2. CASE frame' = [frame EXCEPT !.next = @ + 1]
      <4>1. frame.next \in Nat /\ frame.to \in Nat /\ frame.next <= frame.to
        BY DEF Typed, TypeOK
      <4>2. /\ frame' \in [coin : Coins \cup {"none"}, next : Nat, to : Nat]
            /\ frame'.next = frame.next + 1
            /\ frame'.to = frame.to /\ frame'.coin = frame.coin
        <5>1. frame \in [coin : Coins \cup {"none"}, next : Nat, to : Nat]
          BY DEF Typed, TypeOK
        <5>. QED
          BY <3>2, <4>1, <5>1
      <4>. QED
        BY <4>1, <4>2 DEF Typed, FrameOK
    <3>. QED
      BY <3>1, <3>2
  <2>6. pc' \in Running \cup Stopped
    BY DEF Typed, TypeOK, Running, Stopped
  <2>. QED
    BY <2>3, <2>4, <2>5, <2>6 DEF Typed, TypeOK, flags, counts
<1>9. CASE FrameDone
  <2>1. FrameOK'
    BY <1>9 DEF FrameDone, NoFrame, FrameOK
  <2>. QED
    BY <1>9, <2>1, NoFrameType DEF FrameDone, Typed, TypeOK, Running, flags, counts, history
<1>10. CASE FlushStart
  BY <1>10 DEF FlushStart, Typed, TypeOK, FrameOK, Running, Stopped, conn, flags, counts, history
<1>11. CASE NextBatch
  <2>1. /\ pc' \in Running \cup Stopped
        /\ outbox' \subseteq Trades /\ batch' \subseteq Trades /\ attempt' \in 1..MaxAttempts
    BY <1>11, FreshNumbers DEF NextBatch, Typed, TypeOK, Running, Stopped
  <2>. QED
    BY <1>11, <2>1 DEF NextBatch, Typed, TypeOK, FrameOK, conn, flags, counts, history
<1>12. ASSUME NEW failed \in SUBSET batch, PutRecords(failed)
       PROVE  Typed'
  <2>1. attempt' \in 1..MaxAttempts
    BY <1>12, IngesterAssumption DEF PutRecords, Typed, TypeOK, IngesterAssumption
  <2>. QED
    BY <1>12, <2>1
       DEF PutRecords, Typed, TypeOK, FrameOK, Running, Stopped, conn, flags, counts, history
<1>13. CASE FinalFlush
  BY <1>13 DEF FinalFlush, Typed, TypeOK, FrameOK, Running, Stopped, conn, flags, counts, history
<1>14. CASE SelfExit
  <2>1. OpenGapsClosed(tracker) \subseteq Gap
    BY CloseType DEF Typed, TypeOK
  <2>2. tracker' \in Trackers
    BY <1>14 DEF SelfExit, Typed, TypeOK, Trackers, NoEntries, Times
  <2>. QED
    BY <1>14, <2>1, <2>2 DEF SelfExit, Typed, TypeOK, FrameOK, Running, Stopped, conn, sends, flags,
       counts, history
<1>15. ASSUME NEW c \in Coins, NEW kind \in Kinds, NEW dt \in {0, 1}, Trade(c, kind, dt)
       PROVE  Typed'
  <2>. DEFINE record == [time |-> clock + dt, kind |-> kind]
  <2>1. record \in [time : Nat, kind : Kinds] /\ clock' \in Nat
    BY <1>15 DEF Trade, Typed, TypeOK
  <2>2. /\ Append(tape[c], record) \in Seq([time : Nat, kind : Kinds])
        /\ Len(Append(tape[c], record)) = Len(tape[c]) + 1 /\ Len(tape[c]) \in Nat
    <3>1. tape[c] \in Seq([time : Nat, kind : Kinds])
      BY DEF Typed, TypeOK
    <3>. HIDE DEF record
    <3>. QED
      BY <2>1, <3>1, AppendProperties, LenProperties
  <2>3. /\ tape' \in [Coins -> Seq([time : Nat, kind : Kinds])]
        /\ \A d \in Coins : Len(tape[d]) <= Len(tape'[d])
    <3>1. tape' = [tape EXCEPT ![c] = Append(tape[c], record)]
      BY <1>15 DEF Trade
    <3>2. ASSUME NEW d \in Coins PROVE Len(tape[d]) \in Nat
      BY LenProperties DEF Typed, TypeOK
    <3>. HIDE DEF record
    <3>3. \A d \in Coins : tape'[d] = IF d = c THEN Append(tape[c], record) ELSE tape[d]
      BY <3>1 DEF Typed, TypeOK
    <3>4. tape' \in [Coins -> Seq([time : Nat, kind : Kinds])]
      BY <2>2, <3>1 DEF Typed, TypeOK
    <3>5. ASSUME NEW d \in Coins PROVE Len(tape[d]) <= Len(tape'[d])
      <4>1. CASE d = c
        <5>1. tape'[c] = Append(tape[c], record)
          BY <3>3
        <5>2. Len(tape'[c]) = Len(tape[c]) + 1 /\ Len(tape[c]) \in Nat
          BY <2>2, <5>1
        <5>. QED
          BY <4>1, <5>2
      <4>2. CASE d # c
        BY <3>2, <3>3, <4>2
      <4>. QED
        BY <4>1, <4>2
    <3>. QED
      BY <3>4, <3>5
  <2>4. frame' = frame /\ frame.to \in Nat
    BY <1>15 DEF Trade, conn, Typed, TypeOK
  <2>5. ASSUME frame.next <= frame.to
        PROVE  frame.to <= Len(tape'[frame.coin])
    <3>1. frame.coin \in Coins /\ frame.to <= Len(tape[frame.coin])
      BY <2>5 DEF Typed, FrameOK
    <3>2. Len(tape[frame.coin]) \in Nat /\ Len(tape'[frame.coin]) \in Nat
      BY <2>3, <3>1, LenProperties DEF Typed, TypeOK
    <3>. QED
      BY <2>3, <2>4, <3>1, <3>2
  <2>6. FrameOK'
    BY <2>4, <2>5 DEF Typed, FrameOK
  <2>. QED
    BY <1>15, <2>1, <2>3, <2>6 DEF Trade, Typed, TypeOK, conn, sends, flags, counts, history
<1>16. CASE ScaleToZero
  <2>1. desired' \in BOOLEAN /\ stop' \in BOOLEAN
    <3>1. stop' = (pc \in Running) /\ desired' = FALSE
      BY <1>16 DEF ScaleToZero
    <3>2. (pc \in Running) \in BOOLEAN
      OBVIOUS
    <3>. QED
      BY <3>1, <3>2
  <2>. QED
    BY <1>16, <2>1 DEF ScaleToZero, Typed, TypeOK, FrameOK, conn, sends, counts, history
<1>17. CASE Expire
  BY <1>17 DEF Expire, Typed, TypeOK, FrameOK, conn, sends, counts, history
<1>18. CASE Kill
  <2>1. kills' \in 0..MaxKills
    BY <1>18, IngesterAssumption DEF Kill, Typed, TypeOK, IngesterAssumption
  <2>. QED
    BY <1>18, <2>1 DEF Kill, Typed, TypeOK, FrameOK, Stopped, conn, sends, flags, history
<1>19. CASE Restart
  <2>1. restarts' \in 0..MaxRestarts /\ inject' \in BOOLEAN
    BY <1>19, IngesterAssumption DEF Restart, FreshProcess, Typed, TypeOK, IngesterAssumption
  <2>2. FrameOK'
    BY <1>19 DEF Restart, FreshProcess, NoFrame, FrameOK
  <2>. QED
    BY <1>19, <2>1, <2>2, NoFrameType, FreshTrackerType, FreshNumbers
       DEF Restart, FreshProcess, Typed, TypeOK, Running
<1>20. ASSUME NEW taken \in SUBSET batch, PutRaises(taken)
       PROVE  Typed'
  <2>1. tracker' \in Trackers
    BY <1>20, DisconnectType DEF PutRaises, Typed, TypeOK
  <2>2. raises' \in 0..MaxRaises
    BY <1>20, IngesterAssumption DEF PutRaises, Typed, TypeOK, IngesterAssumption
  <2>. QED
    BY <1>20, <2>1, <2>2, FreshNumbers
       DEF PutRaises, Typed, TypeOK, FrameOK, Running, Stopped, conn, flags
<1>21. CASE UNCHANGED vars
  BY <1>21 DEF vars, conn, sends, flags, counts, history, Typed, TypeOK, FrameOK
<1>. QED
  BY <1>1, <1>2, <1>3, <1>4, <1>5, <1>6, <1>7, <1>8, <1>9, <1>10, <1>11, <1>12, <1>13, <1>14,
     <1>15, <1>16, <1>17, <1>18, <1>19, <1>20, <1>21
     DEF Next, Process, Environment

\* The strengthened type invariant holds in every reachable state.
LEMMA TypedAlways == Spec => []Typed
<1>. QED
  BY TypedInit, TypedStep, PTL DEF Spec

\* Type correctness of the ingester (the declarations of run() and of GapTracker): the
\* delay stays between its bounds, an attempt within the attempts allowed, and every gap
\* line has two real times, whatever the feed sends and wherever the process is killed.
THEOREM TypeCorrect == Spec => []TypeOK
BY TypedAlways, PTL DEF Typed
-------------------------------------------------------------------------------
(* The gaps of a process.  The strengthening: an open gap starts at the    *)
(* newest event time of its coin, and a recorded one has ended by then, so *)
(* the next gap of the coin can only start where the last one ended.       *)

Disjoint(gs) ==
    /\ \A g \in gs : g.start < g.end
    /\ \A g, h \in gs : g.coin = h.coin /\ g # h => g.end <= h.start \/ h.end <= g.start

GapFacts(tr, gs) ==
    /\ \A c \in Coins : tr.open[c] = NoTime \/ tr.open[c] = tr.last[c]
    /\ \A g \in gs : g.end <= tr.last[g.coin]
    /\ Disjoint(gs)

GapInv == Disjoint(gaps) /\ (pc # "exited" => GapFacts(tracker, gaps))

\* observe_trade keeps them, with the gap it returns.
LEMMA ObserveGaps ==
    ASSUME NEW tr \in Trackers, NEW gs \in SUBSET Gap, NEW c \in Coins, NEW t \in Nat,
           GapFacts(tr, gs)
    PROVE  GapFacts(Observe(tr, c, t), gs \cup ClosedBy(tr, c, t))
<1>. DEFINE next == Observe(tr, c, t)
            new == [coin |-> c, start |-> tr.open[c], end |-> t]
<1>1. \A d \in Coins : tr.last[d] \in Int /\ tr.open[d] \in Int
  BY DEF Trackers, Times, NoTime
<1>2. /\ \A d \in Coins : d # c => next.last[d] = tr.last[d] /\ next.open[d] = tr.open[d]
      /\ next.last[c] = IF t > tr.last[c] THEN t ELSE tr.last[c]
      /\ next.open[c] = IF Closes(tr, c, t) THEN NoTime ELSE tr.open[c]
  BY DEF Observe, Trackers
<1>. HIDE DEF next
<1>3. \A d \in Coins : tr.last[d] <= next.last[d] /\ next.last[d] \in Int
  <2>. SUFFICES ASSUME NEW d \in Coins
                PROVE  tr.last[d] <= next.last[d] /\ next.last[d] \in Int
    OBVIOUS
  <2>1. CASE d = c
    BY <1>1, <1>2, <2>1
  <2>2. CASE d # c
    BY <1>1, <1>2, <2>2
  <2>. QED
    BY <2>1, <2>2
<1>4. \A d \in Coins : next.open[d] = NoTime \/ next.open[d] = next.last[d]
  <2>1. ASSUME tr.open[c] # NoTime, ~Closes(tr, c, t) PROVE ~(t > tr.last[c])
    BY <2>1 DEF Closes, GapFacts
  <2>. QED
    BY <1>2, <2>1 DEF GapFacts
<1>5. \A g \in gs : g.coin \in Coins /\ g.start \in Int /\ g.end \in Int
  BY DEF Gap
<1>6. \A g \in gs : g.end <= next.last[g.coin]
  BY <1>1, <1>3, <1>5 DEF GapFacts
<1>7. CASE ~Closes(tr, c, t)
  <2>1. gs \cup ClosedBy(tr, c, t) = gs
    BY <1>7 DEF ClosedBy
  <2>. QED
    BY <1>4, <1>6, <2>1 DEF GapFacts, next
<1>8. CASE Closes(tr, c, t)
  <2>1. gs \cup ClosedBy(tr, c, t) = gs \cup {new}
    BY <1>8 DEF ClosedBy
  <2>2. tr.open[c] = tr.last[c] /\ t > tr.open[c]
    BY <1>8 DEF Closes, GapFacts
  <2>3. new.coin = c /\ new.start = tr.last[c] /\ new.end = t
    BY <2>2
  <2>4. \A g \in gs : g.coin = c => g.end <= new.start
    BY <2>3 DEF GapFacts
  <2>5. new.start < new.end /\ new.end <= next.last[c]
    BY <1>1, <1>2, <2>2, <2>3
  <2>. HIDE DEF new
  <2>6. Disjoint(gs \cup {new})
    BY <2>3, <2>4, <2>5 DEF Disjoint, GapFacts
  <2>7. \A g \in gs \cup {new} : g.end <= next.last[g.coin]
    BY <1>6, <2>3, <2>5
  <2>. QED
    BY <1>4, <2>1, <2>6, <2>7 DEF GapFacts, next
<1>. QED
  BY <1>7, <1>8

\* on_disconnect opens gaps at the newest time of each coin.
LEMMA DisconnectGaps ==
    ASSUME NEW tr \in Trackers, NEW gs, GapFacts(tr, gs)
    PROVE  GapFacts(OnDisconnect(tr), gs)
<1>1. OnDisconnect(tr).last = tr.last
  BY DEF OnDisconnect, Trackers
<1>2. \A c \in Coins : OnDisconnect(tr).open[c] =
                          IF tr.open[c] = NoTime THEN tr.last[c] ELSE tr.open[c]
  BY DEF OnDisconnect, Trackers
<1>. QED
  BY <1>1, <1>2 DEF GapFacts

\* close_open_gaps returns at most one gap per coin, after all those recorded.
LEMMA CloseGaps ==
    ASSUME NEW tr \in Trackers, NEW gs \in SUBSET Gap, GapFacts(tr, gs)
    PROVE  Disjoint(gs \cup OpenGapsClosed(tr))
<1>. DEFINE closed == OpenGapsClosed(tr)
<1>1. \A d \in Coins : tr.last[d] \in Int /\ tr.open[d] \in Int
  BY DEF Trackers, Times, NoTime
<1>2. \A g \in closed : /\ g \in Gap /\ g.start < g.end
                          /\ g.start = tr.open[g.coin] /\ g.start # NoTime
                          /\ IsMaxTime(tr, g.end)
  BY CloseType DEF OpenGapsClosed
<1>. HIDE DEF closed
<1>3. \A g \in gs \cup closed : g.coin \in Coins /\ g.start \in Int /\ g.end \in Int
  BY <1>2 DEF Gap
<1>4. \A g \in gs, h \in closed : g.coin = h.coin => g.end <= h.start
  BY <1>2, <1>3 DEF GapFacts
<1>5. \A g, h \in closed : g.coin = h.coin => g = h
  <2>. SUFFICES ASSUME NEW g \in closed, NEW h \in closed, g.coin = h.coin
                PROVE  g = h
    OBVIOUS
  <2>1. g.start = h.start
    BY <1>2
  <2>2. PICK d \in Coins : tr.last[d] = g.end
    BY <1>2 DEF IsMaxTime
  <2>3. PICK e \in Coins : tr.last[e] = h.end
    BY <1>2 DEF IsMaxTime
  <2>4. g.end <= h.end /\ h.end <= g.end
    BY <1>2, <2>2, <2>3 DEF IsMaxTime
  <2>5. g.end = h.end
    BY <1>3, <2>4
  <2>. QED
    BY <1>2, <2>1, <2>5 DEF Gap
<1>6. \A g \in gs \cup closed : g.start < g.end
  BY <1>2 DEF GapFacts, Disjoint
<1>. QED
  BY <1>4, <1>5, <1>6 DEF GapFacts, Disjoint, closed

\* A new session has no gap.
LEMMA GapInit == Init => GapInv
BY DEF Init, GapInv, GapFacts, Disjoint, FreshTracker, NoEntries

\* A step that touches neither the tracker nor the gaps, and does not undo an exit.
LEMMA GapQuiet ==
    ASSUME GapInv, UNCHANGED <<tracker, gaps>>, pc' # "exited" => pc # "exited"
    PROVE  GapInv'
BY DEF GapInv, GapFacts, Disjoint

\* Every step of the process and of its environment keeps the gaps disjoint.
LEMMA GapStep == Typed /\ GapInv /\ [Next]_vars => GapInv'
<1>. SUFFICES ASSUME Typed, GapInv, [Next]_vars PROVE GapInv'
  OBVIOUS
<1>1. tracker \in Trackers /\ gaps \in SUBSET Gap
  BY DEF Typed, TypeOK
<1>2. CASE IngestTrade
  <2>1. frame.coin \in Coins /\ TimeOf(Current) \in Nat
    BY <1>2, CurrentType DEF IngestTrade
  <2>2. GapFacts(tracker, gaps) /\ pc' # "exited"
    BY <1>2 DEF IngestTrade, GapInv
  <2>3. CASE ObserveCurrent
    <3>1. GapFacts(Observe(tracker, frame.coin, TimeOf(Current)),
                   gaps \cup ClosedBy(tracker, frame.coin, TimeOf(Current)))
      BY <1>1, <2>1, <2>2, ObserveGaps
    <3>2. GapFacts(tracker', gaps')
      BY <2>3, <3>1 DEF ObserveCurrent
    <3>. QED
      BY <3>2 DEF GapInv, GapFacts
  <2>4. CASE UNCHANGED <<tracker, gaps>>
    BY <1>2, <2>4, GapQuiet DEF IngestTrade
  <2>. QED
    BY <1>2, <2>3, <2>4 DEF IngestTrade
<1>3. CASE /\ pc # "exited" /\ pc' # "exited"
           /\ tracker' = OnDisconnect(tracker) /\ UNCHANGED gaps
  <2>1. GapFacts(OnDisconnect(tracker), gaps)
    BY <1>1, <1>3, DisconnectGaps DEF GapInv
  <2>2. GapFacts(tracker', gaps')
    BY <1>3, <2>1
  <2>. QED
    BY <2>2 DEF GapInv, GapFacts
<1>4. CASE SelfExit
  <2>1. Disjoint(gaps \cup OpenGapsClosed(tracker))
    BY <1>1, <1>4, CloseGaps DEF SelfExit, GapInv
  <2>. QED
    BY <1>4, <2>1 DEF SelfExit, GapInv
<1>5. CASE Restart
  BY <1>5 DEF Restart, FreshProcess, FreshTracker, NoEntries, GapInv, GapFacts, Disjoint
<1>6. CASE UNCHANGED <<tracker, gaps>> /\ (pc' # "exited" => pc # "exited")
  BY <1>6, GapQuiet
<1>. QED
  BY <1>2, <1>3, <1>4, <1>5, <1>6
     DEF Next, Process, Environment, OuterLoop, Connect, InnerLoop, RecvTimeout, BackoffOver,
         RecvFrame, FrameDone, FlushStart, NextBatch, FinalFlush, PutRecords, PutRaises,
         Disconnected, Trade, ScaleToZero, Expire, Kill, Running, vars

\* What a process records can be healed (GapTracker.observe_trade, on_disconnect and
\* close_open_gaps): no gap is empty, and two gaps of a coin share at most an end point,
\* for any feed, replay, number of coins and number of reconnects.
THEOREM GapsDisjoint == Spec => []GapsAreDisjoint
<1>1. GapInv => GapsAreDisjoint
  BY DEF GapInv, Disjoint, GapsAreDisjoint
<1>. QED
  BY <1>1, TypedAlways, GapInit, GapStep, PTL DEF Spec
-------------------------------------------------------------------------------
(* Sending.  The strengthening says where rows can be: outside a running   *)
(* put_batch_with_retry nothing is in its hands, and while one runs        *)
(* _pending_rows is empty, so that no flush overwrites rows of another.    *)

GoodObserved == {id \in observed : tape[id[1]][id[2]].kind = "ok"}

SendInv ==
    /\ pc \in {"closing", "exited"} => pending = {} /\ outbox = {} /\ batch = {}
    /\ pc = "put" => pending = {}
    /\ pc \in Running \ {"put"} => outbox = {} /\ batch = {}
    /\ observed \subseteq Printed
    /\ Alive => GoodObserved \subseteq Kept \cup lost

\* A new process holds no row.
LEMMA SendInit == Init => SendInv
BY DEF Init, SendInv, GoodObserved

\* A step that sends nothing, and stays outside put_batch_with_retry or dies.
LEMMA SendQuiet ==
    ASSUME SendInv, UNCHANGED <<tape, observed, stream, pending, outbox, batch, lost>>,
           \/ pc' = pc
           \/ pc \in Running \ {"put"} /\ pc' \in Running \ {"put", "closing"}
           \/ pc' \in Stopped \ {"exited"}
           \/ pc = "closing" /\ pc' = "exited"
    PROVE  SendInv'
<1>1. GoodObserved' = GoodObserved /\ Kept' = Kept /\ Printed' = Printed
  BY DEF GoodObserved, Kept, Printed, Taped
<1>2. Alive' => Alive
  BY DEF Alive, Running, Stopped
<1>. QED
  BY <1>1, <1>2 DEF SendInv, Running, Stopped

\* Every step keeps each observed good trade in the stream or in the process's hands.
LEMMA SendStep == Typed /\ SendInv /\ [Next]_vars => SendInv'
<1>. SUFFICES ASSUME Typed, SendInv, [Next]_vars PROVE SendInv'
  OBVIOUS
<1>1. CASE IngestTrade
  <2>. USE <1>1 DEF IngestTrade
  <2>1. frame.coin \in Coins /\ frame.next \in Taped(frame.coin)
    BY CurrentType
  <2>2. Current \in Printed /\ Printed' = Printed
    BY <2>1 DEF Current, Printed, Taped
  <2>3. tape[Current[1]][Current[2]].kind = CurrentKind
    BY DEF Current, CurrentKind
  <2>4. /\ outbox = {} /\ batch = {}
        /\ GoodObserved \subseteq Kept \cup lost /\ observed \subseteq Printed
    BY DEF SendInv, Alive, Running
  <2>5. CASE UNCHANGED <<observed, pending>>
    <3>1. pc' = "top" \/ pc' = "driftCrash" \/ pc' = pc
      OBVIOUS
    <3>. QED
      BY <2>5, <3>1, SendQuiet DEF Running, Stopped
  <2>6. CASE observed' = observed \cup {Current}
    <3>1. observed' \subseteq Printed'
      BY <2>2, <2>4, <2>6
    <3>2. ASSUME Alive' PROVE GoodObserved' \subseteq Kept' \cup lost'
      <4>1. CASE CurrentKind = "ok" /\ pending' = pending \cup {Current}
        BY <2>4, <2>6, <4>1 DEF GoodObserved, Kept
      <4>2. CASE CurrentKind # "ok" /\ UNCHANGED pending
        BY <2>3, <2>4, <2>6, <4>2 DEF GoodObserved, Kept
      <4>. QED
        BY <4>1, <4>2
    <3>3. pc' \in {"ingest", "top", "driftCrash"} /\ outbox' = {} /\ batch' = {}
      BY <2>4
    <3>. QED
      BY <3>1, <3>2, <3>3 DEF SendInv, Running
  <2>. QED
    BY <2>5, <2>6 DEF ObserveCurrent
<1>2. CASE FlushStart
  <2>. USE <1>2 DEF FlushStart, history
  <2>1. /\ outbox = {} /\ batch = {}
        /\ GoodObserved \subseteq Kept \cup lost /\ after \in {"top", "closing"}
    BY DEF SendInv, Alive, Running, Typed, TypeOK
  <2>2. GoodObserved' = GoodObserved /\ Kept' = Kept /\ Printed' = Printed
    BY <2>1 DEF GoodObserved, Kept, Printed, Taped
  <2>3. /\ pending' = {} /\ outbox' = pending /\ batch' = {}
        /\ pc' = "put" \/ (pc' \in {"top", "closing"} /\ pending = {})
    BY <2>1
  <2>. QED
    BY <2>1, <2>2, <2>3 DEF SendInv
<1>3. CASE NextBatch
  <2>. USE <1>3 DEF NextBatch, history
  <2>1. /\ pending = {} /\ pending' = {} /\ GoodObserved \subseteq Kept \cup lost
        /\ after \in {"top", "closing"}
    BY DEF SendInv, Alive, Running, Typed, TypeOK
  <2>2. GoodObserved' = GoodObserved /\ Printed' = Printed /\ stream' = stream
    BY DEF GoodObserved, Printed, Taped
  <2>3. outbox' \cup batch' = outbox \cup batch
    OBVIOUS
  <2>4. \/ pc' = "put"
        \/ pc' \in {"top", "closing"} /\ outbox' = {} /\ batch' = {}
    BY <2>1
  <2>5. Kept' = Kept
    BY <2>1, <2>2, <2>3 DEF Kept
  <2>. QED
    BY <2>1, <2>2, <2>4, <2>5 DEF SendInv
<1>4. ASSUME NEW failed \in SUBSET batch, PutRecords(failed)
      PROVE  SendInv'
  <2>. USE <1>4 DEF PutRecords, history
  <2>1. pending = {} /\ pending' = {} /\ GoodObserved \subseteq Kept \cup lost /\ outbox' = outbox
    BY DEF SendInv, Alive, Running
  <2>2. GoodObserved' = GoodObserved /\ Printed' = Printed
    BY DEF GoodObserved, Printed, Taped
  <2>3. Kept' = Kept
    BY <2>1 DEF Kept
  <2>4. pc' \in {"put", "sendFailed"}
    OBVIOUS
  <2>. QED
    BY <2>1, <2>2, <2>3, <2>4 DEF SendInv, Running
<1>11. ASSUME NEW taken \in SUBSET batch, PutRaises(taken)
       PROVE  SendInv'
  <2>. USE <1>11 DEF PutRaises
  <2>1. /\ pending = {} /\ pending' = {} /\ GoodObserved \subseteq Kept \cup lost
        /\ outbox' = {} /\ batch' = {}
    BY DEF SendInv, Alive, Running
  <2>2. GoodObserved' = GoodObserved /\ Printed' = Printed /\ observed' = observed
    BY DEF GoodObserved, Printed, Taped
  <2>3. Kept \cup lost \subseteq Kept' \cup lost'
    BY <2>1 DEF Kept
  <2>4. pc' \in {"backoff", "sendFailed"}
    OBVIOUS
  <2>. QED
    BY <2>1, <2>2, <2>3, <2>4 DEF SendInv, Running
<1>5. ASSUME NEW c \in Coins, NEW kind \in Kinds, NEW dt \in {0, 1}, Trade(c, kind, dt)
      PROVE  SendInv'
  <2>. DEFINE record == [time |-> clock + dt, kind |-> kind]
  <2>1. record \in [time : Nat, kind : Kinds]
    BY DEF Typed, TypeOK
  <2>2. /\ tape[c] \in Seq([time : Nat, kind : Kinds])
        /\ tape' = [tape EXCEPT ![c] = Append(tape[c], record)]
    BY <1>5 DEF Trade, Typed, TypeOK
  <2>. HIDE DEF record
  <2>3. /\ Len(tape[c]) \in Nat /\ Len(Append(tape[c], record)) = Len(tape[c]) + 1
        /\ \A i \in Taped(c) : Append(tape[c], record)[i] = tape[c][i]
    BY <2>1, <2>2, AppendProperties, LenProperties DEF Taped
  <2>4. ASSUME NEW d \in Coins, NEW i \in Taped(d)
        PROVE  i \in 1..Len(tape'[d]) /\ tape'[d][i] = tape[d][i]
    <3>1. CASE d = c
      <4>1. tape'[c] = Append(tape[c], record)
        BY <2>2 DEF Typed, TypeOK
      <4>. QED
        BY <2>3, <3>1, <4>1 DEF Taped
    <3>2. CASE d # c
      BY <2>2, <3>2 DEF Taped, Typed, TypeOK
    <3>. QED
      BY <3>1, <3>2
  <2>5. ASSUME NEW id \in Printed
        PROVE  id \in Printed' /\ tape'[id[1]][id[2]] = tape[id[1]][id[2]]
    <3>1. PICK d \in Coins : id \in {d} \X Taped(d)
      BY DEF Printed
    <3>2. id = <<d, id[2]>> /\ id[1] = d /\ id[2] \in Taped(d)
      BY <3>1
    <3>3. id[2] \in 1..Len(tape'[d]) /\ tape'[d][id[2]] = tape[d][id[2]]
      BY <2>4, <3>2
    <3>. QED
      BY <3>2, <3>3 DEF Printed, Taped
  <2>6. UNCHANGED <<observed, stream, pending, outbox, batch, lost, pc>>
    BY <1>5 DEF Trade, sends, history
  <2>7. GoodObserved' = GoodObserved /\ Kept' = Kept /\ observed' \subseteq Printed'
    BY <2>5, <2>6 DEF GoodObserved, Kept, SendInv
  <2>. QED
    BY <2>6, <2>7 DEF SendInv, Alive
<1>6. CASE Restart
  BY <1>6 DEF Restart, FreshProcess, SendInv, GoodObserved
<1>7. CASE SelfExit
  BY <1>7, SendQuiet DEF SelfExit, sends, history
<1>8. CASE Kill
  BY <1>8, SendQuiet DEF Kill, sends, history, Stopped
<1>9. CASE \/ OuterLoop \/ Connect \/ InnerLoop \/ RecvTimeout \/ Disconnected \/ BackoffOver
           \/ FrameDone \/ FinalFlush \/ (\E c \in Coins, n \in 0..MaxTrades : RecvFrame(c, n))
  <2>1. UNCHANGED <<tape, observed, stream, pending, outbox, batch, lost>>
    BY <1>9 DEF OuterLoop, Connect, InnerLoop, RecvTimeout, Disconnected, BackoffOver,
                FrameDone, FinalFlush, RecvFrame, sends, history
  <2>2. pc \in Running \ {"put"} /\ pc' \in Running \ {"put", "closing"}
    BY <1>9 DEF OuterLoop, Connect, InnerLoop, RecvTimeout, Disconnected, BackoffOver,
                FrameDone, FinalFlush, RecvFrame, Running
  <2>. QED
    BY <2>1, <2>2, SendQuiet
<1>10. CASE ScaleToZero \/ Expire \/ UNCHANGED vars
  <2>1. UNCHANGED <<tape, observed, stream, pending, outbox, batch, lost, pc>>
    BY <1>10 DEF ScaleToZero, Expire, vars, sends, history
  <2>. QED
    BY <2>1, SendQuiet
<1>. QED
  BY <1>1, <1>2, <1>3, <1>4, <1>5, <1>6, <1>7, <1>8, <1>9, <1>10, <1>11
     DEF Next, Process, Environment
-------------------------------------------------------------------------------
(* What is on the tape, and how far a connection has read it.              *)

TimeAt(c, i) == tape[c][i].time

\* The tape is in the order of time, and the clock is not behind it.
TapeInv ==
    \A c \in Coins :
        /\ \A i, j \in Taped(c) : i <= j => TimeAt(c, i) <= TimeAt(c, j)
        /\ \A i \in Taped(c) : TimeAt(c, i) <= clock

\* The connection reads what is on the tape, message by message.
ReadInv ==
    /\ \A c \in Coins : cursor[c] <= Len(tape[c]) + 1
    /\ pc \in Running \ {"ingest"} => frame = NoFrame
    /\ pc = "ingest" => /\ frame.coin \in Coins /\ frame.to + 1 = cursor[frame.coin]
                        /\ frame.next <= frame.to + 1

\* The lengths of the tapes and the times on them.
LEMMA TapeType ==
    ASSUME Typed, NEW c \in Coins
    PROVE  /\ Len(tape[c]) \in Nat /\ cursor[c] \in Nat \ {0}
           /\ \A i \in Taped(c) : i \in Nat /\ TimeAt(c, i) \in Nat
<1>1. tape[c] \in Seq([time : Nat, kind : Kinds]) /\ cursor[c] \in Nat \ {0}
  BY DEF Typed, TypeOK
<1>2. Len(tape[c]) \in Nat
  BY <1>1, LenProperties
<1>3. ASSUME NEW i \in Taped(c) PROVE i \in Nat /\ TimeAt(c, i) \in Nat
  <2>1. tape[c][i] \in [time : Nat, kind : Kinds]
    BY <1>1, <1>3, ElementOfSeq DEF Taped
  <2>. QED
    BY <1>2, <1>3, <2>1 DEF Taped, TimeAt
<1>. QED
  BY <1>1, <1>2, <1>3

\* A trade lengthens the tape of its coin by one entry, at the new time of the clock,
\* and leaves every entry before it alone.
LEMMA TapeGrows ==
    ASSUME Typed, NEW c \in Coins, NEW kind \in Kinds, NEW dt \in {0, 1}, Trade(c, kind, dt)
    PROVE  /\ \A d \in Coins \ {c} : tape'[d] = tape[d]
           /\ Len(tape'[c]) = Len(tape[c]) + 1
           /\ tape'[c][Len(tape[c]) + 1].time = clock'
           /\ \A d \in Coins : \A i \in Taped(d) : tape'[d][i] = tape[d][i]
<1>. DEFINE record == [time |-> clock + dt, kind |-> kind]
<1>1. /\ record \in [time : Nat, kind : Kinds]
      /\ record.time = clock' /\ tape[c] \in Seq([time : Nat, kind : Kinds])
      /\ tape' = [tape EXCEPT ![c] = Append(tape[c], record)]
  <2>1. clock + dt \in Nat /\ clock' = clock + dt
    BY DEF Trade, Typed, TypeOK
  <2>2. record \in [time : Nat, kind : Kinds] /\ record.time = clock'
    BY <2>1
  <2>. QED
    BY <2>2 DEF Trade, Typed, TypeOK
<1>. HIDE DEF record
<1>2. /\ Len(tape[c]) \in Nat /\ Len(Append(tape[c], record)) = Len(tape[c]) + 1
      /\ \A i \in Taped(c) : Append(tape[c], record)[i] = tape[c][i]
      /\ Append(tape[c], record)[Len(tape[c]) + 1] = record
  BY <1>1, AppendProperties, LenProperties DEF Taped
<1>3. tape'[c] = Append(tape[c], record) /\ \A d \in Coins \ {c} : tape'[d] = tape[d]
  BY <1>1 DEF Typed, TypeOK
<1>4. ASSUME NEW d \in Coins, NEW i \in Taped(d) PROVE tape'[d][i] = tape[d][i]
  <2>1. CASE d = c
    BY <1>2, <1>3, <2>1
  <2>2. CASE d # c
    BY <1>3, <2>2
  <2>. QED
    BY <2>1, <2>2
<1>. QED
  BY <1>1, <1>2, <1>3, <1>4

\* Only the exchange writes on the tape.
LEMMA TapeQuiet ==
    ASSUME [Next]_vars,
           ~\E c \in Coins, kind \in Kinds, dt \in {0, 1} : Trade(c, kind, dt)
    PROVE  UNCHANGED <<tape, clock>>
BY DEF Next, Process, Environment, OuterLoop, Connect, InnerLoop, RecvTimeout, Disconnected,
       BackoffOver, RecvFrame, IngestTrade, FrameDone, FlushStart, NextBatch, PutRecords,
       PutRaises, FinalFlush, SelfExit, ScaleToZero, Expire, Kill, Restart, vars

\* Before the first trade every tape is empty.
LEMMA TapeInit == Init => TapeInv /\ ReadInv
<1>. SUFFICES ASSUME Init PROVE TapeInv /\ ReadInv
  OBVIOUS
<1>1. \A c \in Coins : tape[c] = <<>> /\ cursor[c] = 1
  BY DEF Init
<1>2. Len(<<>>) = 0
  OBVIOUS
<1>3. ASSUME NEW c \in Coins PROVE Len(tape[c]) = 0 /\ Taped(c) = {} /\ cursor[c] = 1
  <2>1. Len(tape[c]) = 0 /\ cursor[c] = 1
    BY <1>1, <1>2, Zenon
  <2>. QED
    BY <2>1 DEF Taped
<1>. QED
  BY <1>3 DEF Init, TapeInv, ReadInv, Running

\* A trade prints at or after the time of the newest one.
LEMMA TapeStep == Typed /\ TapeInv /\ [Next]_vars => TapeInv'
<1>. SUFFICES ASSUME Typed, TapeInv, [Next]_vars PROVE TapeInv'
  OBVIOUS
<1>1. ASSUME NEW c \in Coins, NEW kind \in Kinds, NEW dt \in {0, 1}, Trade(c, kind, dt)
      PROVE  TapeInv'
  <2>1. clock \in Nat /\ clock' \in Nat /\ clock <= clock'
    BY <1>1 DEF Trade, Typed, TypeOK
  <2>2. ASSUME NEW d \in Coins, NEW j \in Taped(d)'
        PROVE  \/ j \in Taped(d) /\ TimeAt(d, j)' = TimeAt(d, j)
               \/ TimeAt(d, j)' = clock' /\ \A i \in Taped(d)' : i <= j
    <3>1. Len(tape[d]) \in Nat
      BY TapeType
    <3>2. Len(tape'[d]) = Len(tape[d]) \/ (d = c /\ Len(tape'[d]) = Len(tape[d]) + 1)
      BY <1>1, TapeGrows
    <3>3. CASE j \in Taped(d)
      BY <1>1, <3>3, TapeGrows DEF TimeAt
    <3>4. CASE j \notin Taped(d)
      <4>1. d = c /\ j = Len(tape[d]) + 1 /\ j = Len(tape'[d])
        BY <3>1, <3>2, <3>4, <2>2 DEF Taped
      <4>2. TimeAt(d, j)' = clock'
        BY <1>1, <4>1, TapeGrows DEF TimeAt
      <4>. QED
        BY <3>1, <4>1, <4>2 DEF Taped
    <3>. QED
      BY <3>3, <3>4
  <2>3. ASSUME NEW d \in Coins, NEW j \in Taped(d)' PROVE TimeAt(d, j)' <= clock'
    <3>1. CASE j \in Taped(d) /\ TimeAt(d, j)' = TimeAt(d, j)
      BY <2>1, <3>1, TapeType DEF TapeInv
    <3>. QED
      BY <2>1, <2>2, <3>1
  <2>4. ASSUME NEW d \in Coins, NEW i \in Taped(d)', NEW j \in Taped(d)', i <= j
        PROVE  TimeAt(d, i)' <= TimeAt(d, j)'
    <3>1. Len(tape[d]) \in Nat /\ Len(tape'[d]) \in Nat
      BY <1>1, TapeType, TapeGrows
    <3>2. i \in Nat /\ j \in Nat
      BY <3>1 DEF Taped
    <3>3. CASE j \in Taped(d) /\ TimeAt(d, j)' = TimeAt(d, j)
      <4>1. i \in Taped(d)
        BY <2>4, <3>1, <3>2, <3>3 DEF Taped
      <4>2. TimeAt(d, i)' = TimeAt(d, i)
        BY <1>1, <4>1, TapeGrows DEF TimeAt
      <4>. QED
        BY <2>4, <3>3, <4>1, <4>2 DEF TapeInv
    <3>4. CASE TimeAt(d, j)' = clock'
      BY <2>3, <3>4
    <3>. QED
      BY <2>2, <3>3, <3>4
  <2>. QED
    BY <2>3, <2>4 DEF TapeInv
<1>2. CASE UNCHANGED <<tape, clock>>
  BY <1>2 DEF TapeInv, TimeAt, Taped
<1>. QED
  BY <1>1, <1>2, TapeQuiet

\* A step that leaves the frame and the cursors alone, and no message unfinished.
LEMMA ReadQuiet ==
    ASSUME ReadInv, UNCHANGED <<tape, frame, cursor>>,
           pc' = "ingest" => pc = "ingest",
           pc' \in Running \ {"ingest"} => pc \in Running \ {"ingest"}
    PROVE  ReadInv'
BY DEF ReadInv

\* Every step keeps the cursors where the next message of each tape begins.
LEMMA ReadStep == Typed /\ ReadInv /\ [Next]_vars => ReadInv'
<1>. SUFFICES ASSUME Typed, ReadInv, [Next]_vars PROVE ReadInv'
  OBVIOUS
<1>1. ASSUME NEW c \in Coins, NEW kind \in Kinds, NEW dt \in {0, 1}, Trade(c, kind, dt)
      PROVE  ReadInv'
  <2>1. ASSUME NEW d \in Coins PROVE cursor[d] <= Len(tape'[d]) + 1
    <3>1. cursor[d] \in Nat /\ Len(tape[d]) \in Nat /\ cursor[d] <= Len(tape[d]) + 1
      BY TapeType DEF ReadInv
    <3>2. Len(tape'[d]) = Len(tape[d]) \/ Len(tape'[d]) = Len(tape[d]) + 1
      BY <1>1, TapeGrows
    <3>. QED
      BY <3>1, <3>2
  <2>. QED
    BY <1>1, <2>1 DEF Trade, conn, ReadInv
<1>2. CASE Connect
  <2>1. ASSUME NEW c \in Coins PROVE SnapshotStart(c) <= Len(tape[c]) + 1
    BY TapeType, IngesterAssumption DEF SnapshotStart, IngesterAssumption
  <2>. QED
    BY <1>2, <2>1 DEF Connect, ReadInv, Running
<1>3. ASSUME NEW c \in Coins, NEW n \in 0..MaxTrades, RecvFrame(c, n)
      PROVE  ReadInv'
  <2>1. n \in Nat /\ cursor[c] \in Nat /\ Len(tape[c]) \in Nat
    BY TapeType, IngesterAssumption DEF IngesterAssumption
  <2>2. /\ cursor'[c] = cursor[c] + n /\ cursor[c] + n <= Len(tape[c]) + 1
        /\ \A d \in Coins \ {c} : cursor'[d] = cursor[d]
    BY <1>3, <2>1 DEF RecvFrame, Typed, TypeOK
  <2>3. \A d \in Coins : cursor'[d] <= Len(tape[d]) + 1
    BY <2>2 DEF ReadInv
  <2>4. /\ frame'.coin = c /\ frame'.to + 1 = cursor'[frame'.coin]
        /\ frame'.next <= frame'.to + 1
    BY <1>3, <2>1, <2>2 DEF RecvFrame
  <2>. QED
    BY <1>3, <2>3, <2>4 DEF RecvFrame, ReadInv
<1>4. CASE IngestTrade
  <2>1. CASE frame' = NoFrame /\ pc' # "ingest"
    BY <1>4, <2>1 DEF IngestTrade, ReadInv
  <2>2. CASE frame' = [frame EXCEPT !.next = @ + 1] /\ pc' = pc
    <3>1. /\ frame \in [coin : Coins \cup {"none"}, next : Nat, to : Nat]
          /\ frame.next <= frame.to
      BY <1>4 DEF IngestTrade, Typed, TypeOK
    <3>2. /\ frame'.next = frame.next + 1 /\ frame'.to = frame.to /\ frame'.coin = frame.coin
          /\ frame'.next <= frame'.to + 1
      BY <2>2, <3>1
    <3>. QED
      BY <1>4, <2>2, <3>2 DEF IngestTrade, ReadInv
  <2>. QED
    BY <1>4, <2>1, <2>2 DEF IngestTrade
<1>5. CASE FrameDone
  BY <1>5 DEF FrameDone, ReadInv
<1>6. CASE Restart
  BY <1>6 DEF Restart, FreshProcess, ReadInv, Running
<1>7. CASE FlushStart \/ NextBatch
  <2>1. after \in {"top", "closing"}
    BY DEF Typed, TypeOK
  <2>2. pc \in Running \ {"ingest"} /\ pc' \in Running \ {"ingest"}
    BY <1>7, <2>1 DEF FlushStart, NextBatch, Running
  <2>. QED
    BY <1>7, <2>2, ReadQuiet DEF FlushStart, NextBatch, conn
<1>8. CASE \/ OuterLoop \/ InnerLoop \/ RecvTimeout \/ Disconnected \/ BackoffOver
           \/ FinalFlush \/ SelfExit \/ Kill \/ ScaleToZero \/ Expire \/ UNCHANGED vars
           \/ \E failed \in SUBSET batch : PutRecords(failed)
           \/ \E taken \in SUBSET batch : PutRaises(taken)
  BY <1>8, ReadQuiet
     DEF OuterLoop, InnerLoop, RecvTimeout, Disconnected, BackoffOver, FinalFlush, SelfExit,
         Kill, ScaleToZero, Expire, PutRecords, PutRaises, vars, conn, Running
<1>. QED
  BY <1>1, <1>2, <1>3, <1>4, <1>5, <1>6, <1>7, <1>8 DEF Next, Process, Environment
-------------------------------------------------------------------------------
(* What a message brings is observed, skipped, or still in the message.    *)

RecvInv == Alive => received \subseteq observed \cup skipped \cup Unread

\* A new process has read no message.
LEMMA RecvInit == Init => RecvInv
BY DEF Init, RecvInv

\* Between two messages there is nothing to read.
LEMMA NoUnread ==
    ASSUME frame = NoFrame PROVE Unread = {}
BY DEF NoFrame, Unread

\* Every step keeps track of what the messages brought.
LEMMA RecvStep == Typed /\ ReadInv /\ RecvInv /\ [Next]_vars => RecvInv'
<1>. SUFFICES ASSUME Typed, ReadInv, RecvInv, [Next]_vars, Alive' PROVE RecvInv'
  BY DEF RecvInv
<1>1. ASSUME NEW c \in Coins, NEW n \in 0..MaxTrades, RecvFrame(c, n)
      PROVE  RecvInv'
  <2>1. Unread = {} /\ Alive
    BY <1>1, NoUnread DEF RecvFrame, ReadInv, Running, Alive
  <2>2. received' = received \cup Unread'
    BY <1>1 DEF RecvFrame, Unread
  <2>. QED
    BY <1>1, <2>1, <2>2 DEF RecvFrame, RecvInv
<1>2. CASE IngestTrade
  <2>1. Alive /\ received' = received /\ observed \subseteq observed'
    BY <1>2 DEF IngestTrade, ObserveCurrent, Alive, Running
  <2>2. CASE CurrentKind = "ok"
    <3>1. /\ frame \in [coin : Coins \cup {"none"}, next : Nat, to : Nat]
          /\ frame' = [frame EXCEPT !.next = @ + 1]
      BY <1>2, <2>2 DEF IngestTrade, Typed, TypeOK
    <3>2. frame'.coin = frame.coin /\ frame'.next = frame.next + 1 /\ frame'.to = frame.to
      BY <3>1
    <3>3. Unread \subseteq {Current} \cup Unread'
      BY <3>1, <3>2 DEF Unread, Current
    <3>4. observed' = observed \cup {Current} /\ skipped' = skipped
      BY <1>2, <2>2 DEF IngestTrade, ObserveCurrent
    <3>. QED
      BY <2>1, <3>3, <3>4 DEF RecvInv
  <2>3. CASE skipped' = skipped \cup Unread
    BY <2>1, <2>3 DEF RecvInv
  <2>4. CASE pc' = "driftCrash"
    BY <2>4 DEF Alive, Running
  <2>. QED
    BY <1>2, <2>2, <2>3, <2>4 DEF IngestTrade
<1>3. CASE FrameDone
  <2>1. frame.next \in Nat /\ frame.to \in Nat /\ frame.next > frame.to
    BY <1>3 DEF FrameDone, Typed, TypeOK
  <2>2. Unread = {}
    BY <2>1 DEF Unread
  <2>. QED
    BY <1>3, <2>2 DEF FrameDone, RecvInv, Alive, Running, history
<1>4. CASE Restart
  BY <1>4 DEF Restart, FreshProcess, RecvInv
<1>5. CASE UNCHANGED <<received, observed, skipped, frame>> /\ Alive
  BY <1>5 DEF RecvInv, Unread
<1>6. CASE ~Alive /\ ~Restart
  BY <1>6 DEF Next, Process, Environment, OuterLoop, Connect, InnerLoop, RecvTimeout,
     BackoffOver, RecvFrame, FrameDone, FlushStart, NextBatch, FinalFlush, PutRecords,
     PutRaises, Disconnected, Trade, ScaleToZero, Expire, Kill, IngestTrade, SelfExit,
     Running, Alive, vars
<1>. QED
  BY <1>1, <1>2, <1>3, <1>4, <1>5, <1>6
     DEF Next, Process, Environment, OuterLoop, Connect, InnerLoop, RecvTimeout,
         BackoffOver, FlushStart, NextBatch, FinalFlush, PutRecords, PutRaises,
         Disconnected, Trade, ScaleToZero, Expire, Kill, SelfExit, vars, conn, history

\* A well-formed trade a message brought is in the stream or still in the process's hands,
\* for any chunking, any partial PutRecords failures and any number of attempts, until the
\* process dies; and after self_exit nothing is left in its hands.  Only a malformed trade
\* before it in its message and a put_records call that raises give it up.
THEOREM NothingIsDropped == Spec => []NothingDropped
<1>1. Typed /\ SendInv /\ RecvInv => NothingDropped
  BY DEF SendInv, RecvInv, NothingDropped, GoodObserved
<1>2. Init => SendInv /\ ReadInv /\ RecvInv
  BY SendInit, TapeInit, RecvInit
<1>3. Typed /\ SendInv /\ ReadInv /\ RecvInv /\ [Next]_vars => (SendInv /\ ReadInv /\ RecvInv)'
  BY SendStep, ReadStep, RecvStep
<1>. QED
  BY <1>1, <1>2, <1>3, TypedAlways, PTL DEF Spec
-------------------------------------------------------------------------------
(* The open gaps.                                                          *)

\* The trades of a coin this process has observed.
Seen(c) == {i \in Taped(c) : <<c, i>> \in observed}

\* The tracker's newest time of a coin is that of a trade it has observed.
LastInv ==
    \A c \in Coins :
        /\ \A i \in Seen(c) : TimeAt(c, i) <= tracker.last[c]
        /\ tracker.last[c] # NoTime => \E i \in Seen(c) : TimeAt(c, i) = tracker.last[c]

\* observe_trade touches one coin: its newest time, and its gap if the trade is later.
LEMMA ObserveAt ==
    ASSUME NEW tr \in Trackers, NEW c \in Coins, NEW t \in Nat
    PROVE  /\ \A d \in Coins \ {c} : /\ Observe(tr, c, t).last[d] = tr.last[d]
                                     /\ Observe(tr, c, t).open[d] = tr.open[d]
           /\ Observe(tr, c, t).last[c] = IF t > tr.last[c] THEN t ELSE tr.last[c]
           /\ Observe(tr, c, t).open[c] = IF Closes(tr, c, t) THEN NoTime ELSE tr.open[c]
BY DEF Observe, Trackers

\* Times are integers, and real ones are natural numbers.
LEMMA TrackerTimes ==
    ASSUME Typed, NEW c \in Coins
    PROVE  /\ tracker.last[c] \in Int /\ tracker.last[c] >= NoTime
           /\ tracker.last[c] # NoTime => tracker.last[c] \in Nat
           /\ tracker.open[c] \in Int
           /\ tracker.open[c] # NoTime => tracker.open[c] \in Nat
BY DEF Typed, TypeOK, Trackers, Times, NoTime

\* What a process has seen does not change while it observes nothing.
LEMMA SeenSame ==
    ASSUME Typed, SendInv, [Next]_vars, observed' = observed, NEW d \in Coins
    PROVE  /\ Seen(d)' = Seen(d)
           /\ \A i \in Taped(d) : i \in Taped(d)' /\ TimeAt(d, i)' = TimeAt(d, i)
<1>1. ASSUME NEW c \in Coins, NEW kind \in Kinds, NEW dt \in {0, 1}, Trade(c, kind, dt)
      PROVE  \A i \in Taped(d) : i \in Taped(d)' /\ TimeAt(d, i)' = TimeAt(d, i)
  <2>1. Len(tape[d]) \in Nat
    BY TapeType
  <2>2. Len(tape'[d]) = Len(tape[d]) \/ Len(tape'[d]) = Len(tape[d]) + 1
    BY <1>1, TapeGrows
  <2>3. \A i \in Taped(d) : i \in Taped(d)'
    BY <2>1, <2>2 DEF Taped
  <2>. QED
    BY <1>1, <2>3, TapeGrows DEF TimeAt
<1>2. \A i \in Taped(d) : i \in Taped(d)' /\ TimeAt(d, i)' = TimeAt(d, i)
  BY <1>1, TapeQuiet DEF Taped, TimeAt
<1>3. ASSUME NEW i, <<d, i>> \in observed PROVE i \in Taped(d)
  <2>1. PICK c \in Coins : <<d, i>> \in {c} \X Taped(c)
    BY <1>3 DEF SendInv, Printed
  <2>. QED
    BY <2>1
<1>. QED
  BY <1>2, <1>3 DEF Seen

\* Observing the current trade adds its index to what was seen of its coin.
LEMMA SeenCurrent ==
    ASSUME Typed, frame.next <= frame.to, ObserveCurrent, UNCHANGED tape, NEW d \in Coins
    PROVE  Seen(d)' = Seen(d) \cup (IF d = frame.coin THEN {frame.next} ELSE {})
<1>1. frame.coin \in Coins /\ frame.next \in Taped(frame.coin)
  BY CurrentType
<1>2. Taped(d)' = Taped(d)
  BY DEF Taped
<1>3. \A i : <<d, i>> \in observed' <=> \/ <<d, i>> \in observed
                                        \/ d = frame.coin /\ i = frame.next
  BY DEF ObserveCurrent, Current
<1>. QED
  BY <1>1, <1>2, <1>3 DEF Seen

\* A new process has seen nothing.
LEMMA LastInit == Init => LastInv
<1>. SUFFICES ASSUME Init, NEW c \in Coins
              PROVE  Seen(c) = {} /\ tracker.last[c] = NoTime
  BY DEF LastInv
<1>1. Seen(c) = {}
  BY DEF Init, Seen
<1>. QED
  BY <1>1 DEF Init, FreshTracker, NoEntries

\* observe_trade keeps the newest time of every coin the time of a seen trade.
LEMMA LastStep == Typed /\ SendInv /\ LastInv /\ [Next]_vars => LastInv'
<1>. SUFFICES ASSUME Typed, SendInv, LastInv, [Next]_vars PROVE LastInv'
  OBVIOUS
<1>1. CASE IngestTrade /\ ObserveCurrent
  <2>1. PICK c \in Coins, n \in Nat, t \in Nat :
             /\ c = frame.coin /\ n = frame.next /\ n \in Taped(c)
             /\ t = TimeOf(Current) /\ t = TimeAt(c, n)
    BY <1>1, CurrentType, TapeType DEF IngestTrade, TimeAt, TimeOf, Current
  <2>2. /\ tracker' = Observe(tracker, c, t) /\ tracker \in Trackers
        /\ tape' = tape /\ frame.next <= frame.to
    BY <1>1, <2>1 DEF IngestTrade, ObserveCurrent, Typed, TypeOK
  <2>3. \A d \in Coins : \A i \in Taped(d) : TimeAt(d, i)' = TimeAt(d, i)
    BY <2>2 DEF TimeAt
  <2>4. \A d \in Coins : \A i \in Seen(d) : i \in Taped(d) /\ TimeAt(d, i) \in Nat
    BY TapeType DEF Seen
  <2>5. ASSUME NEW d \in Coins, d # c
        PROVE  Seen(d)' = Seen(d) /\ tracker'.last[d] = tracker.last[d]
    <3>1. Seen(d)' = Seen(d)
      BY <1>1, <2>1, <2>2, <2>5, SeenCurrent
    <3>2. tracker'.last[d] = tracker.last[d]
      BY <2>1, <2>2, <2>5, ObserveAt
    <3>. QED
      BY <3>1, <3>2
  <2>6. Seen(c)' = Seen(c) \cup {n}
    BY <1>1, <2>1, <2>2, SeenCurrent
  <2>7. tracker'.last[c] = IF t > tracker.last[c] THEN t ELSE tracker.last[c]
    BY <2>1, <2>2, ObserveAt
  <2>8. tracker.last[c] \in Int
    BY <2>1, TrackerTimes
  <2>9. \A i \in Seen(c)' : TimeAt(c, i)' <= tracker'.last[c]
    <3>1. t <= tracker'.last[c] /\ tracker.last[c] <= tracker'.last[c] /\ tracker'.last[c] \in Int
      BY <2>7, <2>8
    <3>2. ASSUME NEW i \in Seen(c) PROVE TimeAt(c, i)' <= tracker'.last[c]
      <4>1. TimeAt(c, i)' = TimeAt(c, i) /\ TimeAt(c, i) \in Nat
        BY <2>1, <2>3, <2>4
      <4>2. TimeAt(c, i) <= tracker.last[c]
        BY <2>1 DEF LastInv
      <4>. QED
        BY <2>8, <3>1, <4>1, <4>2
    <3>3. TimeAt(c, n)' = t
      BY <2>1, <2>3
    <3>. QED
      BY <2>6, <3>1, <3>2, <3>3
  <2>10. tracker'.last[c] # NoTime => \E i \in Seen(c)' : TimeAt(c, i)' = tracker'.last[c]
    <3>1. n \in Seen(c)' /\ TimeAt(c, n)' = t
      BY <2>1, <2>3, <2>6
    <3>2. CASE ~(t > tracker.last[c])
      <4>1. tracker'.last[c] = tracker.last[c] /\ tracker.last[c] # NoTime
        BY <2>1, <2>7, <2>8, <3>2 DEF NoTime
      <4>2. PICK i \in Seen(c) : TimeAt(c, i) = tracker.last[c]
        BY <2>1, <4>1 DEF LastInv
      <4>. QED
        BY <2>1, <2>3, <2>4, <2>6, <4>1, <4>2
    <3>. QED
      BY <2>7, <3>1, <3>2
  <2>11. ASSUME NEW d \in Coins, d # c
         PROVE  /\ \A i \in Seen(d)' : TimeAt(d, i)' <= tracker'.last[d]
                /\ tracker'.last[d] # NoTime =>
                      \E i \in Seen(d)' : TimeAt(d, i)' = tracker'.last[d]
    BY <2>3, <2>4, <2>5, <2>11 DEF LastInv
  <2>. QED
    BY <2>9, <2>10, <2>11 DEF LastInv
<1>2. CASE observed' = observed /\ tracker'.last = tracker.last
  <2>1. ASSUME NEW d \in Coins
        PROVE  Seen(d)' = Seen(d) /\ \A i \in Seen(d) : TimeAt(d, i)' = TimeAt(d, i)
    BY <1>2, SeenSame DEF Seen
  <2>. QED
    BY <1>2, <2>1 DEF LastInv
<1>3. CASE Restart
  BY <1>3 DEF Restart, FreshProcess, LastInv, Seen, FreshTracker, NoEntries
<1>4. CASE Disconnected \/ SelfExit \/ \E taken \in SUBSET batch : PutRaises(taken)
  <2>1. tracker'.last = tracker.last /\ observed' = observed
    BY <1>4 DEF Disconnected, SelfExit, PutRaises, OnDisconnect, Typed, TypeOK, Trackers,
                history
  <2>. QED
    BY <1>2, <2>1
<1>. QED
  BY <1>1, <1>2, <1>3, <1>4
     DEF Next, Process, Environment, OuterLoop, Connect, InnerLoop, RecvTimeout, BackoffOver,
         IngestTrade, RecvFrame, FrameDone, FlushStart, NextBatch, FinalFlush, PutRecords,
         Trade, ScaleToZero, Expire, Kill, vars, history

\* Once some coin was seen there is a newest time over every coin: max_time of
\* close_open_gaps is defined for any watchlist, finite or not.
LEMMA NewestTime ==
    ASSUME Typed, TapeInv, LastInv, NEW c \in Coins, tracker.last[c] # NoTime
    PROVE  \E m \in Nat : IsMaxTime(tracker, m)
<1>. DEFINE times == {tracker.last[d] : d \in {e \in Coins : tracker.last[e] # NoTime}}
<1>1. clock \in Nat
  BY DEF Typed, TypeOK
<1>2. ASSUME NEW d \in Coins, tracker.last[d] # NoTime PROVE tracker.last[d] \in 0..clock
  <2>1. PICK i \in Seen(d) : TimeAt(d, i) = tracker.last[d]
    BY <1>2 DEF LastInv
  <2>2. TimeAt(d, i) \in Nat /\ TimeAt(d, i) <= clock
    BY TapeType DEF Seen, TapeInv
  <2>. QED
    BY <1>1, <2>1, <2>2
<1>3. times \in SUBSET (0..clock) /\ times # {}
  BY <1>2
<1>4. \E m \in times : \A n \in times : n <= m
  <2>. HIDE DEF times
  <2>. QED
    BY <1>1, <1>3, NatMaximum
<1>5. PICK m \in times : \A n \in times : n <= m
  BY <1>4
<1>6. m \in Nat /\ \E d \in Coins : tracker.last[d] = m
  BY <1>1, <1>3
<1>7. ASSUME NEW d \in Coins PROVE tracker.last[d] <= m
  BY <1>5, <1>6, <1>7 DEF NoTime
<1>. QED
  BY <1>6, <1>7 DEF IsMaxTime

\* An open gap of a coin becomes a line of the self-exit unless nothing was seen later.
LEMMA SelfExitCloses ==
    ASSUME Typed, GapInv, TapeInv, LastInv, SelfExit, NEW c \in Coins,
           tracker.open[c] # NoTime
    PROVE  \E m \in Nat :
              /\ IsMaxTime(tracker, m)
              /\ m > tracker.open[c] => [coin |-> c, start |-> tracker.open[c], end |-> m] \in gaps'
<1>1. tracker.last[c] = tracker.open[c]
  BY DEF GapInv, GapFacts, SelfExit
<1>2. PICK m \in Nat : IsMaxTime(tracker, m)
  BY <1>1, NewestTime
<1>3. PICK d \in Coins : tracker.last[d] = m
  BY <1>2 DEF IsMaxTime
<1>4. ASSUME m > tracker.open[c]
      PROVE  [coin |-> c, start |-> tracker.open[c], end |-> m] \in OpenGapsClosed(tracker)
  BY <1>2, <1>3, <1>4 DEF OpenGapsClosed
<1>. QED
  BY <1>2, <1>4 DEF SelfExit

\* What the accounts of open gaps and the absence of holes both rest on.
BaseInv == Typed /\ GapInv /\ SendInv /\ TapeInv /\ ReadInv /\ LastInv

\* All states satisfy it.
LEMMA BaseAlways == Spec => []BaseInv
<1>1. Init => BaseInv
  BY TypedInit, GapInit, SendInit, TapeInit, LastInit DEF BaseInv
<1>2. BaseInv /\ [Next]_vars => BaseInv'
  BY TypedStep, GapStep, SendStep, TapeStep, ReadStep, LastStep DEF BaseInv
<1>. QED
  BY <1>1, <1>2, PTL DEF Spec

\* Where the start of an open gap goes in one step.
AccountedFor(c) ==
    tracker.open[c] # NoTime =>
        \/ tracker'.open[c] = tracker.open[c]
        \/ \E g \in gaps' : g.coin = c /\ g.start = tracker.open[c] /\ g \notin gaps
        \/ pc' = "exited" /\ \A d \in Coins : tracker.last[d] <= tracker.open[c]
        \/ pc \in Stopped

\* A gap that ends after the newest time of its coin was not recorded before.
LEMMA LaterGapIsNew ==
    ASSUME Typed, GapInv, pc # "exited", NEW g \in Gap, g.end > tracker.last[g.coin]
    PROVE  g \notin gaps
<1>. SUFFICES ASSUME g \in gaps PROVE FALSE
  OBVIOUS
<1>1. g.end <= tracker.last[g.coin]
  BY DEF GapInv, GapFacts
<1>2. g.end \in Nat /\ tracker.last[g.coin] \in Int
  BY TrackerTimes DEF Gap
<1>. QED
  BY <1>1, <1>2

\* No step loses an open gap: the two ways one ends are the line of observe_trade and
\* that of the self-exit.
LEMMA AccountedStep ==
    ASSUME BaseInv, [Next]_vars, NEW c \in Coins
    PROVE  AccountedFor(c)
<1>. SUFFICES ASSUME tracker.open[c] # NoTime PROVE AccountedFor(c)
  BY DEF AccountedFor
<1>. USE DEF BaseInv
<1>1. tracker \in Trackers /\ tracker.open[c] \in Nat
  BY TrackerTimes DEF Typed, TypeOK
<1>2. CASE IngestTrade /\ ObserveCurrent
  <2>1. PICK d \in Coins, t \in Nat : d = frame.coin /\ t = TimeOf(Current)
    BY <1>2, CurrentType DEF IngestTrade
  <2>2. tracker' = Observe(tracker, d, t) /\ gaps' = gaps \cup ClosedBy(tracker, d, t)
    BY <1>2, <2>1 DEF ObserveCurrent
  <2>3. CASE d = c /\ Closes(tracker, c, t)
    <3>. DEFINE g == [coin |-> c, start |-> tracker.open[c], end |-> t]
    <3>1. g \in Gap /\ g \in gaps'
      BY <1>1, <2>1, <2>2, <2>3 DEF ClosedBy, Gap
    <3>2. pc # "exited" /\ t > tracker.last[c]
      BY <1>2, <2>3 DEF IngestTrade, Closes, GapInv, GapFacts
    <3>3. g \notin gaps
      BY <3>1, <3>2, LaterGapIsNew
    <3>. QED
      BY <3>1, <3>3 DEF AccountedFor
  <2>4. CASE ~(d = c /\ Closes(tracker, c, t))
    <3>1. tracker'.open[c] = tracker.open[c]
      BY <1>1, <2>1, <2>2, <2>4, ObserveAt
    <3>. QED
      BY <3>1 DEF AccountedFor
  <2>. QED
    BY <2>3, <2>4
<1>3. CASE tracker' = OnDisconnect(tracker)
  BY <1>1, <1>3 DEF OnDisconnect, AccountedFor, Trackers
<1>4. CASE SelfExit
  <2>1. PICK m \in Nat :
           /\ IsMaxTime(tracker, m)
           /\ m > tracker.open[c] =>
                 [coin |-> c, start |-> tracker.open[c], end |-> m] \in gaps'
    BY <1>4, SelfExitCloses
  <2>2. tracker.open[c] = tracker.last[c] /\ pc # "exited" /\ pc' = "exited"
    BY <1>4 DEF SelfExit, GapInv, GapFacts
  <2>3. CASE m > tracker.open[c]
    <3>. DEFINE g == [coin |-> c, start |-> tracker.open[c], end |-> m]
    <3>1. g \in Gap /\ g \in gaps'
      BY <1>1, <2>1, <2>3 DEF Gap
    <3>2. g \notin gaps
      BY <2>2, <2>3, <3>1, LaterGapIsNew
    <3>. QED
      BY <3>1, <3>2 DEF AccountedFor
  <2>4. CASE ~(m > tracker.open[c])
    <3>1. \A d \in Coins : tracker.last[d] <= tracker.open[c]
      BY <1>1, <2>1, <2>4, TrackerTimes DEF IsMaxTime
    <3>. QED
      BY <2>2, <3>1 DEF AccountedFor
  <2>. QED
    BY <2>3, <2>4
<1>5. CASE Restart
  BY <1>5 DEF Restart, AccountedFor
<1>6. CASE UNCHANGED tracker
  BY <1>6 DEF AccountedFor
<1>. QED
  BY <1>2, <1>3, <1>4, <1>5, <1>6
     DEF Next, Process, Environment, OuterLoop, Connect, InnerLoop, RecvTimeout, BackoffOver,
         Disconnected, IngestTrade, RecvFrame, FrameDone, FlushStart, NextBatch, FinalFlush,
         PutRecords, PutRaises, Trade, ScaleToZero, Expire, Kill, vars

\* An open gap is never forgotten or moved (setdefault in on_disconnect, the pop of
\* observe_trade, close_open_gaps): it ends in a new gap_recorded line with its own start,
\* at a self-exit of which no coin saw a later trade, or with the process. For every kind
\* of message and any watchlist.
THEOREM OpenGapsAccounted == Spec => OpenGapsAreAccounted
<1>1. BaseInv /\ [Next]_vars =>
        [\A c \in Coins :
            LET start == tracker.open[c] IN
            start # NoTime =>
                \/ tracker'.open[c] = start
                \/ \E g \in gaps' : g.coin = c /\ g.start = start /\ g \notin gaps
                \/ pc' = "exited" /\ \A d \in Coins : tracker.last[d] <= start
                \/ pc \in Stopped]_vars
  <2>1. ASSUME BaseInv, [Next]_vars PROVE \A c \in Coins : AccountedFor(c)
    BY <2>1, AccountedStep
  <2>. QED
    BY <2>1 DEF AccountedFor
<1>. QED
  BY <1>1, BaseAlways, PTL DEF Spec, OpenGapsAreAccounted
-------------------------------------------------------------------------------
(* Holes.  A process that reads a tape trade by trade leaves a hole only   *)
(* where a connection is replaced.  The strengthening says what is known   *)
(* of a hole before its far end is seen: it begins after a seen trade, and *)
(* its coin has a gap, open from the loss of the connection on.            *)

\* The index of a coin's tape that is processed next.
ReadTo(c) == IF frame.coin = c /\ frame.next <= frame.to THEN frame.next ELSE cursor[c]

\* A connection is up, or it was lost and the next one is not up yet.
Linked == pc \in {"top", "recv", "ingest"} \/ (pc \in {"flush", "put"} /\ after = "top")
Parted == pc \in {"backoff", "connecting"} \/ (pc = "outer" /\ ~Ending)

\* Between two connections every coin that was seen has an open gap.
OpenInv == Parted => \A c \in Coins : Seen(c) # {} => tracker.open[c] # NoTime

\* What a connection reads before the first seen trade of a coin it has skipped.
FirstSeen(c, i) ==
    \A m \in Nat : m < i /\ (SnapshotStart(c) <= m \/ ReadTo(c) <= m) => <<c, m>> \in skipped

\* A process has seen nothing of a coin before the place a snapshot starts at, and from
\* there on it has seen or skipped what it has read.
StartInv ==
    \A c \in Coins :
        /\ Linked /\ Seen(c) = {} =>
             \A m \in Nat : SnapshotStart(c) <= m /\ m < ReadTo(c) => <<c, m>> \in skipped
        /\ pc \in Running /\ Seen(c) # {} => \E i \in Seen(c) : FirstSeen(c, i)

\* The trades of a coin that were neither seen nor skipped.
Missing(c) == {j \in Taped(c) \ Seen(c) : <<c, j>> \notin skipped}

\* Those between two seen ones; and with them those after a seen one that the connection
\* has passed over.
Inside(c) == {j \in Missing(c) : \E i, k \in Seen(c) : i < j /\ j < k}
Passed(c) ==
    {j \in Missing(c) : /\ \E i \in Seen(c) : i < j
                        /\ j < ReadTo(c) \/ \E k \in Seen(c) : j < k}

\* Such a trade is inside a gap, recorded or open.
Known(c, j) ==
    \/ Explained(gaps, <<c, j>>)
    \/ tracker.open[c] # NoTime /\ TimeAt(c, j) >= tracker.open[c]

HoleInv ==
    /\ pc \in Running => \A c \in Coins : \A j \in Passed(c) : Known(c, j)
    /\ pc = "exited" => \A c \in Coins : \A j \in Inside(c) :
                            Explained(gaps, <<c, j>>) \/ IsMaxTime(tracker, TimeAt(c, j))

\* What a living process has observed and could not send it has skipped.
SkipInv == Alive => \A id \in observed : tape[id[1]][id[2]].kind = "ok" \/ id \in skipped

HolesInv == OpenInv /\ StartInv /\ HoleInv /\ SkipInv

\* A connection reads at most to the end of the tape.
LEMMA ReadToType ==
    ASSUME Typed, ReadInv, NEW c \in Coins
    PROVE  ReadTo(c) \in Nat /\ ReadTo(c) <= Len(tape[c]) + 1
<1>1. Len(tape[c]) \in Nat /\ cursor[c] \in Nat /\ cursor[c] <= Len(tape[c]) + 1
  BY TapeType DEF ReadInv
<1>2. ASSUME frame.coin = c, frame.next <= frame.to
      PROVE  frame.next \in Nat /\ frame.next <= Len(tape[c])
  BY <1>1, <1>2 DEF Typed, TypeOK, FrameOK
<1>. QED
  BY <1>1, <1>2 DEF ReadTo

\* A new process has seen nothing, so it has no hole.
LEMMA HolesInit == Init => HolesInv
<1>. SUFFICES ASSUME Init PROVE HolesInv
  OBVIOUS
<1>1. \A c \in Coins : Seen(c) = {}
  BY DEF Init, Seen
<1>2. \A c \in Coins : Passed(c) = {} /\ Inside(c) = {}
  BY <1>1 DEF Passed, Inside, Missing
<1>3. pc = "outer" /\ observed = {}
  BY DEF Init
<1>. QED
  BY <1>1, <1>2, <1>3 DEF HolesInv, OpenInv, StartInv, HoleInv, SkipInv, Linked

\* A step that observes nothing, reads nothing and records nothing: neither end of a hole
\* moves.  The tape may grow.
LEMMA HolesQuiet ==
    ASSUME BaseInv, HolesInv, [Next]_vars, UNCHANGED <<observed, skipped, tracker, gaps>>,
           \A c \in Coins : ReadTo(c)' = ReadTo(c),
           pc' \in Running => pc \in Running, pc' = "exited" => pc = "exited",
           Linked' => Linked, Parted' => Parted
    PROVE  HolesInv'
<1>. USE DEF BaseInv
<1>1. ASSUME NEW c \in Coins
      PROVE  /\ Seen(c)' = Seen(c) /\ ReadTo(c)' = ReadTo(c)
             /\ \A i \in Taped(c) : i \in Taped(c)' /\ TimeAt(c, i)' = TimeAt(c, i)
  BY SeenSame
<1>2. ASSUME NEW c \in Coins PROVE SnapshotStart(c) <= SnapshotStart(c)'
  <2>1. Len(tape[c]) \in Nat
    BY TapeType
  <2>2. Len(tape'[c]) = Len(tape[c]) \/ Len(tape'[c]) = Len(tape[c]) + 1
    BY TapeGrows, TapeQuiet
  <2>. QED
    BY <2>1, <2>2, IngesterAssumption DEF SnapshotStart, IngesterAssumption
<1>3. ASSUME NEW c \in Coins, NEW j \in Taped(c)' \ Seen(c), j \notin Taped(c)
      PROVE  j \notin Passed(c)' /\ j \notin Inside(c)'
  <2>1. Len(tape[c]) \in Nat /\ Len(tape'[c]) \in Nat /\ j > Len(tape[c]) /\ j \in Nat
    <3>1. Len(tape[c]) \in Nat
      BY TapeType
    <3>2. Len(tape'[c]) = Len(tape[c]) \/ Len(tape'[c]) = Len(tape[c]) + 1
      BY TapeGrows, TapeQuiet
    <3>. QED
      BY <1>3, <3>1, <3>2 DEF Taped
  <2>2. \A k \in Seen(c) : k \in Nat /\ k < j
    BY <2>1 DEF Seen, Taped
  <2>3. ReadTo(c) \in Nat /\ ReadTo(c) <= j
    BY <2>1, ReadToType
  <2>4. ~(j < ReadTo(c)') /\ ~\E k \in Seen(c)' : j < k
    BY <1>1, <2>1, <2>2, <2>3
  <2>. QED
    BY <2>4 DEF Passed, Inside, Missing
<1>4. ASSUME NEW c \in Coins
      PROVE  Passed(c)' \subseteq Passed(c) /\ Inside(c)' \subseteq Inside(c)
  <2>1. ASSUME NEW j \in Passed(c)' \cup Inside(c)' PROVE j \in Taped(c) \ Seen(c)
    <3>1. j \in Taped(c)' \ Seen(c)
      BY <1>1, <2>1 DEF Passed, Inside, Missing
    <3>. QED
      BY <1>3, <2>1, <3>1
  <2>. QED
    BY <1>1, <2>1 DEF Passed, Inside, Missing
<1>5. ASSUME NEW c \in Coins, NEW j \in Taped(c)
      PROVE  /\ Known(c, j)' <=> Known(c, j)
             /\ Explained(gaps, <<c, j>>)' <=> Explained(gaps, <<c, j>>)
             /\ IsMaxTime(tracker, TimeAt(c, j))' <=> IsMaxTime(tracker, TimeAt(c, j))
  <2>1. TimeAt(c, j)' = TimeAt(c, j) /\ TimeOf(<<c, j>>)' = TimeOf(<<c, j>>)
    BY <1>1, <1>5 DEF TimeAt, TimeOf
  <2>. QED
    BY <2>1 DEF Known, Explained, IsMaxTime
<1>6. OpenInv'
  BY <1>1 DEF HolesInv, OpenInv
<1>7. StartInv'
  <2>1. ASSUME NEW c \in Coins
        PROVE  /\ SnapshotStart(c) \in Int /\ SnapshotStart(c)' \in Int
               /\ ReadTo(c) \in Int /\ \A i \in Seen(c) : i \in Int
    BY TapeType, ReadToType, TypedStep, IngesterAssumption
       DEF SnapshotStart, Seen, IngesterAssumption
  <2>2. ASSUME NEW c \in Coins, Linked', Seen(c) = {}, NEW m \in Nat,
               SnapshotStart(c)' <= m, m < ReadTo(c)'
        PROVE  <<c, m>> \in skipped
    BY <1>1, <1>2, <2>1, <2>2 DEF HolesInv, StartInv
  <2>3. ASSUME NEW c \in Coins, NEW i \in Seen(c), FirstSeen(c, i)
        PROVE  FirstSeen(c, i)'
    BY <1>1, <1>2, <2>1, <2>3 DEF FirstSeen
  <2>4. ASSUME NEW c \in Coins, pc' \in Running, Seen(c)' # {}
        PROVE  \E i \in Seen(c)' : FirstSeen(c, i)'
    BY <1>1, <2>3, <2>4 DEF HolesInv, StartInv
  <2>. QED
    BY <1>1, <2>2, <2>4 DEF StartInv
<1>8. HoleInv'
  <2>1. ASSUME NEW c \in Coins, NEW j \in Passed(c)', pc' \in Running PROVE Known(c, j)'
    BY <1>4, <1>5, <2>1 DEF HolesInv, HoleInv, Passed, Missing
  <2>2. ASSUME NEW c \in Coins, NEW j \in Inside(c)', pc' = "exited"
        PROVE  Explained(gaps, <<c, j>>)' \/ IsMaxTime(tracker, TimeAt(c, j))'
    BY <1>4, <1>5, <2>2 DEF HolesInv, HoleInv, Inside, Missing
  <2>. QED
    BY <2>1, <2>2 DEF HoleInv
<1>9. SkipInv'
  <2>1. ASSUME NEW id \in observed
        PROVE  tape'[id[1]][id[2]].kind = tape[id[1]][id[2]].kind
    <3>1. PICK d \in Coins : id \in {d} \X Taped(d)
      BY DEF SendInv, Printed
    <3>2. id[1] = d /\ id[2] \in Taped(d)
      BY <3>1
    <3>. QED
      BY <3>2, TapeGrows, TapeQuiet
  <2>2. Alive' => Alive
    BY DEF Alive
  <2>. QED
    BY <2>1, <2>2 DEF HolesInv, SkipInv
<1>. QED
  BY <1>6, <1>7, <1>8, <1>9 DEF HolesInv

\* A new connection starts at the replay.  What it leaves out after a seen trade is later
\* than all of them, so it lies in the gap its coin has open by then.
LEMMA HolesConnect ==
    ASSUME BaseInv, HolesInv, Connect
    PROVE  HolesInv'
<1>. USE DEF BaseInv
<1>1. /\ pc = "connecting" /\ pc' = "top" /\ frame = NoFrame /\ frame' = NoFrame
      /\ UNCHANGED <<tape, observed, skipped, tracker, gaps>>
  BY DEF Connect, ReadInv, Running, history
<1>2. ASSUME NEW c \in Coins
      PROVE  /\ Seen(c)' = Seen(c) /\ Taped(c)' = Taped(c) /\ SnapshotStart(c)' = SnapshotStart(c)
             /\ ReadTo(c)' = SnapshotStart(c) /\ ReadTo(c)' \in Nat
             /\ \A i \in Taped(c) : TimeAt(c, i)' = TimeAt(c, i)
             /\ \A j : Known(c, j)' <=> Known(c, j)
  <2>1. ReadTo(c)' = cursor'[c] /\ cursor'[c] = SnapshotStart(c)
    BY <1>1 DEF Connect, ReadTo, NoFrame
  <2>2. SnapshotStart(c) \in Nat
    BY TapeType, IngesterAssumption DEF SnapshotStart, IngesterAssumption
  <2>. QED
    BY <1>1, <2>1, <2>2
       DEF Seen, Taped, SnapshotStart, TimeAt, Known, Explained, TimeOf, Within
<1>3. OpenInv'
  BY <1>1 DEF OpenInv, Parted
<1>4. StartInv'
  <2>1. ASSUME NEW c \in Coins, NEW i \in Seen(c), FirstSeen(c, i)
        PROVE  FirstSeen(c, i)'
    BY <1>1, <1>2, <2>1 DEF FirstSeen
  <2>2. ASSUME NEW c \in Coins, Seen(c)' # {}
        PROVE  \E i \in Seen(c)' : FirstSeen(c, i)'
    BY <1>1, <1>2, <2>1, <2>2 DEF HolesInv, StartInv, Running
  <2>3. ASSUME NEW c \in Coins, NEW m \in Nat, SnapshotStart(c)' <= m, m < ReadTo(c)'
        PROVE  FALSE
    BY <1>2, <2>3
  <2>. QED
    BY <2>2, <2>3 DEF StartInv
<1>5. ASSUME NEW c \in Coins, NEW j \in Passed(c)'
      PROVE  Known(c, j)
  <2>1. j \in Missing(c) /\ j \in Taped(c) /\ j \in Nat /\ \E i \in Seen(c) : i < j
    BY <1>1, <1>2, TapeType DEF Passed, Missing
  <2>2. CASE \E k \in Seen(c) : j < k
    BY <1>1, <2>1, <2>2 DEF Passed, Missing, HolesInv, HoleInv, Running
  <2>3. CASE ~\E k \in Seen(c) : j < k
    <3>1. tracker.open[c] # NoTime /\ tracker.open[c] = tracker.last[c]
      BY <1>1, <2>1 DEF HolesInv, OpenInv, Parted, GapInv, GapFacts
    <3>2. PICK i \in Seen(c) : TimeAt(c, i) = tracker.last[c]
      BY <3>1 DEF LastInv
    <3>3. i \in Taped(c) /\ i \in Nat /\ ~(j < i)
      BY <2>3, TapeType DEF Seen
    <3>4. TimeAt(c, i) <= TimeAt(c, j)
      BY <2>1, <3>3 DEF TapeInv
    <3>. QED
      BY <2>1, <3>1, <3>2, <3>3, <3>4, TapeType DEF Known
  <2>. QED
    BY <2>2, <2>3
<1>6. HoleInv' /\ SkipInv'
  BY <1>1, <1>2, <1>5 DEF HoleInv, HolesInv, SkipInv, Alive, Running
<1>. QED
  BY <1>3, <1>4, <1>6 DEF HolesInv

\* Losing the connection opens a gap of every coin that was seen; so does what run() takes
\* for it.
LEMMA HolesDisconnect ==
    ASSUME BaseInv, HolesInv, pc \in Running, pc' = "backoff", tracker' = OnDisconnect(tracker),
           UNCHANGED <<tape, observed, skipped, gaps, cursor, frame>>
    PROVE  HolesInv'
<1>. USE DEF BaseInv
<1>1. /\ pc \in Running /\ pc' = "backoff"
      /\ UNCHANGED <<tape, observed, skipped, gaps, cursor, frame>>
      /\ tracker' = OnDisconnect(tracker) /\ tracker \in Trackers
  BY DEF Typed, TypeOK
<1>2. ASSUME NEW c \in Coins
      PROVE  /\ tracker'.last[c] = tracker.last[c]
             /\ tracker'.open[c] = IF tracker.open[c] = NoTime THEN tracker.last[c]
                                   ELSE tracker.open[c]
  BY <1>1 DEF OnDisconnect, Trackers
<1>3. ASSUME NEW c \in Coins
      PROVE  /\ Seen(c)' = Seen(c) /\ Passed(c)' = Passed(c) /\ ReadTo(c)' = ReadTo(c)
             /\ \A i : FirstSeen(c, i)' <=> FirstSeen(c, i)
             /\ \A j : TimeAt(c, j)' = TimeAt(c, j)
             /\ \A j : Explained(gaps, <<c, j>>)' <=> Explained(gaps, <<c, j>>)
  BY <1>1 DEF Seen, Passed, Missing, ReadTo, FirstSeen, Taped, SnapshotStart, TimeAt, Explained,
              TimeOf
<1>4. OpenInv'
  <2>1. ASSUME NEW c \in Coins, NEW i \in Seen(c) PROVE tracker'.open[c] # NoTime
    <3>1. TimeAt(c, i) \in Nat /\ TimeAt(c, i) <= tracker.last[c] /\ tracker.last[c] \in Int
      BY TapeType, TrackerTimes DEF Seen, LastInv
    <3>. QED
      BY <1>2, <3>1 DEF NoTime
  <2>. QED
    BY <1>3, <2>1 DEF OpenInv
<1>5. StartInv'
  BY <1>1, <1>3 DEF StartInv, HolesInv, Linked
<1>6. HoleInv'
  BY <1>1, <1>2, <1>3 DEF HoleInv, HolesInv, Known
<1>7. SkipInv'
  BY <1>1 DEF SkipInv, HolesInv, Alive
<1>. QED
  BY <1>4, <1>5, <1>6, <1>7 DEF HolesInv

\* A self-exit covers each hole by the line of its open gap, or its trades are of the
\* newest instant of all.
LEMMA HolesExit ==
    ASSUME BaseInv, HolesInv, SelfExit
    PROVE  HolesInv'
<1>. USE DEF BaseInv
<1>1. /\ pc = "closing" /\ pc' = "exited"
      /\ UNCHANGED <<tape, observed, skipped>> /\ gaps \subseteq gaps'
      /\ tracker'.last = tracker.last
  BY DEF SelfExit, history, Typed, TypeOK, Trackers
<1>2. ASSUME NEW c \in Coins
      PROVE  Inside(c)' = Inside(c) /\ \A j : TimeAt(c, j)' = TimeAt(c, j)
  BY <1>1 DEF Inside, Missing, Seen, Taped, TimeAt
<1>3. ASSUME NEW c \in Coins, NEW j \in Inside(c)
      PROVE  Explained(gaps, <<c, j>>)' \/ IsMaxTime(tracker, TimeAt(c, j))
  <2>1. Known(c, j)
    BY <1>1 DEF HolesInv, HoleInv, Running, Inside, Passed
  <2>2. \A g : Within(g, c, TimeAt(c, j)) /\ g \in gaps' => Explained(gaps, <<c, j>>)'
    BY <1>1 DEF Explained, TimeOf, TimeAt
  <2>3. CASE Explained(gaps, <<c, j>>)
    BY <1>1, <2>2, <2>3 DEF Explained, TimeOf, TimeAt
  <2>4. CASE tracker.open[c] # NoTime /\ TimeAt(c, j) >= tracker.open[c]
    <3>1. PICK m \in Nat :
             /\ IsMaxTime(tracker, m)
             /\ m > tracker.open[c] =>
                   [coin |-> c, start |-> tracker.open[c], end |-> m] \in gaps'
      BY <2>4, SelfExitCloses
    <3>2. PICK k \in Seen(c) : j < k /\ j \in Taped(c) /\ j \in Nat /\ k \in Nat
      BY TapeType DEF Inside, Missing, Seen
    <3>3. /\ TimeAt(c, j) \in Nat /\ TimeAt(c, j) <= tracker.last[c]
          /\ tracker.last[c] <= m /\ tracker.last[c] \in Int
      <4>1. TimeAt(c, j) <= TimeAt(c, k) /\ TimeAt(c, k) <= tracker.last[c]
        BY <3>2 DEF TapeInv, LastInv, Seen
      <4>2. TimeAt(c, j) \in Nat /\ TimeAt(c, k) \in Nat
        BY <3>2, TapeType DEF Seen
      <4>. QED
        BY <3>1, <4>1, <4>2, TrackerTimes DEF IsMaxTime
    <3>4. CASE m > tracker.open[c]
      <4>. DEFINE g == [coin |-> c, start |-> tracker.open[c], end |-> m]
      <4>1. Within(g, c, TimeAt(c, j))
        BY <2>4, <3>3, <3>1 DEF Within
      <4>. QED
        BY <2>2, <3>1, <3>4, <4>1
    <3>5. CASE ~(m > tracker.open[c])
      <4>1. TimeAt(c, j) = m
        BY <2>4, <3>1, <3>3, <3>5, TrackerTimes
      <4>. QED
        BY <3>1, <4>1
    <3>. QED
      BY <3>4, <3>5
  <2>. QED
    BY <2>1, <2>3, <2>4 DEF Known
<1>4. HoleInv'
  BY <1>1, <1>2, <1>3 DEF HoleInv, IsMaxTime, Running
<1>5. OpenInv' /\ StartInv' /\ SkipInv'
  BY <1>1 DEF OpenInv, Parted, StartInv, Linked, SkipInv, HolesInv, Alive, Running
<1>. QED
  BY <1>4, <1>5 DEF HolesInv

\* ECS starts a process that has seen nothing.
LEMMA HolesRestart ==
    ASSUME Restart
    PROVE  HolesInv'
<1>1. pc' = "outer" /\ observed' = {}
  BY DEF Restart, FreshProcess
<1>2. \A c \in Coins : Seen(c)' = {}
  BY <1>1 DEF Seen
<1>3. \A c \in Coins : Passed(c)' = {} /\ Inside(c)' = {}
  BY <1>2 DEF Passed, Inside, Missing
<1>. QED
  BY <1>1, <1>2, <1>3 DEF HolesInv, OpenInv, StartInv, HoleInv, SkipInv, Linked

\* The trade after the one just observed is read next.
LEMMA ReadNext ==
    ASSUME Typed, ReadInv, IngestTrade, frame' = [frame EXCEPT !.next = @ + 1], NEW c \in Coins
    PROVE  /\ c = frame.coin => ReadTo(c) = frame.next /\ ReadTo(c)' = frame.next + 1
           /\ c # frame.coin => ReadTo(c)' = ReadTo(c)
<1>1. /\ frame \in [coin : Coins \cup {"none"}, next : Nat, to : Nat]
      /\ frame.next <= frame.to /\ pc = "ingest" /\ cursor' = cursor
  BY DEF IngestTrade, Typed, TypeOK
<1>2. frame'.coin = frame.coin /\ frame'.next = frame.next + 1 /\ frame'.to = frame.to
  BY <1>1
<1>3. frame.to + 1 = cursor[frame.coin] /\ cursor[frame.coin] \in Int
  BY <1>1 DEF ReadInv, Typed, TypeOK
<1>4. CASE c = frame.coin
  <2>1. CASE frame.next + 1 <= frame.to
    BY <1>1, <1>2, <1>4, <2>1 DEF ReadTo
  <2>2. CASE ~(frame.next + 1 <= frame.to)
    <3>1. frame.next + 1 = cursor[c]
      BY <1>1, <1>3, <1>4, <2>2
    <3>. QED
      BY <1>1, <1>2, <1>4, <2>2, <3>1 DEF ReadTo
  <2>. QED
    BY <2>1, <2>2
<1>5. CASE c # frame.coin
  BY <1>1, <1>2, <1>5 DEF ReadTo
<1>. QED
  BY <1>4, <1>5

\* A trade that was ingested is behind the reader, with the rest of a message given up.
LEMMA ReadOn ==
    ASSUME Typed, ReadInv, IngestTrade, CurrentKind # "nullNumber", NEW c \in Coins
    PROVE  /\ c = frame.coin =>
                /\ ReadTo(c) = frame.next /\ ReadTo(c)' \in Nat /\ frame.next < ReadTo(c)'
                /\ \A m \in Nat : frame.next < m /\ m < ReadTo(c)' => <<c, m>> \in skipped'
           /\ c # frame.coin => ReadTo(c)' = ReadTo(c)
<1>1. /\ frame.next \in Nat /\ frame.to \in Nat /\ frame.next <= frame.to
      /\ pc = "ingest" /\ cursor' = cursor
  BY DEF IngestTrade, Typed, TypeOK
<1>2. CASE frame' = [frame EXCEPT !.next = @ + 1]
  BY <1>1, <1>2, ReadNext
<1>3. CASE frame' = NoFrame /\ skipped' = skipped \cup Unread
  <2>1. ReadTo(c)' = cursor[c]
    BY <1>1, <1>3 DEF ReadTo, NoFrame
  <2>2. c = frame.coin => cursor[c] = frame.to + 1 /\ ReadTo(c) = frame.next
    BY <1>1 DEF ReadInv, ReadTo, Typed, TypeOK
  <2>3. c # frame.coin => ReadTo(c) = cursor[c]
    BY DEF ReadTo
  <2>. QED
    BY <1>1, <1>3, <2>1, <2>2, <2>3 DEF Unread
<1>. QED
  BY <1>2, <1>3 DEF IngestTrade

\* observe_trade closes the gap of its coin over every hole that is open: a trade later
\* than the newest is later than all of the hole.  An earlier one opens no new hole.
LEMMA HolesObserve ==
    ASSUME BaseInv, HolesInv, IngestTrade, CurrentKind \in {"ok", "noField"}
    PROVE  HolesInv'
<1>. USE DEF BaseInv
<1>1. PICK c \in Coins, n \in Nat, t \in Nat :
         /\ c = frame.coin /\ n = frame.next /\ n \in Taped(c)
         /\ t = TimeOf(Current) /\ t = TimeAt(c, n)
  BY CurrentType, TapeType DEF IngestTrade, TimeAt, TimeOf, Current
<1>2. /\ pc = "ingest" /\ pc' \in {"ingest", "top"} /\ frame.next <= frame.to
      /\ ObserveCurrent /\ UNCHANGED tape /\ skipped \subseteq skipped'
  BY DEF IngestTrade
<1>3. /\ tracker' = Observe(tracker, c, t) /\ gaps' = gaps \cup ClosedBy(tracker, c, t)
      /\ observed' = observed \cup {Current} /\ tracker \in Trackers
  BY <1>1, <1>2 DEF ObserveCurrent, Typed, TypeOK
<1>4. ASSUME NEW d \in Coins
      PROVE  /\ Taped(d)' = Taped(d) /\ SnapshotStart(d)' = SnapshotStart(d)
             /\ \A i : TimeAt(d, i)' = TimeAt(d, i)
             /\ \A i \in Taped(d) : i \in Nat /\ TimeAt(d, i) \in Nat
             /\ \A i : Explained(gaps, <<d, i>>) => Explained(gaps, <<d, i>>)'
  <2>1. gaps \subseteq gaps'
    BY <1>3
  <2>. QED
    BY <1>2, <2>1, TapeType DEF Taped, SnapshotStart, TimeAt, Explained, TimeOf
<1>5. /\ Seen(c)' = Seen(c) \cup {n} /\ ReadTo(c) = n /\ ReadTo(c)' \in Nat /\ n < ReadTo(c)'
      /\ \A m \in Nat : n < m /\ m < ReadTo(c)' => <<c, m>> \in skipped'
  BY <1>1, <1>2, SeenCurrent, ReadOn
<1>6. ASSUME NEW d \in Coins, d # c
      PROVE  /\ Seen(d)' = Seen(d) /\ ReadTo(d)' = ReadTo(d)
             /\ tracker'.open[d] = tracker.open[d]
  <2>1. Seen(d)' = Seen(d)
    BY <1>1, <1>2, <1>6, SeenCurrent
  <2>2. ReadTo(d)' = ReadTo(d)
    BY <1>1, <1>2, <1>6, ReadOn
  <2>. QED
    BY <1>3, <1>6, <2>1, <2>2, ObserveAt
<1>7. OpenInv'
  BY <1>2 DEF OpenInv, Parted
<1>8. StartInv'
  <2>1. \E i \in Seen(c)' : FirstSeen(c, i)'
    <3>1. CASE Seen(c) = {}
      <4>1. \A m \in Nat : SnapshotStart(c) <= m /\ m < n => <<c, m>> \in skipped
        BY <1>2, <1>5, <3>1 DEF HolesInv, StartInv, Linked
      <4>2. FirstSeen(c, n)'
        BY <1>1, <1>2, <1>4, <1>5, <4>1 DEF FirstSeen
      <4>. QED
        BY <1>5, <4>2
    <3>2. CASE Seen(c) # {}
      <4>1. PICK i \in Seen(c) : FirstSeen(c, i)
        BY <1>2, <3>2 DEF HolesInv, StartInv, Running
      <4>2. FirstSeen(c, i)'
        BY <1>1, <1>2, <1>4, <1>5, <4>1 DEF FirstSeen
      <4>. QED
        BY <1>5, <4>2
    <3>. QED
      BY <3>1, <3>2
  <2>2. ASSUME NEW d \in Coins, d # c
        PROVE  /\ Linked' /\ Seen(d)' = {} =>
                    \A m \in Nat : SnapshotStart(d)' <= m /\ m < ReadTo(d)' => <<d, m>> \in skipped'
               /\ Seen(d)' # {} => \E i \in Seen(d)' : FirstSeen(d, i)'
    <3>1. /\ Seen(d) = {} =>
               \A m \in Nat : SnapshotStart(d) <= m /\ m < ReadTo(d) => <<d, m>> \in skipped
          /\ Seen(d) # {} => \E i \in Seen(d) : FirstSeen(d, i)
      BY <1>2 DEF HolesInv, StartInv, Linked, Running
    <3>2. \A i : FirstSeen(d, i) => FirstSeen(d, i)'
      BY <1>2, <1>4, <1>6, <2>2 DEF FirstSeen
    <3>. QED
      BY <1>2, <1>4, <1>6, <2>2, <3>1, <3>2
  <2>3. Seen(c)' # {}
    BY <1>5
  <2>. QED
    BY <2>1, <2>2, <2>3 DEF StartInv
<1>9. ASSUME NEW d \in Coins, NEW j \in Passed(d)'
      PROVE  j \in Passed(d)
  <2>0. j \in Missing(d) /\ <<d, j>> \notin skipped'
    <3>1. Seen(d) \subseteq Seen(d)'
      BY <1>5, <1>6
    <3>. QED
      BY <1>2, <1>4, <1>9, <3>1 DEF Passed, Missing
  <2>1. CASE d # c
    BY <1>4, <1>6, <1>9, <2>0, <2>1 DEF Passed
  <2>2. CASE d = c
    <3>1. j \in Missing(c) /\ j # n /\ j \in Nat /\ j \notin Seen(c)
      BY <1>4, <1>5, <1>9, <2>0, <2>2 DEF Passed, Missing
    <3>2. CASE j < n
      <4>1. \E i \in Seen(c) : i < j
        BY <1>1, <1>4, <1>5, <1>9, <2>2, <3>1, <3>2 DEF Passed
      <4>. QED
        BY <1>5, <2>2, <3>1, <3>2, <4>1 DEF Passed
    <3>3. CASE j > n
      <4>1. PICK k \in Seen(c) : j < k
        BY <1>1, <1>4, <1>5, <1>9, <2>0, <2>2, <3>1, <3>3 DEF Passed
      <4>2. PICK i \in Seen(c) : FirstSeen(c, i)
        BY <1>2, <4>1 DEF HolesInv, StartInv, Running
      <4>3. i < j
        <5>1. i \in Nat /\ i # j
          BY <1>4, <3>1 DEF Seen
        <5>2. ~(j < i)
          BY <1>1, <1>4, <1>5, <3>1, <3>3, <4>2 DEF FirstSeen, Missing
        <5>. QED
          BY <3>1, <5>1, <5>2
      <4>. QED
        BY <2>2, <3>1, <4>1, <4>3 DEF Passed
    <3>. QED
      BY <1>1, <1>4, <3>1, <3>2, <3>3
  <2>. QED
    BY <2>1, <2>2
<1>10. ASSUME NEW d \in Coins, NEW j \in Passed(d)'
       PROVE  Known(d, j)'
  <2>1. Known(d, j) /\ j \in Taped(d)
    BY <1>2, <1>9, <1>10 DEF HolesInv, HoleInv, Running, Passed, Missing
  <2>2. CASE Explained(gaps, <<d, j>>)
    BY <1>4, <2>2 DEF Known
  <2>3. CASE /\ tracker.open[d] # NoTime /\ TimeAt(d, j) >= tracker.open[d]
             /\ ~(d = c /\ Closes(tracker, c, t))
    <3>1. tracker'.open[d] = tracker.open[d]
      BY <1>3, <1>6, <2>3, ObserveAt
    <3>. QED
      BY <1>4, <2>3, <3>1 DEF Known
  <2>4. CASE /\ tracker.open[d] # NoTime /\ TimeAt(d, j) >= tracker.open[d]
             /\ d = c /\ Closes(tracker, c, t)
    <3>. DEFINE g == [coin |-> c, start |-> tracker.open[c], end |-> t]
    <3>1. g \in gaps'
      BY <1>3, <2>4 DEF ClosedBy
    <3>2. t > tracker.last[c]
      BY <1>2, <2>4 DEF Closes, GapInv, GapFacts
    <3>3. TimeAt(c, j) <= t
      <4>1. CASE j <= n
        BY <1>1, <2>1, <2>4, <4>1 DEF TapeInv
      <4>2. CASE ~(j <= n)
        <5>1. PICK k \in Seen(c) : j < k
          BY <1>4, <1>5, <1>9, <1>10, <2>1, <2>4, <4>2 DEF Passed
        <5>2. TimeAt(c, j) <= TimeAt(c, k) /\ TimeAt(c, k) <= tracker.last[c]
          BY <1>4, <2>1, <2>4, <5>1 DEF TapeInv, LastInv, Seen
        <5>. QED
          BY <1>4, <2>1, <2>4, <3>2, <5>1, <5>2, TrackerTimes DEF Seen
      <4>. QED
        BY <4>1, <4>2
    <3>4. Within(g, c, TimeAt(c, j))
      BY <2>4, <3>3 DEF Within
    <3>5. Explained(gaps, <<c, j>>)'
      BY <1>2, <3>1, <3>4 DEF Explained, TimeOf, TimeAt
    <3>. QED
      BY <2>4, <3>5 DEF Known
  <2>. QED
    BY <2>1, <2>2, <2>3, <2>4 DEF Known
<1>11. HoleInv'
  BY <1>2, <1>10 DEF HoleInv
<1>12. SkipInv'
  <2>1. tape[Current[1]][Current[2]].kind = CurrentKind
    BY DEF Current, CurrentKind
  <2>2. CurrentKind = "ok" \/ Current \in skipped'
    BY <1>1, <1>2, CurrentType DEF IngestTrade, Unread, Current, BaseInv, Typed, TypeOK
  <2>. QED
    BY <1>2, <1>3, <2>1, <2>2 DEF SkipInv, HolesInv, Alive, Running
<1>. QED
  BY <1>7, <1>8, <1>11, <1>12 DEF HolesInv

\* A message given up before its trade was observed: what it still held is skipped.
LEMMA HolesSkip ==
    ASSUME BaseInv, HolesInv, IngestTrade, CurrentKind = "noTime"
    PROVE  HolesInv'
<1>. USE DEF BaseInv
<1>1. /\ pc = "ingest" /\ pc' = "top" /\ frame.next <= frame.to
      /\ UNCHANGED <<tape, observed, tracker, gaps>> /\ skipped \subseteq skipped'
  BY DEF IngestTrade
<1>2. ASSUME NEW c \in Coins
      PROVE  /\ Seen(c)' = Seen(c) /\ Taped(c)' = Taped(c) /\ SnapshotStart(c)' = SnapshotStart(c)
             /\ \A i \in Taped(c) : i \in Nat
             /\ \A j : Known(c, j)' <=> Known(c, j)
  BY <1>1, TapeType
     DEF Seen, Taped, SnapshotStart, TimeAt, Known, Explained, TimeOf, Within
<1>3. ASSUME NEW c \in Coins
      PROVE  /\ ReadTo(c) \in Nat /\ ReadTo(c)' \in Nat /\ ReadTo(c) <= ReadTo(c)'
             /\ \A m \in Nat : ReadTo(c) <= m /\ m < ReadTo(c)' => <<c, m>> \in skipped'
  <2>1. frame.coin \in Coins /\ frame.next \in Nat
    BY <1>1, CurrentType DEF Taped
  <2>2. CASE c = frame.coin
    <3>1. ReadTo(c) = frame.next /\ Current \in skipped'
      BY <1>1, <2>1, <2>2 DEF ReadTo, IngestTrade, Unread, Current, Typed, TypeOK
    <3>. QED
      BY <1>1, <2>1, <2>2, <3>1, ReadOn DEF Current
  <2>3. CASE c # frame.coin
    BY <1>1, <2>3, ReadOn, ReadToType
  <2>. QED
    BY <2>2, <2>3
<1>4. OpenInv' /\ SkipInv'
  BY <1>1 DEF OpenInv, Parted, HolesInv, SkipInv, Alive, Running
<1>5. StartInv'
  <2>1. ASSUME NEW c \in Coins, Seen(c) = {}, NEW m \in Nat,
               SnapshotStart(c) <= m, m < ReadTo(c)'
        PROVE  <<c, m>> \in skipped'
    <3>1. m < ReadTo(c) => <<c, m>> \in skipped
      BY <1>1, <2>1 DEF HolesInv, StartInv, Linked
    <3>. QED
      BY <1>1, <1>3, <2>1, <3>1
  <2>2. ASSUME NEW c \in Coins, NEW i \in Seen(c), FirstSeen(c, i)
        PROVE  FirstSeen(c, i)'
    BY <1>1, <1>2, <1>3, <2>2 DEF FirstSeen
  <2>3. ASSUME NEW c \in Coins, Seen(c) # {}
        PROVE  \E i \in Seen(c) : FirstSeen(c, i)
    BY <1>1, <2>3 DEF HolesInv, StartInv, Running
  <2>. QED
    BY <1>2, <2>1, <2>2, <2>3 DEF StartInv
<1>6. ASSUME NEW c \in Coins, NEW j \in Passed(c)'
      PROVE  j \in Passed(c)
  <2>1. j \in Missing(c) /\ <<c, j>> \notin skipped' /\ j \in Nat
    BY <1>1, <1>2, <1>6 DEF Passed, Missing
  <2>2. j < ReadTo(c)' => j < ReadTo(c)
    BY <1>3, <2>1
  <2>. QED
    BY <1>2, <1>6, <2>1, <2>2 DEF Passed
<1>7. HoleInv'
  BY <1>1, <1>2, <1>6 DEF HoleInv, HolesInv, Running
<1>. QED
  BY <1>4, <1>5, <1>7 DEF HolesInv

\* Of a process that died nothing is asked.
LEMMA HolesDead ==
    ASSUME pc' \in Stopped \ {"exited"}
    PROVE  HolesInv'
BY DEF HolesInv, OpenInv, Parted, StartInv, Linked, HoleInv, SkipInv, Alive, Running, Stopped

\* Every step keeps each hole inside a gap.
LEMMA HolesStep == BaseInv /\ HolesInv /\ [Next]_vars => HolesInv'
<1>. SUFFICES ASSUME BaseInv, HolesInv, [Next]_vars PROVE HolesInv'
  OBVIOUS
<1>0. after \in {"top", "closing"} /\ stop \in BOOLEAN /\ expired \in BOOLEAN
  BY DEF BaseInv, Typed, TypeOK
<1>1. CASE Connect
  BY <1>1, HolesConnect
<1>2. CASE Disconnected
  BY <1>2, HolesDisconnect DEF Disconnected, Running, conn, history
<1>3. CASE SelfExit
  BY <1>3, HolesExit
<1>4. CASE Restart
  BY <1>4, HolesRestart
<1>5. CASE IngestTrade
  <2>1. CASE CurrentKind \in {"ok", "noField"}
    BY <1>5, <2>1, HolesObserve
  <2>2. CASE CurrentKind = "noTime"
    BY <1>5, <2>2, HolesSkip
  <2>3. CASE CurrentKind = "nullNumber"
    <3>1. pc' = "driftCrash"
      BY <1>5, <2>3 DEF IngestTrade
    <3>. QED
      BY <3>1, HolesDead DEF Stopped
  <2>. QED
    BY <1>5, <2>1, <2>2, <2>3 DEF IngestTrade
<1>6. ASSUME NEW c \in Coins, NEW n \in 0..MaxTrades, RecvFrame(c, n)
      PROVE  HolesInv'
  <2>1. /\ pc = "recv" /\ pc' = "ingest" /\ UNCHANGED <<observed, skipped, tracker, gaps>>
        /\ frame = NoFrame
    BY <1>6 DEF RecvFrame, BaseInv, ReadInv, Running
  <2>2. ASSUME NEW d \in Coins PROVE ReadTo(d)' = ReadTo(d)
    <3>1. n \in Nat /\ cursor[c] \in Nat /\ cursor[d] \in Nat
      BY TapeType, IngesterAssumption DEF BaseInv, IngesterAssumption
    <3>2. ReadTo(d) = cursor[d]
      BY <2>1 DEF ReadTo, NoFrame
    <3>3. cursor'[d] = IF d = c THEN cursor[d] + n ELSE cursor[d]
      BY <1>6 DEF RecvFrame, BaseInv, Typed, TypeOK
    <3>4. frame'.coin = c /\ frame'.next = cursor[c] /\ frame'.to = cursor[c] + n - 1
      BY <1>6 DEF RecvFrame
    <3>. QED
      BY <3>1, <3>2, <3>3, <3>4 DEF ReadTo
  <2>. QED
    BY <2>1, <2>2, HolesQuiet DEF Running, Linked, Parted
<1>7. CASE FrameDone
  <2>1. /\ pc = "ingest" /\ pc' = "flush" /\ UNCHANGED <<observed, skipped, tracker, gaps>>
    BY <1>7 DEF FrameDone, history
  <2>2. ASSUME NEW d \in Coins PROVE ReadTo(d)' = ReadTo(d)
    <3>1. ~(frame.next <= frame.to) /\ frame' = NoFrame /\ cursor' = cursor
      BY <1>7 DEF FrameDone, BaseInv, Typed, TypeOK
    <3>. QED
      BY <3>1 DEF ReadTo, NoFrame
  <2>. QED
    BY <2>1, <2>2, HolesQuiet DEF Running, Linked, Parted
<1>8. CASE UNCHANGED <<observed, skipped, tracker, gaps, frame, cursor>> /\
             (OuterLoop \/ InnerLoop \/ RecvTimeout \/ BackoffOver \/ FinalFlush \/ Kill)
  <2>1. \A d \in Coins : ReadTo(d)' = ReadTo(d)
    BY <1>8 DEF ReadTo
  <2>2. /\ pc' \in Running => pc \in Running
        /\ pc' = "exited" => pc = "exited"
    BY <1>8 DEF OuterLoop, InnerLoop, RecvTimeout, BackoffOver, FinalFlush, Kill, Running
  <2>3. (Linked' => Linked) /\ (Parted' => Parted)
    BY <1>8 DEF OuterLoop, InnerLoop, RecvTimeout, BackoffOver, FinalFlush, Kill, Linked,
                Parted, Ending, flags, sends
  <2>. QED
    BY <1>8, <2>1, <2>2, <2>3, HolesQuiet
<1>9. CASE UNCHANGED <<observed, skipped, tracker, gaps, frame, cursor>> /\
             (FlushStart \/ NextBatch \/ \E failed \in SUBSET batch : PutRecords(failed))
  <2>1. \A d \in Coins : ReadTo(d)' = ReadTo(d)
    BY <1>9 DEF ReadTo
  <2>2. pc \in {"flush", "put"} /\ pc' \in {"flush", "put", after, "sendFailed"} /\ after' = after
    BY <1>9 DEF FlushStart, NextBatch, PutRecords
  <2>. QED
    BY <1>0, <1>9, <2>1, <2>2, HolesQuiet DEF Running, Linked, Parted
<1>10. CASE UNCHANGED <<observed, skipped, tracker, gaps, frame, cursor, pc, after>> /\
              (ScaleToZero \/ Expire \/ UNCHANGED <<stop, expired>>)
  <2>1. \A d \in Coins : ReadTo(d)' = ReadTo(d)
    BY <1>10 DEF ReadTo
  <2>2. Parted' => Parted
    <3>1. ASSUME pc = "outer", ~Ending' PROVE ~Ending
      <4>1. CASE ScaleToZero
        BY <3>1, <4>1 DEF ScaleToZero, Ending, Running
      <4>2. CASE Expire
        BY <3>1, <4>2 DEF Expire, Ending
      <4>3. CASE UNCHANGED <<stop, expired>>
        BY <3>1, <4>3 DEF Ending
      <4>. QED
        BY <1>10, <4>1, <4>2, <4>3
    <3>. QED
      BY <1>10, <3>1 DEF Parted
  <2>. QED
    BY <1>10, <2>1, <2>2, HolesQuiet DEF Linked
<1>11. CASE \E c \in Coins, kind \in Kinds, dt \in {0, 1} : Trade(c, kind, dt)
  <2>1. UNCHANGED <<observed, skipped, tracker, gaps, frame, cursor, pc, after, stop, expired>>
    BY <1>11 DEF Trade, conn, sends, flags, history
  <2>. QED
    BY <1>10, <2>1
<1>12. CASE ScaleToZero \/ Expire \/ UNCHANGED vars
  <2>1. UNCHANGED <<observed, skipped, tracker, gaps, frame, cursor, pc, after>>
    BY <1>12 DEF ScaleToZero, Expire, conn, sends, vars, history
  <2>2. ScaleToZero \/ Expire \/ UNCHANGED <<stop, expired>>
    BY <1>12 DEF vars, flags
  <2>. QED
    BY <1>10, <2>1, <2>2
<1>13. CASE \/ OuterLoop \/ InnerLoop \/ RecvTimeout \/ BackoffOver \/ FinalFlush \/ Kill
            \/ FlushStart \/ NextBatch \/ \E failed \in SUBSET batch : PutRecords(failed)
  <2>1. UNCHANGED <<observed, skipped, tracker, gaps, frame, cursor>>
    BY <1>13 DEF OuterLoop, InnerLoop, RecvTimeout, BackoffOver, FinalFlush, Kill, FlushStart,
                 NextBatch, PutRecords, conn, history
  <2>. QED
    BY <1>8, <1>9, <1>13, <2>1
<1>14. ASSUME NEW taken \in SUBSET batch, PutRaises(taken)
       PROVE  HolesInv'
  <2>1. CASE pc' = "backoff"
    <3>1. /\ pc \in Running /\ tracker' = OnDisconnect(tracker)
          /\ UNCHANGED <<tape, observed, skipped, gaps, cursor, frame>>
      BY <1>14, <2>1 DEF PutRaises, Running, conn
    <3>. QED
      BY <2>1, <3>1, HolesDisconnect
  <2>2. CASE pc' = "sendFailed"
    BY <2>2, HolesDead DEF Stopped
  <2>. QED
    BY <1>14, <2>1, <2>2 DEF PutRaises
<1>. QED
  BY <1>1, <1>2, <1>3, <1>4, <1>5, <1>6, <1>7, <1>11, <1>12, <1>13, <1>14
     DEF Next, Process, Environment

\* In a living process the invariants leave no hole unexplained.
LEMMA HolesExplained == BaseInv /\ HolesInv => NoSilentHole
<1>. SUFFICES ASSUME BaseInv, HolesInv, Alive, NEW id \in Between(observed)
              PROVE  \/ id \in Kept \cup skipped \cup lost
                     \/ Explained(gaps, id)
                     \/ tracker.open[id[1]] # NoTime /\ TimeOf(id) >= tracker.open[id[1]]
                     \/ pc = "exited" /\ IsMaxTime(tracker, TimeOf(id))
  BY DEF NoSilentHole
<1>1. PICK c \in Coins : id \in {c} \X Taped(c)
  BY DEF Between, Printed
<1>2. PICK j \in Taped(c) : id = <<c, j>>
  BY <1>1
<1>3. id[1] = c /\ id[2] = j /\ TimeOf(id) = TimeAt(c, j)
  BY <1>2 DEF TimeOf, TimeAt
<1>4. PICK i \in Taped(c), k \in Taped(c) :
         i < j /\ j < k /\ <<c, i>> \in observed /\ <<c, k>> \in observed
  BY <1>3 DEF Between
<1>5. i \in Seen(c) /\ k \in Seen(c)
  BY <1>4 DEF Seen
<1>6. CASE id \in observed
  <2>1. id \in GoodObserved \/ id \in skipped
    BY <1>6 DEF HolesInv, SkipInv, GoodObserved
  <2>. QED
    BY <2>1 DEF BaseInv, SendInv
<1>7. CASE id \notin observed /\ id \notin skipped
  <2>1. j \in Missing(c)
    BY <1>2, <1>7 DEF Seen, Missing
  <2>2. j \in Inside(c) /\ j \in Passed(c)
    BY <1>4, <1>5, <2>1 DEF Inside, Passed, Missing
  <2>3. CASE pc \in Running
    BY <1>2, <1>3, <2>2, <2>3 DEF HolesInv, HoleInv, Known
  <2>4. CASE pc = "exited"
    BY <1>2, <1>3, <2>2, <2>4 DEF HolesInv, HoleInv
  <2>. QED
    BY <2>3, <2>4 DEF Alive
<1>. QED
  BY <1>6, <1>7

\* Inside one process no hole is silent (observe_trade, on_disconnect, close_open_gaps and
\* the replay on subscribing): for any watchlist, depth of the replay, feed, kinds of
\* malformed messages, drops and batches, a trade between two observed ones of its coin is
\* sent, on its way, covered by a gap of that coin, skipped with a message_error line, or
\* one of the rows that a raising put_records call lost.
THEOREM HolesAreExplained == Spec => []NoSilentHole
<1>1. BaseInv /\ HolesInv /\ [Next]_vars => HolesInv'
  BY HolesStep
<1>. QED
  BY <1>1, BaseAlways, HolesInit, HolesExplained, PTL DEF Spec
===============================================================================
