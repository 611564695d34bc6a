------------------------------- MODULE Ingester -------------------------------
(***************************************************************************)
(* The live path up to the Kinesis stream: the exchange's WebSocket feed,  *)
(* the single-threaded ingester process (ingester.py) and the ECS service  *)
(* that restarts it.                                                       *)
(*                                                                         *)
(* The exchange appends trades to one tape per coin; a trade is <<coin,    *)
(* index>>.  Subscribing replays the last SnapshotDepth trades of a coin   *)
(* and then streams on, so a connection reads each tape from a cursor.     *)
(* run() is cut at its awaits and at every call that touches shared state: *)
(* a kill can fall between any two of those steps.                         *)
(***************************************************************************)
EXTENDS GapTracker, Sequences, FiniteSets

CONSTANTS
    Kinds,           \* what a trade on the wire may look like, see KindNames
    SnapshotDepth,   \* trades replayed per coin on subscribe (30 in production)
    MaxRecords,      \* records per PutRecords call (500 in production)
    MaxAttempts,     \* PutRecords attempts per batch (5 in production)
    BackoffBase, BackoffMax,  \* reconnect delay, doubling between the two
    Inject,          \* is the one-shot test disconnect configured?
    MaxTrades,       \* bound: trades of all coins together
    MaxDrops,        \* bound: lost or refused connections
    MaxKills,        \* bound: processes killed from outside
    MaxRaises,       \* bound: PutRecords calls that raise
    MaxRestarts      \* bound: tasks the ECS service starts again

\* "ok"          every field the envelope needs is there
\* "noTime"      coin or time missing: raises before observe_trade returns
\* "noField"     another field missing: raises KeyError after observe_trade
\* "nullNumber"  px or sz null: Decimal("None") raises InvalidOperation
KindNames == {"ok", "noTime", "noField", "nullNumber"}

ASSUME IngesterAssumption ==
    /\ Kinds \subseteq KindNames
    /\ SnapshotDepth \in Nat /\ MaxRecords \in Nat \ {0} /\ MaxAttempts \in Nat \ {0}
    /\ BackoffBase \in Nat \ {0} /\ BackoffMax \in Nat /\ BackoffBase <= BackoffMax
    /\ Inject \in BOOLEAN
    /\ MaxTrades \in Nat /\ MaxDrops \in Nat /\ MaxKills \in Nat /\ MaxRestarts \in Nat
    /\ MaxRaises \in Nat

VARIABLES
    tape,      \* the exchange: per coin, the trades so far
    clock,     \* the event time of the newest trade
    desired,   \* desired count of the ECS service is 1
    cursor,    \* next index of each tape on the current connection
    pc,        \* where the process is
    frame,     \* trades of the WebSocket message not yet ingested
    tracker,   \* the GapTracker
    pending,   \* _pending_rows
    outbox,    \* rows of the running _flush not yet handed to a batch
    batch,     \* entries of the running put_batch_with_retry not yet accepted
    attempt,   \* its attempt number
    after,     \* where the running _flush returns to
    stop,      \* the stop event is set
    expired,   \* max_session_hours have passed
    inject,    \* _inject_pending
    backoff,   \* the next reconnect delay
    stream,    \* trades accepted by the Kinesis stream
    gaps,      \* gap_recorded lines of this process
    received,  \* history: trades this process was sent, in a message it read
    observed,  \* history: trades it has observed
    skipped,   \* history: trades it gave up with a message_error line
    lost,      \* history: rows it gave up when put_records raised
    drops, kills, restarts, raises

conn  == <<cursor, frame>>
sends == <<pending, outbox, batch, attempt, after>>
flags == <<stop, expired, inject>>
counts == <<drops, kills, restarts, raises>>
history == <<received, observed, skipped, lost>>
vars == <<tape, clock, desired, conn, pc, tracker, sends, flags, backoff, stream,
          gaps, history, counts>>

Trades == Coins \X (Nat \ {0})
Running == {"outer", "connecting", "top", "recv", "closed", "ingest", "flush", "put",
            "backoff", "final", "closing"}
Stopped == {"exited", "sendFailed", "driftCrash", "killed"}

TimeOf(id) == tape[id[1]][id[2]].time
Taped(c) == 1..Len(tape[c])
Printed == UNION {{c} \X Taped(c) : c \in Coins}
NoFrame == [coin |-> "none", next |-> 1, to |-> 0]
-------------------------------------------------------------------------------
(* A process as ECS starts it: nothing survives from the one before.       *)
FreshProcess ==
    /\ pc' = "outer" /\ frame' = NoFrame /\ tracker' = FreshTracker
    /\ pending' = {} /\ outbox' = {} /\ batch' = {} /\ attempt' = 1 /\ after' = "top"
    /\ stop' = FALSE /\ expired' = FALSE /\ inject' = Inject
    /\ backoff' = BackoffBase
    /\ gaps' = {} /\ received' = {} /\ observed' = {} /\ skipped' = {} /\ lost' = {}

Init ==
    /\ tape = [c \in Coins |-> <<>>] /\ clock = 0 /\ desired = TRUE
    /\ cursor = [c \in Coins |-> 1]
    /\ pc = "outer" /\ frame = NoFrame /\ tracker = FreshTracker
    /\ pending = {} /\ outbox = {} /\ batch = {} /\ attempt = 1 /\ after = "top"
    /\ stop = FALSE /\ expired = FALSE /\ inject = Inject
    /\ backoff = BackoffBase
    /\ stream = {} /\ gaps = {}
    /\ received = {} /\ observed = {} /\ skipped = {} /\ lost = {}
    /\ drops = 0 /\ kills = 0 /\ restarts = 0 /\ raises = 0

-------------------------------------------------------------------------------
(* The environment: the exchange, the clock on the wall, ECS.              *)

\* A trade prints, at the time of the newest one or one tick later.
Trade(c, kind, dt) ==
    /\ Cardinality(Printed) < MaxTrades
    /\ clock' = clock + dt
    /\ tape' = [tape EXCEPT ![c] = Append(@, [time |-> clock + dt, kind |-> kind])]
    /\ UNCHANGED <<desired, conn, pc, tracker, sends, flags, backoff, stream, gaps,
                   history, counts>>

\* session-down or the reaper scales the service to zero: SIGTERM sets the event.
ScaleToZero ==
    /\ desired
    /\ desired' = FALSE
    /\ stop' = (pc \in Running)
    /\ UNCHANGED <<tape, clock, conn, pc, tracker, sends, expired, inject, backoff,
                   stream, gaps, history, counts>>

Expire ==
    /\ pc \in Running /\ ~expired
    /\ expired' = TRUE
    /\ UNCHANGED <<tape, clock, desired, conn, pc, tracker, sends, stop, inject,
                   backoff, stream, gaps, history, counts>>

\* SIGKILL (ECS stop timeout), lost host, out of memory.
Kill ==
    /\ pc \in Running /\ kills < MaxKills
    /\ pc' = "killed" /\ kills' = kills + 1
    /\ UNCHANGED <<tape, clock, desired, conn, tracker, sends, flags, backoff, stream,
                   gaps, history, drops, restarts, raises>>

\* The service wants one task and has none: it starts another, also after a self-exit.
Restart ==
    /\ pc \in Stopped /\ desired /\ restarts < MaxRestarts
    /\ restarts' = restarts + 1
    /\ FreshProcess
    /\ UNCHANGED <<tape, clock, desired, cursor, stream, drops, kills, raises>>

-------------------------------------------------------------------------------
(* run(): connection handling.                                             *)
\* Faulty variant: the session limit is not looked at.
Ending_StopOnly == stop

Ending == stop \/ expired

\* The head of the outer loop.
OuterLoop ==
    /\ pc = "outer"
    /\ pc' = IF Ending THEN "final" ELSE "connecting"
    /\ UNCHANGED <<tape, clock, desired, conn, tracker, sends, flags, backoff, stream,
                   gaps, history, counts>>

SnapshotStart(c) ==
    IF Len(tape[c]) > SnapshotDepth THEN Len(tape[c]) - SnapshotDepth + 1 ELSE 1

\* Connected and subscribed to every coin.
Connect ==
    /\ pc = "connecting"
    /\ pc' = "top" /\ backoff' = BackoffBase
    /\ cursor' = [c \in Coins |-> SnapshotStart(c)]
    /\ UNCHANGED <<tape, clock, desired, frame, tracker, sends, flags, stream, gaps,
                   history, counts>>

\* The head of the inner loop: leave, close the socket once for the test, or read.
InnerLoop ==
    /\ pc = "top"
    /\ \/ /\ Ending
          /\ pc' = "outer" /\ UNCHANGED inject
       \/ /\ ~Ending /\ inject
          /\ pc' = "closed" /\ inject' = FALSE
       \/ /\ ~Ending
          /\ pc' = "recv" /\ UNCHANGED inject
    /\ UNCHANGED <<tape, clock, desired, conn, tracker, sends, stop, expired, backoff,
                   stream, gaps, history, counts>>

RecvTimeout ==
    /\ pc = "recv"
    /\ pc' = "top"
    /\ UNCHANGED <<tape, clock, desired, conn, tracker, sends, flags, backoff, stream,
                   gaps, history, counts>>

\* A message of n trades of one coin, or none at all (a subscription ack).
RecvFrame(c, n) ==
    /\ pc = "recv"
    /\ cursor[c] + n - 1 <= Len(tape[c])
    /\ pc' = "ingest"
    /\ frame' = [coin |-> c, next |-> cursor[c], to |-> cursor[c] + n - 1]
    /\ cursor' = [cursor EXCEPT ![c] = @ + n]
    /\ received' = received \cup {c} \X (cursor[c]..cursor[c] + n - 1)
    /\ UNCHANGED <<tape, clock, desired, tracker, sends, flags, backoff, stream, gaps,
                   observed, skipped, lost, counts>>

\* WebSocketException or OSError: while connecting, while reading, or after the
\* injected close.  Whatever the socket still held is gone.
Disconnected ==
    /\ \/ pc \in {"connecting", "recv"} /\ drops < MaxDrops /\ drops' = drops + 1
       \/ pc = "closed" /\ UNCHANGED drops
    /\ pc' = "backoff"
    /\ tracker' = OnDisconnect(tracker)
    /\ UNCHANGED <<tape, clock, desired, conn, sends, flags, backoff, stream, gaps,
                   history, kills, restarts, raises>>

\* Faulty variant: the doubled delay is not capped.
Doubled_Uncapped(b) == 2 * b

Doubled(b) == IF 2 * b < BackoffMax THEN 2 * b ELSE BackoffMax

\* The sleep ends; a stop that arrived meanwhile is only looked at now.
BackoffOver ==
    /\ pc = "backoff"
    /\ pc' = "outer"
    /\ backoff' = Doubled(backoff)
    /\ UNCHANGED <<tape, clock, desired, conn, tracker, sends, flags, stream, gaps,
                   history, counts>>
-------------------------------------------------------------------------------
(* _ingest_trades: one trade of the message at a time, then one flush.     *)
Current == <<frame.coin, frame.next>>
CurrentKind == tape[frame.coin][frame.next].kind

\* What the message still holds, the current trade first.
Unread == {frame.coin} \X (frame.next..frame.to)

\* observe_trade for the current trade, with its gap_recorded line.
ObserveCurrent ==
    LET t == TimeOf(Current) IN
    /\ tracker' = Observe(tracker, frame.coin, t)
    /\ gaps' = gaps \cup ClosedBy(tracker, frame.coin, t)
    /\ observed' = observed \cup {Current}

IngestTrade ==
    /\ pc = "ingest" /\ frame.next <= frame.to
    /\ \/ /\ CurrentKind = "ok"
          /\ ObserveCurrent
          /\ pending' = pending \cup {Current}
          /\ frame' = [frame EXCEPT !.next = @ + 1]
          /\ UNCHANGED <<pc, skipped>>
       \/ /\ CurrentKind = "noTime"       \* message_error: the rest is skipped
          /\ pc' = "top" /\ frame' = NoFrame /\ skipped' = skipped \cup Unread
          /\ UNCHANGED <<tracker, gaps, observed, pending>>
       \/ /\ CurrentKind = "noField"      \* the same, after the gap was closed
          /\ ObserveCurrent
          /\ pc' = "top" /\ frame' = NoFrame /\ skipped' = skipped \cup Unread
          /\ UNCHANGED pending
       \/ /\ CurrentKind = "nullNumber"   \* InvalidOperation is not caught
          /\ ObserveCurrent
          /\ pc' = "driftCrash" /\ frame' = NoFrame
          /\ UNCHANGED <<pending, skipped>>
    /\ UNCHANGED <<tape, clock, desired, cursor, outbox, batch, attempt, after, flags,
                   backoff, stream, received, lost, counts>>

FrameDone ==
    /\ pc = "ingest" /\ frame.next > frame.to
    /\ pc' = "flush" /\ frame' = NoFrame /\ after' = "top"
    /\ UNCHANGED <<tape, clock, desired, cursor, tracker, pending, outbox, batch,
                   attempt, flags, backoff, stream, gaps, history, counts>>

-------------------------------------------------------------------------------
(* _flush and put_batch_with_retry.                                        *)

\* _flush takes the pending rows, leaving an empty list behind.
FlushStart ==
    /\ pc = "flush"
    /\ IF pending = {} THEN pc' = after ELSE pc' = "put"
    /\ outbox' = pending /\ pending' = {}
    /\ UNCHANGED <<tape, clock, desired, conn, tracker, batch, attempt, after, flags,
                   backoff, stream, gaps, history, counts>>

\* The next chunk, or the end of the loop.  Chunks are cut by count and by bytes.
NextBatch ==
    /\ pc = "put" /\ batch = {}
    /\ IF outbox = {}
       THEN pc' = after /\ UNCHANGED <<outbox, batch, attempt>>
       ELSE \E chunk \in SUBSET outbox :
              /\ chunk # {} /\ Cardinality(chunk) <= MaxRecords
              /\ batch' = chunk /\ outbox' = outbox \ chunk /\ attempt' = 1
              /\ UNCHANGED pc
    /\ UNCHANGED <<tape, clock, desired, conn, tracker, pending, after, flags, backoff,
                   stream, gaps, history, counts>>

\* Faulty variant: records still failing after the last attempt are not raised.
PutRecords_Silent(failed) ==
    /\ pc = "put" /\ batch # {} /\ failed \subseteq batch
    /\ stream' = stream \cup (batch \ failed)
    /\ batch' = IF attempt = MaxAttempts THEN {} ELSE failed
    /\ attempt' = IF attempt = MaxAttempts THEN 1 ELSE attempt + 1
    /\ UNCHANGED <<tape, clock, desired, conn, pc, tracker, pending, outbox, after,
                   flags, backoff, gaps, history, counts>>

\* One PutRecords call: some entries carry an ErrorCode and are tried again; the
\* last attempt raises RuntimeError, which ends the process.
PutRecords(failed) ==
    /\ pc = "put" /\ batch # {} /\ failed \subseteq batch
    /\ stream' = stream \cup (batch \ failed)
    /\ batch' = failed
    /\ IF failed = {}
       THEN UNCHANGED <<pc, attempt>>
       ELSE IF attempt = MaxAttempts
            THEN pc' = "sendFailed" /\ UNCHANGED attempt
            ELSE attempt' = attempt + 1 /\ UNCHANGED pc
    /\ UNCHANGED <<tape, clock, desired, conn, tracker, pending, outbox, after, flags,
                   backoff, gaps, history, counts>>

\* The call raises, whatever the stream took of it.  A timeout of botocore is an OSError:
\* run() takes one for a lost socket, and the rows of this flush, which _pending_rows no
\* longer holds, are gone.  Any other error, or one in the last flush, ends the process.
PutRaises(taken) ==
    /\ pc = "put" /\ batch # {} /\ taken \subseteq batch /\ raises < MaxRaises
    /\ raises' = raises + 1
    /\ \/ after = "top" /\ pc' = "backoff" /\ tracker' = OnDisconnect(tracker)
       \/ pc' = "sendFailed" /\ UNCHANGED tracker
    /\ stream' = stream \cup taken
    /\ lost' = lost \cup outbox \cup (batch \ taken)
    /\ outbox' = {} /\ batch' = {} /\ attempt' = 1
    /\ UNCHANGED <<tape, clock, desired, conn, pending, after, flags, backoff, gaps,
                   received, observed, skipped, drops, kills, restarts>>

\* After the outer loop: one last flush, then close_open_gaps and self_exit.
FinalFlush ==
    /\ pc = "final"
    /\ pc' = "flush" /\ after' = "closing"
    /\ UNCHANGED <<tape, clock, desired, conn, tracker, pending, outbox, batch, attempt,
                   flags, backoff, stream, gaps, history, counts>>

SelfExit ==
    /\ pc = "closing"
    /\ pc' = "exited"
    /\ gaps' = gaps \cup OpenGapsClosed(tracker)
    /\ tracker' = [tracker EXCEPT !.open = NoEntries]
    /\ UNCHANGED <<tape, clock, desired, conn, sends, flags, backoff, stream, history,
                   counts>>

-------------------------------------------------------------------------------
Process ==
    \/ OuterLoop \/ Connect \/ InnerLoop \/ RecvTimeout \/ Disconnected \/ BackoffOver
    \/ \E c \in Coins, n \in 0..MaxTrades : RecvFrame(c, n)
    \/ IngestTrade \/ FrameDone \/ FlushStart \/ NextBatch \/ FinalFlush \/ SelfExit
    \/ \E failed \in SUBSET batch : PutRecords(failed)
    \/ \E taken \in SUBSET batch : PutRaises(taken)

Environment ==
    \/ \E c \in Coins, kind \in Kinds, dt \in {0, 1} : Trade(c, kind, dt)
    \/ ScaleToZero \/ Expire \/ Kill \/ Restart

Next == Process \/ Environment

Spec == Init /\ [][Next]_vars

\* The event loop keeps running the process: recv times out, put_records returns or
\* raises, sleeps end.  Nothing is assumed of the exchange, of ECS or of a stop request.
FairSpec == Spec /\ WF_vars(Process)
-------------------------------------------------------------------------------
(* Properties.                                                             *)

TypeOK ==
    /\ tape \in [Coins -> Seq([time : Nat, kind : Kinds])]
    /\ clock \in Nat /\ desired \in BOOLEAN
    /\ cursor \in [Coins -> Nat \ {0}]
    /\ pc \in Running \cup Stopped
    /\ frame \in [coin : Coins \cup {"none"}, next : Nat, to : Nat]
    /\ tracker \in Trackers
    /\ pending \subseteq Trades /\ outbox \subseteq Trades /\ batch \subseteq Trades
    /\ attempt \in 1..MaxAttempts /\ after \in {"top", "closing"}
    /\ stop \in BOOLEAN /\ expired \in BOOLEAN /\ inject \in BOOLEAN
    /\ backoff \in BackoffBase..BackoffMax
    /\ stream \subseteq Trades /\ gaps \subseteq Gap
    /\ received \subseteq Trades /\ observed \subseteq Trades
    /\ skipped \subseteq Trades /\ lost \subseteq Trades
    /\ drops \in 0..MaxDrops /\ kills \in 0..MaxKills /\ restarts \in 0..MaxRestarts
    /\ raises \in 0..MaxRaises

Alive == pc \in Running \cup {"exited"}

Within(g, c, t) == g.coin = c /\ g.start <= t /\ t <= g.end

\* The rows that have not been given up: sent, or in the process's hands.
Kept == stream \cup pending \cup outbox \cup batch

Explained(lines, id) == \E g \in lines : Within(g, id[1], TimeOf(id))

\* The trades a coin printed between two of its trades in seen.
Between(seen) ==
    {id \in Printed : \E i, k \in Taped(id[1]) :
                        /\ i < id[2] /\ id[2] < k
                        /\ <<id[1], i>> \in seen /\ <<id[1], k>> \in seen}

\* Inside one process no hole is silent: a trade that lies between two observed trades
\* of its coin is in the stream, still on its way there, or covered by a gap of that
\* coin, recorded or open (observe_trade, on_disconnect, close_open_gaps), or it was
\* given up with a message_error line (the rest of a malformed message).
\* Two exceptions: a gap after which no coin ever traded later is not emitted by
\* close_open_gaps, so trades of its very first instant stay unexplained; and rows lost
\* to a put_records call that raised, which are from before the gap it opens.
NoSilentHole ==
    Alive => \A id \in Between(observed) :
        \/ id \in Kept \cup skipped \cup lost
        \/ Explained(gaps, id)
        \/ tracker.open[id[1]] # NoTime /\ TimeOf(id) >= tracker.open[id[1]]
        \/ pc = "exited" /\ IsMaxTime(tracker, TimeOf(id))

\* What a process recorded can be healed: a gap is never empty (heal rejects that),
\* and two gaps of a coin share at most an end point, so no trade is counted missing
\* twice (strict comparison in observe_trade, setdefault in on_disconnect).
GapsAreDisjoint ==
    /\ \A g \in gaps : g.start < g.end
    /\ \A g, h \in gaps : g.coin = h.coin /\ g # h => g.end <= h.start \/ h.end <= g.start

\* A well-formed trade that a message brought is never dropped by a living process:
\* through the loop over the message, the swap of _pending_rows, chunking, partial
\* PutRecords failures and retries it is in the stream or still in hand, and self_exit
\* leaves nothing.  Only two things give trades up: a malformed one in front of them in
\* their message, with a message_error line, and a put_records call that raises.
NothingDropped ==
    /\ Alive => \A id \in received :
         tape[id[1]][id[2]].kind = "ok" => id \in Kept \cup Unread \cup skipped \cup lost
    /\ pc = "exited" => pending \cup outbox \cup batch = {}

\* An open gap is never forgotten or moved: it disappears only into a gap_recorded
\* line with its start, at a self-exit that saw no later trade, or with the process.
OpenGapsAreAccounted ==
    [][\A c \in Coins :
          LET start == tracker.open[c] IN
          start # NoTime =>
              \/ tracker'.open[c] = start
              \/ \E g \in gaps' : g.coin = c /\ g.start = start /\ g \notin gaps
              \/ pc' = "exited" /\ \A d \in Coins : tracker.last[d] <= start
              \/ pc \in Stopped]_vars

\* A stop request or the session limit ends the process, wherever it is: reading a
\* busy feed, retrying PutRecords, sleeping between attempts to reconnect.
StopEnds == (stop \/ expired) ~> pc \in Stopped
===============================================================================
