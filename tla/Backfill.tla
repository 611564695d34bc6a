------------------------------- MODULE Backfill -------------------------------
(***************************************************************************)
(* The historical path: archive hour files to bronze.  A Step Functions    *)
(* Map runs one Lambda per hour file (official.py, backfill.asl.json), or  *)
(* an operator runs the daily fallback reader (reservoir.py).  Both write  *)
(* one Parquet object per coin, event day and hour, at a fixed key.        *)
(*                                                                         *)
(* Hours are counted from the first one of the archive.  Hour file f holds *)
(* the trades whose block arrived in hour f: events of hour f, and late    *)
(* events of hour f - 1.                                                   *)
(***************************************************************************)
EXTENDS Integers, FiniteSets

CONSTANTS
    Tids,            \* trades of the archive
    Coins,           \* markets of the archive
    Watchlist,       \* the markets the project collects
    FillShapes,      \* what the fills of a trade may look like, see ShapeNames
    EventHours,      \* hours in which trades happen
    HoursPerDay,     \* 24 on the wall
    LastFile,        \* bound: the archive's hour files are 0..LastFile
    Requests,        \* FROM and TO day of `make backfill`
    FallbackDays,    \* days the fallback reader is run for
    MaxConcurrency,  \* Lambdas at a time (10 in production)
    MaxRetries,      \* Map retries of a throttled or timed out Lambda (3)
    MaxRuns          \* bound: executions and fallback runs together

\* "sole"       one fill, which is the row
\* "pair"       two fills, one with crossed = true, collapsed to that one
\* "uncrossed"  two fills, none of them crossed: ValueError
ShapeNames == {"sole", "pair", "uncrossed"}

DayOf(h) == h \div HoursPerDay
HourOf(h) == h % HoursPerDay

Files == 0..LastFile
Days == 0..DayOf(LastFile)

ASSUME BackfillAssumption ==
    /\ Watchlist \subseteq Coins /\ FillShapes \subseteq ShapeNames
    /\ HoursPerDay \in Nat \ {0} /\ LastFile \in Nat
    /\ \A h \in EventHours : h \in Files /\ h + 1 \in Files
    /\ Requests \subseteq [from : Days, to : Days] /\ FallbackDays \subseteq Days
    /\ MaxConcurrency \in Nat \ {0} /\ MaxRetries \in Nat /\ MaxRuns \in Nat

VARIABLES
    archive,    \* per trade: coin, event hour, late into the next file, fills
    landed,     \* hour files published
    bronze,     \* objects under source=backfill: key -> trades in it
    task,       \* per hour file: where its item of the running Map is
    retries,    \* per hour file: retries used
    todo,       \* per hour file: object keys its Lambda has still to write
    request,    \* FROM and TO of the execution, or NoRequest
    day,        \* the day a fallback run is for, or NoDay
    left,       \* object keys it has still to write
    mixed,      \* history: executions and fallback runs overlap
    covered,    \* history: days and hours the last run alone reported as done
    runs

vars == <<archive, landed, bronze, task, retries, todo, request, day, left, mixed,
          covered, runs>>
execution == <<task, retries, todo, request>>
fallback == <<day, left>>

NoDay == -1
NoRequest == [from |-> NoDay, to |-> NoDay]
Statuses == {"none", "waiting", "running", "ok", "failed"}

FileOf(t) == archive[t].event + archive[t].late

Watched(t) == archive[t].coin \in Watchlist
FileTrades(f) == {t \in Tids : Watched(t) /\ FileOf(t) = f}
DayTrades(d) == {t \in Tids : Watched(t) /\ DayOf(archive[t].event) = d}
-------------------------------------------------------------------------------
(* Object keys and the rows behind them.                                   *)

\* Faulty variant: the object key leaves the event day out.
Key_NoDay(t, hour) == [coin |-> archive[t].coin, dt |-> 0, hour |-> hour]

\* coin=<coin>/dt=<event day>/source=backfill/hour=<hour>.parquet
Key(t, hour) == [coin |-> archive[t].coin, dt |-> DayOf(archive[t].event), hour |-> hour]

\* The official reader uses the hour of the file, the fallback that of the event.
FileKey(t) == Key(t, HourOf(FileOf(t)))
EventKey(t) == Key(t, HourOf(archive[t].event))

Keys == [coin : Coins, dt : Days, hour : 0..(HoursPerDay - 1)]

\* A group of fills of one tid that cannot be collapsed fails the whole run.
Collapsible(trades) == \A t \in trades : archive[t].fills # "uncrossed"

\* put_object replaces whatever the key held.
Put(key, rows) == bronze' = [bronze EXCEPT ![key] = rows]

InBronze(t) == \E k \in Keys : t \in bronze[k]
-------------------------------------------------------------------------------
(* hour_list: every hour of the days asked for, and one trailing hour.     *)

\* Faulty variant: no trailing hour.
HourList_NoTrailing(req) ==
    (HoursPerDay * req.from)..(HoursPerDay * (req.to + 1) - 1)

HourList(req) == (HoursPerDay * req.from)..(HoursPerDay * (req.to + 1))

-------------------------------------------------------------------------------
Init ==
    /\ archive \in [Tids -> [coin : Coins, event : EventHours, late : {0, 1},
                             fills : FillShapes]]
    /\ landed = {} /\ bronze = [k \in Keys |-> {}]
    /\ task = [f \in Files |-> "none"] /\ retries = [f \in Files |-> 0]
    /\ todo = [f \in Files |-> {}] /\ request = NoRequest
    /\ day = NoDay /\ left = {}
    /\ mixed = FALSE /\ covered = [days |-> {}, files |-> {}] /\ runs = 0

\* The archive publishes an hour file, about an hour after the hour; it may be missing
\* for long, and files need not appear in order.
Land(f) ==
    /\ f \notin landed
    /\ landed' = landed \cup {f}
    /\ UNCHANGED <<archive, bronze, execution, fallback, mixed, covered, runs>>

-------------------------------------------------------------------------------
(* The Step Functions execution.                                           *)
Started == {f \in Files : task[f] # "none"}
Open == {f \in Files : task[f] \in {"waiting", "running"}}

\* run_backfill: an empty range is a ValueError, otherwise one execution is started.
StartExecution(req) ==
    /\ request = NoRequest /\ req.from <= req.to
    /\ HourList(req) \subseteq Files
    /\ runs < MaxRuns /\ runs' = runs + 1
    /\ request' = req
    /\ task' = [f \in Files |-> IF f \in HourList(req) THEN "waiting" ELSE "none"]
    /\ retries' = [f \in Files |-> 0] /\ todo' = [f \in Files |-> {}]
    /\ mixed' = (day # NoDay) /\ covered' = [days |-> {}, files |-> {}]
    /\ UNCHANGED <<archive, landed, bronze, fallback>>

\* One Map item starts its Lambda.  All rows are grouped by key before the first
\* write; a file that is not there, or a group that cannot be collapsed, is an error,
\* which the Catch turns into a failed hour.
Invoke(f) ==
    /\ task[f] = "waiting"
    /\ Cardinality({g \in Files : task[g] = "running"}) < MaxConcurrency
    /\ IF f \in landed /\ Collapsible(FileTrades(f))
       THEN /\ task' = [task EXCEPT ![f] = "running"]
            /\ todo' = [todo EXCEPT ![f] = {FileKey(t) : t \in FileTrades(f)}]
       ELSE /\ task' = [task EXCEPT ![f] = "failed"] /\ UNCHANGED todo
    /\ UNCHANGED <<archive, landed, bronze, retries, request, fallback, mixed, covered,
                   runs>>

\* The Lambda writes one of its objects.
WriteObject(f, k) ==
    /\ task[f] = "running" /\ k \in todo[f]
    /\ Put(k, {t \in FileTrades(f) : FileKey(t) = k})
    /\ todo' = [todo EXCEPT ![f] = @ \ {k}]
    /\ UNCHANGED <<archive, landed, task, retries, request, fallback, mixed, covered, runs>>

LambdaReturns(f) ==
    /\ task[f] = "running" /\ todo[f] = {}
    /\ task' = [task EXCEPT ![f] = "ok"]
    /\ UNCHANGED <<archive, landed, bronze, retries, todo, request, fallback, mixed,
                   covered, runs>>

\* Faulty variant: retries are not counted.
Retried_Forever(f) ==
    /\ task' = [task EXCEPT ![f] = "waiting"]
    /\ retries' = [retries EXCEPT ![f] = IF @ < MaxRetries THEN @ + 1 ELSE @]

\* Faulty variant: one retry more than the state machine allows.
Retried_OneMore(f) ==
    IF retries[f] <= MaxRetries
    THEN /\ task' = [task EXCEPT ![f] = "waiting"]
         /\ retries' = [retries EXCEPT ![f] = @ + 1]
    ELSE /\ task' = [task EXCEPT ![f] = "failed"]
         /\ UNCHANGED retries

\* Retry, at most MaxRetries times, and then Catch.
Retried(f) ==
    IF retries[f] < MaxRetries
    THEN /\ task' = [task EXCEPT ![f] = "waiting"]
         /\ retries' = [retries EXCEPT ![f] = @ + 1]
    ELSE /\ task' = [task EXCEPT ![f] = "failed"]
         /\ UNCHANGED retries

\* TooManyRequests before the Lambda ran, or States.Timeout in the middle of it.
Interrupted(f) ==
    /\ task[f] \in {"waiting", "running"}
    /\ Retried(f)
    /\ todo' = [todo EXCEPT ![f] = {}]
    /\ UNCHANGED <<archive, landed, bronze, request, fallback, mixed, covered, runs>>

\* Faulty variant: the Catch leaves the hour looking like a result.
Broken_LooksOk(f) ==
    /\ task[f] = "running"
    /\ task' = [task EXCEPT ![f] = "ok"] /\ todo' = [todo EXCEPT ![f] = {}]
    /\ UNCHANGED <<archive, landed, bronze, retries, request, fallback, mixed, covered,
                   runs>>

\* Any other error of the Lambda, with some objects written: Catch, MarkHourFailed.
Broken(f) ==
    /\ task[f] = "running"
    /\ task' = [task EXCEPT ![f] = "failed"] /\ todo' = [todo EXCEPT ![f] = {}]
    /\ UNCHANGED <<archive, landed, bronze, retries, request, fallback, mixed, covered,
                   runs>>

\* Every item has ended; backfill.py reports the failed hours.
FinishExecution ==
    /\ request # NoRequest /\ Open = {}
    /\ covered' =
         IF mixed THEN covered
         ELSE [files |-> {f \in Files : task[f] = "ok"},
               days |-> IF \A f \in Started : task[f] = "ok"
                        THEN request.from..request.to ELSE {}]
    /\ task' = [f \in Files |-> "none"] /\ request' = NoRequest
    /\ mixed' = (mixed /\ day # NoDay)
    /\ UNCHANGED <<archive, landed, bronze, retries, todo, fallback, runs>>

-------------------------------------------------------------------------------
(* The fallback reader, run by hand; its daily file holds the day's events. *)

\* The keys of all rows are known before the first object is written.
StartFallback(d) ==
    /\ day = NoDay /\ runs < MaxRuns /\ runs' = runs + 1
    /\ Collapsible(DayTrades(d))
    /\ day' = d /\ left' = {EventKey(t) : t \in DayTrades(d)}
    /\ mixed' = (request # NoRequest) /\ covered' = [days |-> {}, files |-> {}]
    /\ UNCHANGED <<archive, landed, bronze, execution>>

WriteFallback(k) ==
    /\ day # NoDay /\ k \in left
    /\ Put(k, {t \in DayTrades(day) : EventKey(t) = k})
    /\ left' = left \ {k}
    /\ UNCHANGED <<archive, landed, execution, day, mixed, covered, runs>>

FallbackReturns ==
    /\ day # NoDay /\ left = {}
    /\ covered' = IF mixed THEN covered ELSE [days |-> {day}, files |-> {}]
    /\ day' = NoDay /\ mixed' = (mixed /\ request # NoRequest)
    /\ UNCHANGED <<archive, landed, bronze, execution, left, runs>>

\* It is interrupted with some objects written.
FallbackBreaks ==
    /\ day # NoDay
    /\ day' = NoDay /\ left' = {} /\ mixed' = (mixed /\ request # NoRequest)
    /\ UNCHANGED <<archive, landed, bronze, execution, covered, runs>>

-------------------------------------------------------------------------------
Proceed ==
    \/ \E f \in Files :
         \/ Invoke(f) \/ LambdaReturns(f) \/ Interrupted(f) \/ Broken(f)
         \/ \E k \in todo[f] : WriteObject(f, k)
    \/ FinishExecution

Next ==
    \/ Proceed
    \/ \E f \in Files : Land(f)
    \/ \E req \in Requests : StartExecution(req)
    \/ \E d \in FallbackDays : StartFallback(d)
    \/ \E k \in left : WriteFallback(k)
    \/ FallbackReturns \/ FallbackBreaks

Spec == Init /\ [][Next]_vars

\* Step Functions carries on with an execution it has started.
FairSpec == Spec /\ WF_vars(Proceed)

-------------------------------------------------------------------------------
(* Properties.                                                             *)

TypeOK ==
    /\ archive \in [Tids -> [coin : Coins, event : EventHours, late : {0, 1},
                             fills : FillShapes]]
    /\ landed \subseteq Files /\ bronze \in [Keys -> SUBSET Tids]
    /\ task \in [Files -> Statuses] /\ retries \in [Files -> 0..MaxRetries]
    /\ todo \in [Files -> SUBSET Keys]
    /\ request \in Requests \cup {NoRequest} /\ day \in FallbackDays \cup {NoDay}
    /\ left \subseteq Keys /\ mixed \in BOOLEAN
    /\ covered \in [days : SUBSET Days, files : SUBSET Files] /\ runs \in 0..MaxRuns

Idle == request = NoRequest /\ day = NoDay

\* Another hour file writes the same object: the first file of the day of t, which
\* also is the hour number of the first file of the day after.
KeyIsShared(t) ==
    \E u \in Tids : Watched(u) /\ FileOf(u) # FileOf(t) /\ FileKey(u) = FileKey(t)

\* A run that reported no failed hour, and was alone, leaves every watched trade of its
\* days in bronze, late ones included, whatever was interrupted, retried or run before
\* it; except for trades whose object two hour files share (the hour=0 collision).
DaysAreComplete ==
    Idle => \A d \in covered.days : \A t \in DayTrades(d) : InBronze(t) \/ KeyIsShared(t)

\* An hour not reported as failed is an hour in bronze, even if other hours of the same
\* execution failed, so running exactly the reported hours again completes it.
ReportIsHonest ==
    Idle => \A f \in covered.files : \A t \in FileTrades(f) : InBronze(t) \/ KeyIsShared(t)

\* An execution ends, also if every Lambda is throttled or dies each time.
ExecutionEnds == request # NoRequest ~> request = NoRequest

\* hour_list.py: the trailing hour is included "to capture every event whose time falls
\* within [FROM, TO]"; then a fully successful execution has them all.
EveryEventCaptured ==
    Idle => \A d \in covered.days : \A t \in DayTrades(d) : InBronze(t)
===============================================================================
