----------------------------- MODULE BackfillProofs -----------------------------
(***************************************************************************)
(* Theorems about the historical path, for any archive, any number of      *)
(* hours in a day, of Lambdas at a time, of retries and of runs.           *)
(***************************************************************************)
EXTENDS Backfill, TLAPS

-------------------------------------------------------------------------------
(* The inductive invariant.                                                *)

\* An execution works on the files of its list and on no other, two runs at a time are
\* mixed, and while one is on there is no report of the one before.
RunInv ==
    /\ request # NoRequest => HourList(request) \subseteq Files
    /\ \A f \in Files : task[f] # "none" <=> request # NoRequest /\ f \in HourList(request)
    /\ request # NoRequest /\ day # NoDay => mixed
    /\ ~Idle => covered.days = {} /\ covered.files = {}
    /\ \A f \in Files : todo[f] \subseteq {FileKey(t) : t \in FileTrades(f)}

\* What a Lambda has done with t: its object is not, or no longer, on its list.
FileDone(f, t) == task[f] = "ok" \/ (task[f] = "running" /\ FileKey(t) \notin todo[f])

\* A run that is alone has stored what is done of it, each trade under its own key.
StoredInv ==
    /\ request # NoRequest /\ ~mixed =>
         \A f \in Files : \A t \in FileTrades(f) :
             FileDone(f, t) => t \in bronze[FileKey(t)] \/ KeyIsShared(t)
    /\ day # NoDay /\ ~mixed =>
         \A t \in DayTrades(day) : EventKey(t) \notin left => t \in bronze[EventKey(t)]

IInv == TypeOK /\ RunInv /\ StoredInv /\ DaysAreComplete /\ ReportIsHonest
-------------------------------------------------------------------------------
(* Hours, days and keys.                                                   *)

\* Integer division brackets its dividend.
LEMMA DivBounds ==
    ASSUME NEW d \in Nat \ {0}, NEW t \in Int
    PROVE  /\ t \div d \in Int /\ d * (t \div d) \in Int
           /\ d * (t \div d) <= t /\ t < d * (t \div d) + d
OBVIOUS

\* A natural number divides to one, with a remainder below the divisor.
LEMMA DivNat ==
    ASSUME NEW d \in Nat \ {0}, NEW t \in Nat
    PROVE  t \div d \in Nat /\ t % d \in 0..(d - 1)
OBVIOUS

\* Division keeps the order.
LEMMA DivMonotone ==
    ASSUME NEW d \in Nat \ {0}, NEW t \in Int, NEW u \in Int, t <= u
    PROVE  t \div d <= u \div d
BY DivBounds

\* An hour is on the day its number divides to.
LEMMA DayBounds ==
    ASSUME NEW h \in Nat
    PROVE  /\ HoursPerDay \in Nat \ {0} /\ DayOf(h) \in Nat /\ HourOf(h) \in 0..(HoursPerDay - 1)
           /\ HoursPerDay * DayOf(h) <= h /\ h < HoursPerDay * DayOf(h) + HoursPerDay
           /\ h \in Files => DayOf(h) \in Days
<1>1. HoursPerDay \in Nat \ {0} /\ LastFile \in Nat
  BY BackfillAssumption DEF BackfillAssumption
<1>2. DayOf(h) \in Nat /\ HourOf(h) \in 0..(HoursPerDay - 1)
  BY <1>1, DivNat DEF DayOf, HourOf
<1>3. HoursPerDay * DayOf(h) <= h /\ h < HoursPerDay * DayOf(h) + HoursPerDay
  BY <1>1, DivBounds DEF DayOf
<1>4. ASSUME h \in Files PROVE DayOf(h) \in Days
  <2>1. h <= LastFile
    BY <1>1, <1>4 DEF Files
  <2>2. DayOf(h) <= DayOf(LastFile) /\ DayOf(LastFile) \in Nat
    BY <1>1, <2>1, DivMonotone, DivNat DEF DayOf
  <2>. QED
    BY <1>2, <2>2 DEF Days
<1>. QED
  BY <1>1, <1>2, <1>3, <1>4

\* A trade is in an hour file of the archive, and its objects are among the keys.
LEMMA TradeTypes ==
    ASSUME TypeOK, NEW t \in Tids
    PROVE  /\ archive[t].coin \in Coins /\ archive[t].event \in Nat /\ archive[t].late \in {0, 1}
           /\ FileOf(t) \in Files
           /\ FileKey(t) \in Keys /\ EventKey(t) \in Keys
<1>1. /\ archive[t].coin \in Coins /\ archive[t].event \in EventHours
      /\ archive[t].late \in {0, 1}
  BY DEF TypeOK
<1>2. /\ archive[t].event \in 0..LastFile /\ archive[t].event + 1 \in 0..LastFile
      /\ HoursPerDay \in Nat \ {0} /\ LastFile \in Nat
  BY <1>1, BackfillAssumption DEF BackfillAssumption, Files
<1>3. FileOf(t) \in Files
  BY <1>1, <1>2 DEF FileOf, Files
<1>4. \A h \in Files : DayOf(h) \in Days /\ HourOf(h) \in 0..(HoursPerDay - 1)
  BY <1>2, DayBounds DEF Files
<1>5. archive[t].event \in Files
  BY <1>2 DEF Files
<1>6. FileKey(t) \in Keys /\ EventKey(t) \in Keys
  BY <1>1, <1>3, <1>4, <1>5 DEF FileKey, EventKey, Key, Keys
<1>. QED
  BY <1>1, <1>2, <1>3, <1>6

\* hour_list reaches far enough: a trade of a day asked for is in a file of the list, also
\* when it is late into the file after midnight.
LEMMA ListCoversDays ==
    ASSUME TypeOK, NEW req \in [from : Days, to : Days], NEW d \in req.from..req.to,
           NEW t \in DayTrades(d)
    PROVE  FileOf(t) \in HourList(req) /\ t \in FileTrades(FileOf(t))
<1>1. t \in Tids /\ Watched(t) /\ DayOf(archive[t].event) = d
  BY DEF DayTrades
<1>2. HoursPerDay \in Nat \ {0} /\ req.from \in Nat /\ req.to \in Nat /\ d \in Nat
  BY BackfillAssumption, DivNat DEF BackfillAssumption, Days
<1>3. archive[t].event \in Nat /\ archive[t].late \in {0, 1}
  BY <1>1, TradeTypes
<1>4. HoursPerDay * d <= archive[t].event /\ archive[t].event < HoursPerDay * d + HoursPerDay
  BY <1>1, <1>3, DayBounds
<1>5. /\ HoursPerDay * req.from <= HoursPerDay * d
      /\ HoursPerDay * d + HoursPerDay <= HoursPerDay * (req.to + 1)
      /\ HoursPerDay * d \in Int /\ HoursPerDay * req.from \in Int
      /\ HoursPerDay * (req.to + 1) \in Int
  BY <1>2
<1>6. FileOf(t) \in HourList(req)
  BY <1>2, <1>3, <1>4, <1>5 DEF FileOf, HourList
<1>. QED
  BY <1>1, <1>6 DEF FileTrades

-------------------------------------------------------------------------------
(* Type correctness.                                                       *)

\* Every step of an execution, of a fallback run and of the archive keeps the types.
LEMMA TypedStep == TypeOK /\ RunInv /\ [Next]_vars => TypeOK'
<1>. SUFFICES ASSUME TypeOK, RunInv, [Next]_vars PROVE TypeOK'
  OBVIOUS
<1>. USE DEF TypeOK, execution, fallback
<1>1. ASSUME NEW f \in Files, Land(f) PROVE TypeOK'
  BY <1>1 DEF Land
<1>2. ASSUME NEW req \in Requests, StartExecution(req) PROVE TypeOK'
  <2>1. runs' \in 0..MaxRuns /\ retries' \in [Files -> 0..MaxRetries]
    BY <1>2, BackfillAssumption DEF StartExecution, BackfillAssumption
  <2>2. task' \in [Files -> Statuses] /\ todo' \in [Files -> SUBSET Keys]
    BY <1>2 DEF StartExecution, Statuses
  <2>3. mixed' \in BOOLEAN /\ covered' \in [days : SUBSET Days, files : SUBSET Files]
    BY <1>2 DEF StartExecution
  <2>. QED
    BY <1>2, <2>1, <2>2, <2>3 DEF StartExecution
<1>3. ASSUME NEW f \in Files, Invoke(f) PROVE TypeOK'
  <2>1. {FileKey(t) : t \in FileTrades(f)} \subseteq Keys
    BY TradeTypes DEF FileTrades
  <2>. QED
    BY <1>3, <2>1 DEF Invoke, Statuses
<1>4. ASSUME NEW f \in Files, NEW k \in todo[f], WriteObject(f, k) PROVE TypeOK'
  BY <1>4 DEF WriteObject, Put, FileTrades
<1>5. ASSUME NEW f \in Files, LambdaReturns(f) \/ Broken(f) PROVE TypeOK'
  BY <1>5 DEF LambdaReturns, Broken, Statuses
<1>6. ASSUME NEW f \in Files, Interrupted(f) PROVE TypeOK'
  <2>1. retries' \in [Files -> 0..MaxRetries]
    BY <1>6, BackfillAssumption DEF Interrupted, Retried, BackfillAssumption
  <2>2. task' \in [Files -> Statuses] /\ todo' \in [Files -> SUBSET Keys]
    BY <1>6 DEF Interrupted, Retried, Statuses
  <2>. QED
    BY <1>6, <2>1, <2>2 DEF Interrupted
<1>7. CASE FinishExecution
  <2>1. task' \in [Files -> Statuses] /\ mixed' \in BOOLEAN
    BY <1>7 DEF FinishExecution, Statuses
  <2>2. request \in [from : Days, to : Days]
    BY <1>7, BackfillAssumption DEF FinishExecution, BackfillAssumption
  <2>3. request.from..request.to \subseteq Days
    BY <2>2, BackfillAssumption, DivNat DEF Days, DayOf, BackfillAssumption
  <2>4. covered' \in [days : SUBSET Days, files : SUBSET Files]
    BY <1>7, <2>3 DEF FinishExecution
  <2>. QED
    BY <1>7, <2>1, <2>4 DEF FinishExecution
<1>8. ASSUME NEW d \in FallbackDays, StartFallback(d) PROVE TypeOK'
  <2>1. {EventKey(t) : t \in DayTrades(d)} \subseteq Keys
    BY TradeTypes DEF DayTrades
  <2>2. runs' \in 0..MaxRuns /\ mixed' \in BOOLEAN
        /\ covered' \in [days : SUBSET Days, files : SUBSET Files]
    BY <1>8, BackfillAssumption DEF StartFallback, BackfillAssumption
  <2>. QED
    BY <1>8, <2>1, <2>2 DEF StartFallback
<1>9. ASSUME NEW k \in left, WriteFallback(k) PROVE TypeOK'
  BY <1>9 DEF WriteFallback, Put, DayTrades
<1>10. CASE FallbackReturns
  <2>1. mixed' \in BOOLEAN /\ covered' \in [days : SUBSET Days, files : SUBSET Files]
    BY <1>10, BackfillAssumption DEF FallbackReturns, BackfillAssumption
  <2>. QED
    BY <1>10, <2>1 DEF FallbackReturns
<1>11. CASE FallbackBreaks
  <2>1. mixed' \in BOOLEAN
    BY <1>11 DEF FallbackBreaks
  <2>. QED
    BY <1>11, <2>1 DEF FallbackBreaks
<1>12. CASE UNCHANGED vars
  BY <1>12 DEF vars
<1>. QED
  BY <1>1, <1>2, <1>3, <1>4, <1>5, <1>6, <1>7, <1>8, <1>9, <1>10, <1>11, <1>12
     DEF Next, Proceed

-------------------------------------------------------------------------------
(* Executions, fallback runs and their reports.                            *)

\* The markers of a run that is not there are no request and no day.
LEMMA NoRunTypes ==
    /\ \A req \in Requests : req # NoRequest
    /\ \A d \in FallbackDays : d # NoDay
<1>1. \A d \in Days : d # -1
  BY BackfillAssumption DEF Days, BackfillAssumption
<1>. QED
  BY <1>1, BackfillAssumption DEF NoRequest, NoDay, BackfillAssumption

\* Every step keeps the bookkeeping of the runs.
LEMMA RunStep == TypeOK /\ RunInv /\ [Next]_vars => RunInv'
<1>. SUFFICES ASSUME TypeOK, RunInv, [Next]_vars PROVE RunInv'
  OBVIOUS
<1>1. task \in [Files -> Statuses] /\ todo \in [Files -> SUBSET Keys]
  BY DEF TypeOK
<1>2. archive' = archive
  BY DEF Next, Proceed, Land, StartExecution, Invoke, WriteObject, LambdaReturns, Interrupted,
         Broken, FinishExecution, StartFallback, WriteFallback, FallbackReturns,
         FallbackBreaks, vars
<1>3. \A f \in Files : /\ FileTrades(f)' = FileTrades(f)
                       /\ {FileKey(t) : t \in FileTrades(f)}' = {FileKey(t) : t \in FileTrades(f)}
  BY <1>2 DEF FileTrades, Watched, FileOf, FileKey, Key
<1>. USE <1>1, <1>3 DEF RunInv, Idle, execution, fallback
<1>4. ASSUME NEW f \in Files, Land(f) PROVE RunInv'
  BY <1>4 DEF Land
<1>5. ASSUME NEW req \in Requests, StartExecution(req) PROVE RunInv'
  <2>1. req # NoRequest /\ request' = req /\ todo' = [f \in Files |-> {}]
        /\ \A f \in Files : task'[f] # "none" <=> f \in HourList(req)
    BY <1>5, NoRunTypes DEF StartExecution
  <2>. QED
    BY <1>5, <2>1 DEF StartExecution
<1>6. ASSUME NEW f \in Files, Invoke(f) PROVE RunInv'
  BY <1>6 DEF Invoke
<1>7. ASSUME NEW f \in Files, NEW k \in todo[f], WriteObject(f, k) PROVE RunInv'
  BY <1>7 DEF WriteObject
<1>8. ASSUME NEW f \in Files, LambdaReturns(f) \/ Broken(f) PROVE RunInv'
  BY <1>8 DEF LambdaReturns, Broken
<1>9. ASSUME NEW f \in Files, Interrupted(f) PROVE RunInv'
  BY <1>9 DEF Interrupted, Retried
<1>10. CASE FinishExecution
  BY <1>10 DEF FinishExecution
<1>11. ASSUME NEW d \in FallbackDays, StartFallback(d) PROVE RunInv'
  BY <1>11, NoRunTypes DEF StartFallback
<1>12. ASSUME NEW k \in left, WriteFallback(k) PROVE RunInv'
  BY <1>12 DEF WriteFallback
<1>13. CASE FallbackReturns \/ FallbackBreaks
  BY <1>13 DEF FallbackReturns, FallbackBreaks
<1>14. CASE UNCHANGED vars
  BY <1>14 DEF vars
<1>. QED
  BY <1>4, <1>5, <1>6, <1>7, <1>8, <1>9, <1>10, <1>11, <1>12, <1>13, <1>14
     DEF Next, Proceed

\* A Lambda that writes an object replaces that of another file's trade only if the two
\* files share it.
LEMMA WriteKeeps ==
    ASSUME TypeOK, RunInv, NEW f \in Files, NEW k \in todo[f], WriteObject(f, k),
           NEW t \in Tids, Watched(t), t \in bronze[FileKey(t)] \/ KeyIsShared(t)
    PROVE  t \in bronze'[FileKey(t)] \/ KeyIsShared(t)
<1>1. FileKey(t) \in Keys /\ k \in Keys
  BY TradeTypes DEF TypeOK
<1>2. bronze' = [bronze EXCEPT ![k] = {u \in FileTrades(f) : FileKey(u) = k}]
  BY DEF WriteObject, Put
<1>3. CASE FileKey(t) # k
  BY <1>1, <1>2, <1>3 DEF TypeOK
<1>4. CASE FileKey(t) = k /\ FileOf(t) = f
  BY <1>1, <1>2, <1>4 DEF TypeOK, FileTrades
<1>5. CASE FileKey(t) = k /\ FileOf(t) # f
  <2>1. PICK u \in FileTrades(f) : FileKey(u) = k
    BY DEF RunInv
  <2>. QED
    BY <1>5, <2>1 DEF FileTrades, KeyIsShared
<1>. QED
  BY <1>3, <1>4, <1>5

\* Every step of a run that is alone keeps what it has stored.
LEMMA StoredStep == IInv /\ [Next]_vars => StoredInv'
<1>. SUFFICES ASSUME IInv, [Next]_vars PROVE StoredInv'
  OBVIOUS
<1>1. TypeOK /\ RunInv /\ StoredInv
  BY DEF IInv
<1>2. /\ task \in [Files -> Statuses] /\ todo \in [Files -> SUBSET Keys]
      /\ bronze \in [Keys -> SUBSET Tids]
  BY <1>1 DEF TypeOK
<1>3. archive' = archive
  BY DEF Next, Proceed, Land, StartExecution, Invoke, WriteObject, LambdaReturns, Interrupted,
         Broken, FinishExecution, StartFallback, WriteFallback, FallbackReturns,
         FallbackBreaks, vars
<1>4. /\ \A f \in Files : FileTrades(f)' = FileTrades(f)
      /\ \A d : DayTrades(d)' = DayTrades(d)
      /\ \A t : FileKey(t)' = FileKey(t) /\ EventKey(t)' = EventKey(t)
      /\ \A t : KeyIsShared(t)' = KeyIsShared(t)
  BY <1>3 DEF FileTrades, DayTrades, Watched, FileOf, FileKey, EventKey, Key, KeyIsShared
<1>. USE <1>1, <1>2, <1>4 DEF StoredInv, FileDone, execution, fallback
<1>5. ASSUME NEW f \in Files, Land(f) PROVE StoredInv'
  BY <1>5 DEF Land
<1>6. ASSUME NEW req \in Requests, StartExecution(req) PROVE StoredInv'
  <2>1. \A f \in Files : task'[f] \in {"waiting", "none"}
    BY <1>6 DEF StartExecution
  <2>2. day' # NoDay => mixed'
    BY <1>6 DEF StartExecution
  <2>. QED
    BY <2>1, <2>2
<1>7. ASSUME NEW f \in Files, Invoke(f) PROVE StoredInv'
  <2>1. \A g \in Files : g # f => task'[g] = task[g] /\ todo'[g] = todo[g]
    BY <1>7 DEF Invoke
  <2>2. \/ task'[f] = "failed"
        \/ task'[f] = "running" /\ todo'[f] = {FileKey(t) : t \in FileTrades(f)}
    BY <1>7 DEF Invoke
  <2>3. bronze' = bronze /\ request' = request /\ day' = day /\ mixed' = mixed /\ left' = left
    BY <1>7 DEF Invoke
  <2>. QED
    BY <2>1, <2>2, <2>3
<1>8. ASSUME NEW f \in Files, NEW k \in todo[f], WriteObject(f, k) PROVE StoredInv'
  <2>1. request' = request /\ day' = day /\ mixed' = mixed /\ left' = left /\ task' = task
        /\ todo' = [todo EXCEPT ![f] = @ \ {k}] /\ task[f] = "running" /\ request # NoRequest
    BY <1>8 DEF WriteObject, RunInv
  <2>2. day # NoDay => mixed
    BY <2>1 DEF RunInv
  <2>3. ASSUME ~mixed, NEW g \in Files, NEW t \in FileTrades(g), FileDone(g, t)'
        PROVE  t \in bronze'[FileKey(t)] \/ KeyIsShared(t)
    <3>1. t \in Tids /\ Watched(t) /\ FileOf(t) = g
      BY DEF FileTrades
    <3>2. CASE FileDone(g, t)
      BY <1>8, <2>1, <2>3, <3>1, <3>2, WriteKeeps
    <3>3. CASE ~FileDone(g, t)
      <4>1. g = f /\ FileKey(t) = k /\ k \in Keys
        BY <2>1, <2>3, <3>3
      <4>2. bronze' = [bronze EXCEPT ![k] = {u \in FileTrades(f) : FileKey(u) = k}]
        BY <1>8 DEF WriteObject, Put
      <4>. QED
        BY <4>1, <4>2
    <3>. QED
      BY <3>2, <3>3
  <2>. QED
    BY <2>1, <2>2, <2>3
<1>9. ASSUME NEW f \in Files, LambdaReturns(f) \/ Broken(f) \/ Interrupted(f) PROVE StoredInv'
  <2>1. \A g \in Files : g # f => task'[g] = task[g] /\ todo'[g] = todo[g]
    BY <1>9 DEF LambdaReturns, Broken, Interrupted, Retried
  <2>2. \/ task'[f] \in {"failed", "waiting"}
        \/ task'[f] = "ok" /\ task[f] = "running" /\ todo[f] = {}
    BY <1>9 DEF LambdaReturns, Broken, Interrupted, Retried
  <2>3. bronze' = bronze /\ request' = request /\ day' = day /\ mixed' = mixed /\ left' = left
    BY <1>9 DEF LambdaReturns, Broken, Interrupted
  <2>. QED
    BY <2>1, <2>2, <2>3
<1>10. CASE FinishExecution
  <2>1. request' = NoRequest /\ day' = day /\ left' = left /\ bronze' = bronze
        /\ (day # NoDay /\ mixed => mixed')
    BY <1>10 DEF FinishExecution
  <2>2. day # NoDay => mixed
    BY <1>10 DEF FinishExecution, RunInv
  <2>. QED
    BY <2>1, <2>2
<1>11. ASSUME NEW d \in FallbackDays, StartFallback(d) PROVE StoredInv'
  <2>1. day' = d /\ left' = {EventKey(t) : t \in DayTrades(d)} /\ request' = request
        /\ (request # NoRequest => mixed')
    BY <1>11 DEF StartFallback
  <2>. QED
    BY <2>1
<1>12. ASSUME NEW k \in left, WriteFallback(k) PROVE StoredInv'
  <2>1. request' = request /\ day' = day /\ mixed' = mixed /\ left' = left \ {k}
        /\ day # NoDay /\ k \in Keys
        /\ bronze' = [bronze EXCEPT ![k] = {t \in DayTrades(day) : EventKey(t) = k}]
    BY <1>12 DEF WriteFallback, Put, TypeOK
  <2>2. request # NoRequest => mixed
    BY <2>1 DEF RunInv
  <2>3. ASSUME ~mixed, NEW t \in DayTrades(day), EventKey(t) \notin left'
        PROVE  t \in bronze'[EventKey(t)]
    <3>1. EventKey(t) \in Keys
      BY TradeTypes DEF DayTrades
    <3>. QED
      BY <2>1, <2>3, <3>1
  <2>. QED
    BY <2>1, <2>2, <2>3
<1>13. CASE FallbackReturns \/ FallbackBreaks
  <2>1. day' = NoDay /\ request' = request /\ task' = task /\ todo' = todo /\ bronze' = bronze
        /\ (request # NoRequest /\ mixed => mixed')
    BY <1>13 DEF FallbackReturns, FallbackBreaks
  <2>2. request # NoRequest => mixed
    BY <1>13 DEF FallbackReturns, FallbackBreaks, RunInv
  <2>. QED
    BY <2>1, <2>2
<1>14. CASE UNCHANGED vars
  BY <1>14 DEF vars
<1>. QED
  BY <1>5, <1>6, <1>7, <1>8, <1>9, <1>10, <1>11, <1>12, <1>13, <1>14
     DEF Next, Proceed

\* A run that ends alone reports only what it has stored; afterwards nothing is touched
\* until the next run, which starts with an empty report.
LEMMA ReportStep == IInv /\ [Next]_vars => (DaysAreComplete /\ ReportIsHonest)'
<1>. DEFINE Told(days, files) ==
              /\ \A d \in days : \A t \in DayTrades(d) : InBronze(t) \/ KeyIsShared(t)
              /\ \A f \in files : \A t \in FileTrades(f) : InBronze(t) \/ KeyIsShared(t)
<1>. SUFFICES ASSUME IInv, [Next]_vars, Idle'
              PROVE  Told(covered.days, covered.files)'
  BY DEF DaysAreComplete, ReportIsHonest
<1>1. TypeOK /\ RunInv /\ StoredInv
  BY DEF IInv
<1>2. Idle => Told(covered.days, covered.files)
  BY DEF IInv, DaysAreComplete, ReportIsHonest
<1>3. ~Idle => Told(covered.days, covered.files)
  BY <1>1 DEF RunInv
<1>. HIDE DEF Told
<1>4. CASE FinishExecution
  <2>1. day = NoDay /\ UNCHANGED <<archive, bronze>>
    BY <1>4 DEF FinishExecution, fallback, Idle
  <2>2. Told(covered'.days, covered'.files)
    <3>1. CASE mixed
      BY <1>2, <1>3, <1>4, <3>1 DEF FinishExecution
    <3>2. CASE ~mixed
      <4>1. ASSUME NEW f \in Files, task[f] = "ok", NEW t \in FileTrades(f)
            PROVE  InBronze(t) \/ KeyIsShared(t)
        <5>1. FileKey(t) \in Keys
          BY <1>1, TradeTypes DEF FileTrades
        <5>. QED
          BY <1>1, <1>4, <3>2, <4>1, <5>1 DEF StoredInv, FileDone, FinishExecution, InBronze
      <4>2. ASSUME \A f \in Started : task[f] = "ok", NEW d \in request.from..request.to,
                   NEW t \in DayTrades(d)
            PROVE  InBronze(t) \/ KeyIsShared(t)
        <5>1. request \in [from : Days, to : Days]
          BY <1>1, <1>4, BackfillAssumption DEF TypeOK, FinishExecution, BackfillAssumption
        <5>2. FileOf(t) \in HourList(request) /\ t \in FileTrades(FileOf(t))
          BY <1>1, <5>1, ListCoversDays
        <5>3. FileOf(t) \in Files /\ task[FileOf(t)] = "ok"
          BY <1>1, <1>4, <4>2, <5>2 DEF RunInv, Started, FinishExecution
        <5>. QED
          BY <4>1, <5>2, <5>3
      <4>3. /\ covered'.files = {f \in Files : task[f] = "ok"}
            /\ covered'.days = IF \A f \in Started : task[f] = "ok"
                               THEN request.from..request.to ELSE {}
        BY <1>4, <3>2 DEF FinishExecution
      <4>. QED
        BY <4>1, <4>2, <4>3 DEF Told
    <3>. QED
      BY <3>1, <3>2
  <2>. QED
    BY <2>1, <2>2 DEF Told, DayTrades, FileTrades, Watched, FileOf, KeyIsShared, FileKey, Key,
                      InBronze
<1>5. CASE FallbackReturns
  <2>1. request = NoRequest /\ UNCHANGED <<archive, bronze>>
    BY <1>5 DEF FallbackReturns, execution, Idle
  <2>2. Told(covered'.days, covered'.files)
    <3>1. CASE mixed
      BY <1>2, <1>3, <1>5, <3>1 DEF FallbackReturns
    <3>2. CASE ~mixed
      <4>1. ASSUME NEW t \in DayTrades(day)
            PROVE  InBronze(t)
        <5>1. EventKey(t) \in Keys
          BY <1>1, TradeTypes DEF DayTrades
        <5>. QED
          BY <1>1, <1>5, <3>2, <5>1 DEF StoredInv, FallbackReturns, InBronze
      <4>2. covered'.files = {} /\ covered'.days = {day}
        BY <1>5, <3>2 DEF FallbackReturns
      <4>. QED
        BY <4>1, <4>2 DEF Told
    <3>. QED
      BY <3>1, <3>2
  <2>. QED
    BY <2>1, <2>2 DEF Told, DayTrades, FileTrades, Watched, FileOf, KeyIsShared, FileKey, Key,
                      InBronze
<1>6. CASE FallbackBreaks \/ (\E f \in Files : Land(f)) \/ UNCHANGED vars
  <2>1. UNCHANGED <<archive, bronze, covered>>
    BY <1>6 DEF FallbackBreaks, Land, vars
  <2>2. Told(covered'.days, covered'.files)
    BY <1>2, <1>3, <2>1
  <2>. QED
    BY <2>1, <2>2 DEF Told, DayTrades, FileTrades, Watched, FileOf, KeyIsShared, FileKey, Key,
                      InBronze
<1>7. ASSUME NEW f \in Files,
             \/ Invoke(f) \/ LambdaReturns(f) \/ Interrupted(f) \/ Broken(f)
             \/ \E k \in todo[f] : WriteObject(f, k)
      PROVE  ~Idle'
  <2>1. task[f] # "none" /\ request' = request
    BY <1>7 DEF Invoke, LambdaReturns, Interrupted, Broken, WriteObject
  <2>. QED
    BY <1>1, <2>1 DEF RunInv, Idle
<1>8. CASE \/ \E req \in Requests : StartExecution(req)
           \/ \E d \in FallbackDays : StartFallback(d)
           \/ \E k \in left : WriteFallback(k)
  <2>1. ~Idle'
    BY <1>8, NoRunTypes DEF StartExecution, StartFallback, WriteFallback, Idle
  <2>. QED
    BY <2>1
<1>. QED
  BY <1>4, <1>5, <1>6, <1>7, <1>8 DEF Next, Proceed

-------------------------------------------------------------------------------
(* The theorems.                                                           *)

\* Before the first run nothing is running and nothing is reported.
LEMMA InitIInv == Init => IInv
<1>. SUFFICES ASSUME Init PROVE IInv
  OBVIOUS
<1>1. TypeOK
  <2>1. retries \in [Files -> 0..MaxRetries] /\ runs \in 0..MaxRuns
    BY BackfillAssumption DEF Init, BackfillAssumption
  <2>2. task \in [Files -> Statuses] /\ todo \in [Files -> SUBSET Keys]
        /\ bronze \in [Keys -> SUBSET Tids]
    BY DEF Init, Statuses
  <2>. QED
    BY <2>1, <2>2 DEF Init, TypeOK
<1>. QED
  BY <1>1 DEF Init, IInv, RunInv, StoredInv, Idle, DaysAreComplete, ReportIsHonest

\* All reachable states satisfy the invariant.
LEMMA AlwaysIInv == Spec => []IInv
<1>1. IInv /\ [Next]_vars => IInv'
  BY TypedStep, RunStep, StoredStep, ReportStep DEF IInv
<1>. QED
  BY <1>1, InitIInv, PTL DEF Spec

\* Every variable keeps its type: no Lambda is retried more often than the state machine
\* says, and every object is at a key of the bronze layout.
THEOREM BackfillTypeCorrect == Spec => []TypeOK
<1>1. IInv => TypeOK
  BY DEF IInv
<1>. QED
  BY <1>1, AlwaysIInv, PTL

\* A run that was alone and reported no failed hour has every watched trade of its days in
\* bronze, late ones included, except where two hour files share an object.
THEOREM CompletedDaysAreComplete == Spec => []DaysAreComplete
<1>1. IInv => DaysAreComplete
  BY DEF IInv
<1>. QED
  BY <1>1, AlwaysIInv, PTL

\* An hour that a run alone did not report as failed is in bronze, with the same exception.
THEOREM ReportedHoursAreHonest == Spec => []ReportIsHonest
<1>1. IInv => ReportIsHonest
  BY DEF IInv
<1>. QED
  BY <1>1, AlwaysIInv, PTL
===============================================================================
