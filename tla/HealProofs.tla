------------------------------ MODULE HealProofs ------------------------------
(***************************************************************************)
(* Theorems about healing, for every length of an hour and of a day, every *)
(* session, and every set of gaps and of trades.                           *)
(***************************************************************************)
EXTENDS Heal, DataInduction, TLAPS

USE HourAssumption DEF HourAssumption

-------------------------------------------------------------------------------
(* Whole divisions.                                                        *)

\* What an integer division leaves: t lies in the d values from the quotient's multiple on.
LEMMA DivBounds ==
    ASSUME NEW d \in Nat \ {0}, NEW t \in Int
    PROVE  /\ t \div d \in Int /\ d * (t \div d) \in Int
           /\ d * (t \div d) <= t /\ t < d * (t \div d) + d
OBVIOUS

\* Division keeps the order.
LEMMA DivMonotone ==
    ASSUME NEW d \in Nat \ {0}, NEW t \in Int, NEW u \in Int, t <= u
    PROVE  t \div d <= u \div d
BY DivBounds

\* A multiple of d divides exactly.
LEMMA DivMultiple ==
    ASSUME NEW d \in Nat \ {0}, NEW n \in Int
    PROVE  (d * n) \div d = n
BY DivBounds

\* A natural number divides to a natural number.
LEMMA DivNat ==
    ASSUME NEW d \in Nat \ {0}, NEW t \in Nat
    PROVE  t \div d \in Nat
OBVIOUS

-------------------------------------------------------------------------------
(* Hours and days.                                                         *)

\* A time of the session is in an hour and in a day counted from 0.
LEMMA HourNat ==
    ASSUME NEW t \in Nat
    PROVE  HourOf(t) \in Nat /\ DayOf(t) \in Nat
<1>1. Hour * HoursPerDay \in Nat \ {0}
  OBVIOUS
<1>. QED
  BY <1>1, DivNat DEF HourOf, DayOf

\* A later time is in no earlier hour and on no earlier day.
LEMMA HourMonotone ==
    ASSUME NEW t \in Nat, NEW u \in Nat, t <= u
    PROVE  HourOf(t) <= HourOf(u) /\ DayOf(t) <= DayOf(u)
<1>1. Hour * HoursPerDay \in Nat \ {0}
  OBVIOUS
<1>. QED
  BY <1>1, DivMonotone DEF HourOf, DayOf

\* A time is in the hour that starts at its floor (_floor_hour of recon.py).
LEMMA FloorBounds ==
    ASSUME NEW t \in Int
    PROVE  FloorHour(t) \in Int /\ FloorHour(t) <= t /\ t < FloorHour(t) + Hour
BY DivBounds DEF FloorHour, HourOf

\* The next full hour is not before the time (_ceil_hour).
LEMMA CeilBounds ==
    ASSUME NEW t \in Nat
    PROVE  CeilHour(t) \in Nat /\ t <= CeilHour(t)
BY FloorBounds DEF CeilHour

\* The boundary rule: an event of the gap is in one of the hour files gap_to_hours
\* names, whether its block was late or not.
LEMMA GapFilesCovered ==
    ASSUME NEW start \in Nat, NEW end \in Nat, NEW t \in Nat, start <= t, t < end
    PROVE  HourOf(t) \in GapToHours(start, end) /\ HourOf(t) + 1 \in GapToHours(start, end)
<1>1. HourOf(start) \in Nat /\ HourOf(t) \in Nat /\ HourOf(start) <= HourOf(t)
  BY HourNat, HourMonotone
<1>2. HourOf(CeilHour(end)) \in Nat
  BY CeilBounds, HourNat
<1>3. HourOf(t) + 1 <= HourOf(CeilHour(end))
  <2>1. PICK n \in Int : CeilHour(end) = Hour * n
    <3>1. HourOf(end) \in Nat
      BY HourNat
    <3>2. CASE FloorHour(end) = end
      <4>1. CeilHour(end) = Hour * HourOf(end)
        BY <3>2 DEF CeilHour, FloorHour
      <4>. QED
        BY <3>1, <4>1
    <3>3. CASE FloorHour(end) # end
      <4>1. CeilHour(end) = Hour * (HourOf(end) + 1)
        BY <3>1, <3>3 DEF CeilHour, FloorHour
      <4>. QED
        BY <3>1, <4>1
    <3>. QED
      BY <3>2, <3>3
  <2>2. HourOf(CeilHour(end)) = n
    BY <2>1, DivMultiple DEF HourOf
  <2>3. Hour * HourOf(t) < Hour * n
    BY <2>1, CeilBounds, FloorBounds DEF FloorHour
  <2>4. HourOf(t) < n
    BY <1>1, <2>3
  <2>. QED
    BY <1>1, <2>2, <2>4
<1>. QED
  BY <1>1, <1>2, <1>3 DEF GapToHours

\* The slack of lookback_days: computed on one day and used on that day or the next, the
\* lookback reaches every event since the oldest gap began.
LEMMA LookbackReaches ==
    ASSUME NEW oldest \in Nat, NEW t \in Nat, oldest <= t,
           NEW before \in Nat, NEW today \in Nat, today <= before + 1
    PROVE  InLookback(t, today, LookbackDays(oldest, before))
BY HourNat, HourMonotone DEF InLookback, LookbackDays

-------------------------------------------------------------------------------
(* Objects of bronze.                                                      *)

\* Writing objects of some files brings trades of those files only.
LEMMA PutsType ==
    ASSUME NEW objects, NEW files, Puts(objects, files)
    PROVE  bronze' \subseteq bronze \cup InFiles(files)
BY DEF Puts

\* A trade whose object no other file shares is never written over.
LEMMA PutsKeeps ==
    ASSUME NEW objects, NEW files, Puts(objects, files),
           NEW t \in Tids, ~KeyIsShared(t), t \in bronze
    PROVE  t \in bronze'
<1>1. PICK last \in [objects -> files] :
          /\ \A key \in objects : \E u \in InFiles({last[key]}) : Key(u) = key
          /\ bronze' = {u \in bronze : Key(u) \notin objects}
                         \cup {u \in InFiles(files) :
                                   Key(u) \in objects /\ FileOf(u) = last[Key(u)]}
  BY DEF Puts
<1>2. CASE Key(t) \in objects
  <2>1. PICK u \in InFiles({last[Key(t)]}) : Key(u) = Key(t)
    BY <1>1, <1>2
  <2>2. u \in Tids /\ FileOf(u) = last[Key(t)]
    BY DEF InFiles
  <2>3. FileOf(t) = last[Key(t)]
    BY <2>1, <2>2 DEF KeyIsShared
  <2>4. t \in InFiles(files)
    BY <1>1, <1>2, <2>3 DEF InFiles
  <2>. QED
    BY <1>1, <1>2, <2>3, <2>4
<1>3. CASE Key(t) \notin objects
  BY <1>1, <1>3
<1>. QED
  BY <1>2, <1>3

\* Writing all objects of some files brings every trade of theirs that has its object alone.
LEMMA PutsBrings ==
    ASSUME NEW files, Puts(Objects(files), files),
           NEW t \in Tids, ~KeyIsShared(t), FileOf(t) \in files
    PROVE  t \in bronze'
<1>. DEFINE objects == Objects(files)
<1>1. t \in InFiles(files) /\ Key(t) \in objects
  BY DEF InFiles, Objects
<1>2. PICK last \in [objects -> files] :
          /\ \A key \in objects : \E u \in InFiles({last[key]}) : Key(u) = key
          /\ bronze' = {u \in bronze : Key(u) \notin objects}
                         \cup {u \in InFiles(files) :
                                   Key(u) \in objects /\ FileOf(u) = last[Key(u)]}
  BY DEF Puts
<1>. HIDE DEF objects
<1>3. PICK u \in InFiles({last[Key(t)]}) : Key(u) = Key(t)
  BY <1>1, <1>2
<1>4. u \in Tids /\ FileOf(u) = last[Key(t)]
  BY DEF InFiles
<1>5. FileOf(t) = last[Key(t)]
  BY <1>3, <1>4 DEF KeyIsShared
<1>. QED
  BY <1>1, <1>2, <1>5

-------------------------------------------------------------------------------
(* Type correctness.                                                       *)

\* A window that is not empty lies inside the modelled time and starts at the session's first
\* full hour (full_hours).
LEMMA WindowType ==
    ASSUME NEW t \in Nat, t <= MaxTime, ~IsEmpty(Window(Start, End, t))
    PROVE  /\ Window(Start, End, t) \in [from : 0..MaxTime, to : 0..MaxTime]
           /\ Window(Start, End, t).from = CeilHour(Start)
<1>. DEFINE w == Window(Start, End, t)
<1>1. w.from = CeilHour(Start) /\ CeilHour(Start) \in Nat
  BY HealAssumption, CeilBounds DEF Window, HealAssumption
<1>2. /\ FloorHour(End) \in Int /\ FloorHour(End) <= End
      /\ FloorHour(t - Lag) \in Int
  BY HealAssumption, FloorBounds DEF HealAssumption
<1>3. w.to \in Int /\ w.to <= End
  BY <1>2, HealAssumption DEF Window, HealAssumption
<1>4. w.from < w.to
  BY <1>1, <1>3 DEF IsEmpty
<1>5. w.from \in 0..MaxTime /\ w.to \in 0..MaxTime
  BY <1>1, <1>3, <1>4, HealAssumption DEF HealAssumption
<1>6. w = [from |-> w.from, to |-> w.to]
  BY DEF Window
<1>. QED
  BY <1>1, <1>5, <1>6

\* The oldest start is the start of a gap, and no gap not healed starts before it.
LEMMA OldestType ==
    ASSUME NEW m \in Manifest, Unhealed(m) # {}
    PROVE  /\ OldestStart(m) \in Nat /\ OldestStart(m) < End
           /\ \A g \in Unhealed(m) : OldestStart(m) <= g.start
<1>. DEFINE starts == {g.start : g \in Unhealed(m)}
<1>1. \A g \in Unhealed(m) : g.start \in Nat /\ g.start < End
  BY HealAssumption DEF HealAssumption, Unhealed
<1>2. \E s \in starts : \A n \in starts : s <= n
  <2>1. starts \in SUBSET Nat /\ starts # {}
    BY <1>1
  <2>. HIDE DEF starts
  <2>. QED
    BY <2>1, NatMinimum
<1>3. \E s \in starts : \A g \in Unhealed(m) : s <= g.start
  BY <1>2
<1>4. OldestStart(m) \in starts /\ \A g \in Unhealed(m) : OldestStart(m) <= g.start
  BY <1>3 DEF OldestStart
<1>. QED
  BY <1>1, <1>4

\* A trade is in an hour file counted from 0: that of its hour, or the next one.
LEMMA FileType ==
    ASSUME TypeOK, NEW t \in Tids
    PROVE  /\ trade[t].time \in Nat /\ trade[t].late \in {0, 1} /\ FileOf(t) \in Nat
           /\ FileOf(t) = HourOf(trade[t].time) \/ FileOf(t) = HourOf(trade[t].time) + 1
<1>1. trade[t] \in [time : Times, late : {0, 1}, fed : BOOLEAN]
  BY DEF TypeOK
<1>2. FloorHour(Start) \in Nat /\ CeilHour(End) \in Nat
  BY HealAssumption, HourNat, CeilBounds DEF HealAssumption, FloorHour
<1>3. trade[t].time \in Nat /\ trade[t].late \in {0, 1}
  BY <1>1, <1>2 DEF Times
<1>4. HourOf(trade[t].time) \in Nat
  BY <1>3, HourNat
<1>. QED
  BY <1>3, <1>4 DEF FileOf

\* While heal backfills it has gaps to heal, and the hours it asks for have landed.
HealTyped ==
    /\ TypeOK
    /\ pc \in {"backfill", "lookback", "dbt"} => Unhealed(mem) # {}
    /\ pc = "backfill" => Hours(mem) \subseteq 0..(landed - 1)

\* The hour files of a manifest's unhealed gaps are hours counted from 0.
LEMMA HoursNat ==
    ASSUME NEW m \in Manifest PROVE Hours(m) \subseteq Nat
<1>. SUFFICES ASSUME NEW g \in Unhealed(m), NEW h \in GapToHours(g.start, g.end)
              PROVE  h \in Nat
  BY DEF Hours
<1>1. g.start \in Nat /\ g.end \in Nat
  BY HealAssumption DEF HealAssumption, Unhealed
<1>2. HourOf(g.start) \in Nat /\ HourOf(CeilHour(g.end)) \in Nat
  BY <1>1, CeilBounds, HourNat
<1>. QED
  BY <1>2 DEF GapToHours

\* At the session's end nothing has run.
LEMMA HealTypedInit == Init => HealTyped
<1>. SUFFICES ASSUME Init PROVE HealTyped
  OBVIOUS
<1>1. Fresh \in Manifest
  BY HealAssumption DEF HealAssumption, Fresh, Manifest
<1>2. now \in End..MaxTime /\ window \in [from : 0..MaxTime, to : 0..MaxTime]
  BY HealAssumption DEF HealAssumption, Init
<1>3. 0 \in 0..(HourOf(MaxTime) + 1) /\ 0 \in 0..DayOf(MaxTime) /\ 0 \in 0..MaxBroken
  BY HealAssumption, HourNat DEF HealAssumption
<1>. QED
  BY <1>1, <1>2, <1>3 DEF Init, HealTyped, TypeOK

\* Every step of the clock, the archive, the operator, recon and heal keeps the types.
LEMMA HealTypedStep == HealTyped /\ [Next]_vars => HealTyped'
<1>. SUFFICES ASSUME HealTyped, [Next]_vars PROVE HealTyped'
  OBVIOUS
<1>1. now \in Nat /\ now <= MaxTime /\ End <= now /\ MaxTime \in Nat
  BY HealAssumption DEF HealAssumption, HealTyped, TypeOK
<1>2. CASE Tick
  <2>1. now' \in End..MaxTime
    BY <1>1, <1>2, HealAssumption DEF Tick, HealAssumption
  <2>. QED
    BY <1>2, <2>1 DEF Tick, manifests, FileOf, HealTyped, TypeOK, Hours, Unhealed
<1>3. CASE Land
  <2>1. landed \in Nat /\ landed' = landed + 1 /\ Hour * (landed + 1) <= MaxTime
    BY <1>1, <1>3 DEF Land, HealTyped, TypeOK
  <2>2. landed + 1 <= HourOf(MaxTime)
    BY <1>1, <2>1, DivMonotone, DivMultiple DEF HourOf
  <2>3. landed' \in 0..(HourOf(MaxTime) + 1)
    BY <1>1, <2>1, <2>2, HourNat
  <2>4. 0..(landed - 1) \subseteq 0..(landed' - 1)
    BY <2>1
  <2>5. ASSUME NEW t \in bronze PROVE FileOf(t)' < landed'
    <3>1. FileOf(t) \in Int /\ FileOf(t) < landed
      BY FileType DEF HealTyped, TypeOK
    <3>. QED
      BY <1>3, <2>1, <3>1 DEF Land, FileOf
  <2>. QED
    BY <1>3, <2>3, <2>4, <2>5 DEF Land, manifests, HealTyped, TypeOK, Hours, Unhealed
<1>4. ASSUME NEW f \in Files, Backfill(f) PROVE HealTyped'
  <2>1. PICK objects : Puts(objects, {f})
    BY <1>4 DEF Backfill
  <2>2. bronze' \subseteq bronze \cup InFiles({f}) /\ f < landed
    BY <1>4, <2>1, PutsType DEF Backfill
  <2>3. bronze' \subseteq Tids /\ (\A t \in bronze' : FileOf(t)' < landed')
    BY <1>4, <2>2 DEF Backfill, InFiles, FileOf, HealTyped, TypeOK
  <2>. QED
    BY <1>4, <2>3 DEF Backfill, manifests, HealTyped, TypeOK, Hours, Unhealed
<1>5. CASE HealStart
  <2>1. Hours(disk) \subseteq 0..(landed - 1)
    BY <1>5, HoursNat DEF HealStart, HealTyped, TypeOK
  <2>2. Hours(mem)' = Hours(disk) /\ Unhealed(mem)' = Unhealed(disk)
    BY <1>5 DEF HealStart, Hours, Unhealed
  <2>. QED
    BY <1>5, <2>1, <2>2 DEF HealStart, FileOf, HealTyped, TypeOK
<1>6. CASE HealBackfill
  <2>1. PICK objects : Puts(objects, Hours(mem))
    BY <1>6 DEF HealBackfill
  <2>3. bronze' \subseteq bronze \cup InFiles(Hours(mem)) /\ Hours(mem) \subseteq 0..(landed - 1)
    BY <1>6, <2>1, PutsType DEF HealBackfill, HealTyped
  <2>4. \A t \in InFiles(Hours(mem)) : t \in Tids /\ FileOf(t) < landed
    BY <2>3 DEF InFiles, HealTyped, TypeOK
  <2>5. bronze' \subseteq Tids /\ (\A t \in bronze' : FileOf(t)' < landed')
    BY <1>6, <2>3, <2>4 DEF HealBackfill, FileOf, HealTyped, TypeOK
  <2>2. broken' \in 0..MaxBroken
    BY <1>6, HealAssumption DEF HealAssumption, HealBackfill, HealTyped, TypeOK
  <2>. QED
    BY <1>6, <2>2, <2>5 DEF HealBackfill, manifests, HealTyped, TypeOK, Unhealed
<1>7. CASE HealLookback
  <2>1. mem \in Manifest /\ Unhealed(mem) # {}
    BY <1>7 DEF HealLookback, HealTyped, TypeOK
  <2>2. OldestStart(mem) \in Nat /\ OldestStart(mem) <= now
    BY <1>1, <2>1, OldestType, HealAssumption DEF HealAssumption
  <2>3. Today \in Nat /\ Today <= DayOf(MaxTime) /\ DayOf(MaxTime) \in Nat
    BY <1>1, HourNat, HourMonotone DEF Today
  <2>4. LookbackDays(OldestStart(mem), Today) \in Nat
    BY <1>1, <2>2, HourNat, HourMonotone DEF LookbackDays, Today
  <2>. QED
    BY <1>7, <2>3, <2>4 DEF HealLookback, manifests, FileOf, HealTyped, TypeOK
<1>8. ASSUME HealDbt \/ HealDbtFails \/ HealDies PROVE HealTyped'
  <2>1. broken' \in 0..MaxBroken
    BY <1>8, HealAssumption DEF HealAssumption, HealDbt, HealDbtFails, HealDies, HealTyped, TypeOK
  <2>2. silver' \subseteq Tids /\ disk' \in Manifest
    BY <1>8 DEF HealDbt, HealDbtFails, HealDies, MergeSilver, manifests, HealTyped, TypeOK
  <2>. QED
    BY <1>8, <2>1, <2>2 DEF HealDbt, HealDbtFails, HealDies, manifests, FileOf, HealTyped, TypeOK
<1>9. CASE ReconStart
  BY <1>1, <1>9, WindowType DEF ReconStart, FileOf, HealTyped, TypeOK
<1>10. CASE ReconPasses
  <2>1. disk' \in Manifest
    BY <1>10 DEF ReconPasses, Manifest, HealTyped, TypeOK
  <2>. QED
    BY <1>10, <2>1 DEF ReconPasses, FileOf, HealTyped, TypeOK
<1>11. CASE ReconFails
  <2>1. broken' \in 0..MaxBroken
    BY <1>11, HealAssumption DEF HealAssumption, ReconFails, HealTyped, TypeOK
  <2>. QED
    BY <1>11, <2>1 DEF ReconFails, FileOf, HealTyped, TypeOK
<1>12. CASE HealFlip
  <2>1. mem' \in Manifest /\ disk' \in Manifest
    BY <1>12 DEF HealFlip, Manifest, HealTyped, TypeOK
  <2>. QED
    BY <1>12, <2>1 DEF HealFlip, FileOf, HealTyped, TypeOK
<1>13. CASE UNCHANGED vars
  BY <1>13 DEF vars, manifests, FileOf, HealTyped, TypeOK, Hours, Unhealed
<1>. QED
  BY <1>2, <1>3, <1>4, <1>5, <1>6, <1>7, <1>8, <1>9, <1>10, <1>11, <1>12, <1>13
     DEF Next, ByOperator, HealStep

\* The strengthened type invariant holds in every reachable state.
LEMMA HealTypedAlways == Spec => []HealTyped
BY HealTypedInit, HealTypedStep, PTL DEF Spec

\* Type correctness of healing: heal asks only for hour files that have landed, however
\* the clock and the archive move between its check and its backfill, and the window
\* recon compares lies inside the session.
THEOREM HealTypeCorrect == Spec => []TypeOK
BY HealTypedAlways, PTL DEF HealTyped

-------------------------------------------------------------------------------
(* What is marked healed is in silver.  The strengthening follows one heal *)
(* through its steps: the trades of its gaps are in bronze from its        *)
(* backfill on and stay there whatever is written besides, unless they     *)
(* share an object; its lookback reaches the oldest gap however late dbt   *)
(* runs; and after the merge every gap of the session is in silver.        *)

InSilver(gs) ==
    \A g \in gs, t \in Tids :
        g.start <= trade[t].time /\ trade[t].time < g.end => t \in silver \/ KeyIsShared(t)

\* What the archive has of some hours is in bronze.
InBronze(hours) ==
    \A t \in Tids : FileOf(t) \in hours => t \in bronze \/ KeyIsShared(t)

HealedInv ==
    /\ InSilver(disk.healed) /\ InSilver(mem.healed) /\ InSilver(seen.healed)
    /\ pc \in {"lookback", "dbt"} => InBronze(Hours(mem))
    /\ pc = "dbt" => /\ lookback = LookbackDays(OldestStart(mem), asked)
                     /\ Today <= asked + 1
    /\ pc \in {"recon", "tests", "flip"} => InSilver(SessionGaps)

\* Nothing is marked healed when the session ends.
LEMMA HealedInit == Init => HealedInv
BY DEF Init, HealedInv, InSilver, Fresh

\* No step moves a trade to another file or object, and none takes a trade out of bronze
\* whose object no other file shares.
LEMMA BronzeStays ==
    ASSUME [Next]_vars
    PROVE  /\ UNCHANGED trade
           /\ \A t \in Tids : t \in bronze => t \in bronze' \/ KeyIsShared(t)
<1>1. ASSUME NEW f \in Files, Backfill(f)
      PROVE  UNCHANGED trade /\ \A t \in Tids : t \in bronze => t \in bronze' \/ KeyIsShared(t)
  BY <1>1, PutsKeeps DEF Backfill
<1>2. CASE HealBackfill
  BY <1>2, PutsKeeps DEF HealBackfill
<1>3. CASE UNCHANGED <<trade, bronze>>
  BY <1>3
<1>. QED
  BY <1>1, <1>2, <1>3
     DEF Next, ByOperator, HealStep, Tick, Land, HealStart, HealLookback, HealDbt, HealDbtFails,
         ReconStart, ReconPasses, ReconFails, HealFlip, HealDies, vars

\* Which trades share an object is decided by the archive alone.
LEMMA SharedStays ==
    ASSUME UNCHANGED trade, NEW t
    PROVE  KeyIsShared(t)' = KeyIsShared(t) /\ FileOf(t)' = FileOf(t)
BY DEF KeyIsShared, Key, FileOf

\* Silver only grows, and trades stay where they are.
LEMMA InSilverStays ==
    ASSUME UNCHANGED trade, silver \subseteq silver', NEW gs, InSilver(gs)
    PROVE  InSilver(gs)'
BY SharedStays DEF InSilver

\* The merge of heal's dbt run brings every trade of the gaps it set out to heal.
LEMMA HealDbtMerges ==
    ASSUME HealTyped, HealedInv, HealDbt
    PROVE  InSilver(SessionGaps)'
<1>. SUFFICES ASSUME NEW g \in SessionGaps, NEW t \in Tids,
                     g.start <= trade[t].time, trade[t].time < g.end, ~KeyIsShared(t)
              PROVE  t \in silver'
  BY SharedStays DEF InSilver, HealDbt
<1>. DEFINE time == trade[t].time
<1>1. CASE g \in mem.healed
  BY <1>1 DEF HealedInv, InSilver, HealDbt, MergeSilver
<1>2. CASE g \in Unhealed(mem)
  <2>1. /\ g.start \in Nat /\ g.end \in Nat /\ time \in Nat
        /\ trade[t].late \in {0, 1} /\ mem \in Manifest
        /\ now \in Nat /\ asked \in Nat
    <3>1. MaxTime \in Nat /\ End \in Nat /\ DayOf(MaxTime) \in Nat
      BY HealAssumption, HourNat DEF HealAssumption
    <3>. QED
      BY <3>1, FileType, HealAssumption DEF HealAssumption, HealTyped, TypeOK
  <2>2. FileOf(t) \in GapToHours(g.start, g.end)
    <3>1. /\ HourOf(time) \in GapToHours(g.start, g.end)
          /\ HourOf(time) + 1 \in GapToHours(g.start, g.end)
      BY <2>1, GapFilesCovered
    <3>. QED
      BY <3>1, FileType DEF HealTyped
  <2>3. t \in bronze
    BY <1>2, <2>2 DEF InBronze, Hours, HealedInv, HealDbt
  <2>4. OldestStart(mem) \in Nat /\ OldestStart(mem) <= g.start
    BY <1>2, <2>1, OldestType
  <2>5. /\ Today \in Nat /\ Today <= asked + 1
        /\ lookback = LookbackDays(OldestStart(mem), asked)
    BY <2>1, HourNat DEF Today, HealedInv, HealDbt
  <2>6. OldestStart(mem) <= time
    BY <2>1, <2>4
  <2>7. InLookback(time, Today, lookback)
    BY <2>1, <2>4, <2>5, <2>6, LookbackReaches
  <2>. QED
    BY <2>3, <2>7 DEF HealDbt, MergeSilver
<1>. QED
  BY <1>1, <1>2 DEF Unhealed

\* What bronze has of the hours heal works on stays there.
LEMMA InBronzeStays ==
    ASSUME [Next]_vars, mem' = mem, InBronze(Hours(mem))
    PROVE  InBronze(Hours(mem))'
<1>1. UNCHANGED trade /\ \A t \in Tids : t \in bronze => t \in bronze' \/ KeyIsShared(t)
  BY BronzeStays
<1>2. \A t : (KeyIsShared(t)' <=> KeyIsShared(t)) /\ FileOf(t)' = FileOf(t)
  BY <1>1, SharedStays
<1>3. Hours(mem)' = Hours(mem)
  BY DEF Hours, Unhealed
<1>. QED
  BY <1>1, <1>2, <1>3 DEF InBronze

\* Every step keeps what the invariant says of heal's progress.
LEMMA HealedStep == HealTyped /\ HealedInv /\ [Next]_vars => HealedInv'
<1>. SUFFICES ASSUME HealTyped, HealedInv, [Next]_vars PROVE HealedInv'
  OBVIOUS
<1>1. silver \subseteq silver' /\ UNCHANGED trade
  BY DEF Next, ByOperator, HealStep, Tick, Land, Backfill, HealStart, HealBackfill, HealLookback,
         HealDbt, HealDbtFails, MergeSilver, ReconStart, ReconPasses, ReconFails, HealFlip,
         HealDies, vars
<1>2. \A t : KeyIsShared(t)' <=> KeyIsShared(t)
  BY <1>1, SharedStays
<1>3. mem' = mem /\ InBronze(Hours(mem)) => InBronze(Hours(mem))'
  BY InBronzeStays
<1>4. ASSUME UNCHANGED <<manifests, pc, lookback, asked>>, pc = "dbt" => Today' <= asked + 1
      PROVE  HealedInv'
  BY <1>1, <1>2, <1>3, <1>4 DEF manifests, HealedInv, InSilver, OldestStart, Unhealed
<1>5. CASE Tick
  <2>1. pc = "dbt" => Today' <= asked + 1
    BY <1>5 DEF Tick, Today
  <2>. QED
    BY <1>4, <1>5, <2>1 DEF Tick
<1>6. ASSUME Land \/ ByOperator \/ UNCHANGED vars PROVE HealedInv'
  BY <1>4, <1>6 DEF Land, ByOperator, Backfill, vars, manifests, Today, HealedInv
<1>7. CASE HealStart
  BY <1>1, <1>2, <1>7 DEF HealStart, HealedInv, InSilver
<1>8. CASE HealBackfill
  <2>1. UNCHANGED manifests /\ pc' \in {"lookback", "idle"}
    BY <1>8 DEF HealBackfill
  <2>2. ASSUME pc' = "lookback" PROVE InBronze(Hours(mem))'
    <3>1. Puts(Objects(Hours(mem)), Hours(mem))
      BY <1>8, <2>2 DEF HealBackfill
    <3>2. \A t \in Tids : FileOf(t) \in Hours(mem) => t \in bronze' \/ KeyIsShared(t)
      BY <3>1, PutsBrings
    <3>3. Hours(mem)' = Hours(mem) /\ \A t : FileOf(t)' = FileOf(t)
      BY <1>1, <2>1, SharedStays DEF manifests, Hours, Unhealed
    <3>. QED
      BY <1>2, <3>2, <3>3 DEF InBronze
  <2>. QED
    BY <1>1, <1>2, <2>1, <2>2 DEF manifests, HealedInv, InSilver
<1>9. CASE HealLookback
  <2>1. now \in Nat /\ Today \in Nat
    BY HealAssumption, HourNat DEF HealAssumption, HealTyped, TypeOK, Today
  <2>2. asked' = Today /\ Today' = Today /\ Today <= Today + 1
    BY <1>9, <2>1 DEF HealLookback, Today
  <2>3. lookback' = LookbackDays(OldestStart(mem), Today) /\ UNCHANGED manifests
    BY <1>9 DEF HealLookback
  <2>4. InBronze(Hours(mem))'
    BY <1>3, <1>9, <2>3 DEF HealLookback, manifests, HealedInv
  <2>. QED
    BY <1>1, <1>2, <1>9, <2>2, <2>3, <2>4
       DEF HealLookback, manifests, HealedInv, InSilver, Unhealed, OldestStart
<1>10. CASE HealDbt
  <2>1. UNCHANGED manifests /\ pc' = "recon"
    BY <1>10 DEF HealDbt
  <2>2. InSilver(SessionGaps)'
    BY <1>10, HealDbtMerges
  <2>. QED
    BY <1>1, <1>2, <2>1, <2>2 DEF manifests, HealedInv, InSilver
<1>11. ASSUME HealDbtFails \/ HealDies \/ ReconFails PROVE HealedInv'
  <2>1. disk' \in {disk, mem} /\ UNCHANGED <<mem, seen>> /\ pc' = "idle"
    BY <1>11 DEF HealDbtFails, HealDies, ReconFails, manifests
  <2>. QED
    BY <1>1, <1>2, <2>1 DEF HealedInv, InSilver
<1>12. CASE ReconStart
  BY <1>1, <1>2, <1>12 DEF ReconStart, HealedInv, InSilver
<1>13. CASE ReconPasses
  <2>1. disk'.healed = seen.healed
    BY <1>13 DEF ReconPasses, HealTyped, TypeOK, Manifest
  <2>. QED
    BY <1>1, <1>2, <1>13, <2>1 DEF ReconPasses, HealedInv, InSilver
<1>14. CASE HealFlip
  <2>1. mem'.healed = SessionGaps /\ disk'.healed = SessionGaps /\ InSilver(SessionGaps)
    BY <1>14 DEF HealFlip, HealedInv, HealTyped, TypeOK, Manifest
  <2>. QED
    BY <1>1, <1>2, <1>14, <2>1 DEF HealFlip, HealedInv, InSilver
<1>. QED
  BY <1>5, <1>6, <1>7, <1>8, <1>9, <1>10, <1>11, <1>12, <1>13, <1>14 DEF Next, HealStep

\* A gap marked healed is in silver, every trade of it that does not share its object with
\* another hour file: for any hours, days and gaps, late files, failed or killed attempts,
\* hours backfilled again at any time, and a midnight between the lookback and the merge
\* (gap_to_hours, lookback_days and run_heal).
THEOREM HealedGapsAreInSilver == Spec => []HealedIsInSilver
<1>1. HealedInv => HealedIsInSilver
  BY DEF HealedInv, InSilver, HealedIsInSilver
<1>. QED
  BY <1>1, HealTypedAlways, HealedInit, HealedStep, PTL DEF Spec

-------------------------------------------------------------------------------
(* The counts of recon.  Every copy of the manifest is honest, the one a   *)
(* failed heal puts back included, and of bronze only what shares an       *)
(* object is ever lost.                                                    *)

\* The archive misses nothing of a window, but for trades that share an object.
Truthful(w) == \A t \in WsOnly(w) : KeyIsShared(t)

Honest(m) == m.recon # 0 => Truthful([from |-> CeilHour(Start), to |-> m.recon])

HonestInv ==
    /\ Honest(disk) /\ Honest(mem) /\ Honest(seen)
    /\ pc = "tests" => window.from = CeilHour(Start)

\* No counts are recorded when the session ends.
LEMMA HonestInit == Init => HonestInv
BY DEF Init, HonestInv, Honest, Fresh

\* What is true of a window stays true of it.
LEMMA TruthfulStays ==
    ASSUME [Next]_vars, NEW w, Truthful(w)
    PROVE  Truthful(w)'
<1>1. UNCHANGED trade /\ \A t \in Tids : t \in bronze => t \in bronze' \/ KeyIsShared(t)
  BY BronzeStays
<1>2. \A t : KeyIsShared(t)' <=> KeyIsShared(t)
  BY <1>1, SharedStays
<1>. QED
  BY <1>1, <1>2 DEF Truthful, WsOnly

\* Every step keeps the counts of every copy of the manifest true.
LEMMA HonestStep == HealTyped /\ HonestInv /\ [Next]_vars => HonestInv'
<1>. SUFFICES ASSUME HealTyped, HonestInv, [Next]_vars PROVE HonestInv'
  OBVIOUS
<1>1. \A w : Truthful(w) => Truthful(w)'
  BY TruthfulStays
<1>2. ASSUME NEW m, Honest(m), NEW n, n.recon = m.recon
      PROVE  n.recon # 0 => Truthful([from |-> CeilHour(Start), to |-> n.recon])'
  BY <1>1, <1>2 DEF Honest
<1>3. CASE ReconStart
  <2>1. window'.from = CeilHour(Start)
    BY <1>3 DEF ReconStart, Window
  <2>2. UNCHANGED <<disk, mem>> /\ seen' = disk
    BY <1>3 DEF ReconStart
  <2>. QED
    BY <1>2, <2>1, <2>2 DEF HonestInv, Honest
<1>4. CASE ReconPasses
  <2>1. window = [from |-> CeilHour(Start), to |-> window.to]
    BY <1>4 DEF ReconPasses, HonestInv, HealTyped, TypeOK
  <2>2. disk'.recon = window.to
    BY <1>4 DEF ReconPasses, HealTyped, TypeOK, Manifest
  <2>3. Truthful(window)
    BY <1>4 DEF ReconPasses, Converged, Truthful
  <2>4. Honest(disk)'
    <3>1. PICK w : w = window
      OBVIOUS
    <3>2. Truthful(w)' /\ w = [from |-> CeilHour(Start), to |-> w.to] /\ disk'.recon = w.to
      BY <1>1, <2>1, <2>2, <2>3, <3>1
    <3>. QED
      BY <3>2 DEF Honest, Truthful
  <2>5. UNCHANGED <<mem, seen>> /\ pc' = "flip"
    BY <1>4 DEF ReconPasses
  <2>. QED
    BY <1>2, <2>4, <2>5 DEF HonestInv, Honest
<1>5. CASE HealFlip
  <2>1. disk'.recon = mem.recon /\ mem'.recon = mem.recon /\ UNCHANGED seen /\ pc' = "idle"
    BY <1>5 DEF HealFlip, HealTyped, TypeOK, Manifest
  <2>. QED
    BY <1>2, <2>1 DEF HonestInv, Honest
<1>6. CASE ~(ReconStart \/ ReconPasses \/ HealFlip)
  <2>1. /\ disk' \in {disk, mem} /\ mem' \in {disk, mem} /\ seen' = seen
        /\ pc' = "tests" => pc = "tests" /\ window' = window
    BY <1>6 DEF Next, ByOperator, HealStep, Tick, Land, Backfill, HealStart, HealBackfill,
                HealLookback, HealDbt, HealDbtFails, ReconFails, HealDies, vars, manifests
  <2>. QED
    BY <1>2, <2>1 DEF HonestInv, Honest
<1>. QED
  BY <1>3, <1>4, <1>5, <1>6

\* The counts recon writes into the manifest stay true of bronze: in the window they name
\* the archive has every trade the feed delivered, but for those whose object another hour
\* file may write over (run_recon, assert_ws_only_zero and row_object_key).
THEOREM ReconCountsAreHonest == Spec => []ReconIsHonest
<1>1. HonestInv => ReconIsHonest
  BY DEF HonestInv, Honest, Truthful, ReconIsHonest
<1>. QED
  BY <1>1, HealTypedAlways, HonestInit, HonestStep, PTL DEF Spec
===============================================================================
