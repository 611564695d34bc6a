--------------------------------- MODULE Heal ---------------------------------
(***************************************************************************)
(* make heal for one finished session (scripts/heal.py), with make recon,  *)
(* which it runs as a subprocess (scripts/recon.py), and the manifest file *)
(* both of them read and write whole.                                      *)
(*                                                                         *)
(* The session has one coin; its gaps are those its ingester logged, and   *)
(* the feed delivered every trade of the session outside them.  The        *)
(* archive publishes an hour file some time after the hour, and holds late *)
(* events in the next file.  An operator runs make backfill besides, of    *)
(* any hour and as often as he likes.  Each backfilled hour file is one    *)
(* object per event day, at a key that names that day and the hour of the  *)
(* file: the first file of a day writes over the object of the first file  *)
(* of the day before when it holds late events of that day.                *)
(***************************************************************************)
EXTENDS HourRules, FiniteSets

CONSTANTS
    Tids,            \* trades
    Start, End,      \* of the session
    SessionGaps,     \* gaps of the manifest
    MaxTime,         \* bound: the clock
    MaxBroken        \* bound: backfills and dbt runs that fail, heals that are killed

ASSUME HealAssumption ==
    /\ Start \in Nat /\ End \in Nat /\ Start < End
    /\ SessionGaps \subseteq [start : Nat, end : Nat]
    /\ \A g \in SessionGaps : Start <= g.start /\ g.start < g.end /\ g.end < End
    /\ MaxTime \in Nat /\ End <= MaxTime /\ MaxBroken \in Nat

VARIABLES
    now,
    trade,      \* per trade: event time, late into the next file, fed live
    landed,     \* hour files 0..landed-1 are published
    bronze,     \* trades of the archive in bronze
    silver,     \* trades of the archive in silver
    disk,       \* the manifest file: gaps healed, end of the window recon counted (0: none)
    pc,         \* step of heal
    mem,        \* heal's copy of the manifest
    lookback,   \* silver_lookback_days of its dbt run
    asked,      \* the day it was computed on
    seen,       \* the recon subprocess' copy of the manifest
    window,     \* the window it compares
    broken

manifests == <<disk, mem, seen>>
vars == <<now, trade, landed, bronze, silver, manifests, pc, lookback, asked, window, broken>>

Times == FloorHour(Start)..CeilHour(End)
Files == 0..(HourOf(MaxTime) + 1)
Today == DayOf(now)
FileOf(t) == HourOf(trade[t].time) + trade[t].late
Unhealed(m) == SessionGaps \ m.healed

\* The hours of all gaps not healed, each once (_dedupe_hours).
Hours(m) == UNION {GapToHours(g.start, g.end) : g \in Unhealed(m)}

OldestStart(m) ==
    CHOOSE s \in {g.start : g \in Unhealed(m)} : \A g \in Unhealed(m) : s <= g.start

-------------------------------------------------------------------------------
(* Objects of bronze.                                                      *)

\* dt=<event day>/source=backfill/hour=<hour of the file>.parquet
Key(t) == [dt |-> DayOf(trade[t].time), hour |-> FileOf(t) % HoursPerDay]

\* The trades of some hour files, and the objects they are written to.
InFiles(files) == {t \in Tids : FileOf(t) \in files}
Objects(files) == {Key(t) : t \in InFiles(files)}

\* Some objects of these files are written, in any order: an object that two of the files
\* share is left as the later of them wrote it, and what it held before is gone.
Puts(objects, files) ==
    \E last \in [objects -> files] :
        /\ \A key \in objects : \E t \in InFiles({last[key]}) : Key(t) = key
        /\ bronze' = {t \in bronze : Key(t) \notin objects}
                       \cup {t \in InFiles(files) : Key(t) \in objects /\ FileOf(t) = last[Key(t)]}

\* Another hour file writes the object of t.
KeyIsShared(t) == \E u \in Tids : FileOf(u) # FileOf(t) /\ Key(u) = Key(t)

-------------------------------------------------------------------------------
(* What recon's dbt tests see in bronze.                                   *)
WsOnly(w) ==
    {t \in Tids : InWindow(w, trade[t].time) /\ trade[t].fed /\ t \notin bronze}
BackfillOnly(w) ==
    {t \in Tids : InWindow(w, trade[t].time) /\ ~trade[t].fed /\ t \in bronze}

\* Faulty variant: the closing millisecond is not part of the gap.
Covers_Exclusive(g, t) == g.start <= trade[t].time /\ trade[t].time < g.end

\* Both ends belong to the gap.
Covers(g, t) == g.start <= trade[t].time /\ trade[t].time <= g.end

\* assert_ws_only_zero and assert_backfill_only_within_gaps.
Converged(w) ==
    /\ WsOnly(w) = {}
    /\ \A t \in BackfillOnly(w) : \E g \in SessionGaps : Covers(g, t)

-------------------------------------------------------------------------------
Fresh == [healed |-> {}, recon |-> 0]

\* The feed saw the trades of the session, except those in a gap, and of its closing
\* millisecond those that came before the one that closed it.
Feeds ==
    \A t \in Tids :
        IF Start <= trade[t].time /\ trade[t].time < End
        THEN trade[t].fed \/ \E g \in SessionGaps : trade[t].time \in g.start..g.end
        ELSE ~trade[t].fed

Init ==
    /\ now = End
    /\ trade \in [Tids -> [time : Times, late : {0, 1}, fed : BOOLEAN]] /\ Feeds
    /\ landed = 0 /\ bronze = {} /\ silver = {}
    /\ disk = Fresh /\ mem = Fresh /\ seen = Fresh
    /\ pc = "idle" /\ lookback = 0 /\ asked = 0 /\ window = [from |-> 0, to |-> 0]
    /\ broken = 0

\* gh_run.sh watches a run for 20 minutes: at most one midnight in it.
Tick ==
    /\ now < MaxTime
    /\ pc = "dbt" => DayOf(now + 1) <= asked + 1
    /\ now' = now + 1
    /\ UNCHANGED <<trade, landed, bronze, silver, manifests, pc, lookback, asked, window,
                   broken>>

Land ==
    /\ landed \in Files /\ Hour * (landed + 1) <= now
    /\ landed' = landed + 1
    /\ UNCHANGED <<now, trade, bronze, silver, manifests, pc, lookback, asked, window, broken>>

\* make backfill, or the whole Map of it, for one hour file: all its objects or, when the
\* Lambda fails, some.  One that writes no object changes nothing.
Backfill(f) ==
    /\ f < landed
    /\ \E objects \in SUBSET Objects({f}) \ {{}} : Puts(objects, {f})
    /\ UNCHANGED <<now, trade, landed, silver, manifests, pc, lookback, asked, window, broken>>

-------------------------------------------------------------------------------
(* heal.                                                                   *)

\* Faulty variant: the hours are not checked for having landed.
HealStart_Unlanded ==
    /\ pc = "idle" /\ Unhealed(disk) # {}
    /\ pc' = "backfill" /\ mem' = disk
    /\ UNCHANGED <<now, trade, landed, bronze, silver, disk, seen, lookback, asked, window,
                   broken>>

\* Without an unhealed gap there is nothing to do; with an hour that has not landed heal
\* aborts.  Neither changes anything.
HealStart ==
    /\ pc = "idle"
    /\ Unhealed(disk) # {} /\ \A f \in Hours(disk) : f < landed
    /\ pc' = "backfill" /\ mem' = disk
    /\ UNCHANGED <<now, trade, landed, bronze, silver, disk, seen, lookback, asked, window,
                   broken>>

\* start_backfill: a Map over all hours, or an exception with some objects written.
HealBackfill ==
    /\ pc = "backfill"
    /\ \/ /\ Puts(Objects(Hours(mem)), Hours(mem))
          /\ pc' = "lookback" /\ UNCHANGED broken
       \/ /\ broken < MaxBroken /\ broken' = broken + 1
          /\ \E objects \in SUBSET Objects(Hours(mem)) : Puts(objects, Hours(mem))
          /\ pc' = "idle"
    /\ UNCHANGED <<now, trade, landed, silver, manifests, lookback, asked, window>>

HealLookback ==
    /\ pc = "lookback"
    /\ pc' = "dbt" /\ asked' = Today
    /\ lookback' = LookbackDays(OldestStart(mem), Today)
    /\ UNCHANGED <<now, trade, landed, bronze, silver, manifests, window, broken>>

\* The merge reads the days of the lookback, as of the day it runs on.
MergeSilver ==
    silver' = silver \cup
        {t \in bronze : InLookback(trade[t].time, Today, lookback)}

HealDbt ==
    /\ pc = "dbt" /\ MergeSilver
    /\ pc' = "recon"
    /\ UNCHANGED <<now, trade, landed, bronze, manifests, lookback, asked, window, broken>>

\* A failed dbt run, its merge done or not (a test after it fails, the watch times out):
\* the attempt is recorded in the manifest, and heal raises.
HealDbtFails ==
    /\ pc = "dbt" /\ broken < MaxBroken
    /\ MergeSilver \/ UNCHANGED silver
    /\ broken' = broken + 1 /\ pc' = "idle" /\ disk' = mem
    /\ UNCHANGED <<now, trade, landed, bronze, mem, seen, lookback, asked, window>>

\* make recon reads the manifest for itself.
ReconStart ==
    /\ pc = "recon" /\ ~IsEmpty(Window(Start, End, now))
    /\ pc' = "tests" /\ seen' = disk /\ window' = Window(Start, End, now)
    /\ UNCHANGED <<now, trade, landed, bronze, silver, disk, mem, lookback, asked, broken>>

\* Faulty variant: the window written is computed again.
ReconPasses_Again ==
    /\ pc = "tests" /\ Converged(window)
    /\ pc' = "flip" /\ disk' = [seen EXCEPT !.recon = Window(Start, End, now).to]
    /\ UNCHANGED <<now, trade, landed, bronze, silver, mem, seen, lookback, asked, window,
                   broken>>

\* Its dbt tests pass, the counts are queried and the manifest is written.
ReconPasses ==
    /\ pc = "tests" /\ Converged(window)
    /\ pc' = "flip" /\ disk' = [seen EXCEPT !.recon = window.to]
    /\ UNCHANGED <<now, trade, landed, bronze, silver, mem, seen, lookback, asked, window,
                   broken>>

\* No hour to reconcile, a failed test, or a failed run: recon writes nothing, and heal
\* writes its own copy of the manifest and raises.
ReconFails ==
    /\ \/ pc = "recon" /\ IsEmpty(Window(Start, End, now)) /\ UNCHANGED broken
       \/ pc = "tests" /\ ~Converged(window) /\ UNCHANGED broken
       \/ pc = "tests" /\ broken < MaxBroken /\ broken' = broken + 1
    /\ pc' = "idle" /\ disk' = mem
    /\ UNCHANGED <<now, trade, landed, bronze, silver, mem, seen, lookback, asked, window>>

\* Every gap is flipped in heal's copy, and the copy written over the file.
HealFlip ==
    /\ pc = "flip"
    /\ pc' = "idle"
    /\ mem' = [mem EXCEPT !.healed = SessionGaps] /\ disk' = mem'
    /\ UNCHANGED <<now, trade, landed, bronze, silver, seen, lookback, asked, window, broken>>

\* heal is killed, or its terraform destroy fails: nothing of its copy is written.
HealDies ==
    /\ pc # "idle" /\ broken < MaxBroken
    /\ broken' = broken + 1 /\ pc' = "idle"
    /\ UNCHANGED <<now, trade, landed, bronze, silver, manifests, lookback, asked, window>>

-------------------------------------------------------------------------------
HealStep ==
    \/ HealBackfill \/ HealLookback \/ HealDbt \/ HealDbtFails
    \/ ReconStart \/ ReconPasses \/ ReconFails \/ HealFlip

ByOperator == \E f \in Files : Backfill(f)

Next == Tick \/ Land \/ ByOperator \/ HealStart \/ HealStep \/ HealDies

Spec == Init /\ [][Next]_vars

\* Time passes, the archive publishes in the end, the operator runs heal again whenever it
\* can start, and heal goes on with what it has begun.  Nobody has to run make backfill.
FairSpec ==
    Spec /\ WF_vars(Tick) /\ WF_vars(Land) /\ WF_vars(HealStart) /\ WF_vars(HealStep)

-------------------------------------------------------------------------------
(* Properties.                                                             *)

Manifest == [healed : SUBSET SessionGaps, recon : 0..MaxTime]

\* The types; and bronze only ever has trades of files that have landed.
TypeOK ==
    /\ now \in End..MaxTime /\ landed \in 0..(HourOf(MaxTime) + 1)
    /\ trade \in [Tids -> [time : Times, late : {0, 1}, fed : BOOLEAN]]
    /\ bronze \subseteq Tids /\ silver \subseteq Tids
    /\ \A t \in bronze : FileOf(t) < landed
    /\ disk \in Manifest /\ mem \in Manifest /\ seen \in Manifest
    /\ pc \in {"idle", "backfill", "lookback", "dbt", "recon", "tests", "flip"}
    /\ lookback \in Nat /\ asked \in 0..DayOf(MaxTime)
    /\ window \in [from : 0..MaxTime, to : 0..MaxTime] /\ broken \in 0..MaxBroken

\* A gap marked healed is in silver, every trade of it: the boundary rule finds the file
\* of each, late or not, and the lookback its day, on either side of midnight, across
\* failed and killed attempts and whatever is backfilled again in between.  Except for
\* trades whose object two hour files share: one may have been written over the other
\* before the merge.
HealedIsInSilver ==
    \A g \in disk.healed, t \in Tids :
        g.start <= trade[t].time /\ trade[t].time < g.end => t \in silver \/ KeyIsShared(t)

\* The counts recon leaves in the manifest stay those of bronze: in the window they are
\* said to be of, the archive has every trade the feed delivered (ws_only is 0), except
\* for trades whose object a later backfill of another hour file writes over.
ReconIsHonest ==
    disk.recon # 0 =>
        \A t \in WsOnly([from |-> CeilHour(Start), to |-> disk.recon]) : KeyIsShared(t)

\* Heal converges: if in the end, by heal or by hand, the archive stands beside the feed in
\* every full hour of the session (there is one) and stays there, its gaps end up healed
\* for good, on whatever side of an hour or of its own last millisecond a gap's trades fall.
HealConverges ==
    <>[](WsOnly(Window(Start, End, End + Lag)) = {}) => <>[](disk.healed = SessionGaps)

\* ADR-003, "`recon_trades` output is written into the session manifest": a session whose
\* gaps are healed has the counts of the recon that let them be.
HealedHasCounts == disk.healed # {} => disk.recon # 0
===============================================================================
