-------------------------------- MODULE Silver --------------------------------
(***************************************************************************)
(* Bronze to silver: dbt's incremental Iceberg merge on tid                *)
(* (models/silver/trades.sql, macros/silver_trades_select.sql).            *)
(*                                                                         *)
(* On Athena one dbt run is two statements: a temporary table is created   *)
(* from the select (the dt lookback, then one row per tid), and a MERGE    *)
(* joins it to the target rows inside the same lookback.  Each statement   *)
(* evaluates current_date for itself.  Bronze rows arrive at any time from *)
(* both paths, more than once; a backfill object written again replaces    *)
(* the rows of the one before.                                             *)
(***************************************************************************)
EXTENDS Integers

CONSTANTS
    Tids,            \* trade ids
    Absent,          \* the ledger's value of a trade without a row
    Lookbacks,       \* silver_lookback_days of the runs (2, or what heal computes)
    MidnightRuns,    \* may UTC midnight fall between the two statements of a run?
    MaxDay,          \* bound: days
    MaxRows,         \* bound: rows ever written to bronze
    MaxRuns          \* bound: dbt runs

ASSUME SilverAssumption ==
    /\ Lookbacks \subseteq Nat /\ MidnightRuns \in BOOLEAN
    /\ Absent \notin [source : {"ws", "backfill"}, first : {"ws", "backfill"}]
    /\ MaxDay \in Nat /\ MaxRows \in Nat /\ MaxRuns \in Nat

VARIABLES
    day,        \* current_date
    dayOf,      \* event day of each trade, the same in both sources
    bronze,     \* the rows of trades_raw
    rows,       \* rows written so far: ingested_at of the next one
    phase,      \* "idle", or "staged" between the two statements
    lookback,   \* of the current run
    tmp,        \* the temporary table
    silver,     \* the rows of silver.trades
    runs,       \* dbt runs so far
    rebuilds    \* full refreshes among them

vars == <<day, dayOf, bronze, rows, phase, lookback, tmp, silver, runs, rebuilds>>
run == <<phase, lookback, tmp, silver, runs, rebuilds>>

Ledger == INSTANCE TradeLedger WITH
    ledger <- [t \in Tids |->
        IF \E r \in silver : r.tid = t
        THEN LET r == CHOOSE r \in silver : r.tid = t
             IN  [source |-> r.source, first |-> r.first]
        ELSE Absent]

Sources == {"ws", "backfill"}
BronzeRow == [tid : Tids, source : Sources, at : Nat]
SourceRow == [tid : Tids, source : Sources, at : Nat, first : Sources]
\* ins is the run that inserted the row: two rows of one tid differ in it.
SilverRow == [tid : Tids, source : Sources, at : Nat, first : Sources, ins : Nat]

\* Faulty variant: both paths rank the same.
Rank_Flat(source) == IF source \in Sources THEN 1 ELSE 0

Rank(source) == IF source = "backfill" THEN 2 ELSE 1

-------------------------------------------------------------------------------
(* The select.                                                             *)

\* Faulty variant: the select reads one day more than the MERGE looks back.
Selected_DayMore(days) ==
    LET window == {r \in bronze : dayOf[r.tid] >= day - days - 1}
        first  == {r \in window : \A s \in window : s.tid = r.tid /\ s # r =>
                     \/ Rank(r.source) > Rank(s.source)
                     \/ Rank(r.source) = Rank(s.source) /\ r.at > s.at}
    IN  {[tid |-> r.tid, source |-> r.source, at |-> r.at, first |-> r.source] : r \in first}

\* Rows inside the lookback: dt >= date_add('day', -lookback, current_date).
InLookback(tid, days) == dayOf[tid] >= day - days

\* The order of row_number() over (partition by tid ...): r comes before s.
Outranks(r, s) ==
    \/ Rank(r.source) > Rank(s.source)
    \/ Rank(r.source) = Rank(s.source) /\ r.at > s.at

\* rn = 1 of each tid, with its own source as first_seen_source.
Selected(days) ==
    LET window == {r \in bronze : InLookback(r.tid, days)}
        first  == {r \in window : \A s \in window : s.tid = r.tid /\ s # r => Outranks(r, s)}
    IN  {[tid |-> r.tid, source |-> r.source, at |-> r.at, first |-> r.source] : r \in first}

-------------------------------------------------------------------------------
(* The MERGE.                                                              *)

\* on src.tid = target.tid and the incremental predicate on target.time.
Matches(r, s) == r.tid = s.tid /\ InLookback(r.tid, lookback)

\* when matched and src.source_rank >= target.source_rank
Updates(r, s) == Matches(r, s) /\ Rank(s.source) >= Rank(r.source)

\* Faulty variant: no merge_exclude_columns, the MERGE rewrites first_seen_source too.
Updated_First(r, s) == [r EXCEPT !.source = s.source, !.at = s.at, !.first = s.first]

\* then update every column but first_seen_source.
Updated(r, s) == [r EXCEPT !.source = s.source, !.at = s.at]

\* when not matched then insert
Unmatched(s) == \A r \in silver : ~Matches(r, s)
Inserted(s) ==
    [tid |-> s.tid, source |-> s.source, at |-> s.at, first |-> s.first, ins |-> runs]

\* A target row after the MERGE; tmp holds one row per tid, so at most one applies.
After(r) ==
    IF \E s \in tmp : Updates(r, s)
    THEN Updated(r, CHOOSE s \in tmp : Updates(r, s))
    ELSE r

Merged ==
    {After(r) : r \in silver} \cup {Inserted(s) : s \in {x \in tmp : Unmatched(x)}}

-------------------------------------------------------------------------------
Init ==
    /\ day = 0 /\ dayOf \in [Tids -> 0..MaxDay]
    /\ bronze = {} /\ rows = 0
    /\ phase = "idle" /\ lookback = 0 /\ tmp = {} /\ silver = {}
    /\ runs = 0 /\ rebuilds = 0

\* Both ingestion paths append; a trade cannot arrive before its day.
Arrive(t, source) ==
    /\ rows < MaxRows /\ dayOf[t] <= day
    /\ rows' = rows + 1
    /\ bronze' = bronze \cup {[tid |-> t, source |-> source, at |-> rows + 1]}
    /\ UNCHANGED <<day, dayOf, run>>

\* write_parquet_object puts a backfill object over an existing key: a row of the old
\* object is gone, unless the new object brings the trade again.
Overwrite(r) ==
    /\ r \in bronze /\ r.source = "backfill"
    /\ bronze' = bronze \ {r}
    /\ UNCHANGED <<day, dayOf, rows, run>>

NextDay ==
    /\ day < MaxDay /\ (phase = "idle" \/ MidnightRuns)
    /\ day' = day + 1
    /\ UNCHANGED <<dayOf, bronze, rows, run>>

\* Faulty variant: the two statements use different lookbacks.
Stage_OtherLookback(days) ==
    /\ phase = "idle" /\ runs < MaxRuns
    /\ phase' = "staged" /\ lookback' = days + 1 /\ runs' = runs + 1
    /\ tmp' = Selected(days)
    /\ UNCHANGED <<day, dayOf, bronze, rows, silver, rebuilds>>

\* create table trades__dbt_tmp as <select>
Stage(days) ==
    /\ phase = "idle" /\ runs < MaxRuns
    /\ phase' = "staged" /\ lookback' = days /\ runs' = runs + 1
    /\ tmp' = Selected(days)
    /\ UNCHANGED <<day, dayOf, bronze, rows, silver, rebuilds>>

\* merge into trades as target using trades__dbt_tmp as src
Merge ==
    /\ phase = "staged"
    /\ silver' = Merged
    /\ phase' = "idle" /\ tmp' = {}
    /\ UNCHANGED <<day, dayOf, bronze, rows, lookback, runs, rebuilds>>

\* The run fails between its two statements: the target is untouched.
Fail ==
    /\ phase = "staged"
    /\ phase' = "idle" /\ tmp' = {}
    /\ UNCHANGED <<day, dayOf, bronze, rows, lookback, silver, runs, rebuilds>>

\* --full-refresh, and the first run ever: the table is created from the select.
FullRefresh(days) ==
    /\ phase = "idle" /\ runs < MaxRuns
    /\ runs' = runs + 1 /\ rebuilds' = rebuilds + 1
    /\ silver' = {[tid |-> s.tid, source |-> s.source, at |-> s.at, first |-> s.first,
                   ins |-> runs + 1] : s \in Selected(days)}
    /\ UNCHANGED <<day, dayOf, bronze, rows, phase, lookback, tmp>>

Next ==
    \/ \E t \in Tids, source \in Sources : Arrive(t, source)
    \/ \E r \in bronze : Overwrite(r)
    \/ NextDay
    \/ \E days \in Lookbacks : Stage(days) \/ FullRefresh(days)
    \/ Merge \/ Fail

Spec == Init /\ [][Next]_vars

-------------------------------------------------------------------------------
(* Properties.                                                             *)

TypeOK ==
    /\ day \in 0..MaxDay /\ dayOf \in [Tids -> 0..MaxDay]
    /\ bronze \subseteq BronzeRow /\ rows \in 0..MaxRows
    /\ phase \in {"idle", "staged"} /\ lookback \in Lookbacks \cup {0}
    /\ tmp \subseteq SourceRow /\ silver \subseteq SilverRow
    /\ runs \in 0..MaxRuns /\ rebuilds \in 0..runs

\* PRD, "exactly-once at silver": whatever arrives twice, late or from both paths, and
\* however far the runs look back, a trade has one row (the select's pre-dedup, and the
\* two lookback filters agreeing on which trades are in play).
ExactlyOnce == \A r, s \in silver : r.tid = s.tid => r = s

\* The row of bronze a row of silver stands for.
RowOf(r) == [tid |-> r.tid, source |-> r.source, at |-> r.at]

\* The merge only ever corrects forward: while the row of bronze behind it is there, a row
\* of silver changes to a higher source, or to a later delivery of the same source.  Once
\* that row is overwritten in bronze, silver may fall back on an older delivery.
CorrectionsStick ==
    [][runs' = runs => \A r \in silver, u \in silver' :
         r.tid = u.tid /\ RowOf(r) \in bronze =>
             \/ Rank(u.source) > Rank(r.source)
             \/ u.source = r.source /\ u.at >= r.at]_silver

\* Silver keeps the promises of the abstract ledger: one row per trade, a source that
\* never falls in rank (update_condition), first_seen_source written once
\* (merge_exclude_columns).  Only a --full-refresh counts as a rebuild of the ledger, so
\* whatever an incremental run does to a row has to be a merge.
ImplementsLedger == Ledger!Spec
===============================================================================
