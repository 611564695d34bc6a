--------------------------------- MODULE Costs ---------------------------------
(***************************************************************************)
(* The cost log costs/sessions.csv: session-down appends a row per         *)
(* session, make cost-backfill (cost_backfill.py) prices the rows from the *)
(* daily totals of Cost Explorer and rewrites the file, make cost-report   *)
(* (cost_report.py) checks the file against its monthly totals.            *)
(*                                                                         *)
(* The log has whole cents; what Cost Explorer shows is finer, and counted *)
(* in units of which Cent make a cent.  Time runs in DayLen units a day;   *)
(* sessions follow each other, as session-up's preflight demands.          *)
(***************************************************************************)
EXTENDS Integers, FiniteSets, Functions

CONSTANTS
    MaxSessions,     \* bound: sessions
    MaxTime,         \* bound: the last instant
    MaxBill,         \* bound: what Cost Explorer shows for a day, in units
    Cent,            \* units of a cent
    DayLen,          \* length of a day
    MaxSessionLen,   \* max_session_hours, after which the reaper ends a session
    MonthDays,       \* days of a month
    Scale,           \* parts a unit is divided into, enough to split a day exactly
    SessionCeiling, IdleCeiling, Tolerance   \* of cost-report, in cents

ASSUME CostsAssumption ==
    /\ {MaxSessions, DayLen, MonthDays, Scale, Cent} \subseteq Nat \ {0}
    /\ {MaxTime, MaxBill, MaxSessionLen, SessionCeiling, IdleCeiling, Tolerance}
         \subseteq Nat
    /\ \A n \in 1..DayLen : Scale % n = 0
    /\ \A n \in 1..MaxSessions : Scale % n = 0

Sessions == 1..MaxSessions
None == -1
BACKFILL_DELAY == DayLen
STALE_AFTER == 2 * DayLen

DayOf(t) == t \div DayLen
Days == 0..DayOf(MaxTime)
MonthOf(d) == d \div MonthDays

VARIABLES
    now,
    phase,     \* per session: "none", "up", "reaped" or "logged"
    start,     \* per session: when it started, None before
    end,       \* per session: when it ended, None before
    csv,       \* per session: its row in costs/sessions.csv, NoRow if there is none
    bill,      \* per day: the total Cost Explorer shows by now
    job,       \* cost-backfill: next step and the rows in its memory
    late,      \* history: a row was appended after one of the same day was priced
    raced      \* history: sessions whose row was appended while job held its copy

vars == <<now, phase, start, end, csv, bill, job, late, raced>>
sessions == <<phase, start, end>>

NoRow == [status |-> "absent", actual |-> None]
Rows(f) == {s \in Sessions : f[s].status # "absent"}
Priced(f) == {s \in Rows(f) : f[s].actual # None}
NoJob == [at |-> "idle", rows |-> [s \in Sessions |-> NoRow]]
-------------------------------------------------------------------------------
(* cost_backfill.py                                                        *)

\* The days a row touches: both ends count, also one at midnight sharp.
DaysOf(s) == DayOf(start[s])..DayOf(end[s])

SmallerOf(a, b) == IF a < b THEN a ELSE b
LargerOf(a, b) == IF a < b THEN b ELSE a

\* _overlap_seconds
Overlap(s, d) ==
    LargerOf(SmallerOf(end[s], (d + 1) * DayLen) - LargerOf(start[s], d * DayLen), 0)

\* The rows that touch a day, and the time they take of it together.
Sharing(d, f) == {r \in Rows(f) : d \in DaysOf(r)}
TimeShared(d, f) == SumFunction([r \in Sharing(d, f) |-> Overlap(r, d)])

\* Faulty variant: a day is split over the rows that are still to be priced.
SessionShare_Unpriced(s, d, f) ==
    LET sharing == Sharing(d, f) \ Priced(f)
        total == SumFunction([r \in sharing |-> Overlap(r, d)])
    IN  IF total = 0 THEN Scale \div Cardinality(sharing)
                     ELSE Overlap(s, d) * (Scale \div total)

\* session_share, in parts of Scale.
SessionShare(s, d, f) ==
    IF TimeShared(d, f) = 0 THEN Scale \div Cardinality(Sharing(d, f))
                            ELSE Overlap(s, d) * (Scale \div TimeShared(d, f))

\* The row's cost in parts of a unit, and rounded to the cent; a tie is rounded up.
Parts(s, f) == SumFunction([d \in DaysOf(s) |-> bill[d] * SessionShare(s, d, f)])
CentParts == Scale * Cent

\* Faulty variant: a row never pays less than its share, so it is rounded up.
Cost_Up(s, f) == (Parts(s, f) + CentParts - 1) \div CentParts

Cost(s, f) == (2 * Parts(s, f) + CentParts) \div (2 * CentParts)

\* Faulty variant: a status is all there is to tell a priced row by.
Eligible_Unfilled(s, f) ==
    /\ f[s].status \in {"pending", "reaper-terminated"}
    /\ now - end[s] >= BACKFILL_DELAY

\* Faulty variant: a session that was reaped is left alone.
Eligible_Pending(s, f) ==
    /\ f[s].status = "pending"
    /\ f[s].actual = None
    /\ now - end[s] >= BACKFILL_DELAY

Eligible(s, f) ==
    /\ f[s].status \in {"pending", "reaper-terminated"}
    /\ f[s].actual = None
    /\ now - end[s] >= BACKFILL_DELAY

\* Faulty variant: the status is not touched.
Backfilled_Stays(f) ==
    [s \in Sessions |-> IF Eligible(s, f) THEN [f[s] EXCEPT !.actual = Cost(s, f)] ELSE f[s]]

\* The rows backfill leaves: a pending row becomes final, a reaped one keeps its status.
Backfilled(f) ==
    [s \in Sessions |->
        IF Eligible(s, f)
        THEN [status |-> IF f[s].status = "pending" THEN "final" ELSE f[s].status,
              actual |-> Cost(s, f)]
        ELSE f[s]]

-------------------------------------------------------------------------------
(* cost_report.py                                                          *)

StaleRows(f) == {s \in Rows(f) : f[s].actual = None /\ now - end[s] >= STALE_AFTER}

OverBudgetRows(f) == {s \in Priced(f) : f[s].actual >= SessionCeiling}

\* Faulty variant: the query ends with the month before, as its end is exclusive.
Months_Past == 0..(MonthOf(DayOf(now)) - 1)

\* query_ce_monthly: from the project's inception to this month.
Months == 0..MonthOf(DayOf(now))

CeTotal(m) == SumFunctionOnSet(bill, {d \in Days : MonthOf(d) = m})

\* idle_month_report: a session counts in the month of its start.
PricedIn(m, f) == {s \in Priced(f) : MonthOf(DayOf(start[s])) = m}
Idle(m, f) == CeTotal(m) - Cent * SumFunction([s \in PricedIn(m, f) |-> f[s].actual])

\* reconcile
Gap(f) ==
    SumFunction([m \in Months |-> CeTotal(m)])
        - Cent * SumFunction([s \in Priced(f) |-> f[s].actual])

IsDoubleAttributed(gap) == gap < -(Cent * Tolerance)

\* What cost-report does with the rows f: it writes the report, or exits with a complaint.
Outcome(f) ==
    CASE StaleRows(f) # {} -> "stale"
      [] StaleRows(f) = {} /\ OverBudgetRows(f) # {} -> "over budget"
      [] StaleRows(f) = {} /\ OverBudgetRows(f) = {}
           /\ \E m \in Months : Idle(m, f) >= Cent * IdleCeiling -> "idle"
      [] OTHER -> IF IsDoubleAttributed(Gap(f)) THEN "double" ELSE "written"
-------------------------------------------------------------------------------
Init ==
    /\ now = 0 /\ phase = [s \in Sessions |-> "none"]
    /\ start = [s \in Sessions |-> None] /\ end = [s \in Sessions |-> None]
    /\ csv = [s \in Sessions |-> NoRow] /\ bill = [d \in Days |-> 0]
    /\ job = NoJob /\ late = FALSE /\ raced = {}

\* Time passes; the reaper does not let a session run over its limit.
Tick ==
    /\ now < MaxTime
    /\ \A s \in Sessions : phase[s] = "up" => now - start[s] < MaxSessionLen
    /\ now' = now + 1
    /\ UNCHANGED <<sessions, csv, bill, job, late, raced>>

\* Cost Explorer catches up with a day; its totals only grow.
Bill(d) ==
    /\ d <= DayOf(now)
    /\ \E b \in (bill[d] + 1)..MaxBill : bill' = [bill EXCEPT ![d] = b]
    /\ UNCHANGED <<now, sessions, csv, job, late, raced>>

\* The sessions before it are closed, which is what preflight asks.
SessionUp(s) ==
    /\ phase[s] = "none"
    /\ \A r \in 1..(s - 1) : phase[r] = "logged"
    /\ phase' = [phase EXCEPT ![s] = "up"] /\ start' = [start EXCEPT ![s] = now]
    /\ UNCHANGED <<now, end, csv, bill, job, late, raced>>

Reap(s) ==
    /\ phase[s] = "up"
    /\ phase' = [phase EXCEPT ![s] = "reaped"] /\ end' = [end EXCEPT ![s] = now]
    /\ UNCHANGED <<now, start, csv, bill, job, late, raced>>

\* session-down appends the row: the end is now, or when the reaper struck.
SessionDown(s) ==
    /\ phase[s] \in {"up", "reaped"}
    /\ phase' = [phase EXCEPT ![s] = "logged"]
    /\ end' = [end EXCEPT ![s] = IF phase[s] = "up" THEN now ELSE @]
    /\ csv' = [csv EXCEPT ![s] =
                 [status |-> IF phase[s] = "up" THEN "pending" ELSE "reaper-terminated",
                  actual |-> None]]
    /\ late' = (late \/ \E r \in Priced(csv) : \E d \in DaysOf(r) :
                            d \in DayOf(start[s])..DayOf(end'[s]))
    /\ raced' = IF job.at = "write" THEN raced \cup {s} ELSE raced
    /\ UNCHANGED <<now, start, bill, job>>

\* load_rows, and backfill on them.
BackfillFills ==
    /\ job.at = "idle"
    /\ Backfilled(csv) # csv
    /\ job' = [at |-> "write", rows |-> Backfilled(csv)]
    /\ UNCHANGED <<now, sessions, csv, bill, late, raced>>

\* Faulty variant: only the rows that have a price are written.
BackfillWrites_Priced ==
    /\ job.at = "write"
    /\ job' = NoJob
    /\ csv' = [s \in Sessions |-> IF s \in Priced(job.rows) THEN job.rows[s] ELSE NoRow]
    /\ UNCHANGED <<now, sessions, bill, late, raced>>

\* write_rows replaces the file by the rows in memory.
BackfillWrites ==
    /\ job.at = "write"
    /\ job' = NoJob /\ csv' = job.rows
    /\ UNCHANGED <<now, sessions, bill, late, raced>>

\* --dry-run, or Cost Explorer refused a query: nothing is written.
BackfillStops ==
    /\ job.at = "write"
    /\ job' = NoJob
    /\ UNCHANGED <<now, sessions, csv, bill, late, raced>>

Next ==
    \/ Tick \/ \E d \in Days : Bill(d)
    \/ \E s \in Sessions : SessionUp(s) \/ Reap(s) \/ SessionDown(s)
    \/ BackfillFills \/ BackfillWrites \/ BackfillStops

Spec == Init /\ [][Next]_vars
-------------------------------------------------------------------------------
(* Properties.                                                             *)

Row ==
    {NoRow} \cup [status : {"pending"}, actual : {None}]
            \cup [status : {"final"}, actual : Nat]
            \cup [status : {"reaper-terminated"}, actual : Nat \cup {None}]

TypeOK ==
    /\ now \in 0..MaxTime
    /\ phase \in [Sessions -> {"none", "up", "reaped", "logged"}]
    /\ start \in [Sessions -> {None} \cup 0..MaxTime]
    /\ end \in [Sessions -> {None} \cup 0..MaxTime]
    /\ csv \in [Sessions -> Row] /\ bill \in [Days -> 0..MaxBill]
    /\ job \in [at : {"idle", "write"}, rows : [Sessions -> Row]]
    /\ late \in BOOLEAN /\ raced \subseteq Sessions

\* As long as no row was appended after another row of one of its days was priced, no cost
\* is attributed twice, however the totals grow between the runs of cost-backfill: what
\* the prices exceed Cost Explorer by is the rounding of each of them, half a cent a row.
GapIsRounding == ~late => 2 * Gap(csv) >= -(Cent * Cardinality(Priced(csv)))

\* cost_report.py, "a few cents past Cost Explorer's total; anything beyond is real double
\* attribution": with no more than two priced rows for each cent of its tolerance the
\* report says that cost was attributed twice only if it was.
NoFalseAlarm ==
    Outcome(csv) = "double" => late \/ Cardinality(Priced(csv)) > 2 * Tolerance

\* cost_report.py, is_double_attributed: the all-time gap is the sum of every month's
\* idle spend, so that the ceiling of a month bounds it: no session falls in a month
\* that the query leaves out, or in two.
GapIsSummedIdle == Gap(csv) = SumFunction([m \in Months |-> Idle(m, csv)])

\* costs/README.md, one row per session: session-down's row stays in the file that
\* cost-backfill rewrites, unless it was appended between that run's read and its write.
LoggedHasRow ==
    \A s \in Sessions : phase[s] = "logged" /\ s \notin raced => s \in Rows(csv)

\* A price is final, and so is the mark of the reaper: no later run, with a larger total
\* of the day or with other rows beside it, touches a row that has its price.
PricedOnce ==
    [][\A s \in Sessions : s \in Priced(csv) => csv'[s] = csv[s]]_vars

\* cost-report refuses stale rows with "run make cost-backfill first": at any time a run of
\* it would leave none, whatever their status and whether or not it finds a row to price.
RefusalIsCurable == StaleRows(Backfilled(csv)) = {}
===============================================================================
