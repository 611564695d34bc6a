# A verification of hyperlake

hyperlake collects public Hyperliquid trades twice: live, through a WebSocket
ingester, Kinesis and Firehose, and later from the exchange's archive, hour file
by hour file. Both land in one bronze table; dbt merges them into a silver table
with one row per trade; sessions are brought up and down by hand, and healed and
reconciled against the archive afterwards. This directory holds TLA+ modules of
the parts where order, failure and time decide whether that works, TLC
configurations that check them on small instances, and proofs that hold for
every instance.

Paths below are relative to `src/`. Run `tlc -config <X>.cfg <module>` for a check
and `tlapm <module>.tla` for a proof.

## 1. The system

| component | state it keeps | operations | talks to |
| --- | --- | --- | --- |
| live ingester (`src/hyperlake/ingester.py`) | per coin the newest event time and the open gap, pending rows, reconnect delay, stop event | connect, read, ingest a message, flush in chunks, retry, drop, back off, self-exit | exchange (WebSocket), Kinesis (`put_records`), log group (`gap_recorded`), ECS (SIGTERM, restart) |
| official backfill (`src/hyperlake/backfill/official.py`, `hour_list.py`, `scripts/backfill.py`, `backfill.asl.json`) | state of each hour of the Map; objects under `source=backfill` | start, one Lambda per hour file, write an object, retry, catch, report | archive bucket, bronze bucket, Step Functions |
| fallback reader (`src/hyperlake/backfill/reservoir.py`) | the objects it still has to write | one run per day | a second archive, the same bronze keys |
| silver merge (`dbt/models/silver/trades.sql`, `silver_trades_select.sql`) | the target table, a temporary table between two statements | select, merge, full refresh | bronze, Athena's clock |
| session-up, session-down (`scripts/session_up.py`, `session_down.py`, `src/hyperlake/session.py`) | manifests, cost log, Terraform state | preflight, apply, start; stop, drain, gaps, destroy, cost, dbt, manifest | ephemeral stack, reaper, log group |
| reaper (`src/hyperlake/session_reaper.py`, `session_reaper.tf`) | one schedule, one S3 marker per session | scale, drain, delete stream, mark | ECS, Kinesis, S3 |
| heal (`scripts/heal.py`, `src/hyperlake/heal.py`) | its copy of the manifest | check landing, apply, backfill, destroy, dbt, recon, flip | all of the above |
| recon (`scripts/recon.py`, `src/hyperlake/recon.py`, `dbt/models/recon`, two dbt tests) | the `recon` block of the manifest | window, tests, counts, write | bronze, manifest |
| GitHub run contract (`scripts/gh_run.sh`, `.github/workflows/dbt-run.yml`, `scripts/regen_recon_seed.py`) | runs and their keys; the `session_gaps` and `recon_trades` tables | dispatch, locate, poll, seed, build, test | session-down, heal, recon, `make dbt-run-day`, GitHub, the pushed branch |
| cost accounting (`scripts/cost_backfill.py`, `cost_report.py`) | `costs/sessions.csv` | append a row (session-down), price and rewrite, check and report | Cost Explorer |
| teardown audit (`scripts/audit_teardown.py`) | none | list what is billable, fail on any | last step of session-down |
| gold, quality, seam, staging models | none of their own | full aggregation of silver | |
| infrastructure (`infra/`), CI | resources | apply, destroy | |
| lints, drift check, charts, queries (`scripts/`) | none | read and compare | |

How they interact: the ingester knows which trades it missed only through its gap
lines; session-down carries them from the log group into the manifest just before the
log group is destroyed; heal turns them into hour files, the Map fetches those, the
merge moves them to silver within a lookback heal computes, and recon decides whether
heal may mark them healed. A mistake anywhere in this chain is a trade that
is silently absent.

Where it is hard:

- *Ordering and replay*: reconnects replay the newest trades of each coin, drops
  repeat, coins trade at different rates.
- *Partial failure*: PutRecords accepts part of a chunk; a Lambda dies with half of its
  objects written; a script is interrupted between two of its eight steps.
- *Clocks*: two statements of one run with two `current_date`; a lookback computed
  before midnight and used after it; hours that have not landed.
- *Shared files and keys*: two hour files with one object key; two processes that
  write one manifest, or the cost log, whole; a stack used by a session, by heal and by the
  reaper; runs on GitHub that rebuild the same two tables.
- *Retries*: EventBridge invokes the reaper again, Step Functions retries hours,
  ECS starts a task for one that ended on purpose, operators run commands again.

What makes each part correct: no silent hole and no dropped row (ingester); a report of
success that is true (backfill); one row per trade, corrected only forward (silver);
nothing lost at teardown, a final manifest that is final, a bounded stream (session);
a healed gap that is in silver and counts that are bronze's (heal, recon); a command that
watches its own run and a recon block that was proved (run contract); a cost log with one
final price per session, and a report that is only refused for a reason (costs).

## 2. The modules

| module | models | checked as |
| --- | --- | --- |
| `GapTracker` | class `GapTracker` as pure operators | part of `Ingester` |
| `Ingester` | exchange tape, process, ECS service, stream | `MCIngester` |
| `TradeLedger` | abstract: what silver promises | property of `Silver` |
| `Silver` | bronze rows, the two statements of a run | `MCSilver` |
| `Backfill` | Map execution, fallback run, bronze objects | `MCBackfill` |
| `Session` | session-up, session-down, reaper, heal's use of the stack | `MCSession` |
| `HourRules` | hour and day arithmetic of heal and recon | part of `Heal` |
| `Heal` | heal with the recon subprocess, manifest file, archive | `MCHeal` |
| `Recon` | `gh_run.sh`, the runs of `dbt-run.yml`, make recon, the push of the branch | `MCRecon` |
| `Costs` | cost log, cost-backfill, cost-report, Cost Explorer | `MCCosts` |
| `IngesterProofs`, `SilverProofs`, `BackfillProofs`, `SessionProofs`, `HealProofs`, `ReconProofs`, `CostsProofs` | theorems about the module of that name | TLAPS |
| `DataInduction` | induction over numbers and finite sets, least elements, sums over finite sets | TLAPS |

Definitions named `X_Something` with the comment "Faulty variant" are plausible bugs
in definition `X`; no specification uses them. Each property is known to reject one
of them, which shows that the runs reach the states the property is about.

### Ingester

`run()` is one coroutine; it is cut at its awaits and at each call that touches shared
state, so `pc` has one value per place where a kill, a drop or a stop can fall:
`outer` (while loop head), `connecting`, `top` (inner loop head), `recv`, `ingest`
(inside `_ingest_trades`, one trade per step), `flush` and `put` (`_flush`,
`put_batch_with_retry`), `backoff`, `final`, `closing`. A flush returns where it came
from (`after`). The exchange is one tape of trades per coin and a connection is a cursor
in each tape: subscribing puts the cursor `SnapshotDepth` trades before the end, so
replay and holes both arise from the cursor. Event times may repeat.
The data of a trade is its time and one of four kinds: complete; without coin or time
(`message_error`, before the gap is observed); another key missing (after);
a null number (`InvalidOperation`, which the handler does not catch). Chunks are any
subset up to `MaxRecords`; the byte limit is thereby included. A `put_records` call returns
(`PutRecords`), with any part of the chunk refused, or raises (`PutRaises`): botocore's timeouts are
`OSError`s, which the handler of `run()` takes for a lost socket (`ingester.py:313`), after the swap of
`_pending_rows` at line 251, and the stream may have taken any part of the chunk by then. An exception
of another kind ends the process with the rows, as `Kill` does.
ECS: `ScaleToZero` sends SIGTERM, `Kill` is SIGKILL or a lost host, `Restart` is the
service replacing a task that ended, for whatever reason it did. `received`, `observed`, `skipped`
(given up with a `message_error` line) and `lost` (given up when `put_records` raised) are history
variables of one process.

### TradeLedger and Silver

A dbt run on Athena is `Stage` (create the temporary table from the select: lookback,
then `rn = 1`) and `Merge` (update condition, `merge_exclude_columns`, insert), each
evaluating `current_date` (`day`) for itself; `Fail` is a run that ends between
them, `FullRefresh` a rebuild. `Arrive` appends a bronze row from either path,
duplicates included; `Overwrite` is `put_object` over a backfill object.
`ingested_at` is the arrival counter, so two rows never tie (in the code it is a
clock; a tie would need two writers in one tick). `ins` marks the run that inserted
a row, so that two rows of one trade are two elements of a set.
`TradeLedger` states the promise: `Merge` adds trades and raises sources, never touching
`first_seen_source`; `Rebuild` starts over and counts itself in `rebuilds`. The refinement mapping
takes a trade's row of silver to its source and `first_seen_source`, and `rebuilds` to the count of
full refreshes, which only `FullRefresh` increments; so an incremental run can only be a `Merge`.

### Backfill

An hour file is a number; its trades are those of its hour that were on time and
those of the hour before that were late. `task[f]` is the item of the Map: `waiting`,
`running`, `ok`, `failed`. `Invoke` groups all rows by object key before the first
write; `WriteObject` puts one; `Interrupted` is a throttle or a timeout (retried),
`Broken` any other error (caught). The key is coin, event day and the hour of the *file*
(official) or the *event* (fallback). `covered` records what the last run that
was alone reported as complete; overlapping runs (`mixed`) report nothing the
properties rely on.

### Session

Each step of session-up and session-down is an action, and `UpFails`, `DownFails` may
end the command before any of them, with nothing in memory kept. Terraform's state
lock makes an apply and a destroy exclude each other, so each is one step, or breaks
with part of its resources done (`Partial`). The reaper is scale, drain, delete,
mark; `ReaperFails` is a failed invocation that the Scheduler and Lambda try again
from the top. `DownAudit` is `make audit-teardown`, and `Billable` what it fails on. `stray` is a
history variable: some command has worked on a stack that was not its own (a heal beside a
session, a session-down for the session before); the code does not prevent it, and the
properties that cannot survive it say so. `Drained` is the one statement about real time: when the
drain is over, the task has stopped and Firehose has delivered, because
`DRAIN_SECONDS` is 120 s, against the 30 s ECS gives a task to stop and the 60 s
of the Firehose buffer. Further assumptions, each true of the code as used: one operator, who does
not run session-up and session-down beside each other; the schedule fires hours after the start, when
session-up and heal are over; a destroy that completes also ends the reaper's
invocation, because it deletes its Lambda (an invocation that outlives it is not covered); the log
groups live and die with the
ephemeral stack.

### HourRules and Heal

`HourRules` has `gap_to_hours`, `reconcilable_window` and `lookback_days` as arithmetic
on ticks. `bronze` is the archive's trades in its objects: an object's key is the event day and the
hour of the file (`Key`, `official.py:118`), and a file that is written replaces what its keys held
(`Puts`), so the first file of a day can take late events of the day before out of bronze, at any
time: `Backfill(f)` is an operator's run, whole or failed half way, of any landed file, as often as
he likes. `Heal` runs one session with one coin: `HealStart`
(the landing check, an abort changes nothing), `HealBackfill` (all hours, or some and
an error), `HealLookback`, `HealDbt` or `HealDbtFails` (which may have
merged before it failed), `ReconStart`, `ReconPasses`, `ReconFails`, `HealFlip`, and
`HealDies` anywhere. `disk` is the manifest file; `mem` and `seen` are the copies heal
and recon hold, since each writes the file whole. recon's dbt run selects
`tag:recon` and leaves silver alone. `gh_run.sh` watches a run for 20 minutes, so at most
one midnight falls into it. No `make recon` by hand runs beside heal here; see `Recon`.

### Recon

A command is a session-down, a full build (heal's merge, `make dbt-run-day`) or a recon, and goes
through `Dispatch`, `Locate`, `Poll...`, and `Close` or `Record`; command `c` dispatches run `c`.
Every wait may time out at any moment, which the limits of `gh_run.sh` bound in the code; a command
may be interrupted, and its run goes on. A run is `RunSeeds` (regenerate the seed from
the checkout, dbt loads it), `RunBuilds` (`recon_trades`, for a run without recon's vars over the
fixture's window of `dbt_project.yml`), `RunTests`, or `RunFails` before any of them; GitHub
shows it in its list when it likes (`Appear`). `seed` and `table` are the two tables
all runs share. `pushed` are the sessions whose closed manifest is on the branch:
session-down commits, and only `Push` pushes. A run checks out the commit the branch was at when it
was dispatched (`checkout`), however late it starts. Two dispatches for one session within a second
would have one key; the model's times tell every two dispatches apart. Athena ends a query at a limit
of its own, so the unbounded poll of `query_counts` (`recon.py:127`) is one step. What a session's
trades look like is two sets: `Clean` (they reconcile, given the gaps) and `Gapless`. `disturbed` is a history variable: a recon in whose
time another run wrote one of the tables.

### Costs

Time has `DayLen` instants a day, so a session may end at midnight sharp, have length zero, or
span two days. Cost Explorer's amounts are fractions of a cent, counted in units of which `Cent` make
a cent; prices in the file are whole cents. A day is split in `Scale` parts, a multiple of every total
overlap, and `Cost` rounds once per row, as the code does, a tie upwards. A month's total is taken to
be the sum of its days. Cost Explorer is `bill`, a total per day that grows whenever it likes (`Bill`). `BackfillFills` reads the file and prices the
eligible rows, `BackfillWrites` replaces the file in one step; session-down may append between the two.
`Outcome` is what cost-report does with a file. `late` and `raced` are history variables for
the two things the scripts do not prevent.

## 3. The runs

All runs finish; deadlock is not checked because each system may come to rest
(an ended process, all sessions closed, budgets used up).

| run | question | properties |
| --- | --- | --- |
| `ingester_gaps` | Does every drop leave a gap that explains what was missed, also beside malformed messages and a `put_records` that raises? | `TypeOK`, `NoSilentHole`, `GapsAreDisjoint`, `OpenGapsAreAccounted` |
| `ingester_sends` | Does every observed trade reach the stream, and does a stop end the process? | `NothingDropped`, `StopEnds` |
| `silver_merge` | One row per trade, corrected forward, for any arrivals? | `TypeOK`, `ExactlyOnce`, `ImplementsLedger`, `CorrectionsStick` |
| `backfill_runs` | Is a success report true, and does an execution end? | `TypeOK`, `DaysAreComplete`, `ReportIsHonest`, `ExecutionEnds` |
| `session_books` | Do teardown, manifest and stack agree however often a command broke, and is a forgotten stream deleted? | `TypeOK`, `NothingLost`, `ReaperHitsItsOwn`, `FinalIsFinal`, `StreamIsBounded` |
| `heal_safe` | Is what is marked healed in silver, are the counts true, whatever is written over, and does heal flip the gaps once the archive stands beside the feed? | `TypeOK`, `HealedIsInSilver`, `ReconIsHonest`, `HealConverges` |
| `recon_runs` | Does a command believe only its own run, and a manifest only proved counts, and does it end whatever GitHub does? | `TypeOK`, `OwnRunByKey`, `RecordIsProved`, `CommandsEnd` |
| `cost_books` | Is a price final, every session in the log, and every refusal of the report deserved and curable? | `TypeOK`, `GapIsRounding`, `NoFalseAlarm`, `GapIsSummedIdle`, `LoggedHasRow`, `PricedOnce`, `RefusalIsCurable` |

Bounds, and why they are enough:

- `ingester_gaps`: two coins, three trades, complete or without a field, one drop, one call that
  raises. Two coins distinguish per-coin from shared bookkeeping; a raise and a drop in a row before a
  coin trades, two calls of `on_disconnect`, are the `setdefault` case; three trades are one before the drop, one lost and
  one after, which `SnapshotDepth` 1 replays. What takes more trades, over several coins, is left to
  the proofs, which have no bound.
- `ingester_sends`: one coin, all four kinds, two trades, two attempts, one
  call that raises, the injected disconnect as the drop, one kill, one restart. A batch of two fails in part, wholly, or at
  its last attempt.
- `silver_merge`: two trades, four arrivals, three runs, days 0 to 2, lookbacks 0 and 1. A
  trade can arrive from both paths and again after it was merged, on either side of the
  lookback's edge, between the two statements and around a rebuild. Trades are interchangeable
  (symmetry; no liveness is checked there).
- `backfill_runs`: days of two hours, one day and the first hour of the next, two
  trades that are late or not in a watched coin, two runs, one retry. The midnight, the trailing
  hour and every overlap of two runs occur. All fills collapse there (`"pair"`) and all coins are
  watched: fills that cannot be collapsed, and unwatched coins, fail or skip before the first write.
- `session_books`: three sessions, four session-downs, one heal, three failures, one session-up
  that breaks, applies and destroys that break half way. Three sessions are one that is closed, one
  that is lost and one that meets what the second left behind.
- `heal_safe`: hours of two ticks and days of two hours, two trades anywhere, late or not, one gap in
  the session's first (partial) hour and one across midnight, one failure or death. Two trades are one that is
  in a gap and one whose file writes the same object; without the exception for those the run finds
  both safety properties violated.
- `recon_runs`: two commands of any kind and two sessions, one that reconciles only with its gaps
  and one that has none and does not reconcile; any of them closed and pushed before. Every hazard of
  the tables and keys is between two runs.
- `cost_books`: two sessions on three days of three instants, months of two days, three
  units a cent, daily totals up to three units, so that prices round up and down. Two
  sessions share a day, span midnight, or are priced in either order; the third day is long enough for a row to become eligible and then stale; a session ends in another month
  than it started.

`TypeOK` of `Heal` also says that bronze has only trades of files that have landed.

What the properties leave out on purpose:

- `NoSilentHole` speaks of one process, and excepts the first instant of a gap after which no
  coin ever traded again: `close_open_gaps` skips a gap that would be empty. It and `NothingDropped`
  except the unread rest of a malformed message (`skipped`, there is a `message_error` line) and the
  rows of a flush in which `put_records` raised (`lost`, see section 6).
- `DaysAreComplete` and `ReportIsHonest` except trades whose object two hour files share
  (see the finding `backfill_collision`).
- `HealedIsInSilver` and `ReconIsHonest` except trades whose object another hour file writes
  (`KeyIsShared`): one may be gone from bronze before the merge, or after the counts.
- `HealConverges` has the hypothesis that in the end the archive stands beside the feed in every full
  hour of the session, whoever backfilled them: heal alone does not bring it there (section 6).
- `HealedIsInSilver` takes a gap half-open: the trade at its closing millisecond may be
  the one that closed it.
- `StreamIsBounded` starts from a schedule that exists, and ends also with a destroy that breaks
  between the schedule and the stream: after that nothing but the next destroy deletes it.
- `NothingLost`, `FinalIsFinal` and `ReaperHitsItsOwn` except what follows a command on a stack
  that was not its own; `session_twice` is `ClosedOnce` without the exception.
- `OwnRunByKey` leaves session-down out, whose key has no time; `RecordIsProved` leaves out a recon
  whose tables another run wrote meanwhile; its counts may then be zeros.
- `GapIsRounding` excepts a row appended after another one of the same day was priced, `LoggedHasRow`
  one appended between cost-backfill's read and its write.
- `GapIsRounding` says how negative the gap may become, for any number of rows. Whether that stays inside
  the report's tolerance depends on their number, and `NoFalseAlarm` excepts more than two priced rows
  per cent of tolerance (ten rows for the report's 5 cents; see section 6).

## 4. Fairness

- `Ingester`: `WF(Process)`. One event loop runs the process; `recv` has a timeout,
  `put_records` returns or raises, sleeps end. Nothing is assumed of the exchange, of ECS or of a stop.
- `Backfill`: `WF(Proceed)`. Step Functions goes on with an execution it has started. That it ends
  is due to the retry count.
- `Session`: `WF` of `Reconcile` and `Flow` (ECS and Firehose work), `Reaper` (the schedule fires;
  an invocation that failed is repeated, `MaxFails` bounds how often), `Up` and `HealDestroy` (a
  command that is not interrupted goes on). Nothing is assumed of session-down.
- `Recon`: `WF(Ends(c))`: a command is a program that polls until its limit. Nothing is assumed of
  GitHub, which may never list, start or finish a run.
- `Costs` has no liveness: nothing makes an operator run a script.
- `Heal`: `WF` of the clock, the archive's publishing, `HealStart` (the operator runs heal again
  whenever it can start) and `HealStep`. Nobody has to run make backfill.

Every fairness condition is weak.

## 5. The proofs

TLAPS checks each theorem for all values of the constants that satisfy the modules' named
assumptions (`IngesterAssumption`, `SilverAssumption`, `BackfillAssumption`, `SessionAssumption`,
`HourAssumption`, `HealAssumption`, `ReconAssumption`, `CostsAssumption`). Every invariant and
every action property that a run expects to hold is stated by a theorem; three theorems have a
hypothesis on the constants beyond the assumptions (`~MidnightRuns`), named in the table.

| theorem | says | argument |
| --- | --- | --- |
| `TypeCorrect` | `[]TypeOK` of `Ingester` | `Typed`: `TypeOK`, and the message in hand lies on its coin's tape, without which `TimeOf` of the current trade has no type |
| `GapsDisjoint` | `[]GapsAreDisjoint` | `GapInv`: besides disjointness, an open gap starts at the newest time of its coin, and a recorded one has ended by then, so the next gap of the coin starts where the last one ended or later. After the self-exit only disjointness is kept, because `close_open_gaps` ends a coin's gap at another coin's time |
| `NothingIsDropped` | `[]NothingDropped` | `SendInv`: which of `pending`, `outbox`, `batch` may be non-empty at which `pc`, so that the exit finds all three empty, no step overwrites one that is not, and only a call that raises takes rows out of them; and `RecvInv`: what a message brought is observed, skipped or still unread |
| `OpenGapsAccounted` | `OpenGapsAreAccounted` | `LastInv`: the tracker's newest time of a coin is the time of a trade this process observed, so a gap that closes closes at a later trade and is written with its own start. The one gap not written, at the self-exit, starts at the newest time of any coin |
| `HolesAreExplained` | `[]NoSilentHole` | `HoleInv` speaks of a hole before its far end is seen: every trade passed over after an observed one is inside a recorded gap or the open one, or was skipped. It needs that between two connections every observed coin has an open gap (`OpenInv`), that a snapshot starts no later than a trade the process has observed or its cursor (`StartInv`), and that an observed trade that was not sent was skipped or lost (`SkipInv`, `SendInv`) |
| `SilverTypeCorrect` | `[]TypeOK` of `Silver` | inductive as it stands |
| `ExactlyOnceAtSilver` | `~MidnightRuns => (Spec => []ExactlyOnce)` | `OnceInv`: the temporary table has one row per trade, each inside the lookback of the day it was made on, and in the same day the MERGE sees every target row of such a trade. Without the assumption it is false (`silver_midnight`) |
| `CorrectionsOnlyForward` | `~MidnightRuns => (Spec => CorrectionsStick)` | `CorrectInv`: a staged row corrects the row of silver it will meet if bronze still has the row behind that one, and no row anywhere is newer than the newest of bronze, so one that has left bronze does not come back |
| `SilverIsALedger` | `~MidnightRuns => (Spec => ImplementsLedger)` | from `OnceInv`, and `FirstInv` (a staged row names its own source as the first): with one row per trade the refinement mapping's choice is that row. `MergeRefines` maps `Merge` to a merge of the ledger; `RefreshRefines` maps `FullRefresh`, the one step that changes `rebuilds`, to a rebuild; every other step leaves silver and `rebuilds` alone |
| `BackfillTypeCorrect` | `[]TypeOK` of `Backfill` | with `RunInv`: the Map has an item for each hour of its request and no other |
| `CompletedDaysAreComplete`, `ReportedHoursAreHonest` | `[]DaysAreComplete`, `[]ReportIsHonest` | `StoredInv`: what a run that is alone has taken off its list is in bronze, trade by trade and under the trade's own key, half-written hours included; that an object is not overwritten by another hour of the run is where the shared key is excepted |
| `SessionTypeCorrect` | `[]TypeOK` of `Session` | with `ActorsInv`, `FreshInv` (a session not started has left no trace) and `CloudInv` (a schedule belongs to its stack, and without a stack nothing flows) |
| `StreamsAreDrained`, `ReaperKeepsToItsOwn` | `[]NothingLost`, `ReaperHitsItsOwn` | `OwnInv`, claimed as long as no command has worked on a stack not its own (`~stray`): whose stack it is at each step of each command, and that it is quiet from the drain to the destroy (`DrainInv`) |
| `ClosedStaysClosed` | `[]FinalIsFinal` | `BooksInv`: a session with a cost row has no stack and one row, and a session-down past its destroy has the gaps and writes the only row |
| `HealTypeCorrect` | `[]TypeOK` of `Heal` | the window and lookback lemmas, and that the files of heal's copy landed when it started |
| `HealedGapsAreInSilver` | `[]HealedIsInSilver` | `HealedInv`: between the backfill and the merge every trade of a gap in hand is in bronze or shares its object, and no file that is written meanwhile takes another one out (`BronzeStays`); `GapFilesCovered` (its file is in the gap's hours, late or not) and `LookbackReaches` (its day is inside the lookback, also after one midnight) |
| `ReconCountsAreHonest` | `[]ReconIsHonest` | `HonestInv`: the window in hand has converged when its counts are written, and every later step keeps in bronze what shares its object with no other file (`TruthfulStays`) |
| `ReconTypeCorrect`, `KeysFindTheirRun`, `RecordsAreProved` | `[]TypeOK`, `[]OwnRunByKey`, `RecordIsProved` of `Recon` | one invariant, `IInv`: a command before its dispatch has no run, one that polls watches its own unless it is a session-down (`Consistent`); the seed and every checkout have only sessions of the branch; while a recon is `Alone`, its build has left its session in the table, and its success means that the tests saw that session and those gaps (`Proved`) |
| `PricesAreFinal`, `RowsAreKept` | `PricedOnce`, `[]LoggedHasRow` of `Costs` | the copy cost-backfill holds agrees with the file on every price, has every row that did not race it, and none of a session not logged yet (`CopyInv`); what a price amounts to plays no part |
| `CostsTypeCorrect`, `RefusalsAreCured` | `[]TypeOK`, `[]RefusalIsCurable` of `Costs` | `TimeInv`: a row's session has its times, so the row shares every day it touches and nothing is divided by zero; `BackfilledRows` (every stale row is eligible) |
| `GapIsIdle` | `[]GapIsSummedIdle` | a session starts no later than now, so its month is in the query; sums by class (`SumByClass`) |
| `GapsAreRounding`, `AlarmsAreTrue` | `[]GapIsRounding`, `[]NoFalseAlarm` | `FairInv`: until a row is appended late, each priced row of the file, and of the copy about to be written, was charged at most what its share of its days is worth now, and half a cent. New rows join no priced day, totals only grow, and a row that raced cost-backfill is dropped with the file it was in, so the shares stay what they were. The shares of a day fit in the day (`SharesFit`), so all charges fit in the totals (`PartsFit`, by exchanging the sums over rows and over days), and what is left is half a cent a row (`FairIsRounding`) |

Each invariant is shown to hold at first and to be preserved with one step per action; a
strengthening is defined where the property is not inductive. The lemmas on `Observe`,
`OnDisconnect`, `OpenGapsClosed`, `Selected`, `After` and the hour rules are stated once.

`DataInduction` replaces the library's induction theorems, which take a predicate and cannot be
instantiated here: its lemmas take the *set* of what the induction is for. From them it derives
that the community modules' `SumFunctionOnSet` has the recursion it is defined by, does not
depend on the order of its elements, is linear and monotone, and may be exchanged or split by
classes. `Costs` writes its sums with `SumFunction` for that reason.

Only model-checked: all liveness (`StopEnds`, `ExecutionEnds`, `StreamIsBounded`, `HealConverges`,
`CommandsEnd`), because the provers know neither fairness over time nor `ENABLED`; and the
properties of the runs that expect a violation, which are false.

## 6. Where code and documents disagree

Runs that TLC must find violated:

- `silver_midnight`: a midnight between the two statements moves the MERGE's lookback past the row it
  should match, and the trade is inserted a second time.
- `backfill_collision`: the file of the first hour of day D and the first file of day D+1
  share the object `dt=D/hour=0`, and the second one written replaces the first.
- `session_twice`: session-down takes the newest manifest whatever its state. After a session-up
  that did not reach its manifest it closes the session before once more: a second cost row, and
  gaps overwritten.
- `heal_counts`: heal writes its older copy of the manifest over the counts recon has just put there.

Seen while modelling, and not kept as runs; each is a behaviour of the actions named:

- *The hole between two processes.* After `Kill` or a failed send, `Restart` begins with an empty
  tracker, so what was missed between the two is in no gap (`ingester.py:231`).
- *A timeout of `put_records` drops rows.* botocore's ReadTimeoutError, ConnectTimeoutError and SSLError
  are `OSError`s; when the client's own retries are used up the handler of lost sockets takes them
  (`ingester.py:313`), after line 251 emptied `_pending_rows`. The flush's rows are gone without a line,
  from before the start of the gap that `on_disconnect` opens, and the process goes on, against "Never
  drop silently" in `_flush` (`PutRaises`, `lost`).
- *Drift kills.* A null `px` or `sz` raises `InvalidOperation`, which the handler does not catch
  (`ingester.py:307`), against its own comment, "it never kills the session" (`IngestTrade`).
- *Drift loses the rest of the message.* After a trade without a field, later trades of the same
  message are skipped, though they were well-formed (`IngestTrade`, `skipped`).
- *The self-exit is not final.* The service wants one task and starts another (`Restart`,
  `fargate_ingester.tf:146`); the session goes on until it is scaled down.
- *`first_seen_source` is the winner of the first dedup*, not the first to arrive, if both rows are
  in bronze at the first merge (`Selected`).
- *The two backfill readers mix.* The same key names another set of trades, so running one after the
  other can remove rows from bronze (`reservoir.py:210`), against "nothing is pruned".
- *session-down cannot be finished after its destroy.* If it fails before its manifest is written,
  the next attempt raises in `check_reaped`, because the outputs are gone, and the session stays open
  (`DownStart`).
- *A late reaper is not visible.* If it fires after session-down looked for the marker, the session
  is closed as if it had not been reaped (`DownStart`, `ReaperMarks`).
- *heal shares the stack of a running session.* Nothing asks whether one is up; its destroy takes the
  session's stream and log group with it (`HealApply`, `HealDestroy`).
- *heal alone does not converge.* It backfills the gap hours only, and recon compares every full hour of
  the session; the live trades of the others are `ws_only` until somebody runs make backfill for them,
  and until then no run of heal flips a gap, against `docs/prd.md:235` (`HealConverges` fails without
  its hypothesis).
- *The tolerance does not grow with the rows.* Every priced row is rounded on its own, so beyond ten rows
  the half cents alone may exceed 5 cents, and cost-report calls that a double attribution, against its
  comment, "anything beyond is real double attribution" (`cost_report.py:35-37`); `costs/sessions.csv`
  has thirteen priced rows. `NoFalseAlarm` fails without its second disjunct when four rows meet a
  tolerance of one cent.
- *A session-down may believe an old run.* Its key is `session-down-<id>` without a time, so one that
  is run again takes the newest listed run of either invocation for its own, the problem
  `recon.py:71-76` describes and solves for recon (`RunKey`, `Locate`). `gh_run.sh:3-4` promises
  "that exact run by key".
- *Counts of zero.* A full build between a recon's tests and its count query rebuilds `recon_trades` for
  the fixture's session; the query then finds no row and the manifest gets three zeros (`Counts`).
- *A healed gap may leave bronze.* A late event of a day's last hour is in the object that the first
  file of the next day writes over; a backfill of that hour after recon removes it (`Puts`).
- *The manifest is not pushed by anybody.* `regen_recon_seed.py:9-11` takes it as "already committed
  and pushed"; session-down only commits. recon then fails on the session's gaps, loudly
  (`SeedFor`).
- *A cost row appended late doubles a day.* cost-backfill splits a day over the rows the file has at
  the time. If a session of that day was priced before another one of the same day was logged (it was
  reaped, and its session-down came a day later), the first has the whole day and the second takes its
  share again (`late`), against `costs/README.md`, "split across that day's sessions".
- *A cost row can vanish.* cost-backfill writes back the rows it read before it queried Cost Explorer; a
  row session-down appended in between is gone (`raced`).
- *A SIGTERM during a backoff sleep* is seen only when the sleep of up to 30 s ends, against a
  stop timeout of 30 s; whether the last flush happens is a matter of real time, `Kill` may come first.

## 7. What is not modelled, and why

- Glue, Athena, buckets, permissions (`infra/main/persistent`, `infra/bootstrap`): configuration.
- Gold, quality, seam and staging models: functions of their input rebuilt on every run.
- Column-by-column mapping, Parquet, JSON and log formats: data no property here tells apart.
- The rendered cost report, lints, the drift check, charts, queries, spikes: read-only.
- `write_rows` (`cost_backfill.py:39`) and `write_manifest` truncate their file before they write it; the
  models replace it in one step, so a crash between the two, which leaves an empty file, is not covered.
- Backfill runs that overlap: what one of them reports is not held against bronze (`mixed`).
- Two dispatches for one session in the same second, which get one key (`recon.py:77`).
- Two recons of one session, or a recon and a heal, writing its manifest file whole: the later one
  wins. The tables they share are in `Recon`.
- Two dbt runs that merge into silver at a time: Iceberg's commit conflict belongs to Athena.

## 8. Plan

The order follows importance: what silently loses a trade comes first.

Done: `Ingester`; `Silver` and `TradeLedger`; `Backfill`; `Session`; `HourRules` and `Heal`;
`Recon`; `Costs`; a theorem for every invariant and action property the passing runs check,
the refinement of `TradeLedger` among them.

Next:

1. A module that composes gaps, manifest, backfill and merge end to end: a trade the exchange
   printed in a session is in silver after heal, or in no recorded gap.
2. The quality model over silver; a recon by hand beside heal on one manifest file.
