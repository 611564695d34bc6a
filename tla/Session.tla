-------------------------------- MODULE Session --------------------------------
(***************************************************************************)
(* The lifecycle of demo sessions: session_up.py and session_down.py, run  *)
(* by hand and interruptible anywhere, the reaper Lambda with its one-time *)
(* schedule, and make heal, which brings the ephemeral stack up for its    *)
(* backfill.  They share the Terraform state, the stack, the manifests and *)
(* the cost log.                                                           *)
(*                                                                         *)
(* Sessions are numbered in the order of their start times.  Terraform's   *)
(* state lock makes an apply and a destroy exclude each other, so each is  *)
(* one step, or fails with some of its resources done.                     *)
(***************************************************************************)
EXTENDS Integers

CONSTANTS
    MaxSessions,   \* bound: session-up runs that pass the preflight
    MaxDowns,      \* bound: session-down runs
    MaxUpFails,    \* bound: session-up runs that fail or are interrupted
    MaxFails,      \* bound: the same of session-down and the reaper
    MaxHeals,      \* bound: heal runs that reach their backfill
    Partial        \* may a terraform apply or destroy break in the middle?

ASSUME SessionAssumption ==
    /\ MaxSessions \in Nat \ {0} /\ MaxDowns \in Nat /\ MaxFails \in Nat
    /\ MaxUpFails \in Nat /\ MaxHeals \in Nat /\ Partial \in BOOLEAN

Ids == 1..MaxSessions
None == 0

VARIABLES
    manifest,   \* per session: "none", "open", "closed" or "reaped"
    known,      \* sessions whose manifest holds the gaps their ingester logged
    rows,       \* per session: rows in costs/sessions.csv
    marker,     \* sessions with a reap marker in S3
    stack,      \* session whose apply built the stack, None if there is none
    schedule,   \* session whose reaper schedule exists, None if there is none
    recorded,   \* the stream is in the Terraform state
    stream,     \* the Kinesis stream exists
    desired,    \* desired count of the ingester service
    running,    \* an ingester task runs
    inflight,   \* the stream holds records Firehose has not delivered
    lost,       \* history: a stream was deleted with such records
    stray,      \* history: a command worked on a stack that was not its own
    last,       \* session-up runs so far: the newest session id
    up,         \* session-up: next step
    down,       \* session-down: next step, its session, what it has in memory
    reaper,     \* the reaper invocation: next step and its session
    heal,       \* heal's backfill: next step
    downs, upFails, fails, heals

files == <<manifest, known, rows, marker>>
cloud == <<stack, schedule, recorded, stream, desired, running, inflight, lost, stray>>
bounds == <<downs, upFails, fails, heals>>
vars == <<files, cloud, last, up, down, reaper, heal, bounds>>

NoDown == [at |-> "idle", id |-> None, reaped |-> FALSE, gaps |-> FALSE]
NoReaper == [at |-> "idle", id |-> None]
Service == <<desired, running>>

\* latest_manifest: the one with the newest start.
IsLatest(i) == manifest[i] # "none" /\ \A j \in Ids : j > i => manifest[j] = "none"

Fail == fails < MaxFails /\ fails' = fails + 1
-------------------------------------------------------------------------------
Init ==
    /\ manifest = [i \in Ids |-> "none"] /\ known = {} /\ rows = [i \in Ids |-> 0]
    /\ marker = {}
    /\ stack = None /\ schedule = None /\ recorded = FALSE /\ stream = FALSE
    /\ desired = 0 /\ running = FALSE /\ inflight = FALSE /\ lost = FALSE /\ stray = FALSE
    /\ last = 0 /\ up = "idle" /\ down = NoDown /\ reaper = NoReaper /\ heal = "idle"
    /\ downs = 0 /\ upFails = 0 /\ fails = 0 /\ heals = 0

-------------------------------------------------------------------------------
(* The stack.                                                              *)

\* ECS starts and stops the task after the desired count.
Reconcile ==
    /\ stack # None /\ running # (desired = 1)
    /\ running' = (desired = 1)
    /\ UNCHANGED <<files, stack, schedule, recorded, stream, desired, inflight, lost, stray, last,
                   up, down, reaper, heal, bounds>>

\* The ingester puts records, or Firehose delivers what there is.
Flow ==
    /\ stream
    /\ \/ running /\ ~inflight
       \/ inflight
    /\ inflight' = ~inflight
    /\ UNCHANGED <<files, stack, schedule, recorded, stream, desired, running, lost, stray, last,
                   up, down, reaper, heal, bounds>>

\* DRAIN_SECONDS have passed since desired count 0: longer than ECS takes to stop the
\* task and than the Firehose buffer, so the stream is empty, unless someone restarted it.
Drained == desired = 0 => ~running /\ ~inflight

DeleteStream ==
    /\ stream' = FALSE /\ inflight' = FALSE
    /\ lost' = (lost \/ inflight)

\* terraform apply for owner: refreshes, so a stream deleted out of band comes back; the
\* service keeps its desired count (ignore_changes) and a running task.
Apply(owner) ==
    /\ stack' = owner /\ schedule' = owner /\ recorded' = TRUE /\ stream' = TRUE
    /\ stray' = (stray \/ stack \notin {None, owner})
    /\ UNCHANGED <<desired, running, inflight, lost>>

\* It fails with the stream built and the schedule, which refers to it, not yet.
ApplyBreaks(owner) ==
    /\ recorded' = TRUE /\ stream' = TRUE
    /\ UNCHANGED <<stack, schedule, desired, running, inflight, lost, stray>>

\* Faulty variant: the reaper's schedule outlives the stack.
Destroy_KeepsSchedule ==
    /\ stack' = None /\ recorded' = FALSE /\ UNCHANGED schedule
    /\ desired' = 0 /\ running' = FALSE
    /\ DeleteStream /\ reaper' = NoReaper /\ UNCHANGED stray

\* terraform destroy, after which nothing is left and the outputs are gone.  Deleting the
\* Lambda ends its invocation.
Destroy ==
    /\ stack' = None /\ schedule' = None /\ recorded' = FALSE
    /\ desired' = 0 /\ running' = FALSE
    /\ DeleteStream /\ reaper' = NoReaper /\ UNCHANGED stray

\* It fails with the schedule gone, which refers to everything else, and the stream there.
DestroyBreaks ==
    /\ schedule' = None
    /\ UNCHANGED <<stack, recorded, stream, Service, inflight, lost, stray, reaper>>

-------------------------------------------------------------------------------
(* session-up.                                                             *)

\* preflight_blocker: the newest session is over, and no stream is in the state.
Preflight ==
    /\ \A i \in Ids : IsLatest(i) => manifest[i] # "open"
    /\ ~recorded

UpStart ==
    /\ up = "idle" /\ down.at = "idle" /\ last < MaxSessions
    /\ Preflight
    /\ last' = last + 1 /\ up' = "apply"
    /\ UNCHANGED <<files, cloud, down, reaper, heal, bounds>>

UpApply ==
    /\ up = "apply"
    /\ up' = "start" /\ Apply(last)
    /\ UNCHANGED <<files, last, down, reaper, heal, bounds>>

\* make ingester-start
UpIngester ==
    /\ up = "start" /\ stack # None
    /\ up' = "write" /\ desired' = 1
    /\ UNCHANGED <<files, stack, schedule, recorded, stream, running, inflight, lost, stray, last,
                   down, reaper, heal, bounds>>

\* The manifest is the last thing session-up writes.
UpWrite ==
    /\ up = "write"
    /\ up' = "idle"
    /\ manifest' = [manifest EXCEPT ![last] = "open"]
    /\ UNCHANGED <<known, rows, marker, cloud, last, down, reaper, heal, bounds>>

Up == UpApply \/ UpIngester \/ UpWrite

\* A step fails or the command is interrupted before it.
UpFails ==
    /\ up # "idle" /\ upFails < MaxUpFails
    /\ upFails' = upFails + 1 /\ up' = "idle"
    /\ \/ Partial /\ up = "apply" /\ ApplyBreaks(last)
       \/ UNCHANGED cloud
    /\ UNCHANGED <<files, last, down, reaper, heal, downs, fails, heals>>

-------------------------------------------------------------------------------
(* session-down, on the newest manifest whatever its state.                *)
To(step) == down' = [down EXCEPT !.at = step]

\* check_reaped reads the bucket's name from the stack's outputs: without a stack it
\* raises, and nothing has changed.  A reaped session is not stopped and drained again.
\* The one operator runs session-up and session-down one at a time.
DownStart(i) ==
    /\ down.at = "idle" /\ up = "idle" /\ IsLatest(i) /\ downs < MaxDowns
    /\ stack # None
    /\ downs' = downs + 1
    /\ down' = [at |-> IF i \in marker THEN "gaps" ELSE "stop", id |-> i,
                reaped |-> i \in marker, gaps |-> FALSE]
    /\ stray' = (stray \/ stack # i)
    /\ UNCHANGED <<files, stack, schedule, recorded, stream, Service, inflight, lost,
                   last, up, reaper, heal, upFails, fails, heals>>

\* make ingester-stop
DownStop ==
    /\ down.at = "stop" /\ stack # None
    /\ To("drain") /\ desired' = 0
    /\ UNCHANGED <<files, stack, schedule, recorded, stream, running, inflight, lost, stray, last,
                   up, reaper, heal, bounds>>

\* Faulty variant: no drain.
DownDrain_Skipped ==
    /\ down.at = "drain"
    /\ To("gaps")
    /\ UNCHANGED <<files, cloud, last, up, reaper, heal, bounds>>

\* Faulty variant: the gap lines are looked for after the stack, and find nothing.
DownDrain_GapsLate ==
    /\ down.at = "drain" /\ Drained
    /\ To("destroy")
    /\ UNCHANGED <<files, cloud, last, up, reaper, heal, bounds>>

\* sleep(DRAIN_SECONDS), and the session's end is now.
DownDrain ==
    /\ down.at = "drain" /\ Drained
    /\ To("gaps")
    /\ UNCHANGED <<files, cloud, last, up, reaper, heal, bounds>>

\* collect_gaps reads the log group of the stack; without it there is none to read.
DownGaps ==
    /\ down.at = "gaps" /\ stack # None
    /\ down' = [down EXCEPT !.at = "destroy", !.gaps = (stack = down.id)]
    /\ UNCHANGED <<files, cloud, last, up, reaper, heal, bounds>>

DownDestroy ==
    /\ down.at = "destroy"
    /\ To("cost") /\ Destroy
    /\ UNCHANGED <<files, last, up, heal, bounds>>

\* append_cost_row opens the log in append mode.
DownCost ==
    /\ down.at = "cost"
    /\ To("dbt") /\ rows' = [rows EXCEPT ![down.id] = @ + 1]
    /\ UNCHANGED <<manifest, known, marker, cloud, last, up, reaper, heal, bounds>>

\* The dbt run: a failed one skips iceberg-maintain and the manifest is still written.
DownDbt ==
    /\ down.at = "dbt"
    /\ \E step \in {"maintain", "write"} : To(step)
    /\ UNCHANGED <<files, cloud, last, up, reaper, heal, bounds>>

DownMaintain ==
    /\ down.at = "maintain"
    /\ To("write")
    /\ UNCHANGED <<files, cloud, last, up, reaper, heal, bounds>>

\* The manifest with its end and gaps replaces the one on disk, and is committed.
DownWrite ==
    /\ down.at = "write"
    /\ To("audit")
    /\ manifest' = [manifest EXCEPT ![down.id] = IF down.reaped THEN "reaped" ELSE "closed"]
    /\ known' = IF down.gaps THEN known \cup {down.id} ELSE known \ {down.id}
    /\ UNCHANGED <<rows, marker, cloud, last, up, reaper, heal, bounds>>

\* audit_teardown.py: what costs money by being there: the stream, the stack's Firehose,
\* the schedule, and a service unless it is scaled to zero.
Billable == stream \/ stack # None \/ schedule # None \/ running \/ desired > 0

\* make audit-teardown, the last step also after a failed dbt run: it raises on Billable.
DownAudit ==
    /\ down.at = "audit"
    /\ down' = NoDown
    /\ UNCHANGED <<files, cloud, last, up, reaper, heal, bounds>>

\* A step raises or the command is interrupted: nothing of it is remembered.
DownFails ==
    /\ down.at # "idle" /\ Fail
    /\ down' = NoDown
    /\ \/ Partial /\ down.at = "destroy" /\ DestroyBreaks
       \/ UNCHANGED <<cloud, reaper>>
    /\ UNCHANGED <<files, last, up, heal, downs, upFails, heals>>

Down ==
    \/ DownStop \/ DownDrain \/ DownGaps \/ DownDestroy \/ DownCost \/ DownDbt
    \/ DownMaintain \/ DownWrite \/ DownAudit

-------------------------------------------------------------------------------
(* The reaper.                                                             *)

\* The schedule fires once, max_session_hours after the start, when session-up and a
\* heal are long over.
ReaperFires ==
    /\ schedule # None /\ reaper = NoReaper /\ schedule \notin marker
    /\ up = "idle" /\ heal = "idle"
    /\ reaper' = [at |-> "scale", id |-> schedule]
    /\ UNCHANGED <<files, cloud, last, up, down, heal, bounds>>

ReaperScales ==
    /\ reaper.at = "scale"
    /\ reaper' = [reaper EXCEPT !.at = "drain"] /\ desired' = 0
    /\ UNCHANGED <<files, stack, schedule, recorded, stream, running, inflight, lost, stray, last,
                   up, down, heal, bounds>>

ReaperDrains ==
    /\ reaper.at = "drain" /\ Drained
    /\ reaper' = [reaper EXCEPT !.at = "delete"]
    /\ UNCHANGED <<files, cloud, last, up, down, heal, bounds>>

\* A stream that is already gone is tolerated.
ReaperDeletes ==
    /\ reaper.at = "delete"
    /\ reaper' = [reaper EXCEPT !.at = "mark"]
    /\ DeleteStream
    /\ UNCHANGED <<files, stack, schedule, recorded, Service, stray, last, up, down, heal, bounds>>

\* Faulty variant: the marker is named after the schedule there is by then.
ReaperMarks_Schedule ==
    /\ reaper.at = "mark"
    /\ reaper' = NoReaper /\ marker' = marker \cup {schedule}
    /\ UNCHANGED <<manifest, known, rows, cloud, last, up, down, heal, bounds>>

ReaperMarks ==
    /\ reaper.at = "mark"
    /\ reaper' = NoReaper /\ marker' = marker \cup {reaper.id}
    /\ UNCHANGED <<manifest, known, rows, cloud, last, up, down, heal, bounds>>

\* Faulty variant: a failed invocation swallows its error and writes the marker.
ReaperFails_Marks ==
    /\ reaper.at # "idle" /\ Fail
    /\ reaper' = NoReaper /\ marker' = marker \cup {reaper.id}
    /\ UNCHANGED <<manifest, known, rows, cloud, last, up, down, heal, downs, upFails, heals>>

\* An invocation fails at any step and is tried again from the top.
ReaperFails ==
    /\ reaper.at # "idle" /\ Fail
    /\ reaper' = [reaper EXCEPT !.at = "scale"]
    /\ UNCHANGED <<files, cloud, last, up, down, heal, downs, upFails, heals>>

Reaper ==
    ReaperFires \/ ReaperScales \/ ReaperDrains \/ ReaperDeletes \/ ReaperMarks

-------------------------------------------------------------------------------
(* heal's backfill: apply the ephemeral stack, run, destroy it in any case. *)

\* There is a manifest with gaps; nothing asks whether a session is up.  The apply is
\* made under an id of its own, that of no session.  One that breaks runs into the same
\* finally clause, so it adds nothing to HealDestroy.
HealApply(i) ==
    /\ heal = "idle" /\ heals < MaxHeals
    /\ manifest[i] \in {"closed", "reaped"} /\ i \in known
    /\ heals' = heals + 1 /\ heal' = "run"
    /\ Apply(MaxSessions + heals + 1)
    /\ UNCHANGED <<files, last, up, down, reaper, downs, upFails, fails>>

HealDestroy ==
    /\ heal = "run"
    /\ heal' = "idle" /\ Destroy
    /\ UNCHANGED <<files, last, up, down, bounds>>

\* heal is killed before its finally clause, or the destroy there fails.
HealDies ==
    /\ heal = "run" /\ Fail
    /\ heal' = "idle"
    /\ UNCHANGED <<files, cloud, last, up, down, reaper, downs, upFails, heals>>

-------------------------------------------------------------------------------
Next ==
    \/ Reconcile \/ Flow
    \/ UpStart \/ Up \/ UpFails
    \/ \E i \in Ids : DownStart(i)
    \/ Down \/ DownFails
    \/ Reaper \/ ReaperFails
    \/ \E i \in Ids : HealApply(i)
    \/ HealDestroy \/ HealDies

Spec == Init /\ [][Next]_vars

\* ECS and Firehose do their work, EventBridge fires the schedule and Lambda retries;
\* session-up and heal do not hang.
FairSpec ==
    /\ Spec /\ WF_vars(Reconcile) /\ WF_vars(Flow) /\ WF_vars(Reaper) /\ WF_vars(Up)
    /\ WF_vars(HealDestroy)
-------------------------------------------------------------------------------
(* Properties.                                                             *)

Owners == {None} \cup 1..(MaxSessions + MaxHeals)

DownSteps == {"idle", "stop", "drain", "gaps", "destroy", "cost", "dbt", "maintain", "write",
              "audit"}
DownStates == [at : DownSteps, id : Ids \cup {None}, reaped : BOOLEAN, gaps : BOOLEAN]

ReaperSteps == {"idle", "scale", "drain", "delete", "mark"}
ReaperStates == [at : ReaperSteps, id : Owners]

TypeOK ==
    /\ manifest \in [Ids -> {"none", "open", "closed", "reaped"}]
    /\ known \subseteq Ids /\ rows \in [Ids -> 0..MaxDowns] /\ marker \subseteq Owners \ {None}
    /\ stack \in Owners /\ schedule \in Owners /\ recorded \in BOOLEAN
    /\ stream \in BOOLEAN /\ desired \in {0, 1} /\ running \in BOOLEAN
    /\ inflight \in BOOLEAN /\ lost \in BOOLEAN /\ stray \in BOOLEAN /\ last \in 0..MaxSessions
    /\ up \in {"idle", "apply", "start", "write"}
    /\ down \in DownStates /\ reaper \in ReaperStates
    /\ heal \in {"idle", "run"}
    /\ downs \in 0..MaxDowns /\ upFails \in 0..MaxUpFails /\ fails \in 0..MaxFails
    /\ heals \in 0..MaxHeals

\* session.py, DRAIN_SECONDS: what the ingester sent before it was stopped is in S3
\* before the stream is destroyed, whoever destroys it, also when the reaper fires in
\* the middle of session-down, is retried, or session-down is run again; only a heal or
\* a session-down on a stack that is not its own takes records with the stream.
NothingLost == lost => stray

\* At most one stack, and the reaper acts on the session whose schedule it was: one that
\* fires late or is retried never stops a later session, unless one was put on its stack.
ReaperHitsItsOwn == reaper.at # "idle" /\ ~stray => stack = reaper.id

\* A session whose manifest is final is over: its stack is gone, the gaps its ingester
\* logged are in the manifest, and the cost log has one row for it.
ClosedOnce ==
    \A i \in Ids :
        /\ rows[i] <= 1
        /\ manifest[i] \in {"closed", "reaped"} =>
             stack # i /\ i \in known /\ rows[i] = 1

\* It stays closed, however often session-down failed before or was run again, as long as
\* every command works on its own stack.
FinalIsFinal == ~stray => ClosedOnce

\* PRD G4, the reaper bounds a forgotten session: while its schedule is there the stream
\* comes to be deleted, without an operator, and though its invocations may fail.  A
\* destroy that breaks may take the schedule and leave the stream.
StreamIsBounded == schedule # None ~> ~stream \/ (schedule = None /\ stack # None)
===============================================================================
