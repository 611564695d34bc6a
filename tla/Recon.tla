--------------------------------- MODULE Recon ---------------------------------
(***************************************************************************)
(* The run contract with GitHub (gh_run.sh) and make recon: commands on    *)
(* the operator's machine dispatch runs of dbt-run.yml, find their run by  *)
(* its key and poll it; the runs check out the pushed branch and rebuild   *)
(* the gap seed and recon_trades, one table each for all of them, and      *)
(* nothing keeps two runs apart.  make recon then counts the table into    *)
(* the session's manifest.                                                 *)
(*                                                                         *)
(* Command c dispatches run c, and runs are numbered in that order.        *)
(***************************************************************************)
EXTENDS Integers

CONSTANTS
    Sessions,
    Clean,         \* those of them whose trades reconcile, given their gaps
    Gapless,       \* those without a gap
    MaxCmds        \* bound: commands

ASSUME ReconAssumption ==
    /\ Clean \cup Gapless \subseteq Sessions /\ 0 \notin Sessions /\ MaxCmds \in Nat \ {0}

Cmds == 1..MaxCmds
None == 0
Kinds == {"session-down", "full build", "recon"}

VARIABLES
    closed,      \* sessions whose manifest has its end and gaps, committed
    pushed,      \* those of them on the remote's branch
    cmd,         \* per command: next step, kind, session, run it watches, success
    run,         \* per run: where it is on GitHub
    checkout,    \* per run: sessions on the branch at its dispatch, until it has its seed
    listed,      \* runs that gh run list shows
    seed,        \* sessions whose gaps are in the session_gaps table
    table,       \* session recon_trades was built for, None if by default
    block,       \* per session: whose rows its manifest's recon block counts, None if nobody's
    disturbed    \* history: recons in whose time another run wrote one of the tables

vars == <<closed, pushed, cmd, run, checkout, listed, seed, table, block, disturbed>>
github == <<run, checkout, listed, seed, table>>
local == <<closed, pushed, block>>

Idle == [at |-> "idle", kind |-> "recon", sess |-> None, watch |-> None, ok |-> FALSE]

\* A session-down is known by its session only, every other command also by the time.
RunKey(c) ==
    <<cmd[c].kind, cmd[c].sess, IF cmd[c].kind = "session-down" THEN None ELSE c>>

Running(c) == cmd[c].at \in {"dispatch", "locate", "poll", "record", "close"}
To(c, step) == cmd' = [cmd EXCEPT ![c].at = step]
-------------------------------------------------------------------------------
\* Any sessions went before.
Init ==
    /\ closed \in SUBSET Sessions /\ pushed \in SUBSET closed
    /\ cmd = [c \in Cmds |-> Idle] /\ run = [c \in Cmds |-> "none"]
    /\ checkout = [c \in Cmds |-> {}] /\ listed = {}
    /\ seed = {} /\ table = None
    /\ block = [s \in Sessions |-> None] /\ disturbed = {}

\* The operator pushes the branch; session-down commits and does not.
Push ==
    /\ pushed # closed
    /\ pushed' = closed
    /\ UNCHANGED <<closed, cmd, github, block, disturbed>>

-------------------------------------------------------------------------------
(* The commands.                                                           *)

\* Commands start in the order of their numbers.  One session-down at a time; a recon
\* wants a session with an end.
Start(c, kind, s) ==
    /\ cmd[c].at = "idle" /\ \A d \in 1..(c - 1) : cmd[d].at # "idle"
    /\ (kind = "full build") <=> (s = None)
    /\ kind = "recon" => s \in closed
    /\ kind = "session-down" =>
         \A d \in Cmds : cmd[d].kind = "session-down" => ~Running(d)
    /\ cmd' = [cmd EXCEPT ![c] = [Idle EXCEPT !.at = "dispatch", !.kind = kind, !.sess = s]]
    /\ UNCHANGED <<local, github, disturbed>>

\* gh workflow run --ref <branch>: the run will check out the branch as it is now.
Dispatch(c) ==
    /\ cmd[c].at = "dispatch"
    /\ To(c, "locate") /\ run' = [run EXCEPT ![c] = "queued"]
    /\ checkout' = [checkout EXCEPT ![c] = pushed]
    /\ UNCHANGED <<local, listed, seed, table, disturbed>>

\* The step of a command whose gh_run.sh exits non-zero: session-down records the failure
\* and closes the session all the same, the others raise.
GiveUp(c) == To(c, IF cmd[c].kind = "session-down" THEN "close" ELSE "failed")

\* The branch is not on the remote, or the call fails.
DispatchFails(c) ==
    /\ cmd[c].at = "dispatch"
    /\ GiveUp(c)
    /\ UNCHANGED <<local, github, disturbed>>

Matches(c) == {r \in listed : RunKey(r) = RunKey(c)}
Newest(S) == {r \in S : \A q \in S : q <= r}
Watch(c, r) == cmd' = [cmd EXCEPT ![c].at = "poll", ![c].watch = r]

\* Faulty variant: the latest run, whoever dispatched it.
Locate_Latest(c) ==
    /\ cmd[c].at = "locate" /\ \E r \in Newest(listed) : Watch(c, r)
    /\ UNCHANGED <<local, github, disturbed>>

\* The newest listed run with exactly this key.
Locate(c) ==
    /\ cmd[c].at = "locate" /\ \E r \in Newest(Matches(c)) : Watch(c, r)
    /\ UNCHANGED <<local, github, disturbed>>

LocateTimesOut(c) ==
    /\ cmd[c].at = "locate" /\ Matches(c) = {}
    /\ GiveUp(c)
    /\ UNCHANGED <<local, github, disturbed>>

PollSucceeds(c) ==
    /\ cmd[c].at = "poll" /\ run[cmd[c].watch] = "success"
    /\ cmd' = [cmd EXCEPT ![c].ok = TRUE,
                          ![c].at = CASE cmd[c].kind = "session-down" -> "close"
                                      [] cmd[c].kind = "full build" -> "done"
                                      [] cmd[c].kind = "recon" -> "record"]
    /\ UNCHANGED <<local, github, disturbed>>

\* Faulty variant: the poll has no limit of its own.
PollFails_NoTimeout(c) ==
    /\ cmd[c].at = "poll" /\ run[cmd[c].watch] = "failure"
    /\ GiveUp(c)
    /\ UNCHANGED <<local, github, disturbed>>

\* The run failed, or is not completed when the time is up.
PollFails(c) ==
    /\ cmd[c].at = "poll" /\ run[cmd[c].watch] # "success"
    /\ GiveUp(c)
    /\ UNCHANGED <<local, github, disturbed>>

\* Faulty variant: a failed dbt run leaves the manifest without its end.
Close_Reopens(c) ==
    /\ cmd[c].at = "close"
    /\ To(c, IF cmd[c].ok THEN "done" ELSE "failed")
    /\ closed' = IF cmd[c].ok THEN closed \cup {cmd[c].sess} ELSE closed \ {cmd[c].sess}
    /\ UNCHANGED <<pushed, github, block, disturbed>>

\* session-down writes and commits the manifest with its end and gaps.
Close(c) ==
    /\ cmd[c].at = "close"
    /\ To(c, IF cmd[c].ok THEN "done" ELSE "failed")
    /\ closed' = closed \cup {cmd[c].sess}
    /\ UNCHANGED <<pushed, github, block, disturbed>>

\* The rows of the session: none, and three zeros, if the table is another's.
Counts(s) == IF table = s THEN s ELSE None

\* query_counts, and the manifest's recon block.
Record(c) ==
    /\ cmd[c].at = "record"
    /\ To(c, "done")
    /\ block' = [block EXCEPT ![cmd[c].sess] = Counts(cmd[c].sess)]
    /\ UNCHANGED <<closed, pushed, github, disturbed>>

\* The command is interrupted; its run goes on.
Interrupt(c) ==
    /\ Running(c)
    /\ To(c, "failed")
    /\ UNCHANGED <<local, github, disturbed>>

-------------------------------------------------------------------------------
(* The runs.                                                               *)

Appear(r) ==
    /\ run[r] # "none" /\ r \notin listed
    /\ listed' = listed \cup {r}
    /\ UNCHANGED <<local, cmd, run, checkout, seed, table, disturbed>>

Disturbs(r) ==
    disturbed' = disturbed \cup
        {c \in Cmds \ {r} : Running(c) /\ cmd[c].kind = "recon"
                              /\ run[c] \in {"seeded", "built", "success"}}

\* regen_recon_seed.py on the checkout: a recon's session if its manifest is there, the
\* fixture rows alone if it is not; every session for the other runs.
SeedFor(r) ==
    IF cmd[r].kind = "recon" THEN checkout[r] \cap {cmd[r].sess} ELSE checkout[r]

\* dbt build loads the seed ...
RunSeeds(r) ==
    /\ run[r] = "queued"
    /\ run' = [run EXCEPT ![r] = "seeded"]
    /\ seed' = SeedFor(r) /\ checkout' = [checkout EXCEPT ![r] = {}] /\ Disturbs(r)
    /\ UNCHANGED <<local, cmd, listed, table>>

\* ... rebuilds recon_trades, for a run without its vars over the fixture's window ...
RunBuilds(r) ==
    /\ run[r] = "seeded"
    /\ run' = [run EXCEPT ![r] = "built"]
    /\ table' = IF cmd[r].kind = "recon" THEN cmd[r].sess ELSE None
    /\ Disturbs(r)
    /\ UNCHANGED <<local, cmd, checkout, listed, seed>>

\* The two tests: an archive trade outside the gaps the seed holds fails one of them.
Reconciles == table # None => table \in Clean /\ table \in seed \cup Gapless

\* Faulty variant: the tests' failures are warnings.
RunTests_Warn(r) ==
    /\ run[r] = "built"
    /\ run' = [run EXCEPT ![r] = "success"]
    /\ UNCHANGED <<local, cmd, checkout, listed, seed, table, disturbed>>

\* ... and tests what the two tables hold by then.
RunTests(r) ==
    /\ run[r] = "built"
    /\ run' = [run EXCEPT ![r] = IF Reconciles THEN "success" ELSE "failure"]
    /\ UNCHANGED <<local, cmd, checkout, listed, seed, table, disturbed>>

\* Any step of the workflow fails.
RunFails(r) ==
    /\ run[r] \in {"queued", "seeded", "built"}
    /\ run' = [run EXCEPT ![r] = "failure"]
    /\ UNCHANGED <<local, cmd, checkout, listed, seed, table, disturbed>>

-------------------------------------------------------------------------------
Ends(c) ==
    \/ Dispatch(c) \/ DispatchFails(c) \/ Locate(c) \/ LocateTimesOut(c)
    \/ PollSucceeds(c) \/ PollFails(c) \/ Close(c) \/ Record(c)

Workflow(r) == Appear(r) \/ RunSeeds(r) \/ RunBuilds(r) \/ RunTests(r) \/ RunFails(r)

Next ==
    \/ Push
    \/ \E c \in Cmds, kind \in Kinds, s \in Sessions \cup {None} : Start(c, kind, s)
    \/ \E c \in Cmds : Ends(c) \/ Interrupt(c) \/ Workflow(c)

Spec == Init /\ [][Next]_vars

\* The commands are programs that run; GitHub promises nothing.
FairSpec == Spec /\ \A c \in Cmds : WF_vars(Ends(c))
-------------------------------------------------------------------------------
(* Properties.                                                             *)

Steps == {"idle", "dispatch", "locate", "poll", "record", "close", "done", "failed"}
States == {"none", "queued", "seeded", "built", "success", "failure"}
Whose == Sessions \cup {None}

TypeOK ==
    /\ closed \subseteq Sessions /\ pushed \subseteq closed
    /\ cmd \in [Cmds -> [at : Steps, kind : Kinds, sess : Whose,
                          watch : Cmds \cup {None}, ok : BOOLEAN]]
    /\ run \in [Cmds -> States] /\ listed \subseteq Cmds
    /\ checkout \in [Cmds -> SUBSET pushed]
    /\ seed \subseteq Sessions /\ table \in Whose
    /\ block \in [Sessions -> Whose]
    /\ disturbed \subseteq Cmds

\* gh_run.sh, "locate that exact run by key": a command that reports success has seen its
\* own run succeed, however runs are listed late, finish out of order or fail beside it.
\* It takes a key with the time of the dispatch, which that of a session-down lacks.
OwnRunByKey ==
    \A c \in Cmds : cmd[c].ok /\ cmd[c].kind # "session-down" => run[c] = "success"

\* A recon whose tables no other run wrote meanwhile puts its own session's counts into
\* the manifest, of a session that reconciles against its own gaps: a manifest that is
\* not pushed, a stale run or an unexplained trade never gets one.
RecordIsProved ==
    [][\A c \in Cmds : Record(c) /\ c \notin disturbed =>
         /\ block'[cmd[c].sess] = cmd[c].sess
         /\ cmd[c].sess \in Clean /\ cmd[c].sess \in pushed \cup Gapless]_vars

\* In the end no command is left waiting, also when GitHub never lists or completes its
\* run: every one of them is done or has failed.
CommandsEnd == <>[](\A c \in Cmds : ~Running(c))
===============================================================================
