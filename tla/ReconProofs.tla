------------------------------ MODULE ReconProofs ------------------------------
(***************************************************************************)
(* Theorems about the run contract and make recon, for any sessions and    *)
(* any number of commands.                                                 *)
(***************************************************************************)
EXTENDS Recon, TLAPS

USE ReconAssumption DEF ReconAssumption

\* What a command is, and what it knows of its run, at each of its steps.
Consistent(c) ==
    /\ cmd[c].at # "idle" => ((cmd[c].kind = "full build") <=> (cmd[c].sess = None))
    /\ cmd[c].at = "close" => cmd[c].kind = "session-down"
    /\ cmd[c].at = "record" => cmd[c].kind = "recon" /\ cmd[c].ok
    /\ cmd[c].at \in {"idle", "dispatch"} => run[c] = "none"
    /\ cmd[c].at \in {"idle", "dispatch", "locate", "poll"} => ~cmd[c].ok
    /\ cmd[c].at = "poll" /\ cmd[c].kind # "session-down" => cmd[c].watch = c
    /\ cmd[c].ok /\ cmd[c].kind # "session-down" => run[c] = "success"

\* A recon that nothing has disturbed.
Alone(c) == Running(c) /\ cmd[c].kind = "recon" /\ c \notin disturbed

\* What its run has left in the tables.
Proved(c) ==
    Alone(c) =>
        /\ run[c] \in {"built", "success"} => table = cmd[c].sess
        /\ run[c] = "success" => cmd[c].sess \in Clean /\ cmd[c].sess \in pushed \cup Gapless

IInv ==
    /\ TypeOK
    /\ \A c \in Cmds : Consistent(c)
    /\ seed \subseteq pushed
    /\ \A c \in Cmds : Proved(c)

\* The seed a run regenerates is that of sessions its checkout has (regen_recon_seed.py),
\* which are on the branch since its dispatch.
LEMMA SeedIsPushed ==
    ASSUME TypeOK, NEW r \in Cmds
    PROVE  SeedFor(r) \subseteq pushed
BY DEF SeedFor, TypeOK

\* Only a command's own steps touch what it is and knows: a step of command c that
\* leaves the runs, the tables and the branch alone keeps what the others rely on.
LEMMA OthersKeep ==
    ASSUME IInv, NEW c \in Cmds, NEW rec, cmd' = [cmd EXCEPT ![c] = rec],
           rec \in [at : Steps, kind : Kinds, sess : Whose,
                    watch : Cmds \cup {None}, ok : BOOLEAN],
           UNCHANGED <<run, table, disturbed>>, pushed \subseteq pushed',
           NEW d \in Cmds, d # c
    PROVE  Consistent(d)' /\ Proved(d)'
<1>1. cmd'[d] = cmd[d]
  BY DEF IInv, TypeOK
<1>2. Consistent(d)'
  BY <1>1 DEF IInv, Consistent
<1>3. Proved(d)'
  BY <1>1 DEF IInv, Proved, Alone, Running
<1>. QED
  BY <1>2, <1>3

-------------------------------------------------------------------------------
(* The invariant.                                                          *)

\* It holds at first: no command has run.
LEMMA InitIInv ==
    Init => IInv
<1>. SUFFICES ASSUME Init PROVE IInv
  OBVIOUS
<1>1. TypeOK
  BY DEF Init, TypeOK, Idle, Steps, States, Kinds, Whose, None
<1>2. \A c \in Cmds : Consistent(c) /\ Proved(c)
  BY DEF Init, Consistent, Proved, Alone, Running, Idle
<1>. QED
  BY <1>1, <1>2 DEF Init, IInv

\* A step of command c that leaves the runs and tables alone preserves the invariant if
\* it leaves c's own record consistent.
LEMMA OwnStep ==
    ASSUME IInv, NEW c \in Cmds, NEW rec, cmd' = [cmd EXCEPT ![c] = rec],
           rec \in [at : Steps, kind : Kinds, sess : Whose,
                    watch : Cmds \cup {None}, ok : BOOLEAN],
           UNCHANGED <<run, checkout, listed, seed, table, disturbed>>,
           pushed' = pushed, closed \subseteq closed', closed' \subseteq Sessions,
           block' \in [Sessions -> Whose],
           Consistent(c)', Proved(c)'
    PROVE  IInv'
<1>1. TypeOK'
  BY DEF IInv, TypeOK
<1>2. \A d \in Cmds : Consistent(d)' /\ Proved(d)'
  BY OthersKeep, pushed \subseteq pushed'
<1>. QED
  BY <1>1, <1>2 DEF IInv

\* A step that ends, fails or goes on to the next one, of a command that runs.
LEMMA Moves ==
    ASSUME IInv, NEW c \in Cmds, NEW step \in Steps, To(c, step), Running(c),
           UNCHANGED <<run, checkout, listed, seed, table, disturbed>>,
           pushed' = pushed, closed \subseteq closed', closed' \subseteq Sessions,
           block' \in [Sessions -> Whose],
           \/ step \in {"done", "failed"}
           \/ step = "close" /\ cmd[c].kind = "session-down"
    PROVE  IInv'
<1>. DEFINE rec == [cmd[c] EXCEPT !.at = step]
<1>1. cmd' = [cmd EXCEPT ![c] = rec] /\ cmd'[c] = rec
      /\ rec \in [at : Steps, kind : Kinds, sess : Whose,
                  watch : Cmds \cup {None}, ok : BOOLEAN]
  BY DEF To, IInv, TypeOK
<1>2. /\ cmd'[c].at = step /\ cmd'[c].kind = cmd[c].kind /\ cmd'[c].sess = cmd[c].sess
      /\ cmd'[c].ok <=> cmd[c].ok
  BY <1>1 DEF IInv, TypeOK
<1>. HIDE DEF rec
<1>3. Consistent(c)'
  BY <1>2 DEF IInv, Consistent, Running
<1>4. Proved(c)'
  BY <1>2 DEF IInv, Proved, Alone, Running
<1>. QED
  BY <1>1, <1>3, <1>4, OwnStep

\* GiveUp is such a step.
LEMMA GivesUp ==
    ASSUME IInv, NEW c \in Cmds, GiveUp(c), Running(c),
           UNCHANGED <<local, github, disturbed>>
    PROVE  IInv'
<1>1. CASE cmd[c].kind = "session-down"
  <2>1. To(c, "close")
    BY <1>1 DEF GiveUp
  <2>. QED
    BY <1>1, <2>1, Moves DEF local, github, IInv, TypeOK, Steps
<1>2. CASE cmd[c].kind # "session-down"
  <2>1. To(c, "failed")
    BY <1>2 DEF GiveUp
  <2>. QED
    BY <1>2, <2>1, Moves DEF local, github, IInv, TypeOK, Steps
<1>. QED
  BY <1>1, <1>2

\* Every step of a command preserves the invariant.
LEMMA CommandStep ==
    ASSUME IInv, NEW c \in Cmds, Ends(c) \/ Interrupt(c)
    PROVE  IInv'
<1>. DEFINE Rec == [at : Steps, kind : Kinds, sess : Whose,
                    watch : Cmds \cup {None}, ok : BOOLEAN]
<1>0. cmd \in [Cmds -> Rec] /\ cmd[c] \in Rec /\ Consistent(c) /\ Proved(c)
      /\ closed \subseteq Sessions /\ block \in [Sessions -> Whose]
  BY DEF IInv, TypeOK
<1>1. CASE Dispatch(c)
  <2>1. /\ cmd'[c] = [cmd[c] EXCEPT !.at = "locate"] /\ run'[c] = "queued"
        /\ \A d \in Cmds \ {c} : cmd'[d] = cmd[d] /\ run'[d] = run[d]
    BY <1>1, <1>0 DEF Dispatch, To, IInv, TypeOK
  <2>2. TypeOK'
    BY <1>1, <1>0 DEF Dispatch, To, local, IInv, TypeOK, Steps, States
  <2>3. Consistent(c)'
    <3>1. /\ cmd'[c].at = "locate" /\ cmd'[c].kind = cmd[c].kind
          /\ cmd'[c].sess = cmd[c].sess
          /\ cmd'[c].ok <=> cmd[c].ok
      BY <2>1, <1>0
    <3>. QED
      BY <3>1, <1>0, <1>1 DEF Dispatch, Consistent
  <2>5. ASSUME NEW d \in Cmds \ {c}
        PROVE  Consistent(d)'
    <3>1. cmd'[d] = cmd[d] /\ run'[d] = run[d] /\ Consistent(d)
      BY <2>1 DEF IInv
    <3>. QED
      BY <3>1 DEF Consistent
  <2>4. \A d \in Cmds : Proved(d)'
    BY <2>1, <1>0, <1>1 DEF Dispatch, local, IInv, Proved, Alone, Running
  <2>. QED
    BY <2>2, <2>3, <2>4, <2>5, <1>1 DEF Dispatch, local, IInv
<1>2. CASE DispatchFails(c) \/ LocateTimesOut(c) \/ PollFails(c)
  BY <1>2, GivesUp DEF DispatchFails, LocateTimesOut, PollFails, Running
<1>3. CASE Locate(c)
  <2>1. PICK r \in Newest(Matches(c)) : Watch(c, r)
    BY <1>3 DEF Locate
  <2>2. r \in Cmds /\ RunKey(r) = RunKey(c)
    BY <2>1 DEF Newest, Matches, IInv, TypeOK
  <2>3. cmd[c].kind # "session-down" => r = c
    BY <2>2 DEF RunKey, Cmds, None
  <2>. DEFINE rec == [cmd[c] EXCEPT !.at = "poll", !.watch = r]
  <2>4. cmd' = [cmd EXCEPT ![c] = rec] /\ cmd'[c] = rec /\ rec \in Rec
    BY <2>1, <2>2, <1>0 DEF Watch, Steps
  <2>5. Consistent(c)' /\ Proved(c)'
    BY <2>3, <2>4, <1>0, <1>3 DEF Locate, local, github, Consistent, Proved, Alone, Running
  <2>. HIDE DEF rec
  <2>. QED
    BY <2>4, <2>5, <1>0, <1>3, OwnStep DEF Locate, local, github
<1>4. CASE PollSucceeds(c)
  <2>. DEFINE step == CASE cmd[c].kind = "session-down" -> "close"
                        [] cmd[c].kind = "full build" -> "done"
                        [] cmd[c].kind = "recon" -> "record"
              rec == [cmd[c] EXCEPT !.ok = TRUE, !.at = step]
  <2>1. /\ cmd[c].kind = "session-down" => step = "close"
        /\ cmd[c].kind = "full build" => step = "done"
        /\ cmd[c].kind = "recon" => step = "record"
        /\ cmd[c].kind \in {"session-down", "full build", "recon"}
    BY <1>0 DEF Kinds
  <2>2. step \in Steps
    BY <2>1 DEF Steps
  <2>3. cmd' = [cmd EXCEPT ![c].ok = TRUE, ![c].at = step]
    BY <1>4 DEF PollSucceeds
  <2>. HIDE DEF step
  <2>4. cmd' = [cmd EXCEPT ![c] = rec] /\ cmd'[c] = rec /\ rec \in Rec
    BY <2>2, <2>3, <1>0
  <2>5. cmd[c].kind # "session-down" => run[c] = "success"
    BY <1>4, <1>0 DEF PollSucceeds, Consistent
  <2>6. Consistent(c)' /\ Proved(c)'
    BY <2>1, <2>4, <2>5, <1>0, <1>4
       DEF PollSucceeds, local, github, Consistent, Proved, Alone, Running
  <2>. HIDE DEF rec
  <2>. QED
    BY <2>4, <2>6, <1>0, <1>4, OwnStep DEF PollSucceeds, local, github
<1>5. CASE Close(c)
  <2>1. cmd[c].sess \in Sessions
    BY <1>0, <1>5 DEF Close, Consistent, Whose
  <2>2. \E step \in {"done", "failed"} : To(c, step)
    BY <1>5 DEF Close
  <2>. QED
    BY <2>1, <2>2, <1>0, <1>5, Moves DEF Close, github, Running, Steps
<1>6. CASE Record(c)
  <2>1. Counts(cmd[c].sess) \in Whose
    BY <1>0 DEF Counts, Whose
  <2>2. block' \in [Sessions -> Whose]
    BY <2>1, <1>0, <1>6 DEF Record
  <2>3. To(c, "done")
    BY <1>6 DEF Record
  <2>. QED
    BY <2>2, <2>3, <1>0, <1>6, Moves DEF Record, github, Running, Steps
<1>7. CASE Interrupt(c)
  BY <1>7, <1>0, Moves DEF Interrupt, local, github, Steps
<1>. QED
  BY <1>1, <1>2, <1>3, <1>4, <1>5, <1>6, <1>7 DEF Ends

\* A command that starts has no run yet.
LEMMA StartStep ==
    ASSUME IInv, NEW c \in Cmds, NEW kind \in Kinds, NEW s \in Sessions \cup {None},
           Start(c, kind, s)
    PROVE  IInv'
<1>. DEFINE rec == [Idle EXCEPT !.at = "dispatch", !.kind = kind, !.sess = s]
<1>1. cmd' = [cmd EXCEPT ![c] = rec]
  BY DEF Start
<1>2. cmd'[c] = rec /\ rec \in [at : Steps, kind : Kinds, sess : Whose,
                                watch : Cmds \cup {None}, ok : BOOLEAN]
  BY <1>1 DEF IInv, TypeOK, Idle, Steps, Whose
<1>3. run[c] = "none" /\ run' = run
  BY DEF Start, github, IInv, Consistent
<1>4. /\ cmd'[c].at = "dispatch" /\ cmd'[c].kind = kind /\ cmd'[c].sess = s
      /\ ~cmd'[c].ok
  BY <1>2 DEF Idle
<1>5. Consistent(c)' /\ Proved(c)'
  BY <1>3, <1>4 DEF Start, Consistent, Proved
<1>. HIDE DEF rec
<1>. QED
  BY <1>1, <1>2, <1>5, OwnStep DEF Start, local, github, IInv, TypeOK

-------------------------------------------------------------------------------
(* The steps of a run.                                                     *)

\* A run that another one disturbs is not alone any more.
LEMMA DisturbedIsNotAlone ==
    ASSUME IInv, NEW r \in Cmds, Disturbs(r), cmd' = cmd,
           NEW c \in Cmds, c # r, Alone(c)'
    PROVE  Alone(c) /\ run[c] \notin {"seeded", "built", "success"}
BY DEF Disturbs, Alone, Running

\* Every step of a run preserves the invariant.
LEMMA RunStep ==
    ASSUME IInv, NEW r \in Cmds, Workflow(r)
    PROVE  IInv'
<1>0. /\ TypeOK /\ seed \subseteq pushed
      /\ \A c \in Cmds : Consistent(c) /\ Proved(c)
  BY DEF IInv
<1>1. CASE Appear(r)
  BY <1>0, <1>1 DEF Appear, local, IInv, TypeOK, Consistent, Proved, Alone, Running
<1>2. CASE RunSeeds(r)
  <2>1. /\ run'[r] = "seeded" /\ run[r] = "queued"
        /\ \A c \in Cmds \ {r} : run'[c] = run[c]
    BY <1>0, <1>2 DEF RunSeeds, TypeOK
  <2>2. TypeOK' /\ seed' \subseteq pushed'
    BY <1>0, <1>2, SeedIsPushed DEF RunSeeds, Disturbs, local, TypeOK, States
  <2>3. \A c \in Cmds : Consistent(c)'
    BY <1>0, <1>2, <2>1 DEF RunSeeds, Consistent
  <2>4. \A c \in Cmds : Proved(c)'
    BY <1>0, <1>2, <2>1, DisturbedIsNotAlone DEF RunSeeds, local, Proved
  <2>. QED
    BY <2>2, <2>3, <2>4 DEF IInv
<1>3. CASE RunBuilds(r)
  <2>1. /\ run'[r] = "built" /\ run[r] = "seeded"
        /\ \A c \in Cmds \ {r} : run'[c] = run[c]
    BY <1>0, <1>3 DEF RunBuilds, TypeOK
  <2>2. TypeOK'
    BY <1>0, <1>3 DEF RunBuilds, Disturbs, local, TypeOK, States, Whose
  <2>3. \A c \in Cmds : Consistent(c)'
    BY <1>0, <1>3, <2>1 DEF RunBuilds, Consistent
  <2>4. Proved(r)'
    BY <1>0, <1>3, <2>1 DEF RunBuilds, Disturbs, local, Proved, Alone, Running
  <2>5. \A c \in Cmds \ {r} : Proved(c)'
    BY <1>0, <1>3, <2>1, DisturbedIsNotAlone DEF RunBuilds, local, Proved
  <2>. QED
    BY <1>0, <1>3, <2>2, <2>3, <2>4, <2>5 DEF RunBuilds, local, IInv
<1>4. CASE RunTests(r)
  <2>1. /\ run'[r] = (IF Reconciles THEN "success" ELSE "failure") /\ run[r] = "built"
        /\ \A c \in Cmds \ {r} : run'[c] = run[c]
    BY <1>0, <1>4 DEF RunTests, TypeOK
  <2>2. TypeOK'
    BY <1>0, <1>4 DEF RunTests, local, TypeOK, States
  <2>3. \A c \in Cmds : Consistent(c)'
    BY <1>0, <1>4, <2>1 DEF RunTests, Consistent
  <2>4. ASSUME Alone(r)', run'[r] = "success"
        PROVE  table = cmd[r].sess /\ cmd[r].sess \in Clean
               /\ cmd[r].sess \in pushed \cup Gapless
    <3>1. Alone(r) /\ table = cmd[r].sess /\ Reconciles
      BY <1>0, <1>4, <2>1, <2>4 DEF RunTests, Alone, Running, Proved
    <3>2. table # None
      BY <1>0, <3>1 DEF Alone, Running, Consistent
    <3>. QED
      BY <1>0, <3>1, <3>2 DEF Reconciles
  <2>5. \A c \in Cmds : Proved(c)'
    BY <1>0, <1>4, <2>1, <2>4 DEF RunTests, local, Proved, Alone, Running
  <2>. QED
    BY <1>0, <1>4, <2>2, <2>3, <2>5 DEF RunTests, local, IInv
<1>5. CASE RunFails(r)
  <2>1. /\ run'[r] = "failure" /\ run[r] \notin {"none", "success"}
        /\ \A c \in Cmds \ {r} : run'[c] = run[c]
    BY <1>0, <1>5 DEF RunFails, TypeOK
  <2>2. TypeOK'
    BY <1>0, <1>5 DEF RunFails, local, TypeOK, States
  <2>3. \A c \in Cmds : Consistent(c)'
    BY <1>0, <1>5, <2>1 DEF RunFails, Consistent
  <2>4. \A c \in Cmds : Proved(c)'
    BY <1>0, <1>5, <2>1 DEF RunFails, local, Proved, Alone, Running
  <2>. QED
    BY <1>0, <1>5, <2>2, <2>3, <2>4 DEF RunFails, local, IInv
<1>. QED
  BY <1>1, <1>2, <1>3, <1>4, <1>5 DEF Workflow

\* Every step preserves the invariant; a push only adds to the branch.
LEMMA NextIInv ==
    IInv /\ [Next]_vars => IInv'
<1>. SUFFICES ASSUME IInv, [Next]_vars PROVE IInv'
  OBVIOUS
<1>1. CASE Push
  BY <1>1 DEF Push, github, IInv, TypeOK, Consistent, Proved, Alone, Running
<1>2. CASE UNCHANGED vars
  BY <1>2 DEF vars, IInv, TypeOK, Consistent, Proved, Alone, Running
<1>. QED
  BY <1>1, <1>2, StartStep, CommandStep, RunStep DEF Next

\* All states satisfy the invariant.
LEMMA AlwaysIInv ==
    Spec => []IInv
BY InitIInv, NextIInv, PTL DEF Spec

-------------------------------------------------------------------------------
(* The theorems.                                                           *)

\* Commands, runs and tables keep their types, and the branch has no session that is not
\* closed.
THEOREM ReconTypeCorrect == Spec => []TypeOK
<1>1. IInv => TypeOK
  BY DEF IInv
<1>. QED
  BY <1>1, AlwaysIInv, PTL

\* A command whose key holds its time reports success only of its own run.
THEOREM KeysFindTheirRun == Spec => []OwnRunByKey
<1>1. IInv => OwnRunByKey
  BY DEF IInv, Consistent, OwnRunByKey
<1>. QED
  BY <1>1, AlwaysIInv, PTL

\* A recon block that no other run has disturbed holds the counts of its own session,
\* which reconciles against the gaps on the branch.
THEOREM RecordsAreProved == Spec => RecordIsProved
<1>1. ASSUME IInv, NEW c \in Cmds, Record(c), c \notin disturbed
      PROVE  /\ block'[cmd[c].sess] = cmd[c].sess
             /\ cmd[c].sess \in Clean /\ cmd[c].sess \in pushed \cup Gapless
  <2>1. cmd[c].kind = "recon" /\ run[c] = "success" /\ Alone(c)
    BY <1>1 DEF IInv, Consistent, Record, Alone, Running
  <2>2. /\ table = cmd[c].sess
        /\ cmd[c].sess \in Clean /\ cmd[c].sess \in pushed \cup Gapless
    BY <1>1, <2>1 DEF IInv, Proved
  <2>3. cmd[c].sess \in Sessions
    BY <2>2
  <2>. QED
    BY <1>1, <2>2, <2>3 DEF IInv, TypeOK, Record, Counts
<1>2. IInv => (\A c \in Cmds : Record(c) /\ c \notin disturbed =>
                  /\ block'[cmd[c].sess] = cmd[c].sess
                  /\ cmd[c].sess \in Clean /\ cmd[c].sess \in pushed \cup Gapless)
  BY <1>1
<1>. QED
  BY <1>2, AlwaysIInv, PTL DEF RecordIsProved
===============================================================================
