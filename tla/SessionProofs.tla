----------------------------- MODULE SessionProofs -----------------------------
(***************************************************************************)
(* Theorems about the lifecycle of demo sessions, for any number of        *)
(* sessions, session-down runs, heals, failures and interruptions.         *)
(***************************************************************************)
EXTENDS Session, TLAPS

-------------------------------------------------------------------------------
(* The inductive invariant.                                                *)

\* Nothing flows into the stream and nothing is left in it.
Quiet == desired = 0 /\ ~running /\ ~inflight

\* Who is at work: session-up and session-down exclude each other, and the reaper works
\* only on a stack that exists, so on none that session-up is about to build.
ActorsInv ==
    /\ up # "idle" => last # 0 /\ down.at = "idle" /\ reaper = NoReaper
    /\ down.at # "idle" => down.id \in Ids /\ manifest[down.id] # "none"
    /\ reaper.at # "idle" => reaper.id # None /\ stack # None
    /\ reaper.at = "idle" => reaper = NoReaper

\* What is in the cloud is in the Terraform state, the schedule belongs to the stack, and
\* without a stack nothing flows.
CloudInv ==
    /\ stack # None \/ stream => recorded
    /\ schedule # None => stack = schedule
    /\ stack = None => Quiet
    /\ inflight => stream

\* A session that has not been started has left no trace, one that is being started
\* neither a manifest, a cost row nor a marker.
FreshInv ==
    /\ \A i \in Ids : i > last \/ (up # "idle" /\ i = last) =>
         manifest[i] = "none" /\ rows[i] = 0 /\ i \notin marker
    /\ \A i \in {stack, schedule, reaper.id} : i > last => i > MaxSessions
    /\ \A i \in Ids : rows[i] <= downs
    /\ down.at \in {"stop", "drain", "gaps", "destroy", "cost"} => rows[down.id] < downs

\* Whoever scaled the service to zero finds it at zero, and drained after the drain.
DrainInv ==
    /\ down.at = "drain" \/ reaper.at = "drain" => desired = 0
    /\ reaper.at \in {"delete", "mark"} => Quiet

\* While every command works on its own stack: whose stack it is, and that it is drained
\* before it is destroyed.
OwnInv ==
    /\ up \in {"start", "write"} => stack = last
    /\ down.at \in {"stop", "drain", "gaps", "destroy"} => stack = down.id
    /\ reaper.at # "idle" => stack = reaper.id
    /\ heal = "run" => stack > MaxSessions
    /\ stack > MaxSessions \/ stack \in marker => Quiet
    /\ down.at \in {"gaps", "destroy"} => Quiet
    /\ ~lost

\* While every command works on its own stack: a session with a cost row has no stack any
\* more, and a session-down past its destroy has the gaps and writes the only row.
BooksInv ==
    /\ \A i \in Ids : rows[i] > 0 => stack # i /\ rows[i] = 1
    /\ down.at \in {"destroy", "cost", "dbt", "maintain", "write"} => down.gaps
    /\ down.at = "cost" => stack # down.id /\ rows[down.id] = 0
    /\ down.at \in {"dbt", "maintain", "write"} => rows[down.id] = 1
    /\ \A i \in Ids : manifest[i] \in {"closed", "reaped"} => i \in known /\ rows[i] = 1

BaseInv == TypeOK /\ ActorsInv /\ CloudInv /\ FreshInv /\ DrainInv

IInv == BaseInv /\ (~stray => OwnInv /\ BooksInv)
-------------------------------------------------------------------------------
(* Type correctness.                                                       *)

\* A step of session-down changes only where it is.
LEMMA DownAt ==
    ASSUME NEW d \in DownStates, NEW step \in DownSteps
    PROVE  LET e == [d EXCEPT !.at = step]
           IN  /\ e \in DownStates /\ e.at = step /\ e.id = d.id
               /\ e.reaped = d.reaped /\ e.gaps = d.gaps
BY DEF DownStates

\* So does a step of the reaper.
LEMMA ReaperAt ==
    ASSUME NEW r \in ReaperStates, NEW step \in ReaperSteps
    PROVE  LET e == [r EXCEPT !.at = step]
           IN  e \in ReaperStates /\ e.at = step /\ e.id = r.id
BY DEF ReaperStates

\* The states a command is in when it does nothing.
LEMMA IdleTypes ==
    /\ NoDown \in DownStates /\ NoDown.at = "idle"
    /\ NoReaper \in ReaperStates /\ NoReaper.at = "idle" /\ NoReaper.id = None
BY DEF NoDown, NoReaper, DownStates, ReaperStates, DownSteps, ReaperSteps, Owners

\* Every step of a command, of the reaper and of AWS keeps the types.
LEMMA TypedStep == BaseInv /\ [Next]_vars => TypeOK'
<1>. SUFFICES ASSUME BaseInv, [Next]_vars PROVE TypeOK'
  OBVIOUS
<1>. TypeOK
  BY DEF BaseInv
<1>. USE DEF TypeOK, files, cloud, bounds, Service
<1>1. CASE Reconcile \/ Flow
  BY <1>1 DEF Reconcile, Flow
<1>2. CASE UpStart
  BY <1>2, SessionAssumption DEF UpStart, SessionAssumption
<1>3. CASE UpApply
  BY <1>3, SessionAssumption DEF UpApply, Apply, SessionAssumption, Owners, BaseInv, ActorsInv
<1>4. CASE UpIngester
  BY <1>4 DEF UpIngester
<1>5. CASE UpWrite
  BY <1>5 DEF UpWrite
<1>6. CASE UpFails
  <2>1. upFails' \in 0..MaxUpFails
    BY <1>6, SessionAssumption DEF UpFails, SessionAssumption
  <2>. QED
    BY <1>6, <2>1 DEF UpFails, ApplyBreaks
<1>7. ASSUME NEW i \in Ids, DownStart(i) PROVE TypeOK'
  <2>1. down' \in DownStates
    BY <1>7 DEF DownStart, DownStates, DownSteps
  <2>. QED
    BY <1>7, <2>1, SessionAssumption DEF DownStart, SessionAssumption
<1>8. CASE DownStop \/ DownDrain \/ DownDbt \/ DownMaintain
  <2>1. PICK step \in DownSteps : To(step)
    BY <1>8 DEF DownStop, DownDrain, DownDbt, DownMaintain, DownSteps
  <2>2. down' \in DownStates
    BY <2>1, DownAt DEF To
  <2>. QED
    BY <1>8, <2>2 DEF DownStop, DownDrain, DownDbt, DownMaintain
<1>9. CASE DownGaps
  <2>1. down' \in DownStates
    BY <1>9 DEF DownGaps, DownStates, DownSteps
  <2>. QED
    BY <1>9, <2>1 DEF DownGaps
<1>10. CASE DownDestroy
  <2>1. down' \in DownStates
    BY <1>10, DownAt DEF DownDestroy, To, DownSteps
  <2>. QED
    BY <1>10, <2>1, IdleTypes DEF DownDestroy, Destroy, DeleteStream, Owners
<1>11. CASE DownCost
  <2>1. down' \in DownStates
    BY <1>11, DownAt DEF DownCost, To, DownSteps
  <2>2. rows' \in [Ids -> 0..MaxDowns]
    <3>1. down.id \in Ids /\ rows[down.id] < downs
      BY <1>11 DEF DownCost, BaseInv, ActorsInv, FreshInv
    <3>2. rows[down.id] + 1 \in 0..MaxDowns
      BY <3>1, SessionAssumption DEF SessionAssumption
    <3>. QED
      BY <1>11, <3>2 DEF DownCost
  <2>. QED
    BY <1>11, <2>1, <2>2 DEF DownCost
<1>12. CASE DownWrite
  <2>1. down' \in DownStates
    BY <1>12, DownAt DEF DownWrite, To, DownSteps
  <2>2. down.id \in Ids
    BY <1>12 DEF DownWrite, BaseInv, ActorsInv
  <2>. QED
    BY <1>12, <2>1, <2>2 DEF DownWrite
<1>13. CASE DownAudit
  BY <1>13, IdleTypes DEF DownAudit
<1>14. CASE DownFails
  <2>1. fails' \in 0..MaxFails
    BY <1>14, SessionAssumption DEF DownFails, Fail, SessionAssumption
  <2>. QED
    BY <1>14, <2>1, IdleTypes DEF DownFails, DestroyBreaks, Owners
<1>15. CASE ReaperFires
  <2>1. reaper' \in ReaperStates
    BY <1>15 DEF ReaperFires, ReaperStates, ReaperSteps
  <2>. QED
    BY <1>15, <2>1 DEF ReaperFires
<1>16. CASE ReaperScales \/ ReaperDrains \/ ReaperDeletes
  <2>1. PICK step \in ReaperSteps : reaper' = [reaper EXCEPT !.at = step]
    BY <1>16 DEF ReaperScales, ReaperDrains, ReaperDeletes, ReaperSteps
  <2>2. reaper' \in ReaperStates
    BY <2>1, ReaperAt
  <2>3. lost' \in BOOLEAN
    BY <1>16 DEF ReaperScales, ReaperDrains, ReaperDeletes, DeleteStream
  <2>. QED
    BY <1>16, <2>2, <2>3 DEF ReaperScales, ReaperDrains, ReaperDeletes, DeleteStream
<1>17. CASE ReaperMarks
  <2>1. reaper.id \in Owners \ {None}
    BY <1>17 DEF ReaperMarks, BaseInv, ActorsInv, ReaperStates
  <2>. QED
    BY <1>17, <2>1, IdleTypes DEF ReaperMarks
<1>18. CASE ReaperFails
  <2>1. reaper' \in ReaperStates
    BY <1>18, ReaperAt DEF ReaperFails, ReaperSteps
  <2>2. fails' \in 0..MaxFails
    BY <1>18, SessionAssumption DEF ReaperFails, Fail, SessionAssumption
  <2>. QED
    BY <1>18, <2>1, <2>2 DEF ReaperFails
<1>19. ASSUME NEW i \in Ids, HealApply(i) PROVE TypeOK'
  <2>1. MaxSessions + heals + 1 \in Owners /\ heals' \in 0..MaxHeals
    BY <1>19, SessionAssumption DEF HealApply, SessionAssumption, Owners
  <2>. QED
    BY <1>19, <2>1 DEF HealApply, Apply
<1>20. CASE HealDestroy
  BY <1>20, IdleTypes DEF HealDestroy, Destroy, DeleteStream, Owners
<1>21. CASE HealDies
  <2>1. fails' \in 0..MaxFails
    BY <1>21, SessionAssumption DEF HealDies, Fail, SessionAssumption
  <2>. QED
    BY <1>21, <2>1 DEF HealDies
<1>22. CASE UNCHANGED vars
  BY <1>22 DEF vars
<1>. QED
  BY <1>1, <1>2, <1>3, <1>4, <1>5, <1>6, <1>7, <1>8, <1>9, <1>10, <1>11, <1>12, <1>13, <1>14,
     <1>15, <1>16, <1>17, <1>18, <1>19, <1>20, <1>21, <1>22
     DEF Next, Up, Down, Reaper

\* Every step keeps what holds of the actors and of the cloud, whoever works on whose stack.
LEMMA ActorsStep == BaseInv /\ [Next]_vars => (ActorsInv /\ CloudInv /\ DrainInv)'
<1>. DEFINE Rest == ActorsInv /\ CloudInv /\ DrainInv
<1>. SUFFICES ASSUME BaseInv, [Next]_vars PROVE Rest'
  OBVIOUS
<1>. TypeOK /\ Rest
  BY DEF BaseInv
<1>. USE DEF ActorsInv, CloudInv, DrainInv, Quiet, files, cloud, bounds, Service, None
<1>1. CASE Reconcile \/ Flow
  BY <1>1 DEF Reconcile, Flow, TypeOK
<1>2. CASE UpStart
  <2>1. last' # 0
    BY <1>2 DEF UpStart, TypeOK
  <2>. QED
    BY <1>2, <2>1 DEF UpStart, Preflight
<1>3. CASE UpApply
  BY <1>3 DEF UpApply, Apply, NoReaper
<1>4. CASE UpIngester
  BY <1>4 DEF UpIngester, NoReaper
<1>5. CASE UpWrite
  <2>1. manifest'[down.id] # "none" \/ down.at = "idle"
    BY <1>5 DEF UpWrite
  <2>. QED
    BY <1>5, <2>1 DEF UpWrite
<1>6. CASE UpFails
  BY <1>6 DEF UpFails, ApplyBreaks
<1>7. ASSUME NEW i \in Ids, DownStart(i) PROVE Rest'
  <2>1. down'.id = i /\ down'.at \in {"gaps", "stop"} /\ manifest[i] # "none"
    BY <1>7 DEF DownStart, IsLatest
  <2>. QED
    BY <1>7, <2>1 DEF DownStart
<1>8. CASE DownStop \/ DownDrain \/ DownDbt \/ DownMaintain
  <2>1. PICK step \in DownSteps : To(step) /\ (step = "drain" => DownStop)
    BY <1>8 DEF DownStop, DownDrain, DownDbt, DownMaintain, DownSteps
  <2>2. down'.at = step /\ down'.id = down.id /\ down.at # "idle"
    BY <1>8, <2>1, DownAt DEF To, DownStop, DownDrain, DownDbt, DownMaintain, TypeOK
  <2>. QED
    BY <1>8, <2>1, <2>2, SessionAssumption DEF DownStop, DownDrain, DownDbt, DownMaintain
<1>9. CASE DownGaps
  <2>1. down'.at = "destroy" /\ down'.id = down.id
    BY <1>9 DEF DownGaps, TypeOK, DownStates
  <2>. QED
    BY <1>9, <2>1 DEF DownGaps
<1>10. CASE DownDestroy
  <2>1. down'.at = "cost" /\ down'.id = down.id
    BY <1>10, DownAt DEF DownDestroy, To, TypeOK, DownSteps
  <2>. QED
    BY <1>10, <2>1, IdleTypes DEF DownDestroy, Destroy, DeleteStream
<1>11. CASE DownCost
  <2>1. down'.at = "dbt" /\ down'.id = down.id
    BY <1>11, DownAt DEF DownCost, To, TypeOK, DownSteps
  <2>. QED
    BY <1>11, <2>1 DEF DownCost
<1>12. CASE DownWrite
  <2>1. down'.at = "audit" /\ down'.id = down.id /\ down.id \in Ids
    BY <1>12, DownAt DEF DownWrite, To, TypeOK, DownSteps
  <2>2. manifest'[down.id] # "none"
    BY <1>12, <2>1 DEF DownWrite, TypeOK
  <2>. QED
    BY <1>12, <2>1, <2>2 DEF DownWrite
<1>13. CASE DownAudit
  BY <1>13, IdleTypes DEF DownAudit
<1>14. CASE DownFails
  BY <1>14, IdleTypes DEF DownFails, DestroyBreaks
<1>15. CASE ReaperFires
  BY <1>15 DEF ReaperFires
<1>16. CASE ReaperScales
  <2>1. reaper'.at = "drain" /\ reaper'.id = reaper.id
    BY <1>16, ReaperAt DEF ReaperScales, TypeOK, ReaperSteps
  <2>. QED
    BY <1>16, <2>1, IdleTypes DEF ReaperScales
<1>17. CASE ReaperDrains
  <2>1. reaper'.at = "delete" /\ reaper'.id = reaper.id
    BY <1>17, ReaperAt DEF ReaperDrains, TypeOK, ReaperSteps
  <2>. QED
    BY <1>17, <2>1, IdleTypes DEF ReaperDrains, Drained
<1>18. CASE ReaperDeletes
  <2>1. reaper'.at = "mark" /\ reaper'.id = reaper.id
    BY <1>18, ReaperAt DEF ReaperDeletes, TypeOK, ReaperSteps
  <2>. QED
    BY <1>18, <2>1, IdleTypes DEF ReaperDeletes, DeleteStream
<1>19. CASE ReaperMarks
  BY <1>19, IdleTypes DEF ReaperMarks
<1>20. CASE ReaperFails
  <2>1. reaper'.at = "scale" /\ reaper'.id = reaper.id
    BY <1>20, ReaperAt DEF ReaperFails, TypeOK, ReaperSteps
  <2>. QED
    BY <1>20, <2>1, IdleTypes DEF ReaperFails
<1>21. ASSUME NEW i \in Ids, HealApply(i) PROVE Rest'
  <2>1. MaxSessions + heals + 1 # 0
    BY SessionAssumption DEF SessionAssumption, TypeOK
  <2>. QED
    BY <1>21, <2>1 DEF HealApply, Apply
<1>22. CASE HealDestroy
  BY <1>22, IdleTypes DEF HealDestroy, Destroy, DeleteStream
<1>23. CASE HealDies
  BY <1>23 DEF HealDies
<1>24. CASE UNCHANGED vars
  BY <1>24 DEF vars
<1>. QED
  BY <1>1, <1>2, <1>3, <1>4, <1>5, <1>6, <1>7, <1>8, <1>9, <1>10, <1>11, <1>12, <1>13, <1>14,
     <1>15, <1>16, <1>17, <1>18, <1>19, <1>20, <1>21, <1>22, <1>23, <1>24
     DEF Next, Up, Down, Reaper

\* Every step keeps a session that has not been started, or not far enough, without a trace.
LEMMA FreshStep == BaseInv /\ [Next]_vars => FreshInv'
<1>. SUFFICES ASSUME BaseInv, [Next]_vars PROVE FreshInv'
  OBVIOUS
<1>. TypeOK /\ FreshInv /\ ActorsInv
  BY DEF BaseInv
<1>. USE DEF FreshInv, files, cloud, bounds, Service, None
<1>1. CASE UpStart
  <2>1. stack = 0 /\ schedule = 0 /\ reaper = NoReaper /\ last' = last + 1 /\ last \in Nat
        /\ up' = "apply" /\ down.at = "idle"
    BY <1>1, SessionAssumption DEF UpStart, Preflight, TypeOK, BaseInv, CloudInv, ActorsInv
  <2>2. \A i \in Ids : i > last' \/ i = last' => i > last
    BY <2>1 DEF Ids
  <2>. QED
    BY <1>1, <2>1, <2>2, IdleTypes DEF UpStart, Ids
<1>2. CASE UpApply
  BY <1>2 DEF UpApply, Apply, TypeOK
<1>3. CASE UpWrite
  <2>1. \A i \in Ids : i # last => manifest'[i] = manifest[i]
    BY <1>3 DEF UpWrite, TypeOK
  <2>. QED
    BY <1>3, <2>1 DEF UpWrite, TypeOK, ActorsInv, Ids
<1>4. ASSUME NEW i \in Ids, DownStart(i) PROVE FreshInv'
  <2>1. down'.id = i /\ downs' = downs + 1 /\ downs \in Nat /\ rows' = rows /\ rows \in [Ids -> Nat]
    BY <1>4, SessionAssumption DEF DownStart, TypeOK, SessionAssumption
  <2>2. \A j \in Ids : rows'[j] < downs'
    BY <2>1
  <2>. QED
    BY <1>4, <2>1, <2>2 DEF DownStart
<1>5. CASE DownStop \/ DownDrain
  <2>1. PICK step \in DownSteps : To(step) /\ step \in {"drain", "gaps"}
    BY <1>5 DEF DownStop, DownDrain, DownSteps
  <2>2. down'.at = step /\ down'.id = down.id
    BY <2>1, DownAt DEF To, TypeOK
  <2>. QED
    BY <1>5, <2>1, <2>2 DEF DownStop, DownDrain
<1>17. CASE DownDbt \/ DownMaintain
  <2>1. PICK step \in DownSteps : To(step) /\ step \in {"maintain", "write"}
    BY <1>17 DEF DownDbt, DownMaintain, DownSteps
  <2>2. down'.at = step /\ down'.id = down.id
    BY <2>1, DownAt DEF To, TypeOK
  <2>. QED
    BY <1>17, <2>1, <2>2 DEF DownDbt, DownMaintain
<1>6. CASE DownGaps
  <2>1. down'.at = "destroy" /\ down'.id = down.id
    BY <1>6 DEF DownGaps, TypeOK, DownStates
  <2>. QED
    BY <1>6, <2>1 DEF DownGaps
<1>7. CASE DownDestroy
  <2>1. down'.at = "cost" /\ down'.id = down.id
    BY <1>7, DownAt DEF DownDestroy, To, TypeOK, DownSteps
  <2>. QED
    BY <1>7, <2>1, IdleTypes DEF DownDestroy, Destroy, DeleteStream, TypeOK
<1>8. CASE DownCost
  <2>1. down'.at = "dbt" /\ down.id \in Ids /\ up = "idle"
    BY <1>8, DownAt DEF DownCost, To, TypeOK, DownSteps, ActorsInv
  <2>2. rows[down.id] < downs /\ rows \in [Ids -> Nat] /\ downs \in Nat
    BY <1>8, SessionAssumption DEF DownCost, TypeOK, SessionAssumption
  <2>3. \A i \in Ids : rows'[i] = IF i = down.id THEN rows[i] + 1 ELSE rows[i]
    BY <1>8 DEF DownCost, TypeOK
  <2>4. ~(down.id > last)
    BY <2>1, <1>8 DEF ActorsInv, DownCost
  <2>. QED
    BY <1>8, <2>1, <2>2, <2>3, <2>4 DEF DownCost
<1>9. CASE DownWrite
  <2>1. down'.at = "audit" /\ down.id \in Ids /\ up = "idle" /\ ~(down.id > last)
    BY <1>9, DownAt DEF DownWrite, To, TypeOK, DownSteps, ActorsInv
  <2>2. \A i \in Ids : i # down.id => manifest'[i] = manifest[i]
    BY <1>9 DEF DownWrite, TypeOK
  <2>. QED
    BY <1>9, <2>1, <2>2 DEF DownWrite
<1>10. CASE DownAudit \/ DownFails
  BY <1>10, IdleTypes DEF DownAudit, DownFails, DestroyBreaks, TypeOK
<1>11. CASE ReaperFires
  BY <1>11 DEF ReaperFires
<1>12. CASE ReaperScales \/ ReaperDrains \/ ReaperDeletes \/ ReaperFails
  <2>1. PICK step \in ReaperSteps : reaper' = [reaper EXCEPT !.at = step]
    BY <1>12 DEF ReaperScales, ReaperDrains, ReaperDeletes, ReaperFails, ReaperSteps
  <2>2. reaper'.id = reaper.id
    BY <2>1, ReaperAt DEF TypeOK
  <2>. QED
    BY <1>12, <2>2 DEF ReaperScales, ReaperDrains, ReaperDeletes, ReaperFails, DeleteStream
<1>13. CASE ReaperMarks
  <2>1. up = "idle" /\ \A i \in Ids : i > last => i # reaper.id
    BY <1>13, IdleTypes, SessionAssumption
       DEF ReaperMarks, ActorsInv, Ids, SessionAssumption, TypeOK, ReaperStates, Owners
  <2>. QED
    BY <1>13, <2>1, IdleTypes DEF ReaperMarks, TypeOK
<1>14. ASSUME NEW i \in Ids, HealApply(i) PROVE FreshInv'
  <2>1. MaxSessions + heals + 1 > MaxSessions
    BY SessionAssumption DEF SessionAssumption, TypeOK
  <2>. QED
    BY <1>14, <2>1 DEF HealApply, Apply
<1>15. CASE HealDestroy
  BY <1>15, IdleTypes DEF HealDestroy, Destroy, DeleteStream, TypeOK
<1>16. CASE Reconcile \/ Flow \/ UpIngester \/ UpFails \/ HealDies \/ UNCHANGED vars
  BY <1>16 DEF Reconcile, Flow, UpIngester, UpFails, ApplyBreaks, HealDies, vars
<1>. QED
  BY <1>1, <1>2, <1>3, <1>4, <1>5, <1>6, <1>7, <1>8, <1>9, <1>10, <1>11, <1>12, <1>13, <1>14,
     <1>15, <1>16, <1>17
     DEF Next, Up, Down, Reaper

\* Once a command has worked on a stack that was not its own, that is history.
LEMMA StrayStays == TypeOK /\ [Next]_vars => (stray => stray')
<1>. SUFFICES ASSUME [Next]_vars, stray PROVE stray'
  OBVIOUS
<1>. USE DEF files, cloud, bounds, Service
<1>1. CASE Reconcile \/ Flow \/ UpStart \/ Up \/ UpFails
  BY <1>1 DEF Reconcile, Flow, UpStart, Up, UpApply, UpIngester, UpWrite, UpFails, Apply,
              ApplyBreaks
<1>2. CASE (\E i \in Ids : DownStart(i)) \/ Down \/ DownFails
  BY <1>2 DEF DownStart, Down, DownStop, DownDrain, DownGaps, DownDestroy, DownCost, DownDbt,
              DownMaintain, DownWrite, DownAudit, DownFails, Destroy, DestroyBreaks
<1>3. CASE Reaper \/ ReaperFails
  BY <1>3 DEF Reaper, ReaperFires, ReaperScales, ReaperDrains, ReaperDeletes, ReaperMarks,
              ReaperFails
<1>4. CASE (\E i \in Ids : HealApply(i)) \/ HealDestroy \/ HealDies \/ UNCHANGED vars
  BY <1>4 DEF HealApply, HealDestroy, HealDies, Apply, Destroy, vars
<1>. QED
  BY <1>1, <1>2, <1>3, <1>4 DEF Next

\* While every command works on its own stack, every step keeps whose stack it is and
\* that nothing is in the stream when it is deleted.
LEMMA OwnStep == IInv /\ ~stray' /\ [Next]_vars => OwnInv'
<1>. SUFFICES ASSUME IInv, ~stray', [Next]_vars PROVE OwnInv'
  OBVIOUS
<1>1. /\ ~stray /\ OwnInv
      /\ TypeOK /\ ActorsInv /\ CloudInv /\ DrainInv
  BY StrayStays DEF IInv, BaseInv
<1>2. MaxSessions \in Nat \ {0} /\ heals \in Nat /\ Ids = 1..MaxSessions /\ None = 0
      /\ stack \in Nat
  BY <1>1, SessionAssumption DEF SessionAssumption, TypeOK, Ids, None, Owners
<1>. USE <1>1, <1>2 DEF OwnInv, Quiet, files, cloud, bounds, Service
<1>3. CASE Reconcile \/ Flow
  BY <1>3 DEF Reconcile, Flow, CloudInv, TypeOK
<1>4. CASE UpStart
  BY <1>4 DEF UpStart
<1>5. CASE UpApply
  <2>1. stack = 0 \/ stack = last
    BY <1>5 DEF UpApply, Apply
  <2>2. last \notin marker /\ last \in Ids
    BY <1>5 DEF UpApply, IInv, BaseInv, FreshInv, ActorsInv, TypeOK
  <2>. QED
    BY <1>5, <2>1, <2>2, IdleTypes DEF UpApply, Apply, ActorsInv, CloudInv
<1>6. CASE UpIngester
  <2>1. stack = last /\ last \in Ids /\ last \notin marker
    BY <1>6 DEF UpIngester, IInv, BaseInv, FreshInv, ActorsInv, TypeOK
  <2>. QED
    BY <1>6, <2>1, IdleTypes DEF UpIngester, ActorsInv
<1>7. CASE UpWrite \/ UpFails
  BY <1>7 DEF UpWrite, UpFails, ApplyBreaks
<1>8. ASSUME NEW i \in Ids, DownStart(i) PROVE OwnInv'
  <2>1. down'.id = i /\ stack = i /\ (down'.at = "gaps" => i \in marker)
        /\ down'.at \in {"gaps", "stop"}
    BY <1>8 DEF DownStart
  <2>. QED
    BY <1>8, <2>1 DEF DownStart
<1>9. CASE DownStop
  <2>1. down'.at = "drain" /\ down'.id = down.id
    BY <1>9, DownAt DEF DownStop, To, TypeOK, DownSteps
  <2>. QED
    BY <1>9, <2>1 DEF DownStop
<1>10. CASE DownDrain
  <2>1. down'.at = "gaps" /\ down'.id = down.id
    BY <1>10, DownAt DEF DownDrain, To, TypeOK, DownSteps
  <2>2. Quiet
    BY <1>10 DEF DownDrain, Drained, DrainInv
  <2>. QED
    BY <1>10, <2>1, <2>2 DEF DownDrain
<1>11. CASE DownGaps
  <2>1. down'.at = "destroy" /\ down'.id = down.id
    BY <1>11 DEF DownGaps, TypeOK, DownStates
  <2>. QED
    BY <1>11, <2>1 DEF DownGaps
<1>12. CASE DownDestroy
  <2>1. down'.at = "cost" /\ down'.id = down.id
    BY <1>12, DownAt DEF DownDestroy, To, TypeOK, DownSteps
  <2>2. heal # "run"
    BY <1>12 DEF DownDestroy, ActorsInv
  <2>. QED
    BY <1>12, <2>1, <2>2, IdleTypes DEF DownDestroy, Destroy, DeleteStream, ActorsInv
<1>13. CASE DownCost \/ DownDbt \/ DownMaintain \/ DownWrite
  <2>1. PICK step \in DownSteps : To(step) /\ step \in {"dbt", "maintain", "write", "audit"}
    BY <1>13 DEF DownCost, DownDbt, DownMaintain, DownWrite, DownSteps
  <2>2. down'.at = step
    BY <2>1, DownAt DEF To, TypeOK
  <2>. QED
    BY <1>13, <2>1, <2>2 DEF DownCost, DownDbt, DownMaintain, DownWrite
<1>14. CASE DownAudit \/ DownFails
  BY <1>14, IdleTypes DEF DownAudit, DownFails, DestroyBreaks
<1>15. CASE ReaperFires
  BY <1>15 DEF ReaperFires, CloudInv
<1>16. CASE ReaperScales \/ ReaperDrains \/ ReaperFails
  <2>1. PICK step \in ReaperSteps : reaper' = [reaper EXCEPT !.at = step]
    BY <1>16 DEF ReaperScales, ReaperDrains, ReaperFails, ReaperSteps
  <2>2. reaper'.id = reaper.id /\ reaper.at # "idle"
    BY <1>16, <2>1, ReaperAt DEF TypeOK, ReaperScales, ReaperDrains, ReaperFails
  <2>3. up = "idle"
    BY <2>2, IdleTypes DEF ActorsInv
  <2>. QED
    BY <1>16, <2>2, <2>3 DEF ReaperScales, ReaperDrains, ReaperFails
<1>17. CASE ReaperDeletes
  <2>1. reaper'.id = reaper.id /\ Quiet
    BY <1>17, ReaperAt DEF ReaperDeletes, TypeOK, ReaperSteps, DrainInv
  <2>. QED
    BY <1>17, <2>1 DEF ReaperDeletes, DeleteStream
<1>18. CASE ReaperMarks
  <2>1. Quiet /\ reaper.id = stack
    BY <1>18 DEF ReaperMarks, DrainInv
  <2>. QED
    BY <1>18, <2>1, IdleTypes DEF ReaperMarks
<1>19. ASSUME NEW i \in Ids, HealApply(i) PROVE OwnInv'
  <2>1. stack = 0 \/ stack = stack'
    BY <1>19 DEF HealApply, Apply
  <2>2. stack' = MaxSessions + heals + 1
    BY <1>19 DEF HealApply, Apply
  <2>. QED
    BY <1>19, <2>1, <2>2 DEF HealApply, Apply, CloudInv, ActorsInv
<1>20. CASE HealDestroy
  <2>1. Quiet /\ up \notin {"start", "write"} /\ down.at \notin {"stop", "drain", "gaps", "destroy"}
    BY <1>20 DEF HealDestroy, ActorsInv, TypeOK
  <2>. QED
    BY <1>20, <2>1, IdleTypes DEF HealDestroy, Destroy, DeleteStream
<1>21. CASE HealDies \/ UNCHANGED vars
  BY <1>21 DEF HealDies, vars
<1>. QED
  BY <1>3, <1>4, <1>5, <1>6, <1>7, <1>8, <1>9, <1>10, <1>11, <1>12, <1>13, <1>14,
     <1>15, <1>16, <1>17, <1>18, <1>19, <1>20, <1>21
     DEF Next, Up, Down, Reaper

\* While every command works on its own stack, every step keeps the books.
LEMMA BooksStep == IInv /\ ~stray' /\ [Next]_vars => BooksInv'
<1>. SUFFICES ASSUME IInv, ~stray', [Next]_vars PROVE BooksInv'
  OBVIOUS
<1>1. ~stray /\ OwnInv /\ BooksInv /\ TypeOK /\ ActorsInv /\ FreshInv
  BY StrayStays DEF IInv, BaseInv
<1>2. MaxSessions \in Nat /\ Ids = 1..MaxSessions /\ None = 0 /\ heals \in Nat
      /\ rows \in [Ids -> Nat] /\ manifest \in [Ids -> {"none", "open", "closed", "reaped"}]
  BY <1>1, SessionAssumption DEF SessionAssumption, TypeOK, Ids, None
<1>. USE <1>1, <1>2 DEF BooksInv, files, cloud, bounds, Service
<1>3. CASE Reconcile \/ Flow \/ UpStart \/ UpIngester \/ UpFails
  BY <1>3 DEF Reconcile, Flow, UpStart, UpIngester, UpFails, ApplyBreaks
<1>4. CASE UpApply
  <2>1. stack' = last /\ down.at = "idle" /\ \A i \in Ids : i = last => rows[i] = 0
    BY <1>4 DEF UpApply, Apply, ActorsInv, FreshInv
  <2>. QED
    BY <1>4, <2>1 DEF UpApply
<1>5. CASE UpWrite
  <2>1. \A i \in Ids : manifest'[i] = IF i = last THEN "open" ELSE manifest[i]
    BY <1>5 DEF UpWrite
  <2>. QED
    BY <1>5, <2>1 DEF UpWrite
<1>6. ASSUME NEW i \in Ids, DownStart(i) PROVE BooksInv'
  <2>1. down'.at \in {"gaps", "stop"}
    BY <1>6 DEF DownStart
  <2>. QED
    BY <1>6, <2>1 DEF DownStart
<1>7. CASE DownStop \/ DownDrain
  <2>1. PICK step \in DownSteps : To(step) /\ step \in {"drain", "gaps"}
    BY <1>7 DEF DownStop, DownDrain, DownSteps
  <2>2. down'.at = step
    BY <2>1, DownAt DEF To, TypeOK
  <2>. QED
    BY <1>7, <2>1, <2>2 DEF DownStop, DownDrain
<1>17. CASE DownDbt \/ DownMaintain
  <2>1. PICK step \in DownSteps : To(step) /\ step \in {"maintain", "write"}
    BY <1>17 DEF DownDbt, DownMaintain, DownSteps
  <2>2. down'.at = step /\ down'.id = down.id /\ down'.gaps = down.gaps
    BY <2>1, DownAt DEF To, TypeOK
  <2>. QED
    BY <1>17, <2>1, <2>2 DEF DownDbt, DownMaintain
<1>8. CASE DownGaps
  <2>1. down'.at = "destroy" /\ down'.id = down.id /\ down'.gaps = (stack = down.id)
    BY <1>8 DEF DownGaps, TypeOK, DownStates
  <2>. QED
    BY <1>8, <2>1 DEF DownGaps, OwnInv
<1>9. CASE DownDestroy
  <2>1. down'.at = "cost" /\ down'.id = down.id /\ down'.gaps = down.gaps /\ down.id \in Ids
    BY <1>9, DownAt DEF DownDestroy, To, TypeOK, DownSteps, ActorsInv
  <2>2. rows[down.id] = 0
    BY <1>9, <2>1 DEF DownDestroy, OwnInv
  <2>. QED
    BY <1>9, <2>1, <2>2 DEF DownDestroy, Destroy
<1>10. CASE DownCost
  <2>1. down'.at = "dbt" /\ down'.id = down.id /\ down'.gaps = down.gaps /\ down.id \in Ids
    BY <1>10, DownAt DEF DownCost, To, TypeOK, DownSteps, ActorsInv
  <2>2. \A i \in Ids : rows'[i] = IF i = down.id THEN 1 ELSE rows[i]
    BY <1>10, <2>1 DEF DownCost
  <2>. QED
    BY <1>10, <2>1, <2>2 DEF DownCost
<1>11. CASE DownWrite
  <2>1. down'.at = "audit" /\ down.id \in Ids /\ down.gaps /\ rows[down.id] = 1
    BY <1>11, DownAt DEF DownWrite, To, TypeOK, DownSteps, ActorsInv
  <2>2. \A i \in Ids : i # down.id => manifest'[i] = manifest[i]
    BY <1>11 DEF DownWrite
  <2>. QED
    BY <1>11, <2>1, <2>2 DEF DownWrite
<1>12. CASE DownAudit \/ DownFails
  BY <1>12, IdleTypes DEF DownAudit, DownFails, DestroyBreaks
<1>13. CASE Reaper \/ ReaperFails
  BY <1>13 DEF Reaper, ReaperFires, ReaperScales, ReaperDrains, ReaperDeletes, ReaperMarks,
               ReaperFails
<1>14. ASSUME NEW i \in Ids, HealApply(i) PROVE BooksInv'
  <2>1. stack' = MaxSessions + heals + 1
    BY <1>14 DEF HealApply, Apply
  <2>2. stack' \notin Ids
    BY <2>1
  <2>. QED
    BY <1>14, <2>2, IdleTypes DEF HealApply, Apply, ActorsInv
<1>15. CASE HealDestroy
  <2>1. \A i \in Ids : stack' # i
    BY <1>15 DEF HealDestroy, Destroy
  <2>. QED
    BY <1>15, <2>1 DEF HealDestroy, ActorsInv
<1>16. CASE HealDies \/ UNCHANGED vars
  BY <1>16 DEF HealDies, vars
<1>. QED
  BY <1>3, <1>4, <1>5, <1>6, <1>7, <1>8, <1>9, <1>10, <1>11, <1>12, <1>13, <1>14, <1>15, <1>16,
     <1>17
     DEF Next, Up, Down

-------------------------------------------------------------------------------
(* The theorems.                                                           *)

\* Before the first session everything holds.
LEMMA InitIInv == Init => IInv
<1>. SUFFICES ASSUME Init PROVE IInv
  OBVIOUS
<1>1. TypeOK
  <2>1. /\ last \in 0..MaxSessions /\ downs \in 0..MaxDowns /\ upFails \in 0..MaxUpFails
        /\ fails \in 0..MaxFails /\ heals \in 0..MaxHeals /\ 0 \in 0..MaxDowns
    BY SessionAssumption DEF Init, SessionAssumption
  <2>2. stack \in Owners /\ schedule \in Owners
    BY DEF Init, Owners
  <2>. QED
    BY <2>1, <2>2, IdleTypes DEF Init, TypeOK
<1>2. ActorsInv /\ CloudInv /\ DrainInv
  BY IdleTypes DEF Init, ActorsInv, CloudInv, DrainInv, Quiet
<1>3. FreshInv
  BY IdleTypes DEF Init, FreshInv, None
<1>4. OwnInv /\ BooksInv
  BY IdleTypes, SessionAssumption DEF Init, OwnInv, BooksInv, Quiet, None, SessionAssumption
<1>. QED
  BY <1>1, <1>2, <1>3, <1>4 DEF IInv, BaseInv

\* All reachable states satisfy the invariant.
LEMMA AlwaysIInv == Spec => []IInv
<1>1. IInv /\ [Next]_vars => IInv'
  <2>. SUFFICES ASSUME IInv, [Next]_vars PROVE IInv'
    OBVIOUS
  <2>1. BaseInv'
    BY TypedStep, ActorsStep, FreshStep DEF IInv, BaseInv
  <2>2. ~stray' => (OwnInv /\ BooksInv)'
    BY OwnStep, BooksStep
  <2>. QED
    BY <2>1, <2>2 DEF IInv
<1>. QED
  BY <1>1, InitIInv, PTL DEF Spec

\* Every variable keeps its type: the owners of a stack, a schedule or a marker are sessions
\* that exist or heals, and no row count runs past the session-downs there were.
THEOREM SessionTypeCorrect == Spec => []TypeOK
<1>1. IInv => TypeOK
  BY DEF IInv, BaseInv
<1>. QED
  BY <1>1, AlwaysIInv, PTL

\* A stream is deleted empty, by session-down, the reaper or heal, unless some command
\* worked on a stack that was not its own.
THEOREM StreamsAreDrained == Spec => []NothingLost
<1>1. IInv => NothingLost
  BY DEF IInv, BaseInv, TypeOK, OwnInv, NothingLost
<1>. QED
  BY <1>1, AlwaysIInv, PTL

\* A reaper that fires late or is retried acts on the stack of its session.
THEOREM ReaperKeepsToItsOwn == Spec => []ReaperHitsItsOwn
<1>1. IInv => ReaperHitsItsOwn
  BY DEF IInv, OwnInv, ReaperHitsItsOwn
<1>. QED
  BY <1>1, AlwaysIInv, PTL

\* A session whose manifest is final has no stack, one cost row and its gaps in the
\* manifest, however often session-down failed or was run.
THEOREM ClosedStaysClosed == Spec => []FinalIsFinal
<1>1. IInv => FinalIsFinal
  <2>. SUFFICES ASSUME IInv, ~stray, NEW i \in Ids
                PROVE  /\ rows[i] <= 1
                       /\ manifest[i] \in {"closed", "reaped"} =>
                            stack # i /\ i \in known /\ rows[i] = 1
    BY DEF FinalIsFinal, ClosedOnce
  <2>1. rows[i] \in Nat
    BY SessionAssumption DEF IInv, BaseInv, TypeOK, SessionAssumption
  <2>. QED
    BY <2>1 DEF IInv, BooksInv
<1>. QED
  BY <1>1, AlwaysIInv, PTL
===============================================================================
