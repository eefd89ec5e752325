------------------------ MODULE ContainerUpdateProofs ------------------------
(***************************************************************************)
(* The update of the agent's container, for any number of failing or lost  *)
(* Docker calls, killed agents and kills of the control service.           *)
(*                                                                         *)
(* None of the three properties is inductive.  What carries them is where  *)
(* the containers are at each step of runAgentUpdate and of its rollback   *)
(* (Forward, Back) and when it is over (Over); an agent process lives      *)
(* exactly as long as its container (Alive); the task is in the slot of    *)
(* the one agent that runs and still has to report (Slot, Waiting); a      *)
(* success that was not made up at a deadline is only on its way when the  *)
(* new container has won; and from the moment the new agent's word counts, *)
(* only it can close the task, and only with a success (Heard, Winner).    *)
(***************************************************************************)
EXTENDS ContainerUpdate, TLAPS

Old == ctr["old"]
New == ctr["new"]

Typed ==
  /\ ctr \in [Containers -> {"absent", "created", "running", "stopped"}]
  /\ pc \in [Containers -> AgentSteps]
  /\ slot \in {"none", "task", "failed", "succeeded"}
  /\ task \in {"running", "failed", "succeeded"}
  /\ svc \in {"idle"} \cup ForwardSteps \cup BackSteps
  /\ upd \in {"none", "pulling", "switching", "waiting"} \cup Finished

Alive ==
  /\ \A c \in Containers : pc[c] # "off" <=> ctr[c] = "running"
  /\ New = "running" => named = "new"
  /\ pc["old"] = "ask" =>
       svc = "idle" /\ upd = "none" /\ New = "absent" /\ named = "old" /\ ~renamed /\ ~errs /\ mark

\* The way to the new container.
Forward ==
  /\ svc \in ForwardSteps => ~errs
  /\ svc \in {"pull", "create", "stop_old", "aside_old"} => named = "old" /\ ~renamed
  /\ svc \in {"pull", "create", "stop_old"} => Old = "running"
  /\ svc \in {"pull", "create"} => New = "absent" /\ upd = "pulling"
  /\ svc \in {"stop_old", "aside_old", "name_new", "start_new"} => New = "created" /\ upd = "switching"
  /\ svc \in {"aside_old", "name_new", "start_new", "wait", "remove_old"} => Old = "stopped"
  /\ svc \in {"name_new", "start_new", "wait", "remove_old"} => renamed
  /\ svc = "name_new" => named = "none"
  /\ svc \in {"start_new", "wait", "remove_old"} => named = "new"
  /\ svc \in {"wait", "remove_old"} => New = "running" /\ upd = "waiting"

\* The way back to the old one.
Back ==
  /\ svc \in BackSteps =>
       /\ upd \in {"switching", "waiting"} /\ Old \in {"running", "stopped"}
       /\ Old = "running" => New \in {"created", "absent"} /\ ~renamed
       /\ ~renamed => New # "running" /\ (named = "old" \/ (named = "none" /\ "rename" \in gaps))
       /\ New = "absent" => named # "new"
  /\ svc \in BackSteps \ {"back_start"} /\ renamed => named # "old"
  /\ svc = "back_remove" /\ ~errs => New # "running"
  /\ svc = "back_name" /\ ~errs => New = "absent"
  /\ svc = "back_start" /\ ~errs => New = "absent" /\ (named = "old" \/ "rename" \in gaps)

\* Nothing is under way.
Over ==
  /\ svc = "idle" =>
       /\ upd \in {"none"} \cup Finished
       /\ upd = "none" =>
            \/ "service" \in gaps \/ errs
            \/ Old = "running" /\ New # "running"
            \/ New = "running" /\ Old \in {"stopped", "absent"}
       /\ upd = "done" => New = "running" /\ Old \in {"stopped", "absent"}
       /\ upd = "failed" /\ ~errs => Old = "running" /\ New \in {"absent", "created"}
       /\ upd = "rolled_back" => Old = "running" /\ New = "absent" /\ (named = "old" \/ "rename" \in gaps)
       /\ Old = "running" /\ New = "running" =>
            errs /\ (upd = "failed" \/ (upd = "none" /\ "verdict" \in gaps))
  /\ svc # "idle" => upd \notin {"none"} \cup Finished
  /\ Old = "absent" => svc = "idle" /\ upd \in {"done", "none"} /\ New = "running" /\ heard

Both == Old = "running" /\ New = "running"

\* The task has its outcome only once the slot is empty, and an agent alone
\* that has something to report or to wait for has the slot.
Slot ==
  /\ slot # "none" => task = "running"
  /\ ~Both => \A c \in Containers : pc[c] \in {"ok", "failed"} => slot # "none"
  /\ New # "running" /\ pc["old"] \in {"ask", "poll", "verdict"} => slot = "task"

Waiting ==
  Old # "running" /\ pc["new"] \in {"heartbeat", "quiet", "verdict"} => slot = "task" /\ mark

\* The new agent has been heard of.
Heard ==
  /\ ready => heard
  /\ svc \in ForwardSteps \ {"wait", "remove_old"} => ~ready
  /\ svc = "remove_old" => ready
  /\ upd = "done" => heard

\* A success is on its way, or delivered.
Succeeds == pc["new"] = "ok" \/ pc["old"] = "ok" \/ slot = "succeeded" \/ task = "succeeded"

\* The new agent's word counts: the service has it, or had it before it was
\* killed with the update done.
Won ==
  \/ svc = "remove_old" \/ (svc = "wait" /\ ready) \/ upd = "done"
  \/ svc = "idle" /\ upd = "none" /\ "service" \notin gaps /\ ~errs /\ New = "running"

Winner ==
  /\ Succeeds /\ "verdict" \notin gaps =>
       svc = "idle" /\ upd \in {"done", "none"} /\ New = "running" /\ Old # "running"
  /\ "report" \notin gaps /\ Won =>
       \/ slot = "task" /\ mark /\ pc["new"] \in {"start", "heartbeat", "quiet", "verdict", "replaced"}
       \/ slot = "task" /\ pc["new"] = "ok"
       \/ slot = "none" /\ task = "succeeded" /\ pc["new"] \in {"start", "idle"}

UpdateInv == Typed /\ Alive /\ Forward /\ Back /\ Over /\ Slot /\ Waiting /\ Heard /\ Winner

-----------------------------------------------------------------------------
\* The old agent is about to ask; nothing else has begun.
LEMMA InitInv == Init => UpdateInv
  BY DEF Init, UpdateInv, Typed, Alive, Forward, Back, Over, Slot, Waiting, Heard, Winner, Both,
     Succeeds, Won, Old, New, Containers, AgentSteps, ForwardSteps, BackSteps, Finished

\* No step of an agent or of the control service breaks it, whatever the step's call does.
LEMMA NextInv == UpdateInv /\ [Next]_vars => UpdateInv'
  <1> SUFFICES ASSUME UpdateInv, [Next]_vars PROVE UpdateInv'
    OBVIOUS
  <1> USE DEF UpdateInv, Typed, Alive, Forward, Back, Over, Slot, Waiting, Heard, Winner, Both,
          Succeeds, Won, Old, New, Containers, AgentSteps, ForwardSteps, BackSteps, Finished,
          docker, agent, service, bounds
  <1>1. CASE Ask
    <2> USE <1>1 DEF Ask, Accepted, Goto
    <2>1. Typed'
      OBVIOUS
    <2>2. Alive'
      OBVIOUS
    <2>3. Forward'
      OBVIOUS
    <2>4. Back'
      OBVIOUS
    <2>5. Over'
      OBVIOUS
    <2>6. Slot'
      OBVIOUS
    <2>7. Waiting'
      OBVIOUS
    <2>8. Heard'
      <3>1. CASE svc' = "pull"
        <4>1. ~ready' /\ upd' = "pulling"
          BY <3>1
        <4> QED
          BY <3>1, <4>1
      <3>2. CASE ready' = ready /\ svc' = svc /\ upd' = upd
        BY <3>2
      <3> QED
        BY <3>1, <3>2
    <2>9. Winner'
      OBVIOUS
    <2> QED
      BY <2>1, <2>2, <2>3, <2>4, <2>5, <2>6, <2>7, <2>8, <2>9
  <1>2. CASE Poll
    BY <1>2 DEF Poll, Learns, Goto
  <1>3. ASSUME NEW c \in Containers, Start(c) PROVE UpdateInv'
    BY <1>3 DEF Start, Goto
  <1>4. CASE OldVerdict
    BY <1>4 DEF OldVerdict, Goto
  <1>5. CASE Heartbeat
    BY <1>5 DEF Heartbeat, AgentReady, Goto
  <1>6. CASE NoHeartbeat
    BY <1>6 DEF NoHeartbeat, Goto
  <1>7. CASE QuietVerdict
    BY <1>7 DEF QuietVerdict, Learns, Verdicts, Goto
  <1>8. CASE NewVerdict
    BY <1>8 DEF NewVerdict, Learns, Unconfirmed, Verdicts, Goto
  <1>9. ASSUME NEW c \in Containers, Deliver(c) PROVE UpdateInv'
    BY <1>9 DEF Deliver, Outcome, Goto
  <1>10. ASSUME NEW c \in Containers, Die(c) PROVE UpdateInv'
    BY <1>10 DEF Die, Goto
  <1>11. CASE Pull
    BY <1>11 DEF Pull, Call, Nothing, Continue, Finish
  <1>12. CASE Create
    BY <1>12 DEF Create, Call, Nothing, Created, Continue, Finish
  <1>13. CASE StopOld
    BY <1>13 DEF StopOld, Call, Nothing, Stopped, Goto, Outcome, Continue, Rollback
  <1>14. CASE AsideOld
    BY <1>14 DEF AsideOld, Call, Nothing, Aside, Rollback
  <1>15. CASE NameNew
    <2> USE <1>15 DEF NameNew, Call, Nothing, Named, Continue, Rollback
    <2>1. Typed'
      OBVIOUS
    <2>2. Alive'
      OBVIOUS
    <2>3. Forward'
      <3>1. CASE svc' = "back_stop"
        BY <3>1
      <3>2. CASE svc' = "start_new"
        <4>1. /\ ~errs' /\ renamed' /\ Old' = "stopped" /\ named' = "new" /\ upd' = "switching"
              /\ New' = "created"
          BY <3>2
        <4> QED
          BY <3>2, <4>1
      <3> QED
        BY <3>1, <3>2
    <2>4. Back'
      OBVIOUS
    <2>5. Over'
      OBVIOUS
    <2>6. Slot'
      OBVIOUS
    <2>7. Waiting'
      OBVIOUS
    <2>8. Heard'
      OBVIOUS
    <2>9. Winner'
      OBVIOUS
    <2> QED
      BY <2>1, <2>2, <2>3, <2>4, <2>5, <2>6, <2>7, <2>8, <2>9
  <1>16. CASE StartNew
    <2> USE <1>16 DEF StartNew, Call, Nothing, Started, Goto, Continue, Rollback
    <2>1. Typed'
      <3> HIDE DEF Alive, Back, Over, Slot, Waiting, Heard, Winner, Forward
      <3> QED
        OBVIOUS
    <2>2. Alive'
      OBVIOUS
    <2>3. Forward'
      <3>1. CASE svc' = "back_stop"
        BY <3>1
      <3>2. CASE svc' = "wait"
        <4>1. /\ ~errs' /\ renamed' /\ Old' = "stopped" /\ named' = "new" /\ upd' = "waiting"
              /\ New' = "running"
          BY <3>2
        <4> QED
          BY <3>2, <4>1
      <3> QED
        BY <3>1, <3>2
    <2>4. Back'
      OBVIOUS
    <2>5. Over'
      OBVIOUS
    <2>6. Slot'
      OBVIOUS
    <2>7. Waiting'
      OBVIOUS
    <2>8. Heard'
      OBVIOUS
    <2>9. Winner'
      OBVIOUS
    <2> QED
      BY <2>1, <2>2, <2>3, <2>4, <2>5, <2>6, <2>7, <2>8, <2>9
  <1>17. CASE WaitAgent
    BY <1>17 DEF WaitAgent, Call, Step, Nothing, Continue, Rollback
  <1>18. CASE RemoveOld
    BY <1>18 DEF RemoveOld, Call, Nothing, Removed, Finish
  <1>19. CASE BackStop
    <2> USE <1>19 DEF BackStop, Call, Nothing, Stopped, Goto, Outcome, Noted
    <2>1. Typed'
      OBVIOUS
    <2>2. Alive'
      OBVIOUS
    <2>3. Forward'
      OBVIOUS
    <2>4. Back'
      <3>1. /\ svc = "back_stop" /\ svc' = "back_remove" /\ upd' = upd /\ named' = named /\ gaps' = gaps
            /\ (renamed <=> renamed') /\ Old' = Old
        OBVIOUS
      <3>2. New' = New \/ (New = "running" /\ New' = "stopped")
        OBVIOUS
      <3>3. ~errs' => New' # "running"
        OBVIOUS
      <3> HIDE <1>19
      <3> HIDE DEF Alive, Forward, Over, Slot, Waiting, Heard, Winner, BackStop, Call, Old, New
      <3> QED
        BY <3>1, <3>2, <3>3
    <2>5. Over'
      OBVIOUS
    <2>6. Slot'
      OBVIOUS
    <2>7. Waiting'
      OBVIOUS
    <2>8. Heard'
      OBVIOUS
    <2>9. Winner'
      OBVIOUS
    <2> QED
      BY <2>1, <2>2, <2>3, <2>4, <2>5, <2>6, <2>7, <2>8, <2>9
  <1>20. CASE BackRemove
    <2> USE <1>20 DEF BackRemove, Removable, Call, Step, Nothing, Removed, Noted
    <2>1. Typed'
      OBVIOUS
    <2>2. Alive'
      OBVIOUS
    <2>3. Forward'
      OBVIOUS
    <2>4. Back'
      OBVIOUS
    <2>5. Over'
      OBVIOUS
    <2>6. Slot'
      OBVIOUS
    <2>7. Waiting'
      OBVIOUS
    <2>8. Heard'
      OBVIOUS
    <2>9. Winner'
      OBVIOUS
    <2> QED
      BY <2>1, <2>2, <2>3, <2>4, <2>5, <2>6, <2>7, <2>8, <2>9
  <1>21. CASE BackName
    <2> USE <1>21 DEF BackName, Call, Step, Nothing, Named, Noted
    <2>1. Typed'
      OBVIOUS
    <2>2. Alive'
      OBVIOUS
    <2>3. Forward'
      OBVIOUS
    <2>4. Back'
      OBVIOUS
    <2>5. Over'
      OBVIOUS
    <2>6. Slot'
      OBVIOUS
    <2>7. Waiting'
      OBVIOUS
    <2>8. Heard'
      OBVIOUS
    <2>9. Winner'
      OBVIOUS
    <2> QED
      BY <2>1, <2>2, <2>3, <2>4, <2>5, <2>6, <2>7, <2>8, <2>9
  <1>22. CASE BackStart
    <2> USE <1>22 DEF BackStart, Call, Nothing, Started, Goto, Ended
    <2>1. Typed'
      OBVIOUS
    <2>2. Alive'
      OBVIOUS
    <2>3. Forward'
      OBVIOUS
    <2>4. Back'
      OBVIOUS
    <2>5. Over'
      OBVIOUS
    <2>6. Slot'
      OBVIOUS
    <2>7. Waiting'
      OBVIOUS
    <2>8. Heard'
      OBVIOUS
    <2>9. Winner'
      OBVIOUS
    <2> QED
      BY <2>1, <2>2, <2>3, <2>4, <2>5, <2>6, <2>7, <2>8, <2>9
  <1>23. CASE Kill
    BY <1>23 DEF Kill
  <1>24. CASE UNCHANGED vars
    BY <1>24 DEF vars
  <1> QED
    BY <1>1, <1>2, <1>3, <1>4, <1>5, <1>6, <1>7, <1>8, <1>9, <1>10, <1>11, <1>12, <1>13, <1>14,
       <1>15, <1>16, <1>17, <1>18, <1>19, <1>20, <1>21, <1>22, <1>23, <1>24
       DEF Next, Service, OldAgent, NewAgent, AnyAgent

\* The invariant holds throughout; no fairness is needed for it.
LEMMA AlwaysInv == Spec => []UpdateInv
  BY InitInv, NextInv, PTL DEF Spec

-----------------------------------------------------------------------------
(* However many Docker calls of runAgentUpdate fail or lose their answer,  *)
(* and however often an agent or the control service is killed: the old    *)
(* container is only ever removed when a heartbeat of the new agent has    *)
(* got through, and the new container then runs under the name.            *)
THEOREM WayBackKept == Spec => []OldKeptUntilHeard
  <1>1. UpdateInv => OldKeptUntilHeard
    BY DEF UpdateInv, OldKeptUntilHeard, Alive, Over, Heard, Old, New
  <1> QED
    BY <1>1, AlwaysInv, PTL

(* "rolled back" is only said of an old container that runs, alone, and    *)
(* two agents never run side by side unless the rollback met an error.     *)
THEOREM RollbackSaysTheTruth == Spec => []RolledBackIsBack
  <1>1. UpdateInv => RolledBackIsBack
    BY DEF UpdateInv, RolledBackIsBack, Typed, Forward, Back, Over, Old, New, ForwardSteps, BackSteps, Finished
  <1> QED
    BY <1>1, AlwaysInv, PTL

(* Whichever agent closed the task, and whoever was killed before: once    *)
(* nothing is left to do, its outcome says which container runs, but for   *)
(* the exceptions the property names.                                      *)
THEOREM OutcomeSaysTheTruth == Spec => []OutcomeIsTrue
  <1>1. UpdateInv => OutcomeIsTrue
    <2> SUFFICES ASSUME UpdateInv, AtRest PROVE OutcomeIsTrue
      BY DEF OutcomeIsTrue
    <2>1. svc = "idle" /\ upd \in {"none"} \cup Finished
      BY DEF UpdateInv, Over, AtRest
    <2>2. task = "succeeded" =>
            \/ New = "running" /\ named = "new" /\ Old # "running"
            \/ "verdict" \in gaps /\ upd # "done"
      BY <2>1 DEF UpdateInv, Winner, Succeeds, Alive, Over
    <2>3. task = "failed" /\ "report" \notin gaps => ~Won
      BY DEF UpdateInv, Winner, Slot
    <2>4. ~LeftAlone /\ ~Won => Old = "running" /\ New # "running"
      BY <2>1 DEF UpdateInv, Over, LeftAlone, Won, Finished
    <2> QED
      BY <2>2, <2>3, <2>4 DEF OutcomeIsTrue, Old, New
  <1> QED
    BY <1>1, AlwaysInv, PTL
=============================================================================
