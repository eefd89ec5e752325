--------------------------- MODULE ContainerUpdate ---------------------------
(***************************************************************************)
(* "Update now" for an agent that runs in Docker.  The agent cannot        *)
(* replace its own container: it writes a mark in its state volume, asks   *)
(* rowsafe-docker-control to do it (internal/dockerctl/agent_update.go)    *)
(* and is stopped in the middle of its own task; the agent that runs next, *)
(* the new version or the old one put back, finds the task in the shared   *)
(* state volume and closes it (internal/agent/container_update.go).        *)
(*                                                                         *)
(* One update is modelled.  Three processes interleave: the agent in the   *)
(* old container, the agent in the new one and the control service's       *)
(* goroutine.  A call of the Docker API can fail, or take effect and lose  *)
(* its answer; an agent can be killed (Docker starts its container again); *)
(* the control service can be killed, which loses the update it was doing  *)
(* and what it knew of it, and nothing takes it up again.                  *)
(*                                                                         *)
(* Every wait has a deadline.  The agent's (seven minutes) is longer than  *)
(* the service's for agent_ready (five) and leaves two for the Docker      *)
(* calls that follow, so it passes while the update goes on only when      *)
(* those calls hang, or the service cannot be reached: it costs a fault.   *)
(***************************************************************************)
EXTENDS Naturals

CONSTANTS
  MaxFaults,   \* bound: calls that fail, hang, or work and lose their answer
  MaxDeaths,   \* bound: agents killed
  MaxKills     \* bound: kills of the control service

ASSUME ContainerUpdateAssumption ==
  MaxFaults \in Nat /\ MaxDeaths \in Nat /\ MaxKills \in Nat

Containers == {"old", "new"}

AgentSteps == {"off", "ask", "poll", "start", "heartbeat", "quiet", "verdict",
               "failed", "ok", "idle", "replaced"}

ForwardSteps == {"pull", "create", "stop_old", "aside_old", "name_new",
                 "start_new", "wait", "remove_old"}

BackSteps == {"back_stop", "back_remove", "back_name", "back_start"}

Finished == {"done", "failed", "rolled_back"}

VARIABLES
  ctr,      \* Docker: the state of each container
  named,    \* Docker: the container that carries the agent container's name
  pc,       \* the agent process of each container
  mark,     \* container-update.json is in the state volume
  slot,     \* running-task.json: no task, the task, or its undelivered outcome
  task,     \* the task as the control plane has it
  svc,      \* the control service's goroutine
  upd,      \* its answer about the update ("none": it knows of none)
  ready,    \* updReady
  renamed,  \* runAgentUpdate's flag: the old container was renamed aside
  errs,     \* the rollback met an error (kept as history once it is over)
  heard,    \* history: a heartbeat of the new agent got through
  gaps,     \* history: what happened that nothing in the code makes up for
  faults, deaths, kills

docker == <<ctr, named>>
agent == <<pc, mark, slot, task, heard>>
service == <<svc, upd, ready, renamed, errs>>
bounds == <<gaps, faults, deaths, kills>>
vars == <<docker, agent, service, bounds>>

TypeOK ==
  /\ ctr \in [Containers -> {"absent", "created", "running", "stopped"}]
  /\ named \in Containers \cup {"none"}
  /\ pc \in [Containers -> AgentSteps]
  /\ mark \in BOOLEAN /\ ready \in BOOLEAN /\ renamed \in BOOLEAN
  /\ errs \in BOOLEAN /\ heard \in BOOLEAN
  /\ slot \in {"none", "task", "failed", "succeeded"}
  /\ task \in {"running", "failed", "succeeded"}
  /\ svc \in {"idle"} \cup ForwardSteps \cup BackSteps
  /\ upd \in {"none", "pulling", "switching", "waiting"} \cup Finished
  /\ gaps \subseteq {"rename", "report", "service", "verdict", "silent"}
  /\ faults \in 0 .. MaxFaults /\ deaths \in 0 .. MaxDeaths /\ kills \in 0 .. MaxKills

(* agentContainerUpdate has checked the request and written the mark; the  *)
(* task is in running-task.json (execute).                                 *)
Init ==
  /\ ctr = [old |-> "running", new |-> "absent"]
  /\ named = "old"
  /\ pc = [old |-> "ask", new |-> "off"]
  /\ mark = TRUE /\ slot = "task" /\ task = "running"
  /\ svc = "idle" /\ upd = "none" /\ ready = FALSE /\ renamed = FALSE /\ errs = FALSE
  /\ heard = FALSE /\ gaps = {}
  /\ faults = 0 /\ deaths = 0 /\ kills = 0

Goto(c, step) == pc' = [pc EXCEPT ![c] = step]

-----------------------------------------------------------------------------
(* The old agent runs the task.                                            *)

(* The control service accepts the request and starts runAgentUpdate in    *)
(* the background (startAgentUpdate).                                      *)
Accepted == svc' = "pull" /\ upd' = "pulling" /\ ready' = FALSE

Ask ==
  /\ pc["old"] = "ask" /\ svc = "idle"
  /\ \/ Accepted /\ Goto("old", "poll") /\ UNCHANGED <<mark, faults>>
     \/ /\ Goto("old", "failed") /\ mark' = FALSE    \* refused
        /\ UNCHANGED <<svc, upd, ready, faults>>
     \/ /\ faults < MaxFaults    \* the answer is lost
        /\ faults' = faults + 1
        /\ Accepted /\ Goto("old", "failed") /\ mark' = FALSE
  /\ UNCHANGED <<docker, slot, task, heard, renamed, errs, gaps, deaths, kills>>

(* What an agent that waits for the end of the update learns: how it       *)
(* ended, or nothing until its deadline ("none"), because the service was  *)
(* killed and knows of no update, or, for a fault, because it could not be *)
(* reached or its Docker calls took too long.                              *)
Learns(v) ==
  \/ v = upd /\ upd \in Finished \cup {"none"} /\ UNCHANGED faults
  \/ v = "none" /\ upd # "none" /\ faults < MaxFaults /\ faults' = faults + 1

Verdicts == Finished \cup {"none"}

(* The poll of the agent that asked: anything but success ends it.         *)
Poll ==
  /\ pc["old"] = "poll" /\ \E v \in Verdicts \ {"done"} : Learns(v)
  /\ Goto("old", "failed") /\ mark' = FALSE
  /\ UNCHANGED <<docker, slot, task, heard, service, gaps, deaths, kills>>

-----------------------------------------------------------------------------
(* The agent that starts next.                                             *)

(* reportInterrupted, and finishContainerUpdate up to its first wait.      *)
Start(c) ==
  /\ pc[c] = "start"
  /\ Goto(c, CASE slot = "none" -> "idle"
               [] slot \in {"failed", "succeeded"} -> IF slot = "failed" THEN "failed" ELSE "ok"
               [] slot = "task" /\ ~mark -> "failed"
               [] slot = "task" /\ mark /\ c = "old" -> "verdict"
               [] slot = "task" /\ mark /\ c = "new" -> "heartbeat")
  /\ UNCHANGED <<docker, mark, slot, task, heard, service, bounds>>

(* The old version again: it waits for the verdict, at most seven minutes, *)
(* and reports that the update failed whatever it learns.  A download can  *)
(* take longer than that, so the update may go on behind its back.         *)
OldVerdict ==
  /\ pc["old"] = "verdict"
  /\ Goto("old", "failed") /\ mark' = FALSE
  /\ UNCHANGED <<docker, slot, task, heard, service, bounds>>

(* The new version's first heartbeat gets through and it says agent_ready, *)
(* which counts while the update is not finished and the call arrives.     *)
AgentReady == ready' = (ready \/ (svc # "idle" /\ upd \notin Finished \cup {"none"}))

Heartbeat ==
  /\ pc["new"] = "heartbeat"
  /\ heard' = TRUE /\ Goto("new", "verdict")
  /\ \/ AgentReady /\ UNCHANGED faults
     \/ /\ faults < MaxFaults /\ faults' = faults + 1
        /\ UNCHANGED ready
  /\ UNCHANGED <<docker, mark, slot, task, svc, upd, renamed, errs, gaps, deaths, kills>>

(* No heartbeat within four minutes: it waits for the verdict without      *)
(* saying agent_ready.                                                     *)
NoHeartbeat ==
  /\ pc["new"] = "heartbeat" /\ Goto("new", "quiet")
  /\ UNCHANGED <<docker, mark, slot, task, heard, service, bounds>>

(* Only an update that is done lets the quiet agent go on; otherwise it    *)
(* takes itself to be about to be replaced and leaves the task alone.      *)
(* When nothing replaces it any more, nobody closes the task.              *)
QuietVerdict ==
  /\ pc["new"] = "quiet"
  /\ \E v \in Verdicts :
       /\ Learns(v)
       /\ Goto("new", IF v = "done" THEN "verdict" ELSE "replaced")
       /\ gaps' = gaps \cup (IF v = "none" /\ svc \notin BackSteps THEN {"silent"} ELSE {})
  /\ UNCHANGED <<docker, mark, slot, task, heard, service, deaths, kills>>

(* Nobody told the new agent how the update ended although it was not      *)
(* done: it goes on, or has gone wrong.                                    *)
Unconfirmed(v) == IF v = "none" /\ upd \notin {"done", "none"} THEN {"verdict"} ELSE {}

\* Mutant: the new agent reports success whatever the verdict.
NewVerdict_ok ==
  /\ pc["new"] = "verdict"
  /\ \E v \in Verdicts :
       /\ Learns(v) /\ gaps' = gaps \cup Unconfirmed(v)
       /\ Goto("new", "ok") /\ mark' = FALSE
  /\ UNCHANGED <<docker, slot, task, heard, service, deaths, kills>>

(* The new version's verdict: done, or nothing learnt by the deadline, is  *)
(* reported as success; anything else means it is being replaced.          *)
NewVerdict ==
  /\ pc["new"] = "verdict"
  /\ \E v \in Verdicts :
       /\ Learns(v) /\ gaps' = gaps \cup Unconfirmed(v)
       /\ IF v \in {"done", "none"} THEN Goto("new", "ok") /\ mark' = FALSE
                                    ELSE Goto("new", "replaced") /\ UNCHANGED mark
  /\ UNCHANGED <<docker, slot, task, heard, service, deaths, kills>>

(* report: the outcome reaches the control plane, and the slot is cleared. *)
Outcome(c) == IF pc[c] = "ok" THEN "succeeded" ELSE "failed"

Deliver(c) ==
  /\ pc[c] \in {"ok", "failed"}
  /\ task' = IF task = "running" THEN Outcome(c) ELSE task
  /\ slot' = "none"
  /\ Goto(c, "idle")
  /\ UNCHANGED <<docker, mark, heard, service, bounds>>

(* An agent is killed and its container started again by Docker.  One that *)
(* was about to report a success has removed the mark already.             *)
Die(c) ==
  /\ ctr[c] = "running" /\ pc[c] # "off" /\ deaths < MaxDeaths
  /\ deaths' = deaths + 1
  /\ gaps' = gaps \cup (IF pc[c] = "ok" /\ slot = "task" THEN {"report"} ELSE {})
  /\ Goto(c, "start")
  /\ UNCHANGED <<docker, mark, slot, task, heard, service, faults, kills>>

-----------------------------------------------------------------------------
(* The control service: runAgentUpdate.                                    *)

\* Mutant: a stopping agent forgets the task it handed over.
Stopped_forgets(c) ==
  /\ ctr' = [ctr EXCEPT ![c] = IF @ = "running" THEN "stopped" ELSE @]
  /\ Goto(c, "off")
  /\ slot' = "none"
  /\ UNCHANGED <<named, task>>

(* The container is stopped.  A stopping agent makes one attempt to send   *)
(* an outcome it has, and keeps it in the slot when that fails; a task     *)
(* that was handed over stays as it is (errHandedOver).                    *)
Stopped(c) ==
  /\ ctr' = [ctr EXCEPT ![c] = IF @ = "running" THEN "stopped" ELSE @]
  /\ Goto(c, "off")
  /\ UNCHANGED named
  /\ IF pc[c] \in {"ok", "failed"}
     THEN \/ task' = (IF task = "running" THEN Outcome(c) ELSE task) /\ slot' = "none"
          \/ slot' = Outcome(c) /\ UNCHANGED task
     ELSE UNCHANGED <<slot, task>>

Started(c) ==
  /\ ctr' = [ctr EXCEPT ![c] = "running"]
  /\ IF ctr[c] = "running" THEN UNCHANGED pc ELSE Goto(c, "start")
  /\ UNCHANGED <<named, slot, task>>

(* Docker refuses to remove a running container; one that is not there     *)
(* counts as removed.                                                      *)
Removable(c) == ctr[c] # "running"

Removed(c) ==
  /\ ctr' = [ctr EXCEPT ![c] = "absent"]
  /\ named' = IF named = c THEN "none" ELSE named
  /\ UNCHANGED <<pc, slot, task>>

Named(c) == named' = c /\ UNCHANGED <<ctr, pc, slot, task>>

Aside == named' = "none" /\ UNCHANGED <<ctr, pc, slot, task>>

Created ==
  /\ ctr' = [ctr EXCEPT !["new"] = "created"]
  /\ UNCHANGED <<named, pc, slot, task>>

Nothing == UNCHANGED <<docker, pc, slot, task>>

(* One Docker call of the update: it takes effect, or fails, or takes      *)
(* effect and the answer is lost.                                          *)
Call(step, Effect, Good, Bad) ==
  /\ svc = step
  /\ \/ Effect /\ Good /\ UNCHANGED <<faults, gaps>>
     \/ /\ faults < MaxFaults /\ faults' = faults + 1
        /\ Nothing /\ Bad /\ UNCHANGED gaps
     \/ /\ faults < MaxFaults /\ faults' = faults + 1
        /\ Effect /\ Bad
        /\ gaps' = gaps \cup (IF step = "aside_old" THEN {"rename"} ELSE {})
  /\ UNCHANGED <<mark, heard, ready, deaths, kills>>

Finish(state) == svc' = "idle" /\ upd' = state /\ UNCHANGED <<renamed, errs>>

Continue(step, state) == svc' = step /\ upd' = state /\ UNCHANGED <<renamed, errs>>

Rollback == svc' = "back_stop" /\ errs' = FALSE /\ UNCHANGED <<upd, renamed>>

(* A step without a call that can go either way.                           *)
Step(step, Then) ==
  /\ svc = step /\ Then
  /\ UNCHANGED <<docker, agent, ready, bounds>>

Pull == Call("pull", Nothing, Continue("create", "pulling"), Finish("failed"))

Create == Call("create", Created, Continue("stop_old", "switching"), Finish("failed"))

StopOld == Call("stop_old", Stopped("old"), Continue("aside_old", "switching"), Rollback)

AsideOld ==
  Call("aside_old", Aside,
       svc' = "name_new" /\ renamed' = TRUE /\ UNCHANGED <<upd, errs>>, Rollback)

NameNew == Call("name_new", Named("new"), Continue("start_new", "switching"), Rollback)

StartNew == Call("start_new", Started("new"), Continue("wait", "waiting"), Rollback)

\* Mutant: a new container that runs is enough.
WaitAgent_started == Call("wait", Nothing, Continue("remove_old", "waiting"), Rollback)

(* waitAgent: the container runs and the agent said so, or the deadline    *)
(* passes without it.                                                      *)
WaitAgent ==
  \/ ready /\ Call("wait", Nothing, Continue("remove_old", "waiting"), Rollback)
  \/ ~ready /\ Step("wait", Rollback)

(* The old container is removed; an error is only logged.                  *)
RemoveOld == Call("remove_old", Removed("old"), Finish("done"), Finish("done"))

(* The rollback goes through its four calls whatever fails on the way.     *)
Noted(step, err) == svc' = step /\ errs' = (errs \/ err) /\ UNCHANGED <<upd, renamed>>

BackStop == Call("back_stop", Stopped("new"), Noted("back_remove", FALSE), Noted("back_remove", TRUE))

BackRemove ==
  IF Removable("new")
  THEN Call("back_remove", Removed("new"), Noted("back_name", FALSE), Noted("back_name", TRUE))
  ELSE Step("back_remove", Noted("back_name", TRUE))

\* Mutant: the rollback doesn't give the old container its name back.
BackName_not == Step("back_name", Noted("back_start", FALSE))

BackName ==
  CASE ~renamed -> Step("back_name", Noted("back_start", FALSE))
    [] renamed /\ named = "none" ->
         Call("back_name", Named("old"), Noted("back_start", FALSE), Noted("back_start", TRUE))
    [] OTHER -> Step("back_name", Noted("back_start", TRUE))

Ended(err) ==
  /\ errs' = (errs \/ err) /\ svc' = "idle"
  /\ upd' = IF errs' THEN "failed" ELSE "rolled_back"
  /\ UNCHANGED renamed

BackStart == Call("back_start", Started("old"), Ended(FALSE), Ended(TRUE))

(* The service is killed and starts again: it knows of no update, whether  *)
(* one was under way or had ended.                                         *)
Kill ==
  /\ upd # "none" /\ kills < MaxKills
  /\ kills' = kills + 1
  /\ gaps' = gaps \cup (CASE svc # "idle" -> {"service"}
                          [] svc = "idle" /\ upd # "done" -> {"verdict"}
                          [] OTHER -> {})
  /\ svc' = "idle" /\ upd' = "none" /\ ready' = FALSE /\ renamed' = FALSE
  /\ UNCHANGED <<docker, agent, errs, faults, deaths>>

-----------------------------------------------------------------------------
Service ==
  \/ Pull \/ Create \/ StopOld \/ AsideOld \/ NameNew \/ StartNew
  \/ WaitAgent \/ RemoveOld
  \/ BackStop \/ BackRemove \/ BackName \/ BackStart

OldAgent == Ask \/ Poll \/ OldVerdict

NewAgent == Heartbeat \/ NoHeartbeat \/ QuietVerdict \/ NewVerdict

AnyAgent == \E c \in Containers : Start(c) \/ Deliver(c)

(* Nothing is left to do: the task is closed and the service is at rest,   *)
(* or no agent will ever close it.                                         *)
AtRest ==
  svc = "idle" /\ \A c \in Containers : pc[c] \in {"off", "idle", "replaced"}

Next ==
  \/ Service \/ OldAgent \/ NewAgent \/ AnyAgent
  \/ \E c \in Containers : Die(c)
  \/ Kill

(* The goroutine, the agents' loops and Docker's restart of a container    *)
(* all go on by themselves; faults, deaths and kills need not happen.      *)
Fairness ==
  WF_vars(Service) /\ WF_vars(OldAgent) /\ WF_vars(NewAgent) /\ WF_vars(AnyAgent)

Spec == Init /\ [][Next]_vars /\ Fairness

-----------------------------------------------------------------------------
(* The service was killed half way, or said that putting the old container *)
(* back failed: the containers are left as they are.                       *)
LeftAlone == "service" \in gaps \/ errs

(* What the task says is what runs, once everything is at rest, whichever  *)
(* agent closed it: a success means the new container, also when the       *)
(* service was killed half way; a failure means the old one, also when the *)
(* old agent had given up (its answer lost, its wait over) and the update  *)
(* went on behind its back.  Two exceptions.  The new agent takes nothing  *)
(* learnt in seven minutes for success (containerUpdateOutcome, wait):     *)
(* when the update was not done then, it may still be rolled back, and the *)
(* success stays; only an update that ends done after all makes it true.   *)
(* And an agent that dies with a success in hand has removed the mark, so  *)
(* the next one reports a failure.                                         *)
OutcomeIsTrue ==
  AtRest =>
    /\ task = "succeeded" =>
         \/ ctr["new"] = "running" /\ named = "new" /\ ctr["old"] # "running"
         \/ "verdict" \in gaps /\ upd # "done"
    /\ task = "failed" /\ ~LeftAlone /\ "report" \notin gaps
         => ctr["old"] = "running" /\ ctr["new"] # "running"

(* The old container, the only way back, is removed only when a heartbeat  *)
(* of the new version has reached Rowsafe, and only while the new          *)
(* container runs: whatever agent_ready calls came from agents that were   *)
(* killed or replaced since (waitAgent).                                   *)
OldKeptUntilHeard ==
  ctr["old"] = "absent" => heard /\ ctr["new"] = "running" /\ named = "new"

(* "rolled back; the old agent container runs again" is only said when it  *)
(* does, under its name and alone, and two agents with one identity and    *)
(* one state volume never run side by side unless the rollback said that   *)
(* it could not stop the new one (runAgentUpdate's rollback).              *)
RolledBackIsBack ==
  /\ upd = "rolled_back" =>
       ctr["old"] = "running" /\ ctr["new"] = "absent" /\ (named = "old" \/ "rename" \in gaps)
  /\ ctr["old"] = "running" /\ ctr["new"] = "running" => errs

(* The task is closed by an agent without waiting for its lease to run     *)
(* out: by the old one, the new one or the old one put back                *)
(* (agentContainerUpdate, finishContainerUpdate).  The case left out is a  *)
(* new agent that had no heartbeat, learns nothing either and waits to be  *)
(* replaced, which nobody does.                                            *)
HandedOverCloses == <>(task # "running" \/ LeftAlone \/ "silent" \in gaps)
=============================================================================
