------------------------- MODULE AgentTasksProofs -------------------------
(***************************************************************************)
(* The agent's loops, with their lost answers, retries and restarts, use   *)
(* the queue only in ways TaskQueue specifies: what TaskQueueProofs shows  *)
(* of the queue holds under them.                                          *)
(*                                                                         *)
(* The invariant is SlotsOK: a loop that is not idle holds a task's id and *)
(* an outcome the control plane accepts, so that each report is a          *)
(* Complete of the queue; what is on disk is what a report can be made of. *)
(* The second part shows, from TruthInv, that reports are true and that no *)
(* task is begun twice, the third that loops execute only what the control *)
(* plane lets run side by side, the fourth that what the main loop keeps   *)
(* on disk is sent, while faults are few.                                  *)
(***************************************************************************)
EXTENDS AgentTasks, TaskQueueProofs

Reported == {"succeeded", "failed"}

SlotRec == [phase : Phases, task : TaskIds \cup {NoTaskId}, outcome : Reported,
            attempts : Nat, shrunk : BOOLEAN, boot : BOOLEAN]

DiskRec == [task : TaskIds \cup {NoTaskId}, report : Reported \cup {"none"}]

\* A loop that does something does it for a task.
Working(sl) == sl.phase # "idle" => sl.task \in TaskIds

SlotsOK ==
  /\ slot \in [Slots -> SlotRec]
  /\ disk \in [Keepers -> DiskRec]
  /\ \A s \in Slots : Working(slot[s])

\* A loop's claim request is one of ClaimFilters (claim, claimTypes).
LEMMA LoopFilters == ASSUME NEW l \in Loops PROVE ClaimTypes(l) \in ClaimFilters
<1>1. fastLaneClaim \in ClaimFilters
  BY FiltersAssumption DEF fastLaneClaim
<1>2. QED
  BY <1>1, FiltersAssumption DEF ClaimTypes, Loops

LEMMA IdleOK == IdleSlot \in SlotRec /\ Working(IdleSlot) /\ IdleSlot.phase = "idle"
BY DEF IdleSlot, SlotRec, Phases, Reported, Working

\* What a start reports of a task it finds on disk (reportInterrupted).
LEMMA BootSlotOK ==
  ASSUME NEW k \in DiskRec, k.task # NoTaskId
  PROVE  BootSlot(k) \in SlotRec /\ Working(BootSlot(k))
BY DEF BootSlot, BootOutcome, IdleSlot, DiskRec, SlotRec, Phases, Reported, Working

LEMMA OpenedOK ==
  ASSUME SlotsOK, NEW sl \in [Slots -> SlotRec], \A s \in Slots : Working(sl[s])
  PROVE  Opened(sl) \in [Slots -> SlotRec] /\ \A s \in Slots : Working(Opened(sl)[s])
<1>1. disk["files"] \in DiskRec
  BY DEF SlotsOK, Keepers
<1>2. QED
  BY <1>1, IdleOK, BootSlotOK DEF Opened

LEMMA OneSlotChanged ==
  ASSUME SlotsOK, NEW s \in Slots, NEW v \in SlotRec, Working(v), slot' = [slot EXCEPT ![s] = v]
  PROVE  slot' \in [Slots -> SlotRec] /\ \A t \in Slots : Working(slot'[t])
BY DEF SlotsOK

\* Every step of the agent and of its control plane keeps the slots in order.
LEMMA SlotsStep ==
  ASSUME SlotsOK, [ANext]_allVars
  PROVE  SlotsOK'
<1> SUFFICES /\ slot' \in [Slots -> SlotRec] /\ \A s \in Slots : Working(slot'[s])
             /\ disk' \in [Keepers -> DiskRec]
  BY DEF SlotsOK, Working
<1>a. slot \in [Slots -> SlotRec] /\ (\A s \in Slots : Working(slot[s])) /\ disk \in [Keepers -> DiskRec]
  BY DEF SlotsOK
<1>same. ASSUME UNCHANGED <<slot, disk>> PROVE slot' \in [Slots -> SlotRec] /\ (\A s \in Slots : Working(slot'[s]))
             /\ disk' \in [Keepers -> DiskRec]
  BY <1>a, <1>same
<1>down. ASSUME Down PROVE slot' \in [Slots -> SlotRec] /\ \A s \in Slots : Working(slot'[s])
  BY <1>down, IdleOK DEF Down
<1>1. CASE Boot
  <2>1. disk["main"] \in DiskRec /\ "main" \in Slots
    BY <1>a DEF Keepers, Slots, Loops
  <2>2. CASE disk["main"].task = NoTaskId
    BY <1>1, <1>a, <2>2, OpenedOK DEF Boot
  <2>3. CASE disk["main"].task # NoTaskId
    BY <1>1, <1>a, <2>1, <2>3, BootSlotOK, OneSlotChanged DEF Boot
  <2> QED BY <2>2, <2>3
<1>2. CASE Crash \/ Exit
  BY <1>2, <1>a, <1>down DEF Crash, Exit
<1>3. CASE Stop \/ RestartForUpdate
  BY <1>3, <1>same DEF Stop, RestartForUpdate
<1>4. ASSUME NEW l \in Loops, LoopClaims(l)
      PROVE slot' \in [Slots -> SlotRec] /\ (\A s \in Slots : Working(slot'[s]))
             /\ disk' \in [Keepers -> DiskRec]
  <2> DEFINE got == [IdleSlot EXCEPT !.phase = "claimed", !.task = CHOOSE i \in HandedOut : TRUE]
  <2>1. ASSUME NEW i \in HandedOut PROVE got \in SlotRec /\ Working(got)
    <3>1. (CHOOSE j \in HandedOut : TRUE) \in TaskIds
      BY <2>1 DEF HandedOut
    <3> QED BY <3>1 DEF IdleSlot, SlotRec, Phases, Reported, Working
  <2>2. slot' = [s \in Slots |-> IF \E i \in HandedOut : RunsIn(l, tasks[i].type) = s THEN got ELSE slot[s]]
    BY <1>4 DEF LoopClaims
  <2> HIDE DEF got
  <2>3. disk' = disk
    BY <1>4 DEF LoopClaims
  <2> QED BY <1>a, <2>1, <2>2, <2>3
<1>5. ASSUME NEW l \in Loops, ClaimAnswerLost(l) PROVE UNCHANGED <<slot, disk>>
  BY <1>5 DEF ClaimAnswerLost
<1>6. ASSUME NEW s \in Slots, Starts(s)
      PROVE slot' \in [Slots -> SlotRec] /\ (\A t \in Slots : Working(slot'[t]))
             /\ disk' \in [Keepers -> DiskRec]
  <2>1. slot[s] \in SlotRec /\ slot[s].task \in TaskIds
    BY <1>6, <1>a DEF Starts, Working
  <2>2. [slot[s] EXCEPT !.phase = "running"] \in SlotRec /\ Working([slot[s] EXCEPT !.phase = "running"])
    BY <2>1 DEF SlotRec, Phases, Working
  <2>3. slot' = [slot EXCEPT ![s] = [slot[s] EXCEPT !.phase = "running"]]
    BY <1>6, <1>a DEF Starts
  <2>4. [Empty EXCEPT !.task = slot[s].task] \in DiskRec
    BY <2>1 DEF Empty, DiskRec
  <2>5. disk' \in [Keepers -> DiskRec]
    BY <1>6, <1>a, <2>4 DEF Starts
  <2> QED BY <2>2, <2>3, <2>5, OneSlotChanged
<1>7. ASSUME NEW s \in Slots, NEW o \in Reported, Ends(s, o)
      PROVE slot' \in [Slots -> SlotRec] /\ (\A t \in Slots : Working(slot'[t]))
             /\ disk' \in [Keepers -> DiskRec]
  <2> DEFINE v == [slot[s] EXCEPT !.phase = "reporting", !.outcome = o]
  <2>1. slot[s] \in SlotRec /\ slot[s].task \in TaskIds
    BY <1>7, <1>a DEF Ends, Working
  <2>2. v \in SlotRec /\ Working(v)
    BY <2>1 DEF SlotRec, Phases, Working
  <2>3. slot' = [slot EXCEPT ![s] = v] /\ disk' = disk
    BY <1>7, <1>a DEF Ends
  <2> QED BY <1>a, <2>2, <2>3, OneSlotChanged
<1>8. ASSUME NEW s \in Slots, ReportAnswered(s) \/ ReportRefusedAgain(s)
      PROVE slot' \in [Slots -> SlotRec] /\ (\A t \in Slots : Working(slot'[t]))
             /\ disk' \in [Keepers -> DiskRec]
  <2> DEFINE v == [slot[s] EXCEPT !.phase = "delivered"]
  <2>1. slot[s] \in SlotRec /\ slot[s].task \in TaskIds
    BY <1>8, <1>a DEF ReportAnswered, ReportRefusedAgain, Reporting, Working
  <2>2. v \in SlotRec /\ Working(v)
    BY <2>1 DEF SlotRec, Phases, Working
  <2>3. slot' = [slot EXCEPT ![s] = v] /\ disk' = disk
    BY <1>8, <1>a DEF ReportAnswered, ReportRefusedAgain
  <2> QED BY <1>a, <2>2, <2>3, OneSlotChanged
<1>9. ASSUME NEW s \in Slots, ReportLost(s) \/ ReportAnswerLost(s)
      PROVE slot' \in [Slots -> SlotRec] /\ (\A t \in Slots : Working(slot'[t]))
             /\ disk' \in [Keepers -> DiskRec]
  <2> DEFINE ph == IF proc = "stopping" \/ slot[s].attempts + 1 >= MaxAttempts
                   THEN "undelivered" ELSE slot[s].phase
  <2> DEFINE n == slot[s].attempts + 1
  <2> DEFINE v == [slot[s] EXCEPT !.attempts = n, !.phase = ph]
  <2>1. slot[s] \in SlotRec /\ slot[s].task \in TaskIds
    BY <1>9, <1>a DEF ReportLost, ReportAnswerLost, Reporting, Working
  <2>2. slot' = [slot EXCEPT ![s] = v] /\ disk' = disk
    BY <1>9, <1>a DEF ReportLost, ReportAnswerLost, NoAnswer
  <2>3. n \in Nat
    BY <2>1 DEF SlotRec
  <2>4. slot[s].phase \in Phases
    BY <2>1 DEF SlotRec
  <2>5. ph \in Phases
    BY <2>4 DEF Phases
  <2> HIDE DEF ph, n
  <2>6. v \in SlotRec /\ Working(v)
    BY <2>1, <2>3, <2>5 DEF SlotRec, Working
  <2> QED BY <1>a, <2>2, <2>6, OneSlotChanged
<1>10. ASSUME NEW s \in Slots, NEW r \in BOOLEAN, ReportRefused(s, r)
      PROVE slot' \in [Slots -> SlotRec] /\ (\A t \in Slots : Working(slot'[t]))
             /\ disk' \in [Keepers -> DiskRec]
  <2> DEFINE n == slot[s].attempts + 1
  <2> DEFINE o == IF r THEN "failed" ELSE slot[s].outcome
  <2> DEFINE v == [slot[s] EXCEPT !.shrunk = TRUE, !.attempts = n, !.outcome = o]
  <2>1. slot[s] \in SlotRec /\ slot[s].task \in TaskIds
    BY <1>10, <1>a DEF ReportRefused, Reporting, Working
  <2>2. slot' = [slot EXCEPT ![s] = v] /\ disk' = disk
    BY <1>10, <1>a DEF ReportRefused
  <2>3. n \in Nat
    BY <2>1 DEF SlotRec
  <2>4. slot[s].outcome \in Reported
    BY <2>1 DEF SlotRec
  <2>5. o \in Reported
    BY <2>4 DEF Reported
  <2> HIDE DEF n, o
  <2>6. v \in SlotRec /\ Working(v)
    BY <2>1, <2>3, <2>5 DEF SlotRec, Working
  <2> QED BY <1>a, <2>2, <2>6, OneSlotChanged
<1>11. ASSUME NEW s \in Slots, Returns(s)
      PROVE slot' \in [Slots -> SlotRec] /\ (\A t \in Slots : Working(slot'[t]))
             /\ disk' \in [Keepers -> DiskRec]
  <2> DEFINE idle == [slot EXCEPT ![s] = IdleSlot]
  <2>1. slot[s] \in SlotRec /\ slot[s].task \in TaskIds
    BY <1>11, <1>a DEF Returns, Working
  <2>2. idle \in [Slots -> SlotRec] /\ \A t \in Slots : Working(idle[t])
    BY <1>a, IdleOK
  <2>3. slot' = idle \/ slot' = Opened(idle)
    BY <1>11 DEF Returns
  <2>4. [task |-> slot[s].task, report |-> slot[s].outcome] \in DiskRec /\ Empty \in DiskRec
    BY <2>1 DEF DiskRec, SlotRec, Empty
  <2>5. s \in Keepers => Kept(s) \in DiskRec
    BY <1>a, <2>4 DEF Kept
  <2>6. disk' \in [Keepers -> DiskRec]
    BY <1>11, <1>a, <2>5 DEF Returns
  <2> HIDE DEF idle
  <2> QED BY <2>2, <2>3, <2>6, OpenedOK
<1>12. CASE (\E i \in TaskIds : RunningLeaseEnds(i)) \/ Requests
  BY <1>12, <1>same DEF RunningLeaseEnds, Requests, agentVars
<1>13. CASE UNCHANGED allVars
  BY <1>13, <1>same DEF allVars
<1> QED
  BY <1>1, <1>2, <1>3, <1>4, <1>5, <1>6, <1>7, <1>8, <1>9, <1>10, <1>11, <1>12, <1>13, <1>same
  DEF ANext, Reported

(***************************************************************************)
(* Every step of the agent is a step of the queue, or none for it          *)
(***************************************************************************)
LEMMA AgentStep ==
  ASSUME SlotsOK, [ANext]_allVars
  PROVE  [Next]_vars
<1>1. CASE Boot \/ Crash \/ Stop \/ RestartForUpdate \/ Exit
  BY <1>1 DEF Boot, Crash, Stop, RestartForUpdate, Exit, vars
<1>2. ASSUME NEW l \in Loops, LoopClaims(l) \/ ClaimAnswerLost(l) PROVE Next
  BY <1>2, LoopFilters DEF LoopClaims, ClaimAnswerLost, Next
<1>3. ASSUME NEW s \in Slots, Reporting(s), Deliver(s) PROVE [Next]_vars
  <2>1. slot[s] \in SlotRec /\ slot[s].task \in TaskIds
    BY <1>3 DEF SlotsOK, Reporting, Working
  <2>2. slot[s].outcome \in {"succeeded", "failed"}
    BY <2>1 DEF SlotRec, Reported
  <2>3. CASE Complete(slot[s].task, slot[s].outcome)
    BY <2>1, <2>2, <2>3 DEF Next
  <2> QED BY <1>3, <2>3 DEF Deliver
<1>4. ASSUME NEW s \in Slots, ReportAnswered(s) \/ ReportAnswerLost(s) PROVE [Next]_vars
  BY <1>3, <1>4 DEF ReportAnswered, ReportAnswerLost
<1>5. ASSUME NEW s \in Slots,
             \/ Starts(s) \/ (\E o \in Reported : Ends(s, o)) \/ ReportLost(s)
             \/ (\E r \in BOOLEAN : ReportRefused(s, r)) \/ ReportRefusedAgain(s) \/ Returns(s)
      PROVE  UNCHANGED vars
  BY <1>5 DEF Starts, Ends, ReportLost, ReportRefused, ReportRefusedAgain, Returns, vars
<1>6. ASSUME NEW i \in TaskIds, RunningLeaseEnds(i) PROVE Next
  BY <1>6 DEF RunningLeaseEnds, Next
<1>7. CASE Requests
  BY <1>7 DEF Requests, Next
<1>8. CASE UNCHANGED allVars
  BY <1>8 DEF allVars, vars
<1> QED
  BY <1>1, <1>2, <1>4, <1>5, <1>6, <1>7, <1>8 DEF ANext, Reported

LEMMA SlotsAlways == ASpec => []SlotsOK
<1>1. AInit => SlotsOK
  BY IdleOK DEF AInit, SlotsOK, Empty, DiskRec, NoTaskId
<1>2. SlotsOK /\ [ANext]_allVars => SlotsOK'
  BY SlotsStep
<1> QED BY <1>1, <1>2, PTL DEF ASpec

(* Lost claims and reports, attempts repeated until they are answered,     *)
(* crashes, and reports a later process makes: the control plane's queue   *)
(* only ever sees what TaskQueue specifies, so what holds of the queue     *)
(* holds under the agent (agent.go, execute, report, reportInterrupted).   *)
THEOREM AgentUsesQueue == ASpec => UsesQueue
<1>1. AInit => Init
  BY DEF AInit
<1>2. SlotsOK /\ [ANext]_allVars => [Next]_vars
  BY AgentStep
<1> QED BY <1>1, <1>2, SlotsAlways, PTL DEF ASpec, UsesQueue

(* "Tasks run one at a time per database and lane", and health fixes keep  *)
(* away from tasks that stop PostgreSQL (tasks.go:13-16), for an agent     *)
(* that loses answers and restarts as often as it likes.                   *)
THEOREM AgentKeepsLanes == ASpec => [](OneOpenPerKey /\ OnePerLane /\ NoFixBesideStop)
<1>1. TypeOK /\ [Next]_vars => TypeOK'
  BY TypeStep
<1>2. TypeOK /\ QueueInv /\ [Next]_vars => QueueInv'
  BY QueueInvStep
<1> QED
  BY <1>1, <1>2, TypeInit, QueueInvInit, QueueInvSays, AgentUsesQueue, PTL DEF UsesQueue

(***************************************************************************)
(* What the loops and the disk say of a task is what happened to it.       *)
(*                                                                         *)
(* Neither TruthfulSuccess nor NeverBegunTwice is inductive: a report made *)
(* by a later process is only as true as the record it is made of, and a   *)
(* task is begun once because it is handed out once and one loop has it.   *)
(* TruthInv says that of the loops (SlotTrue), of the disk (DiskTrue) and  *)
(* of the tasks nobody was given yet.                                      *)
(***************************************************************************)
Begun == {"claimed", "running"}
Ended == {"reporting", "delivered", "undelivered"}
Unclaimed == {"none", "queued"}
Fates == {"no", "started", "succeeded", "failed"}

SlotTrue(sl, r, ts) ==
  /\ sl.phase \in Begun => ts[sl.task].status \notin Unclaimed
  /\ sl.phase = "claimed" => r[sl.task] = "no"
  /\ sl.phase = "running" => r[sl.task] = "started"
  /\ sl.phase \in Ended /\ sl.outcome = "succeeded" => r[sl.task] = "succeeded"

DiskTrue(k, r) == k.report = "succeeded" => k.task \in TaskIds /\ r[k.task] = "succeeded"

OneLoopEach(sl) ==
  \A s, t \in Slots : (s # t /\ sl[s].phase \in Begun /\ sl[t].phase \in Begun) => sl[s].task # sl[t].task

Truth(r, ts, sl, dk) ==
  /\ r \in [TaskIds -> Fates]
  /\ \A i \in TaskIds : ts[i].status \in Unclaimed => r[i] = "no"
  /\ \A i \in TaskIds : ts[i].status = "succeeded" => r[i] = "succeeded"
  /\ \A s \in Slots : SlotTrue(sl[s], r, ts)
  /\ \A k \in Keepers : DiskTrue(dk[k], r)
  /\ OneLoopEach(sl)

TruthInv == Truth(ran, tasks, slot, disk)

\* No task of a goes back to being unclaimed in b.
StaysClaimed(a, b) == \A i \in TaskIds : b[i].status \in Unclaimed => a[i].status \in Unclaimed

\* No task succeeds from a to b.
NoneSucceeds(a, b) == \A i \in TaskIds : b[i].status = "succeeded" => a[i].status = "succeeded"

LEMMA QueueStaysClaimed ==
  ASSUME TypeOK, [Next]_vars
  PROVE  StaysClaimed(tasks, tasks')
<1>1. \A i \in TaskIds : Moved(tasks[i].status, tasks'[i].status)
  BY EveryStepLifecycle DEF LifecycleStep
<1>2. \A i \in TaskIds : tasks[i].status \in TaskStatus
  BY DEF TypeOK, TaskRec
<1> SUFFICES ASSUME NEW i \in TaskIds, tasks[i].status \notin Unclaimed
             PROVE  tasks'[i].status \notin Unclaimed
  BY DEF StaysClaimed
<1>3. tasks[i].status \in {"running", "succeeded", "failed", "lost", "cancelled", "forgotten"}
  BY <1>2 DEF TaskStatus, Outcome, Unclaimed
<1> QED
  BY <1>1, <1>3 DEF Moved, Lifecycle!Moves, Unclaimed

\* prune makes nothing succeed; so what holds of b holds of prune(b).
LEMMA PruneNoneSucceeds ==
  ASSUME NEW a \in Table, NEW b \in Table, NoneSucceeds(a, b)
  PROVE  NoneSucceeds(a, prune(b))
BY PruneEffect DEF NoneSucceeds, Forgotten, NoTask

LEMMA FinishNoneSucceeds ==
  ASSUME NEW ts \in Table, NEW i \in TaskIds, NEW o \in Outcome \ {"succeeded"}
  PROVE  /\ [ts EXCEPT ![i] = finish(@, o)] \in Table
         /\ NoneSucceeds(ts, [ts EXCEPT ![i] = finish(@, o)])
<1>1. finish(ts[i], o) \in TaskRec /\ finish(ts[i], o).status = o
  BY FinishEffect DEF Table
<1> HIDE DEF finish
<1> QED
  BY <1>1 DEF Table, NoneSucceeds

LEMMA ClaimNoneSucceeds ==
  ASSUME TypeOK, NEW types, Claim(types)
  PROVE  NoneSucceeds(tasks, tasks')
<1> DEFINE c == CancelOrphans(tasks)
           out == claim(tasks, databases, types)
<1>0. tasks \in Table
  BY DEF TypeOK, Table
<1>1. c \in Table /\ NoneSucceeds(tasks, c)
  <2>1. \A i \in TaskIds : finish(tasks[i], "cancelled").status = "cancelled"
    BY <1>0, FinishEffect DEF Table, Outcome
  <2> QED BY <1>0, <2>1, CancelOrphansEffect DEF NoneSucceeds
<1>2. out \in Table /\ NoneSucceeds(c, out)
  <2>0. out \in Table
    BY <1>0, ClaimEffect
  <2>1. \A i \in TaskIds : finish(c[i], "cancelled").status = "cancelled"
    BY <1>1, FinishEffect DEF Table, Outcome
  <2>2. \A i \in TaskIds : [c[i] EXCEPT !.status = "running"].status = "running"
    BY <1>1 DEF Table, TaskRec
  <2>3. \A i \in TaskIds : \/ out[i] = c[i]
                           \/ out[i] = finish(c[i], "cancelled")
                           \/ out[i] = [c[i] EXCEPT !.status = "running"]
    BY <1>0, ClaimEffect
  <2> HIDE DEF c, out
  <2> QED BY <2>0, <2>1, <2>2, <2>3 DEF NoneSucceeds
<1>3. NoneSucceeds(tasks, out)
  BY <1>1, <1>2 DEF NoneSucceeds
<1> QED
  BY <1>0, <1>2, <1>3, PruneNoneSucceeds DEF Claim

LEMMA RequestNoneSucceeds ==
  ASSUME TypeOK, Requests \/ \E i \in TaskIds : RunningLeaseEnds(i)
  PROVE  NoneSucceeds(tasks, tasks')
<1>0. tasks \in Table /\ NoneSucceeds(tasks, tasks)
  BY DEF TypeOK, Table, NoneSucceeds
<1>1. ASSUME NEW d \in Databases, Register(d) \/ Forget(d) PROVE NoneSucceeds(tasks, tasks')
  BY <1>0, <1>1, PruneNoneSucceeds DEF Register, Forget
<1>2. ASSUME NEW d \in Databases, CancelQueued(d) PROVE NoneSucceeds(tasks, tasks')
  <2>1. \A i \in TaskIds : finish(tasks[i], "cancelled").status = "cancelled"
    BY <1>0, FinishEffect DEF Table, Outcome
  <2>2. cancelQueued(tasks, d) \in Table /\ NoneSucceeds(tasks, cancelQueued(tasks, d))
    BY <1>0, <2>1, CancelQueuedEffect DEF NoneSucceeds
  <2> QED BY <1>0, <1>2, <2>2, PruneNoneSucceeds DEF CancelQueued
<1>3. ASSUME NEW d \in Databases \cup {Host}, NEW typ \in Types, NEW arg \in Args,
             NEW after \in TaskIds \cup {NoTaskId}, Enqueue(d, typ, arg, after)
      PROVE  NoneSucceeds(tasks, tasks')
  <2>1. /\ enqueue(tasks, d, typ, arg, after) \in Table
        /\ NoneSucceeds(tasks, enqueue(tasks, d, typ, arg, after))
    BY <1>0, EnqueueEffect, EnqueueStatus DEF NoneSucceeds
  <2> QED BY <1>0, <1>3, <2>1, PruneNoneSucceeds DEF Enqueue
<1>4. ASSUME NEW i \in TaskIds, CancelSafeCopy(i) PROVE NoneSucceeds(tasks, tasks')
  <2>1. "cancelled" \in Outcome \ {"succeeded"}
    BY DEF Outcome
  <2> QED BY <1>0, <1>4, <2>1, FinishNoneSucceeds, PruneNoneSucceeds DEF CancelSafeCopy
<1>5. CASE Tick
  <2>1. \A i \in TaskIds : finish(tasks[i], "lost").status = "lost"
    BY <1>0, FinishEffect DEF Table, Outcome
  <2>2. reap(tasks) \in Table /\ NoneSucceeds(tasks, reap(tasks))
    BY <1>0, <2>1, ReapEffect DEF NoneSucceeds
  <2> QED BY <1>0, <1>5, <2>2, PruneNoneSucceeds DEF Tick
<1>6. ASSUME NEW i \in TaskIds, LeaseEnds(i) PROVE NoneSucceeds(tasks, tasks')
  BY <1>0, <1>6 DEF LeaseEnds, NoneSucceeds, Table, TaskRec
<1> QED
  BY <1>1, <1>2, <1>3, <1>4, <1>5, <1>6 DEF Requests, RunningLeaseEnds

\* The tasks move on; everything else stays.
LEMMA TruthMoves ==
  ASSUME NEW r, NEW ts, NEW us, NEW dk, NEW sl \in [Slots -> SlotRec], \A s \in Slots : Working(sl[s]),
         Truth(r, ts, sl, dk), StaysClaimed(ts, us),
         \A i \in TaskIds : us[i].status = "succeeded" => r[i] = "succeeded"
  PROVE  Truth(r, us, sl, dk)
<1>1. \A i \in TaskIds : us[i].status \in Unclaimed => r[i] = "no"
  BY DEF Truth, StaysClaimed
<1>2. ASSUME NEW s \in Slots PROVE SlotTrue(sl[s], r, us)
  <2>1. SlotTrue(sl[s], r, ts)
    BY DEF Truth
  <2>2. sl[s].phase \in Begun => sl[s].task \in TaskIds
    BY DEF Working, Begun
  <2> QED BY <2>1, <2>2 DEF SlotTrue, StaysClaimed
<1> QED BY <1>1, <1>2 DEF Truth

\* One loop goes on, with a task it had if it has one.
LEMMA TruthSlot ==
  ASSUME NEW r, NEW ts, NEW dk, NEW sl \in [Slots -> SlotRec], NEW s \in Slots, NEW v,
         Truth(r, ts, sl, dk), SlotTrue(v, r, ts),
         v.phase \in Begun => sl[s].phase \in Begun /\ v.task = sl[s].task
  PROVE  Truth(r, ts, [sl EXCEPT ![s] = v], dk)
<1> DEFINE sm == [sl EXCEPT ![s] = v]
<1>1. \A t \in Slots : sm[t] = IF t = s THEN v ELSE sl[t]
  OBVIOUS
<1> HIDE DEF sm
<1>2. \A t \in Slots : SlotTrue(sm[t], r, ts)
  BY <1>1 DEF Truth
<1>3. OneLoopEach(sm)
  BY <1>1 DEF Truth, OneLoopEach
<1>4. Truth(r, ts, sm, dk)
  BY <1>2, <1>3 DEF Truth
<1> QED BY <1>4 DEF sm

\* A loop drops what it had, or takes up something that is over.
LEMMA TruthFresh ==
  ASSUME NEW r, NEW ts, NEW dk, NEW sl \in [Slots -> SlotRec], NEW s \in Slots, NEW v, NEW sm,
         Truth(r, ts, sl, dk), SlotTrue(v, r, ts), v.phase \notin Begun,
         sm = [sl EXCEPT ![s] = v]
  PROVE  Truth(r, ts, sm, dk)
<1>1. Truth(r, ts, [sl EXCEPT ![s] = v], dk)
  BY TruthSlot
<1> QED BY <1>1

LEMMA IdleTrue == ASSUME NEW r, NEW ts PROVE SlotTrue(IdleSlot, r, ts) /\ IdleSlot.phase \notin Begun
BY DEF SlotTrue, IdleSlot, Begun, Ended

LEMMA BootTrue ==
  ASSUME NEW r, NEW ts, NEW k \in DiskRec, DiskTrue(k, r)
  PROVE  SlotTrue(BootSlot(k), r, ts) /\ BootSlot(k).phase \notin Begun
<1>1. BootSlot(k).phase = "reporting" /\ BootSlot(k).task = k.task /\ BootSlot(k).outcome = BootOutcome(k)
  BY DEF BootSlot, IdleSlot
<1>2. BootOutcome(k) = "succeeded" => k.report = "succeeded"
  BY DEF BootOutcome
<1> QED BY <1>1, <1>2 DEF SlotTrue, DiskTrue, Begun, Ended

LEMMA TruthOpened ==
  ASSUME NEW sl \in [Slots -> SlotRec], SlotsOK, Truth(ran, tasks, sl, disk)
  PROVE  Truth(ran, tasks, Opened(sl), disk)
<1> DEFINE v == IF disk["files"].task = NoTaskId THEN IdleSlot ELSE BootSlot(disk["files"])
<1>1. disk["files"] \in DiskRec /\ DiskTrue(disk["files"], ran)
  BY DEF SlotsOK, Keepers, Truth
<1>2. SlotTrue(v, ran, tasks) /\ v.phase \notin Begun
  BY <1>1, IdleTrue, BootTrue
<1>3. Opened(sl) = [sl EXCEPT !["files"] = v] /\ "files" \in Slots
  BY DEF Opened, Slots, Loops
<1> HIDE DEF v
<1> DEFINE sm == Opened(sl)
<1>4. sm = [sl EXCEPT !["files"] = v]
  BY <1>3
<1> HIDE DEF sm
<1>5. Truth(ran, tasks, sm, disk)
  BY <1>2, <1>3, <1>4, TruthFresh
<1> QED BY <1>5 DEF sm

\* A report changes the table as Complete does, and only tells the truth.
LEMMA TruthDelivered ==
  ASSUME TypeOK, SlotsOK, TruthInv, NEW s \in Slots, Reporting(s), Deliver(s)
  PROVE  Truth(ran, tasks', slot, disk)
<1> DEFINE i == slot[s].task
           o == slot[s].outcome
<1>0. tasks \in Table
  BY DEF TypeOK, Table
<1>1. slot[s] \in SlotRec /\ i \in TaskIds /\ o \in Reported
  BY DEF SlotsOK, Reporting, Working, SlotRec
<1>2. slot \in [Slots -> SlotRec] /\ \A t \in Slots : Working(slot[t])
  BY DEF SlotsOK
<1>3. CASE Complete(i, o)
  <2>1. [Next]_vars
    BY <1>1, <1>3 DEF Next, Reported
  <2>2. StaysClaimed(tasks, tasks')
    BY <2>1, QueueStaysClaimed
  <2>3. \A j \in TaskIds : tasks'[j].status = "succeeded" => ran[j] = "succeeded"
    <3>1. CASE o = "failed"
      <4>1. "failed" \in Outcome \ {"succeeded"}
        BY DEF Outcome
      <4>2. NoneSucceeds(tasks, tasks')
        BY <1>0, <1>1, <1>3, <3>1, <4>1, FinishNoneSucceeds, PruneNoneSucceeds DEF Complete
      <4> QED BY <4>2 DEF NoneSucceeds, TruthInv, Truth
    <3>2. CASE o = "succeeded"
      <4> DEFINE b == [tasks EXCEPT ![i] = finish(@, o)]
      <4>1. ran[i] = "succeeded"
        BY <3>2 DEF TruthInv, Truth, SlotTrue, Reporting, Ended
      <4>2. finish(tasks[i], o) \in TaskRec
        BY <1>0, <1>1, <3>2, FinishEffect DEF Table, Outcome
      <4>3. b \in Table /\ \A j \in TaskIds : j # i => b[j] = tasks[j]
        BY <1>0, <4>2 DEF Table
      <4>4. tasks' = prune(b)
        BY <1>3 DEF Complete
      <4> HIDE DEF b
      <4>5. \A j \in TaskIds : tasks'[j].status = "succeeded" => b[j].status = "succeeded"
        BY <4>3, <4>4, PruneEffect DEF Forgotten, NoTask
      <4> QED BY <4>1, <4>3, <4>5 DEF TruthInv, Truth
    <3> QED BY <1>1, <3>1, <3>2 DEF Reported
  <2> QED BY <1>2, <2>2, <2>3, TruthMoves DEF TruthInv
<1>4. CASE UNCHANGED vars
  BY <1>4 DEF TruthInv, vars
<1> QED BY <1>3, <1>4 DEF Deliver

LEMMA TruthStep ==
  ASSUME TypeOK, SlotsOK, TruthInv, [ANext]_allVars
  PROVE  TruthInv'
<1> SUFFICES Truth(ran', tasks', slot', disk')
  BY DEF TruthInv, Truth, SlotTrue, DiskTrue, OneLoopEach
<1>a. slot \in [Slots -> SlotRec] /\ (\A s \in Slots : Working(slot[s])) /\ disk \in [Keepers -> DiskRec]
  BY DEF SlotsOK
<1>b. Truth(ran, tasks, slot, disk)
  BY DEF TruthInv
<1>c. [Next]_vars
  BY AgentStep
<1>d. StaysClaimed(tasks, tasks')
  BY <1>c, QueueStaysClaimed
<1>e. ASSUME NoneSucceeds(tasks, tasks') PROVE Truth(ran, tasks', slot, disk)
  <2>1. \A i \in TaskIds : tasks'[i].status = "succeeded" => ran[i] = "succeeded"
    BY <1>b, <1>e DEF NoneSucceeds, Truth
  <2> QED BY <1>a, <1>b, <1>d, <2>1, TruthMoves
<1>1. CASE Boot
  <2>1. disk["main"] \in DiskRec /\ DiskTrue(disk["main"], ran) /\ "main" \in Slots
    BY <1>a, <1>b DEF Keepers, Slots, Loops, Truth
  <2>2. tasks' = tasks /\ ran' = ran /\ disk' = disk
    BY <1>1 DEF Boot, vars
  <2>3. CASE disk["main"].task = NoTaskId
    BY <1>1, <1>a, <1>b, <2>2, <2>3, TruthOpened DEF Boot
  <2>4. CASE disk["main"].task # NoTaskId
    <3> DEFINE v == BootSlot(disk["main"])
    <3>1. SlotTrue(v, ran, tasks) /\ v.phase \notin Begun
      BY <2>1, BootTrue
    <3>2. slot' = [slot EXCEPT !["main"] = v]
      BY <1>1, <2>4 DEF Boot
    <3> HIDE DEF v
    <3>3. Truth(ran, tasks, slot', disk)
      BY <1>a, <1>b, <2>1, <3>1, <3>2, TruthFresh
    <3> QED BY <2>2, <3>3
  <2> QED BY <2>3, <2>4
<1>2. CASE Crash \/ Exit
  <2>1. tasks' = tasks /\ ran' = ran /\ disk' = disk /\ slot' = [s \in Slots |-> IdleSlot]
    BY <1>2 DEF Crash, Exit, Down, vars
  <2>2. \A s \in Slots : SlotTrue(slot'[s], ran, tasks) /\ slot'[s].phase \notin Begun
    BY <2>1, IdleTrue
  <2> QED BY <1>b, <2>1, <2>2 DEF Truth, OneLoopEach
<1>3. CASE Stop \/ RestartForUpdate \/ UNCHANGED allVars
  BY <1>3, <1>b DEF Stop, RestartForUpdate, vars, allVars
<1>4. ASSUME NEW l \in Loops, LoopClaims(l) PROVE Truth(ran', tasks', slot', disk')
  <2> DEFINE n == CHOOSE i \in HandedOut : TRUE
             got == [IdleSlot EXCEPT !.phase = "claimed", !.task = n]
             taken(s) == \E i \in HandedOut : RunsIn(l, tasks[i].type) = s
  <2>1. Truth(ran, tasks', slot, disk)
    BY <1>4, <1>e, ClaimNoneSucceeds DEF LoopClaims
  <2>2. \A i, j \in HandedOut : i = j
    BY <1>c, EveryStepLifecycle DEF LifecycleStep, NewlyRunning, HandedOut
  <2>3. slot' = [s \in Slots |-> IF taken(s) THEN got ELSE slot[s]] /\ ran' = ran /\ disk' = disk
    BY <1>4 DEF LoopClaims
  <2>4. ASSUME NEW s \in Slots, taken(s)
        PROVE  /\ n \in TaskIds /\ tasks[n].status \in Unclaimed /\ tasks'[n].status \notin Unclaimed
               /\ RunsIn(l, tasks[n].type) = s
    <3>1. PICK i \in HandedOut : RunsIn(l, tasks[i].type) = s
      BY <2>4
    <3>2. n \in HandedOut /\ n = i
      BY <3>1, <2>2
    <3> QED BY <3>1, <3>2 DEF HandedOut, Unclaimed
  <2>5. got.phase = "claimed" /\ got.task = n
    BY DEF IdleSlot
  <2> HIDE DEF n, got, taken
  <2>6. ASSUME NEW s \in Slots, taken(s) PROVE SlotTrue(got, ran, tasks')
    <3>1. ran[n] = "no"
      BY <1>b, <2>4, <2>6 DEF Truth
    <3> QED BY <2>4, <2>5, <2>6, <3>1 DEF SlotTrue, Ended
  <2>7. \A s \in Slots : SlotTrue(slot'[s], ran, tasks')
    BY <2>1, <2>3, <2>6 DEF Truth
  <2>8. ASSUME NEW s \in Slots, NEW t \in Slots, taken(s), ~taken(t), slot[t].phase \in Begun
        PROVE  slot[t].task # n
    <3>1. tasks[slot[t].task].status \notin Unclaimed
      BY <1>b, <2>8 DEF Truth, SlotTrue
    <3> QED BY <2>4, <2>8, <3>1
  <2>9. ASSUME NEW s \in Slots, NEW t \in Slots, taken(s), taken(t) PROVE s = t
    BY <2>4, <2>9
  <2>10. OneLoopEach(slot')
    <3> SUFFICES ASSUME NEW s \in Slots, NEW t \in Slots, s # t,
                        slot'[s].phase \in Begun, slot'[t].phase \in Begun
                 PROVE  slot'[s].task # slot'[t].task
      BY DEF OneLoopEach
    <3>1. CASE ~taken(s) /\ ~taken(t)
      BY <1>b, <2>3, <3>1 DEF Truth, OneLoopEach
    <3>2. CASE taken(s) /\ ~taken(t)
      BY <2>3, <2>5, <2>8, <3>2
    <3>3. CASE ~taken(s) /\ taken(t)
      BY <2>3, <2>5, <2>8, <3>3
    <3> QED BY <2>9, <3>1, <3>2, <3>3
  <2> QED BY <2>1, <2>3, <2>7, <2>10 DEF Truth
<1>5. ASSUME NEW l \in Loops, ClaimAnswerLost(l) PROVE Truth(ran', tasks', slot', disk')
  BY <1>5, <1>e, ClaimNoneSucceeds DEF ClaimAnswerLost
<1>6. ASSUME NEW s \in Slots, Starts(s) PROVE Truth(ran', tasks', slot', disk')
  <2> DEFINE i == slot[s].task
  <2>1. /\ slot[s] \in SlotRec /\ i \in TaskIds /\ slot[s].phase = "claimed"
        /\ ran[i] = "no" /\ tasks[i].status \notin Unclaimed
    BY <1>6, <1>a, <1>b DEF Starts, Working, Truth, SlotTrue, Begun
  <2>2. ran' = [ran EXCEPT ![i] = "started"] /\ tasks' = tasks
    BY <1>6 DEF Starts, vars
  <2>3. ran' \in [TaskIds -> Fates] /\ ran'[i] = "started" /\ \A j \in TaskIds : j # i => ran'[j] = ran[j]
    BY <1>b, <2>1, <2>2 DEF Truth, Fates
  <2>4. slot' = [slot EXCEPT ![s].phase = "running"]
    BY <1>6 DEF Starts
  <2>5. slot'[s].phase = "running" /\ slot'[s].task = i /\ \A t \in Slots : t # s => slot'[t] = slot[t]
    BY <1>a, <2>1, <2>4 DEF SlotRec
  <2> HIDE DEF i
  <2>6. ASSUME NEW t \in Slots PROVE SlotTrue(slot'[t], ran', tasks)
    <3>1. CASE t = s
      BY <2>1, <2>3, <2>5, <3>1 DEF SlotTrue, Begun, Ended
    <3>2. CASE t # s
      <4>1. SlotTrue(slot[t], ran, tasks) /\ Working(slot[t])
        BY <1>a, <1>b DEF Truth
      <4>2. slot[t].phase \in Begun => slot[t].task # i
        BY <1>b, <2>1, <3>2 DEF Truth, OneLoopEach, Begun, i
      <4> QED BY <2>1, <2>3, <2>5, <3>2, <4>1, <4>2 DEF SlotTrue, Working, Begun, Ended
    <3> QED BY <3>1, <3>2
  <2>7. OneLoopEach(slot')
    BY <1>b, <2>1, <2>5 DEF Truth, OneLoopEach, Begun, i
  <2>8. \A k \in Keepers : DiskTrue(disk'[k], ran')
    <3>1. \A k \in Keepers : disk'[k] = disk[k] \/ disk'[k].report = "none"
      BY <1>6, <1>a DEF Starts, Empty
    <3>2. \A k \in Keepers : DiskTrue(disk[k], ran)
      BY <1>b DEF Truth
    <3> QED BY <2>1, <2>3, <3>1, <3>2 DEF DiskTrue
  <2>9. \A j \in TaskIds : /\ tasks[j].status \in Unclaimed => ran'[j] = "no"
                           /\ tasks[j].status = "succeeded" => ran'[j] = "succeeded"
    BY <1>b, <2>1, <2>3 DEF Truth
  <2> QED BY <2>2, <2>3, <2>6, <2>7, <2>8, <2>9 DEF Truth
<1>7. ASSUME NEW s \in Slots, NEW o \in Reported, Ends(s, o) PROVE Truth(ran', tasks', slot', disk')
  <2> DEFINE i == slot[s].task
  <2>1. /\ slot[s] \in SlotRec /\ i \in TaskIds /\ slot[s].phase = "running"
        /\ ran[i] = "started" /\ tasks[i].status \notin Unclaimed
    BY <1>7, <1>a, <1>b DEF Ends, Working, Truth, SlotTrue, Begun
  <2>2. ran' = [ran EXCEPT ![i] = o] /\ tasks' = tasks /\ disk' = disk
    BY <1>7 DEF Ends, vars
  <2>3. ran' \in [TaskIds -> Fates] /\ ran'[i] = o /\ \A j \in TaskIds : j # i => ran'[j] = ran[j]
    BY <1>b, <2>1, <2>2 DEF Truth, Fates, Reported
  <2>4. slot' = [slot EXCEPT ![s].phase = "reporting", ![s].outcome = o]
    BY <1>7 DEF Ends
  <2>5. /\ slot'[s].phase = "reporting" /\ slot'[s].task = i /\ slot'[s].outcome = o
        /\ \A t \in Slots : t # s => slot'[t] = slot[t]
    BY <1>a, <2>1, <2>4 DEF SlotRec
  <2> HIDE DEF i
  <2>6. ASSUME NEW t \in Slots PROVE SlotTrue(slot'[t], ran', tasks)
    <3>1. CASE t = s
      BY <2>1, <2>3, <2>5, <3>1 DEF SlotTrue, Begun, Ended
    <3>2. CASE t # s
      <4>1. SlotTrue(slot[t], ran, tasks) /\ Working(slot[t])
        BY <1>a, <1>b DEF Truth
      <4>2. slot[t].phase \in Begun => slot[t].task # i
        BY <1>b, <2>1, <3>2 DEF Truth, OneLoopEach, Begun, i
      <4> QED BY <2>1, <2>3, <2>5, <3>2, <4>1, <4>2 DEF SlotTrue, Working, Begun, Ended
    <3> QED BY <3>1, <3>2
  <2>7. OneLoopEach(slot')
    BY <1>b, <2>5 DEF Truth, OneLoopEach, Begun
  <2>8. \A k \in Keepers : DiskTrue(disk[k], ran')
    BY <1>b, <2>1, <2>3 DEF Truth, DiskTrue
  <2>9. \A j \in TaskIds : /\ tasks[j].status \in Unclaimed => ran'[j] = "no"
                           /\ tasks[j].status = "succeeded" => ran'[j] = "succeeded"
    BY <1>b, <2>1, <2>3 DEF Truth
  <2> QED BY <2>2, <2>3, <2>6, <2>7, <2>8, <2>9 DEF Truth
<1>8. ASSUME NEW s \in Slots, Reporting(s), ran' = ran, disk' = disk,
             Deliver(s) \/ UNCHANGED vars,
             NEW v, slot' = [slot EXCEPT ![s] = v],
             v.phase \in Ended, v.task = slot[s].task,
             v.outcome = "succeeded" => slot[s].outcome = "succeeded"
      PROVE  Truth(ran', tasks', slot', disk')
  <2>1. Truth(ran, tasks', slot, disk)
    BY <1>8, <1>b, TruthDelivered DEF vars
  <2>2. SlotTrue(slot[s], ran, tasks')
    BY <2>1 DEF Truth
  <2>3. SlotTrue(v, ran, tasks') /\ v.phase \notin Begun
    BY <1>8, <2>2 DEF SlotTrue, Reporting, Begun, Ended
  <2> QED BY <1>8, <1>a, <2>1, <2>3, TruthSlot
<1>9. ASSUME NEW s \in Slots,
             \/ ReportAnswered(s) \/ ReportLost(s) \/ ReportAnswerLost(s)
             \/ (\E r \in BOOLEAN : ReportRefused(s, r)) \/ ReportRefusedAgain(s)
      PROVE  Truth(ran', tasks', slot', disk')
  <2>1. /\ Reporting(s) /\ ran' = ran /\ disk' = disk /\ (Deliver(s) \/ UNCHANGED vars)
        /\ slot[s].phase = "reporting" /\ slot[s] \in SlotRec
    BY <1>9, <1>a DEF ReportAnswered, ReportLost, ReportAnswerLost, ReportRefused, ReportRefusedAgain,
                      NoAnswer, Reporting, vars
  <2>2. CASE ReportAnswered(s) \/ ReportRefusedAgain(s)
    <3> DEFINE v == [slot[s] EXCEPT !.phase = "delivered"]
    <3>1. slot' = [slot EXCEPT ![s] = v]
      BY <1>a, <2>2 DEF ReportAnswered, ReportRefusedAgain
    <3>2. v.phase \in Ended /\ v.task = slot[s].task /\ v.outcome = slot[s].outcome
      BY <2>1 DEF SlotRec, Ended
    <3> HIDE DEF v
    <3> QED BY <1>8, <2>1, <3>1, <3>2
  <2>3. CASE ReportLost(s) \/ ReportAnswerLost(s)
    <3> DEFINE ph == IF proc = "stopping" \/ slot[s].attempts + 1 >= MaxAttempts
                     THEN "undelivered" ELSE slot[s].phase
               v == [slot[s] EXCEPT !.attempts = slot[s].attempts + 1, !.phase = ph]
    <3>1. slot' = [slot EXCEPT ![s] = v]
      BY <1>a, <2>3 DEF ReportLost, ReportAnswerLost, NoAnswer
    <3>2. ph \in Ended
      BY <2>1 DEF Ended
    <3> HIDE DEF ph
    <3>3. v.phase \in Ended /\ v.task = slot[s].task /\ v.outcome = slot[s].outcome
      BY <2>1, <3>2 DEF SlotRec
    <3> HIDE DEF v
    <3> QED BY <1>8, <2>1, <3>1, <3>3
  <2>4. ASSUME NEW r \in BOOLEAN, ReportRefused(s, r) PROVE Truth(ran', tasks', slot', disk')
    <3> DEFINE o == IF r THEN "failed" ELSE slot[s].outcome
               v == [slot[s] EXCEPT !.shrunk = TRUE, !.attempts = slot[s].attempts + 1, !.outcome = o]
    <3>1. slot' = [slot EXCEPT ![s] = v]
      BY <1>a, <2>4 DEF ReportRefused
    <3>2. o = "succeeded" => slot[s].outcome = "succeeded"
      OBVIOUS
    <3> HIDE DEF o
    <3>3. v.phase \in Ended /\ v.task = slot[s].task /\ v.outcome = o
      BY <2>1 DEF SlotRec, Ended
    <3> HIDE DEF v
    <3> QED BY <1>8, <2>1, <3>1, <3>2, <3>3
  <2> QED BY <1>9, <2>2, <2>3, <2>4
<1>10. ASSUME NEW s \in Slots, Returns(s) PROVE Truth(ran', tasks', slot', disk')
  <2> DEFINE idle == [slot EXCEPT ![s] = IdleSlot]
  <2>1. /\ slot[s] \in SlotRec /\ slot[s].task \in TaskIds /\ slot[s].phase \in Ended
        /\ ran' = ran /\ tasks' = tasks
    BY <1>10, <1>a DEF Returns, Working, Ended, vars
  <2>2. idle \in [Slots -> SlotRec] /\ Truth(ran, tasks, idle, disk)
    BY <1>a, <1>b, IdleOK, IdleTrue, TruthSlot
  <2>3. slot' = idle \/ slot' = Opened(idle)
    BY <1>10 DEF Returns
  <2> HIDE DEF idle
  <2>4. Truth(ran, tasks, slot', disk)
    BY <2>2, <2>3, TruthOpened
  <2>5. DiskTrue(Empty, ran)
    BY DEF DiskTrue, Empty
  <2>6. DiskTrue([task |-> slot[s].task, report |-> slot[s].outcome], ran)
    BY <1>b, <2>1 DEF DiskTrue, Truth, SlotTrue
  <2>7. s \in Keepers => DiskTrue(Kept(s), ran)
    BY <1>b, <2>5, <2>6 DEF Kept, Truth
  <2>8. \A k \in Keepers : DiskTrue(disk'[k], ran)
    BY <1>10, <1>a, <1>b, <2>7 DEF Returns, Truth
  <2> QED BY <2>1, <2>4, <2>8 DEF Truth
<1>11. CASE Requests \/ \E i \in TaskIds : RunningLeaseEnds(i)
  <2>1. ran' = ran /\ slot' = slot /\ disk' = disk
    BY <1>11 DEF Requests, RunningLeaseEnds, agentVars
  <2> QED BY <1>11, <1>e, <2>1, RequestNoneSucceeds
<1> QED
  BY <1>1, <1>2, <1>3, <1>4, <1>5, <1>6, <1>7, <1>9, <1>10, <1>11 DEF ANext, Reported

LEMMA TypeUnderAgent == ASpec => []TypeOK
<1>1. TypeOK /\ [Next]_vars => TypeOK'
  BY TypeStep
<1> QED BY <1>1, TypeInit, AgentUsesQueue, PTL DEF UsesQueue

LEMMA TruthAlways == ASpec => []TruthInv
<1>1. AInit => TruthInv
  BY IdleTrue DEF AInit, Init, NoTask, Empty, Fates, TruthInv, Truth, DiskTrue, OneLoopEach
<1>2. TypeOK /\ SlotsOK /\ TruthInv /\ [ANext]_allVars => TruthInv'
  BY TruthStep
<1> QED BY <1>1, <1>2, SlotsAlways, TypeUnderAgent, PTL DEF ASpec

(* A success the control plane has on record did happen on the server,     *)
(* whichever attempt and whichever process reported it (execute, report,   *)
(* reportInterrupted).                                                     *)
THEOREM AgentTruthful == ASpec => []TruthfulSuccess
<1>1. TruthInv => TruthfulSuccess
  BY DEF TruthInv, Truth, TruthfulSuccess
<1> QED BY <1>1, TruthAlways, PTL

(* No task is begun twice, however many claims and reports are lost and    *)
(* however often the agent restarts (claim, execute, reportInterrupted).   *)
THEOREM AgentBeginsOnce == ASpec => NeverBegunTwice
<1>1. TruthInv => [\A s \in Slots : slot[s].phase = "claimed" /\ slot'[s].phase = "running"
                                    => ran[slot[s].task] = "no"]_allVars
  BY DEF TruthInv, Truth, SlotTrue
<1> QED BY <1>1, TruthAlways, PTL DEF NeverBegunTwice

(***************************************************************************)
(* Two loops of the agent never execute tasks the control plane keeps      *)
(* apart.  LanesAlways says so of the tasks the control plane has as       *)
(* running; what is missing is that a task a loop executes is one of them. *)
(*                                                                         *)
(* HoldInv says that, and what it takes to stay so: the lease of an        *)
(* executed task has not ended, nobody else reports it (a report would     *)
(* close it under the loop), a process that starts executes nothing before *)
(* it has reported what it found on disk, and nothing in a loop or on disk *)
(* is a task that can still be handed out.                                 *)
(***************************************************************************)
Held(t) == t.status = "running" /\ t.overdue = FALSE

\* From table a to table b no held task is given up.
KeepsHeld(a, b) == \A i \in TaskIds : Held(a[i]) => Held(b[i])

\* Only a running task can be overdue.
LateRuns(ts) == \A i \in TaskIds : ts[i].status # "running" => ts[i].overdue = FALSE

ExecutedHeld(sl, ts) == \A s \in Slots : sl[s].phase \in Begun => Held(ts[sl[s].task])

OneHolder(sl) ==
  \A s, t \in Slots : (s # t /\ sl[s].phase \in Begun /\ sl[t].phase # "idle") => sl[s].task # sl[t].task

NotYet(p, sl) == p \in {"down", "booting"} => \A s \in Slots : sl[s].phase \notin Begun

ClaimedOnly(sl, dk, ts) ==
  /\ \A s \in Slots : sl[s].phase # "idle" => ts[sl[s].task].status \notin Unclaimed
  /\ \A k \in Keepers : dk[k].task # NoTaskId => ts[dk[k].task].status \notin Unclaimed

Hold(p, sl, dk, ts) ==
  LateRuns(ts) /\ ExecutedHeld(sl, ts) /\ OneHolder(sl) /\ NotYet(p, sl) /\ ClaimedOnly(sl, dk, ts)

HoldInv == Hold(proc, slot, disk, tasks)

(***************************************************************************)
(* What the queue's updates do to held tasks                               *)
(***************************************************************************)
LEMMA FinishInTime ==
  ASSUME NEW t \in TaskRec, NEW s \in Outcome
  PROVE  finish(t, s).status # "running" /\ finish(t, s).overdue = FALSE
BY DEF finish, TaskRec, Outcome

LEMMA PruneHeld ==
  ASSUME NEW a \in Table, NEW b \in Table, KeepsHeld(a, b), LateRuns(b)
  PROVE  KeepsHeld(a, prune(b)) /\ LateRuns(prune(b))
<1>1. Forgotten.overdue = FALSE
  BY DEF Forgotten, NoTask
<1>2. \A i \in TaskIds : \/ prune(b)[i] = b[i]
                         \/ b[i].status \in Outcome /\ prune(b)[i] = Forgotten
  BY PruneEffect
<1> QED BY <1>1, <1>2 DEF KeepsHeld, LateRuns, Held, Outcome

\* Queued tasks are finished, the others stay as they are.
LEMMA QueuedEnd ==
  ASSUME NEW a \in Table, NEW b \in Table, LateRuns(a), NEW o \in Outcome,
         \A i \in TaskIds : b[i] = a[i] \/ (a[i].status = "queued" /\ b[i] = finish(a[i], o))
  PROVE  KeepsHeld(a, b) /\ LateRuns(b)
<1>1. \A i \in TaskIds : finish(a[i], o).status # "running" /\ finish(a[i], o).overdue = FALSE
  BY FinishInTime DEF Table
<1> QED BY <1>1 DEF KeepsHeld, LateRuns, Held

LEMMA ClaimHeld ==
  ASSUME TypeOK, LateRuns(tasks), NEW types, Claim(types)
  PROVE  /\ KeepsHeld(tasks, tasks') /\ LateRuns(tasks')
         /\ \A i \in HandedOut : Held(tasks'[i])
<1> DEFINE c == CancelOrphans(tasks)
           out == claim(tasks, databases, types)
           ended(i) == finish(c[i], "cancelled")
           begun(i) == [c[i] EXCEPT !.status = "running"]
<1>0. tasks \in Table
  BY DEF TypeOK, Table
<1>1. c \in Table /\ KeepsHeld(tasks, c) /\ LateRuns(c)
  BY <1>0, CancelOrphansEffect, QueuedEnd DEF Outcome
<1>2. out \in Table
  BY <1>0, ClaimEffect
<1>3. \A i \in TaskIds : \/ out[i] = c[i]
                         \/ c[i].status = "queued" /\ out[i] \in {ended(i), begun(i)}
  <2>1. \A i \in TaskIds : Picked(c, databases, types, i) => c[i].status = "queued"
    BY PickedFree
  <2>2. \A i \in TaskIds : \/ out[i] = c[i]
                           \/ c[i].status = "queued" /\ out[i] = ended(i)
                           \/ Picked(c, databases, types, i) /\ out[i] = begun(i)
    BY <1>0, ClaimEffect
  <2> HIDE DEF c, out, ended, begun
  <2> QED BY <2>1, <2>2
<1>4. \A i \in TaskIds : ended(i).status # "running" /\ ended(i).overdue = FALSE
  BY <1>1, FinishInTime DEF Table, Outcome
<1>5. \A i \in TaskIds : begun(i).status = "running" /\ begun(i).overdue = c[i].overdue
  BY <1>1 DEF Table, TaskRec
<1>6. tasks' = prune(out)
  BY DEF Claim
<1> HIDE DEF c, out, ended, begun
<1>7. KeepsHeld(tasks, out) /\ LateRuns(out)
  BY <1>1, <1>3, <1>4, <1>5 DEF KeepsHeld, LateRuns, Held
<1>8. KeepsHeld(tasks, tasks') /\ LateRuns(tasks')
  BY <1>0, <1>2, <1>6, <1>7, PruneHeld
<1>9. ASSUME NEW i \in HandedOut PROVE Held(tasks'[i])
  <2>1. i \in TaskIds /\ tasks[i].status = "queued" /\ tasks'[i].status = "running"
    BY DEF HandedOut
  <2>2. tasks'[i] = out[i]
    BY <1>2, <1>6, <2>1, PruneEffect DEF Forgotten, NoTask
  <2>3. c[i].status # "running"
    <3>1. c[i] = tasks[i] \/ c[i] = finish(tasks[i], "cancelled")
      BY <1>0, <2>1, CancelOrphansEffect DEF c
    <3>2. finish(tasks[i], "cancelled").status # "running"
      BY <1>0, <2>1, FinishInTime DEF Table, Outcome
    <3> QED BY <2>1, <3>1, <3>2
  <2>4. c[i].overdue = FALSE
    BY <1>1, <2>1, <2>3 DEF LateRuns
  <2> QED BY <1>3, <1>4, <1>5, <2>1, <2>2, <2>3, <2>4 DEF Held
<1> QED BY <1>8, <1>9

LEMMA RequestHeld ==
  ASSUME TypeOK, LateRuns(tasks), Requests
  PROVE  KeepsHeld(tasks, tasks') /\ LateRuns(tasks')
<1>0. tasks \in Table /\ KeepsHeld(tasks, tasks)
  BY DEF TypeOK, Table, KeepsHeld
<1>1. ASSUME NEW d \in Databases, Register(d) \/ Forget(d)
      PROVE  KeepsHeld(tasks, tasks') /\ LateRuns(tasks')
  BY <1>0, <1>1, PruneHeld DEF Register, Forget
<1>2. ASSUME NEW d \in Databases, CancelQueued(d)
      PROVE  KeepsHeld(tasks, tasks') /\ LateRuns(tasks')
  <2> DEFINE b == cancelQueued(tasks, d)
  <2>1. b \in Table /\ KeepsHeld(tasks, b) /\ LateRuns(b)
    BY <1>0, CancelQueuedEffect, QueuedEnd DEF Outcome
  <2>2. tasks' = prune(b)
    BY <1>2 DEF CancelQueued
  <2> HIDE DEF b
  <2> QED BY <1>0, <2>1, <2>2, PruneHeld
<1>3. ASSUME NEW d \in Databases \cup {Host}, NEW typ \in Types, NEW arg \in Args,
             NEW after \in TaskIds \cup {NoTaskId}, Enqueue(d, typ, arg, after)
      PROVE  KeepsHeld(tasks, tasks') /\ LateRuns(tasks')
  <2> DEFINE b == enqueue(tasks, d, typ, arg, after)
             new == Queued(d, typ, arg, after)
  <2>1. b \in Table /\ \A i \in TaskIds : b[i] = tasks[i] \/ (IsNew(tasks, i) /\ b[i] = new)
    BY <1>0, EnqueueEffect
  <2>2. new.status = "queued" /\ new.overdue = FALSE
    BY DEF Queued
  <2>3. \A i \in TaskIds : IsNew(tasks, i) => tasks[i].status = "none"
    BY DEF IsNew
  <2>4. tasks' = prune(b)
    BY <1>3 DEF Enqueue
  <2> HIDE DEF b, new
  <2>5. KeepsHeld(tasks, b) /\ LateRuns(b)
    BY <2>1, <2>2, <2>3 DEF KeepsHeld, LateRuns, Held
  <2> QED BY <1>0, <2>1, <2>4, <2>5, PruneHeld
<1>4. ASSUME NEW i \in TaskIds, CancelSafeCopy(i)
      PROVE  KeepsHeld(tasks, tasks') /\ LateRuns(tasks')
  <2> DEFINE b == [tasks EXCEPT ![i] = finish(@, "cancelled")]
  <2>1. b \in Table
    BY <1>0, FinishEffect DEF Table, Outcome
  <2>2. \A j \in TaskIds : b[j] = tasks[j] \/ (tasks[j].status = "queued" /\ b[j] = finish(tasks[j], "cancelled"))
    BY <1>0, <1>4 DEF CancelSafeCopy, Table
  <2>3. tasks' = prune(b)
    BY <1>4 DEF CancelSafeCopy
  <2> HIDE DEF b
  <2>4. KeepsHeld(tasks, b) /\ LateRuns(b)
    BY <1>0, <2>1, <2>2, QueuedEnd DEF Outcome
  <2> QED BY <1>0, <2>1, <2>3, <2>4, PruneHeld
<1>5. CASE Tick
  <2> DEFINE b == reap(tasks)
  <2>1. b \in Table
    BY <1>0, ReapEffect
  <2>2. \A i \in TaskIds : b[i] = tasks[i] \/ (~Held(tasks[i]) /\ b[i] = finish(tasks[i], "lost"))
    BY DEF reap, Held
  <2>3. \A i \in TaskIds : finish(tasks[i], "lost").status # "running" /\ finish(tasks[i], "lost").overdue = FALSE
    BY <1>0, FinishInTime DEF Table, Outcome
  <2>4. tasks' = prune(b)
    BY <1>5 DEF Tick
  <2> HIDE DEF b
  <2>5. KeepsHeld(tasks, b) /\ LateRuns(b)
    BY <2>1, <2>2, <2>3 DEF KeepsHeld, LateRuns
  <2> QED BY <1>0, <2>1, <2>4, <2>5, PruneHeld
<1> QED BY <1>1, <1>2, <1>3, <1>4, <1>5 DEF Requests

\* A report closes its own task and no other.
LEMMA DeliverHeld ==
  ASSUME TypeOK, LateRuns(tasks), NEW i \in TaskIds, NEW o \in Reported, Complete(i, o)
  PROVE  /\ LateRuns(tasks')
         /\ \A j \in TaskIds : j # i /\ Held(tasks[j]) => Held(tasks'[j])
<1> DEFINE b == [tasks EXCEPT ![i] = finish(@, o)]
<1>0. tasks \in Table /\ o \in Outcome
  BY DEF TypeOK, Table, Reported, Outcome
<1>1. b \in Table
  BY <1>0, FinishEffect DEF Table
<1>2. b[i] = finish(tasks[i], o) /\ \A j \in TaskIds : j # i => b[j] = tasks[j]
  BY <1>0 DEF Table
<1>3. finish(tasks[i], o).status # "running" /\ finish(tasks[i], o).overdue = FALSE
  BY <1>0, FinishInTime DEF Table
<1>4. tasks' = prune(b)
  BY DEF Complete
<1> HIDE DEF b
<1>5. LateRuns(b)
  BY <1>2, <1>3 DEF LateRuns
<1>6. KeepsHeld(b, tasks') /\ LateRuns(tasks')
  BY <1>1, <1>4, <1>5, PruneHeld DEF KeepsHeld
<1> QED BY <1>2, <1>6 DEF KeepsHeld

(***************************************************************************)
(* How HoldInv is kept                                                     *)
(***************************************************************************)
\* The tasks move on; executed ones stay held.
LEMMA HoldMoves ==
  ASSUME NEW p, NEW ts, NEW us, NEW dk \in [Keepers -> DiskRec], NEW sl \in [Slots -> SlotRec],
         \A s \in Slots : Working(sl[s]), Hold(p, sl, dk, ts), StaysClaimed(ts, us), LateRuns(us),
         ExecutedHeld(sl, us)
  PROVE  Hold(p, sl, dk, us)
<1>1. \A s \in Slots : sl[s].phase # "idle" => us[sl[s].task].status \notin Unclaimed
  BY DEF Hold, ClaimedOnly, StaysClaimed, Working
<1>2. \A k \in Keepers : dk[k].task # NoTaskId => us[dk[k].task].status \notin Unclaimed
  BY DEF Hold, ClaimedOnly, StaysClaimed, DiskRec
<1> QED BY <1>1, <1>2 DEF Hold, ClaimedOnly

\* One loop goes on with the task it has, or drops it.
LEMMA HoldSlot ==
  ASSUME NEW p, NEW ts, NEW dk, NEW sl \in [Slots -> SlotRec], NEW s \in Slots, NEW v, NEW sm,
         Hold(p, sl, dk, ts), sm = [sl EXCEPT ![s] = v],
         v.phase \in Begun => sl[s].phase \in Begun,
         v.phase # "idle" => sl[s].phase # "idle" /\ v.task = sl[s].task
  PROVE  Hold(p, sm, dk, ts)
<1>1. \A t \in Slots : sm[t] = IF t = s THEN v ELSE sl[t]
  OBVIOUS
<1>2. \A t \in Slots : /\ sm[t].phase \in Begun => sl[t].phase \in Begun
                      /\ sm[t].phase # "idle" => sl[t].phase # "idle" /\ sm[t].task = sl[t].task
  BY <1>1
<1>3. \A t \in Slots : sm[t].phase \in Begun => sm[t].phase # "idle"
  BY DEF Begun
<1>4. ExecutedHeld(sm, ts) /\ NotYet(p, sm)
  BY <1>2, <1>3 DEF Hold, ExecutedHeld, NotYet
<1>5. OneHolder(sm)
  BY <1>2, <1>3 DEF Hold, OneHolder
<1>6. ClaimedOnly(sm, dk, ts)
  BY <1>2 DEF Hold, ClaimedOnly
<1> QED BY <1>4, <1>5, <1>6 DEF Hold

\* Nothing is executed.
LEMMA HoldCalm ==
  ASSUME NEW p, NEW ts, NEW dk, NEW sl, LateRuns(ts), ClaimedOnly(sl, dk, ts),
         \A s \in Slots : sl[s].phase \notin Begun
  PROVE  Hold(p, sl, dk, ts)
BY DEF Hold, ExecutedHeld, OneHolder, NotYet

LEMMA IdleHolds == IdleSlot.phase = "idle" /\ IdleSlot.phase \notin Begun
BY DEF IdleSlot, Begun

\* The loops start while nothing is executed.
LEMMA HoldOpened ==
  ASSUME SlotsOK, NEW sl \in [Slots -> SlotRec], LateRuns(tasks), ClaimedOnly(sl, disk, tasks),
         \A s \in Slots : sl[s].phase \notin Begun, NEW p
  PROVE  Hold(p, Opened(sl), disk, tasks)
<1> DEFINE k == disk["files"]
           v == IF k.task = NoTaskId THEN IdleSlot ELSE BootSlot(k)
           sm == Opened(sl)
<1>1. sm = [sl EXCEPT !["files"] = v] /\ "files" \in Slots
  BY DEF Opened, Slots, Loops
<1>2. k.task # NoTaskId => tasks[k.task].status \notin Unclaimed
  BY DEF ClaimedOnly, Keepers
<1>3. BootSlot(k).phase = "reporting" /\ BootSlot(k).task = k.task
  BY DEF BootSlot, IdleSlot
<1>4. v.phase \notin Begun /\ (v.phase # "idle" => tasks[v.task].status \notin Unclaimed)
  BY <1>2, <1>3, IdleHolds DEF Begun
<1> HIDE DEF k, v, sm
<1>5. \A s \in Slots : sm[s] = IF s = "files" THEN v ELSE sl[s]
  BY <1>1
<1>6. ClaimedOnly(sm, disk, tasks) /\ \A s \in Slots : sm[s].phase \notin Begun
  BY <1>4, <1>5 DEF ClaimedOnly
<1>7. Hold(p, sm, disk, tasks)
  BY <1>6, HoldCalm
<1> QED BY <1>7 DEF sm

LEMMA HoldStep ==
  ASSUME TypeOK, SlotsOK, HoldInv, [ANext]_allVars
  PROVE  HoldInv'
<1> SUFFICES Hold(proc', slot', disk', tasks')
  BY DEF HoldInv, Hold, LateRuns, ExecutedHeld, OneHolder, NotYet, ClaimedOnly, Held
<1>a. slot \in [Slots -> SlotRec] /\ (\A s \in Slots : Working(slot[s])) /\ disk \in [Keepers -> DiskRec]
  BY DEF SlotsOK
<1>b. Hold(proc, slot, disk, tasks)
  BY DEF HoldInv
<1>c. StaysClaimed(tasks, tasks') /\ [Next]_vars
  BY AgentStep, QueueStaysClaimed
<1>d. ASSUME KeepsHeld(tasks, tasks'), LateRuns(tasks') PROVE Hold(proc, slot, disk, tasks')
  <2>1. ExecutedHeld(slot, tasks')
    BY <1>a, <1>b, <1>d DEF Hold, ExecutedHeld, KeepsHeld, Working, Begun
  <2> QED BY <1>a, <1>b, <1>c, <1>d, <2>1, HoldMoves
<1>1. CASE Boot
  <2>1. tasks' = tasks /\ disk' = disk /\ proc = "down"
    BY <1>1 DEF Boot, vars
  <2>2. LateRuns(tasks) /\ ClaimedOnly(slot, disk, tasks) /\ \A s \in Slots : slot[s].phase \notin Begun
    BY <1>b, <2>1 DEF Hold, NotYet
  <2>3. CASE disk["main"].task = NoTaskId
    <3>1. slot' = Opened(slot)
      BY <1>1, <2>3 DEF Boot
    <3> QED BY <1>a, <2>1, <2>2, <3>1, HoldOpened
  <2>4. CASE disk["main"].task # NoTaskId
    <3> DEFINE v == BootSlot(disk["main"])
    <3>1. slot' = [slot EXCEPT !["main"] = v]
      BY <1>1, <2>4 DEF Boot
    <3>2. v.phase = "reporting" /\ v.task = disk["main"].task
      BY DEF BootSlot, IdleSlot
    <3>3. tasks[disk["main"].task].status \notin Unclaimed
      BY <2>2, <2>4 DEF ClaimedOnly, Keepers
    <3> HIDE DEF v
    <3>4. \A s \in Slots : slot'[s] = IF s = "main" THEN v ELSE slot[s]
      BY <1>a, <3>1
    <3>5. ClaimedOnly(slot', disk, tasks) /\ \A s \in Slots : slot'[s].phase \notin Begun
      BY <2>2, <3>2, <3>3, <3>4 DEF ClaimedOnly, Begun
    <3> QED BY <2>1, <2>2, <3>5, HoldCalm
  <2> QED BY <2>3, <2>4
<1>2. CASE Crash \/ Exit
  <2>1. tasks' = tasks /\ disk' = disk /\ slot' = [s \in Slots |-> IdleSlot]
    BY <1>2 DEF Crash, Exit, Down, vars
  <2>2. \A s \in Slots : slot'[s].phase = "idle" /\ slot'[s].phase \notin Begun
    BY <2>1, IdleHolds
  <2>3. ClaimedOnly(slot', disk, tasks) /\ LateRuns(tasks)
    BY <1>b, <2>2 DEF Hold, ClaimedOnly
  <2> QED BY <2>1, <2>2, <2>3, HoldCalm
<1>3. CASE Stop \/ RestartForUpdate
  <2>1. tasks' = tasks /\ disk' = disk /\ slot' = slot /\ proc' = "stopping"
    BY <1>3 DEF Stop, RestartForUpdate, vars
  <2> QED BY <1>b, <2>1 DEF Hold, NotYet
<1>4. ASSUME NEW l \in Loops, LoopClaims(l) PROVE Hold(proc', slot', disk', tasks')
  <2> DEFINE n == CHOOSE i \in HandedOut : TRUE
             got == [IdleSlot EXCEPT !.phase = "claimed", !.task = n]
             taken(s) == \E i \in HandedOut : RunsIn(l, tasks[i].type) = s
  <2>1. Claim(ClaimTypes(l)) /\ proc = "up" /\ proc' = "up" /\ disk' = disk
    BY <1>4 DEF LoopClaims
  <2>2. LateRuns(tasks)
    BY <1>b DEF Hold
  <2>3. /\ KeepsHeld(tasks, tasks') /\ LateRuns(tasks')
        /\ \A i \in HandedOut : Held(tasks'[i])
    BY <2>1, <2>2, ClaimHeld
  <2>4. Hold(proc, slot, disk, tasks')
    BY <1>d, <2>3
  <2>5. \A i, j \in HandedOut : i = j
    BY <1>c, EveryStepLifecycle DEF LifecycleStep, NewlyRunning, HandedOut
  <2>6. slot' = [s \in Slots |-> IF taken(s) THEN got ELSE slot[s]]
    BY <1>4 DEF LoopClaims
  <2>7. ASSUME NEW s \in Slots, taken(s)
        PROVE  /\ n \in TaskIds /\ tasks[n].status = "queued" /\ Held(tasks'[n])
               /\ RunsIn(l, tasks[n].type) = s
    <3>1. PICK i \in HandedOut : RunsIn(l, tasks[i].type) = s
      BY <2>7
    <3>2. n \in HandedOut /\ n = i
      BY <2>5, <3>1
    <3> QED BY <2>3, <3>1, <3>2 DEF HandedOut
  <2>8. got.phase = "claimed" /\ got.task = n
    BY DEF IdleSlot
  <2> HIDE DEF n, got, taken
  <2>9. \A s, t \in Slots : taken(s) /\ taken(t) => s = t
    BY <2>7
  <2>10. ASSUME NEW s \in Slots, NEW t \in Slots, taken(s), slot[t].phase # "idle"
         PROVE  slot[t].task # n
    <3>1. tasks[slot[t].task].status \notin Unclaimed
      BY <1>b, <2>10 DEF Hold, ClaimedOnly
    <3> QED BY <2>7, <2>10, <3>1 DEF Unclaimed
  <2>11. ExecutedHeld(slot', tasks')
    BY <2>4, <2>6, <2>7, <2>8 DEF Hold, ExecutedHeld
  <2>12. OneHolder(slot')
    <3> SUFFICES ASSUME NEW s \in Slots, NEW t \in Slots, s # t,
                        slot'[s].phase \in Begun, slot'[t].phase # "idle"
                 PROVE  slot'[s].task # slot'[t].task
      BY DEF OneHolder
    <3>1. CASE ~taken(s) /\ ~taken(t)
      BY <1>b, <2>6, <3>1 DEF Hold, OneHolder
    <3>2. CASE taken(s) /\ ~taken(t)
      BY <2>6, <2>8, <2>10, <3>2
    <3>3. CASE ~taken(s) /\ taken(t)
      <4>1. slot'[s] = slot[s] /\ slot'[t] = got /\ slot[s].phase # "idle"
        BY <2>6, <3>3 DEF Begun
      <4> QED BY <2>8, <2>10, <3>3, <4>1
    <3> QED BY <2>9, <3>1, <3>2, <3>3
  <2>13. ClaimedOnly(slot', disk, tasks')
    <3>1. \A s \in Slots : taken(s) => tasks'[n].status \notin Unclaimed
      BY <2>7 DEF Held, Unclaimed
    <3> QED BY <2>4, <2>6, <2>8, <3>1 DEF Hold, ClaimedOnly
  <2> QED BY <2>1, <2>3, <2>11, <2>12, <2>13 DEF Hold, NotYet
<1>5. ASSUME NEW l \in Loops, ClaimAnswerLost(l) PROVE Hold(proc', slot', disk', tasks')
  <2>1. Claim(ClaimTypes(l)) /\ proc' = proc /\ slot' = slot /\ disk' = disk /\ LateRuns(tasks)
    BY <1>5, <1>b DEF ClaimAnswerLost, Hold
  <2> QED BY <1>d, <2>1, ClaimHeld
<1>6. ASSUME NEW s \in Slots, Starts(s) PROVE Hold(proc', slot', disk', tasks')
  <2> DEFINE v == [slot[s] EXCEPT !.phase = "running"]
  <2>1. slot[s] \in SlotRec /\ slot[s].task \in TaskIds /\ slot[s].phase = "claimed"
    BY <1>6, <1>a DEF Starts, Working
  <2>2. slot' = [slot EXCEPT ![s] = v] /\ tasks' = tasks /\ proc' = proc
    BY <1>6, <1>a DEF Starts, vars
  <2>3. v.phase = "running" /\ v.task = slot[s].task
    BY <2>1 DEF SlotRec
  <2> HIDE DEF v
  <2>4. Hold(proc, slot', disk, tasks)
    BY <1>a, <1>b, <2>1, <2>2, <2>3, HoldSlot DEF Begun
  <2>5. tasks[slot[s].task].status \notin Unclaimed
    BY <1>b, <2>1 DEF Hold, ClaimedOnly
  <2>6. \A k \in Keepers : disk'[k] = disk[k] \/ disk'[k].task = slot[s].task
    BY <1>6, <1>a DEF Starts, Empty
  <2> QED BY <2>2, <2>4, <2>5, <2>6 DEF Hold, ClaimedOnly
<1>7. ASSUME NEW s \in Slots, NEW o \in Reported, Ends(s, o) PROVE Hold(proc', slot', disk', tasks')
  <2> DEFINE v == [slot[s] EXCEPT !.phase = "reporting", !.outcome = o]
  <2>1. slot[s] \in SlotRec /\ slot[s].phase = "running"
    BY <1>7, <1>a DEF Ends
  <2>2. slot' = [slot EXCEPT ![s] = v] /\ tasks' = tasks /\ proc' = proc /\ disk' = disk
    BY <1>7, <1>a DEF Ends, vars
  <2>3. v.phase = "reporting" /\ v.task = slot[s].task
    BY <2>1 DEF SlotRec
  <2> HIDE DEF v
  <2> QED BY <1>a, <1>b, <2>1, <2>2, <2>3, HoldSlot DEF Begun
<1>8. ASSUME NEW s \in Slots, Reporting(s), proc' = proc, disk' = disk, Deliver(s) \/ UNCHANGED vars,
             NEW v, slot' = [slot EXCEPT ![s] = v],
             v.phase \notin Begun, v.task = slot[s].task
      PROVE  Hold(proc', slot', disk', tasks')
  <2>0. slot[s] \in SlotRec /\ slot[s].task \in TaskIds /\ slot[s].phase = "reporting"
    BY <1>8, <1>a DEF Reporting, Working
  <2>1. Hold(proc, slot, disk, tasks')
    <3>1. CASE UNCHANGED vars
      BY <1>b, <3>1 DEF vars
    <3>2. CASE Complete(slot[s].task, slot[s].outcome)
      <4>1. slot[s].outcome \in Reported /\ LateRuns(tasks)
        BY <1>b, <2>0 DEF SlotRec, Hold
      <4>2. /\ LateRuns(tasks')
            /\ \A j \in TaskIds : j # slot[s].task /\ Held(tasks[j]) => Held(tasks'[j])
        BY <2>0, <3>2, <4>1, DeliverHeld
      <4>3. ASSUME NEW t \in Slots, slot[t].phase \in Begun PROVE Held(tasks'[slot[t].task])
        <5>1. slot[t].task # slot[s].task
          BY <1>b, <2>0, <4>3 DEF Hold, OneHolder, Begun
        <5>2. slot[t].task \in TaskIds /\ Held(tasks[slot[t].task])
          BY <1>a, <1>b, <4>3 DEF Hold, ExecutedHeld, Working, Begun
        <5> QED BY <4>2, <5>1, <5>2
      <4>4. ExecutedHeld(slot, tasks')
        BY <4>3 DEF ExecutedHeld
      <4> QED BY <1>a, <1>b, <1>c, <4>2, <4>4, HoldMoves
    <3> QED BY <1>8, <3>1, <3>2 DEF Deliver
  <2> QED BY <1>8, <1>a, <2>0, <2>1, HoldSlot
<1>9. ASSUME NEW s \in Slots,
             \/ ReportAnswered(s) \/ ReportLost(s) \/ ReportAnswerLost(s)
             \/ (\E r \in BOOLEAN : ReportRefused(s, r)) \/ ReportRefusedAgain(s)
      PROVE  Hold(proc', slot', disk', tasks')
  <2>1. /\ Reporting(s) /\ proc' = proc /\ disk' = disk /\ (Deliver(s) \/ UNCHANGED vars)
        /\ slot[s].phase = "reporting" /\ slot[s] \in SlotRec
    BY <1>9, <1>a DEF ReportAnswered, ReportLost, ReportAnswerLost, ReportRefused, ReportRefusedAgain,
                      NoAnswer, Reporting, vars
  <2>2. CASE ReportAnswered(s) \/ ReportRefusedAgain(s)
    <3> DEFINE v == [slot[s] EXCEPT !.phase = "delivered"]
    <3>1. slot' = [slot EXCEPT ![s] = v]
      BY <1>a, <2>2 DEF ReportAnswered, ReportRefusedAgain
    <3>2. v.phase \notin Begun /\ v.task = slot[s].task
      BY <2>1 DEF SlotRec, Begun
    <3> HIDE DEF v
    <3> QED BY <1>8, <2>1, <3>1, <3>2
  <2>3. CASE ReportLost(s) \/ ReportAnswerLost(s)
    <3> DEFINE ph == IF proc = "stopping" \/ slot[s].attempts + 1 >= MaxAttempts
                     THEN "undelivered" ELSE slot[s].phase
               v == [slot[s] EXCEPT !.attempts = slot[s].attempts + 1, !.phase = ph]
    <3>1. slot' = [slot EXCEPT ![s] = v]
      BY <1>a, <2>3 DEF ReportLost, ReportAnswerLost, NoAnswer
    <3>2. ph \notin Begun
      BY <2>1 DEF Begun
    <3> HIDE DEF ph
    <3>3. v.phase \notin Begun /\ v.task = slot[s].task
      BY <2>1, <3>2 DEF SlotRec
    <3> HIDE DEF v
    <3> QED BY <1>8, <2>1, <3>1, <3>3
  <2>4. ASSUME NEW r \in BOOLEAN, ReportRefused(s, r) PROVE Hold(proc', slot', disk', tasks')
    <3> DEFINE o == IF r THEN "failed" ELSE slot[s].outcome
               v == [slot[s] EXCEPT !.shrunk = TRUE, !.attempts = slot[s].attempts + 1, !.outcome = o]
    <3>1. slot' = [slot EXCEPT ![s] = v]
      BY <1>a, <2>4 DEF ReportRefused
    <3> HIDE DEF o
    <3>2. v.phase \notin Begun /\ v.task = slot[s].task
      BY <2>1 DEF SlotRec, Begun
    <3> HIDE DEF v
    <3> QED BY <1>8, <2>1, <3>1, <3>2
  <2> QED BY <1>9, <2>2, <2>3, <2>4
<1>10. ASSUME NEW s \in Slots, Returns(s) PROVE Hold(proc', slot', disk', tasks')
  <2> DEFINE idle == [slot EXCEPT ![s] = IdleSlot]
  <2>1. /\ slot[s] \in SlotRec /\ slot[s].task \in TaskIds
        /\ slot[s].phase \in {"delivered", "undelivered"} /\ tasks' = tasks
    BY <1>10, <1>a DEF Returns, Working, vars
  <2>2. idle \in [Slots -> SlotRec] /\ Hold(proc, idle, disk, tasks)
    BY <1>a, <1>b, IdleOK, IdleHolds, HoldSlot
  <2>3. \/ proc = "booting" /\ slot' = Opened(idle)
        \/ proc' = proc /\ slot' = idle
    BY <1>10 DEF Returns
  <2> HIDE DEF idle
  <2>4. Hold(proc', slot', disk, tasks)
    <3>1. CASE proc = "booting" /\ slot' = Opened(idle)
      <4>1. /\ LateRuns(tasks) /\ ClaimedOnly(idle, disk, tasks)
            /\ \A t \in Slots : idle[t].phase \notin Begun
        BY <2>2, <3>1 DEF Hold, NotYet
      <4> QED BY <2>2, <3>1, <4>1, HoldOpened
    <3> QED BY <2>2, <2>3, <3>1
  <2>5. tasks[slot[s].task].status \notin Unclaimed
    BY <1>b, <2>1 DEF Hold, ClaimedOnly
  <2>6. s \in Keepers => Kept(s) = disk[s] \/ Kept(s).task \in {NoTaskId, slot[s].task}
    BY DEF Kept, Empty
  <2>7. \A k \in Keepers : disk'[k] = disk[k] \/ disk'[k].task \in {NoTaskId, slot[s].task}
    BY <1>10, <1>a, <2>6 DEF Returns
  <2> QED BY <2>1, <2>4, <2>5, <2>7 DEF Hold, ClaimedOnly
<1>11. ASSUME NEW i \in TaskIds, RunningLeaseEnds(i) PROVE Hold(proc', slot', disk', tasks')
  <2>0. tasks \in Table /\ LateRuns(tasks)
    BY <1>b DEF TypeOK, Table, Hold
  <2>1. proc' = proc /\ slot' = slot /\ disk' = disk /\ tasks[i].status = "running"
    BY <1>11 DEF RunningLeaseEnds, LeaseEnds, agentVars
  <2>2. tasks'[i].status = "running" /\ \A j \in TaskIds : j # i => tasks'[j] = tasks[j]
    BY <1>11, <2>0, <2>1 DEF RunningLeaseEnds, LeaseEnds, Table, TaskRec
  <2>3. LateRuns(tasks')
    BY <2>0, <2>2 DEF LateRuns
  <2>4. ASSUME NEW s \in Slots, slot[s].phase \in Begun PROVE Held(tasks'[slot[s].task])
    <3>1. slot[s].task \in TaskIds /\ Held(tasks[slot[s].task])
      BY <1>a, <1>b, <2>4 DEF Hold, ExecutedHeld, Working, Begun
    <3>2. slot[s].task # i
      BY <1>11, <2>4 DEF RunningLeaseEnds, Executing, Begun
    <3> QED BY <2>2, <3>1, <3>2
  <2>5. ExecutedHeld(slot, tasks')
    BY <2>4 DEF ExecutedHeld
  <2>6. Hold(proc, slot, disk, tasks')
    BY <1>a, <1>b, <1>c, <2>3, <2>5, HoldMoves
  <2> QED BY <2>1, <2>6
<1>12. CASE Requests
  <2>1. proc' = proc /\ slot' = slot /\ disk' = disk /\ LateRuns(tasks)
    BY <1>12, <1>b DEF Requests, agentVars, Hold
  <2> QED BY <1>12, <1>d, <2>1, RequestHeld
<1>13. CASE UNCHANGED allVars
  BY <1>13, <1>b DEF allVars
<1> QED
  BY <1>1, <1>2, <1>3, <1>4, <1>5, <1>6, <1>7, <1>9, <1>10, <1>11, <1>12, <1>13 DEF ANext, Reported

LEMMA HoldAlways == ASpec => []HoldInv
<1>1. AInit => HoldInv
  <2> SUFFICES ASSUME AInit PROVE HoldInv
    OBVIOUS
  <2>1. /\ \A i \in TaskIds : tasks[i] = NoTask
        /\ \A s \in Slots : slot[s] = IdleSlot
        /\ \A k \in Keepers : disk[k].task = NoTaskId
    BY DEF AInit, Init, Empty
  <2>2. LateRuns(tasks)
    BY <2>1 DEF LateRuns, NoTask
  <2>3. ClaimedOnly(slot, disk, tasks) /\ \A s \in Slots : slot[s].phase \notin Begun
    BY <2>1, IdleHolds DEF ClaimedOnly
  <2> QED BY <2>2, <2>3, HoldCalm DEF HoldInv
<1>2. TypeOK /\ SlotsOK /\ HoldInv /\ [ANext]_allVars => HoldInv'
  BY HoldStep
<1> QED BY <1>1, <1>2, SlotsAlways, TypeUnderAgent, PTL DEF ASpec

(* Two loops never work on one database in ways the control plane keeps    *)
(* apart: not two tasks of a lane, and no health fix beside a task that    *)
(* stops PostgreSQL, whatever is lost and however often the agent restarts *)
(* (claim, execute, reportInterrupted; the lease outlasts TaskTimeout).    *)
THEOREM AgentExecutesApart == ASpec => []ExecutedApart
<1>1. SlotsOK /\ HoldInv /\ OnePerLane /\ NoFixBesideStop => ExecutedApart
  <2> SUFFICES ASSUME SlotsOK, HoldInv, OnePerLane, NoFixBesideStop,
                      NEW s \in Slots, NEW t \in Slots, NEW i \in TaskIds, NEW j \in TaskIds,
                      s # t, Executing(s, i), Executing(t, j), tasks[i].db = tasks[j].db
               PROVE  /\ lane(tasks[i].type) # lane(tasks[j].type)
                      /\ tasks[i].type \in stopsPostgres => lane(tasks[j].type) # "maintenance"
    BY DEF ExecutedApart
  <2>1. slot[s].phase \in Begun /\ slot[t].phase \in Begun /\ slot[s].task = i /\ slot[t].task = j
    BY DEF Executing, Begun
  <2>2. i # j
    BY <2>1 DEF HoldInv, Hold, OneHolder, Begun
  <2>3. Running(i) /\ Running(j)
    BY <2>1 DEF HoldInv, Hold, ExecutedHeld, Held, Running
  <2> QED BY <2>2, <2>3 DEF OnePerLane, NoFixBesideStop
<1> QED BY <1>1, HoldAlways, SlotsAlways, AgentKeepsLanes, PTL

(***************************************************************************)
(* What the main loop keeps on disk stays until the control plane has      *)
(* closed that task, as long as the faults don't use up the attempts of a  *)
(* report (FewFaults); AgentTasks_overwrite.cfg shows that it may be lost  *)
(* once they do.                                                           *)
(*                                                                         *)
(* Besides the counts, KeptInv says who looks after a task that is kept    *)
(* and still running: the main loop that works on it, or, once that gave   *)
(* up (which it does only in a process that stops), the next process.      *)
(***************************************************************************)
FewFaults == MaxLosses + MaxRefusals < MaxAttempts /\ MaxRefusals <= 1

Tallied(m, l, r) ==
  /\ l \in Nat /\ r \in Nat /\ l <= MaxLosses /\ r <= MaxRefusals
  /\ m.attempts <= l + r
  /\ m.shrunk => r > 0

GivesUpStopping(p, m) == m.phase = "undelivered" => p = "stopping"

Open(k, ts) == k # NoTaskId /\ ts[k].status = "running"

Attended(p, m, k, ts) ==
  Open(k, ts) => \/ m.phase \in {"running", "reporting", "undelivered"} /\ m.task = k
                 \/ m.phase = "idle" /\ p \in {"down", "stopping"}

KeptInv ==
  /\ Tallied(slot["main"], losses, refusals) /\ GivesUpStopping(proc, slot["main"])
  /\ Attended(proc, slot["main"], disk["main"].task, tasks)

\* No step of the queue makes a task on disk running that was not.
LEMMA OpenBefore ==
  ASSUME TypeOK, SlotsOK, HoldInv, [Next]_vars, NEW k, k = disk["main"].task, Open(k, tasks')
  PROVE  Open(k, tasks)
<1>1. k \in TaskIds /\ tasks[k].status \notin Unclaimed
  BY DEF Open, SlotsOK, DiskRec, Keepers, HoldInv, Hold, ClaimedOnly
<1>2. Moved(tasks[k].status, tasks'[k].status)
  BY <1>1, EveryStepLifecycle DEF LifecycleStep
<1>3. tasks[k].status \in {"running", "succeeded", "failed", "lost", "cancelled", "forgotten"}
  BY <1>1 DEF TypeOK, TaskRec, TaskStatus, Outcome, Unclaimed
<1> QED BY <1>2, <1>3 DEF Moved, Lifecycle!Moves, Open

\* A report that arrives leaves its task closed.
LEMMA DeliverCloses ==
  ASSUME TypeOK, SlotsOK, NEW s \in Slots, Reporting(s), Deliver(s)
  PROVE  tasks'[slot[s].task].status # "running"
<1> DEFINE i == slot[s].task
           o == slot[s].outcome
           b == [tasks EXCEPT ![i] = finish(@, o)]
<1>1. i \in TaskIds /\ o \in Outcome /\ tasks \in Table
  BY DEF SlotsOK, Reporting, Working, SlotRec, Reported, Outcome, TypeOK, Table
<1>2. CASE tasks[i].status # "running"
  BY <1>2 DEF Deliver, vars
<1>3. CASE tasks[i].status = "running"
  <2>1. tasks' = prune(b)
    BY <1>3 DEF Deliver, Complete
  <2>2. b \in Table /\ b[i].status # "running"
    BY <1>1, FinishEffect, FinishInTime DEF Table
  <2> HIDE DEF b
  <2> QED BY <1>1, <2>1, <2>2, PruneEffect DEF Forgotten, NoTask
<1> QED BY <1>2, <1>3

\* Every step keeps KeptInv, and none takes a task off the disk that is
\* still running: only Starts and Returns of the main loop write there.
LEMMA KeptStep ==
  ASSUME FewFaults, TypeOK, SlotsOK, HoldInv, KeptInv, [ANext]_allVars
  PROVE  /\ KeptInv'
         /\ disk'["main"].task = disk["main"].task \/ ~Open(disk["main"].task, tasks)
<1> DEFINE m == slot["main"]
           k == disk["main"].task
           n == slot'["main"]
           kk == disk'["main"].task
           Good == /\ Tallied(n, losses', refusals') /\ GivesUpStopping(proc', n)
                   /\ Attended(proc', n, kk, tasks')
                   /\ kk = k \/ ~Open(k, tasks)
<1> SUFFICES Good
  BY DEF KeptInv, Tallied, GivesUpStopping, Attended, Open
<1>a. /\ slot \in [Slots -> SlotRec] /\ m \in SlotRec /\ (\A s \in Slots : Working(slot[s]))
      /\ disk \in [Keepers -> DiskRec] /\ "main" \in Slots /\ "main" \in Keepers
  BY DEF SlotsOK, Slots, Loops, Keepers
<1>b. Tallied(m, losses, refusals) /\ GivesUpStopping(proc, m) /\ Attended(proc, m, k, tasks)
  BY DEF KeptInv
<1>c. [Next]_vars /\ (Open(k, tasks') => Open(k, tasks))
  BY AgentStep, OpenBefore
<1>i. IdleSlot.phase = "idle" /\ IdleSlot.attempts = 0 /\ IdleSlot.shrunk = FALSE
  BY DEF IdleSlot
<1>same. ASSUME UNCHANGED <<proc, losses, refusals>>, n = m, kk = k PROVE Good
  BY <1>b, <1>c, <1>same DEF Attended
<1>down. ASSUME Down, UNCHANGED <<losses, refusals>>, kk = k PROVE Good
  <2>1. n = IdleSlot /\ proc' = "down"
    BY <1>a, <1>down DEF Down
  <2> QED BY <1>b, <1>down, <1>i, <2>1 DEF Tallied, GivesUpStopping, Attended
<1>1. CASE Boot
  <2>1. UNCHANGED <<disk, tasks, losses, refusals>>
    BY <1>1 DEF Boot, vars
  <2>2. CASE k = NoTaskId
    <3>1. n = m /\ proc' = "up" /\ proc = "down"
      BY <1>1, <1>a, <2>2 DEF Boot, Opened
    <3> QED BY <1>b, <2>1, <2>2, <3>1 DEF GivesUpStopping, Attended, Open
  <2>3. CASE k # NoTaskId
    <3>1. n = BootSlot(disk["main"])
      BY <1>1, <1>a, <2>3 DEF Boot
    <3>2. n.phase = "reporting" /\ n.task = k /\ n.attempts = 0 /\ n.shrunk = FALSE
      BY <3>1 DEF BootSlot, IdleSlot
    <3> QED BY <1>b, <2>1, <3>2 DEF Tallied, GivesUpStopping, Attended
  <2> QED BY <2>2, <2>3
<1>2. CASE Crash \/ Exit
  BY <1>2, <1>down DEF Crash, Exit
<1>3. CASE Stop \/ RestartForUpdate
  <2>1. UNCHANGED <<slot, disk, tasks, losses, refusals>> /\ proc' = "stopping"
    BY <1>3 DEF Stop, RestartForUpdate, vars
  <2> QED BY <1>b, <2>1 DEF GivesUpStopping, Attended
<1>4. ASSUME NEW l \in Loops, LoopClaims(l) PROVE Good
  <2>1. UNCHANGED <<proc, disk, losses, refusals>> /\ proc = "up" /\ slot[l].phase = "idle"
    BY <1>4 DEF LoopClaims, Idle
  <2>2. CASE n = m
    BY <1>same, <2>1, <2>2
  <2>3. CASE n # m
    <3>1. n = [IdleSlot EXCEPT !.phase = "claimed", !.task = CHOOSE i \in HandedOut : TRUE]
          /\ \E i \in HandedOut : RunsIn(l, tasks[i].type) = "main"
      BY <1>4, <1>a, <2>3 DEF LoopClaims
    <3>2. l = "main"
      BY <3>1 DEF RunsIn
    <3>3. ~Open(k, tasks)
      BY <1>b, <2>1, <3>2 DEF Attended
    <3>4. n.phase = "claimed" /\ n.attempts = 0 /\ n.shrunk = FALSE
      BY <3>1 DEF IdleSlot
    <3> QED BY <1>b, <1>c, <2>1, <3>3, <3>4 DEF Tallied, GivesUpStopping, Attended
  <2> QED BY <2>2, <2>3
<1>5. ASSUME NEW l \in Loops, ClaimAnswerLost(l) PROVE Good
  <2>1. UNCHANGED <<proc, slot, disk, refusals>> /\ losses < MaxLosses /\ losses' = losses + 1
    BY <1>5 DEF ClaimAnswerLost
  <2> QED BY <1>a, <1>b, <1>c, <2>1, AgentBoundsAssumption DEF Tallied, Attended, SlotRec
<1>6. ASSUME NEW s \in Slots, s # "main",
             \/ Starts(s) \/ (\E o \in Reported : Ends(s, o)) \/ ReportAnswered(s) \/ ReportLost(s)
             \/ ReportAnswerLost(s) \/ (\E r \in BOOLEAN : ReportRefused(s, r)) \/ ReportRefusedAgain(s)
      PROVE Good
  <2>1. proc' = proc /\ n = m
    BY <1>6, <1>a DEF Starts, Ends, ReportAnswered, ReportLost, ReportAnswerLost, ReportRefused,
                      ReportRefusedAgain, NoAnswer
  <2>2. kk = k
    BY <1>6, <1>a DEF Starts, Ends, ReportAnswered, ReportLost, ReportAnswerLost, ReportRefused,
                      ReportRefusedAgain, NoAnswer
  <2>3. \/ UNCHANGED <<losses, refusals>>
        \/ losses < MaxLosses /\ losses' = losses + 1 /\ refusals' = refusals
        \/ refusals < MaxRefusals /\ refusals' = refusals + 1 /\ losses' = losses
    BY <1>6 DEF Starts, Ends, ReportAnswered, ReportLost, ReportAnswerLost, ReportRefused,
                ReportRefusedAgain, NoAnswer
  <2>4. Tallied(m, losses', refusals')
    BY <1>a, <1>b, <2>3, AgentBoundsAssumption DEF Tallied, SlotRec
  <2> QED BY <1>b, <1>c, <2>1, <2>2, <2>4 DEF Attended
<1>7. CASE Starts("main")
  <2>1. UNCHANGED <<proc, tasks, losses, refusals>> /\ m.phase = "claimed"
    BY <1>7 DEF Starts, vars
  <2>2. n = [m EXCEPT !.phase = "running"]
    BY <1>7, <1>a DEF Starts
  <2>3. n.phase = "running" /\ n.task = m.task /\ n.attempts = m.attempts /\ n.shrunk = m.shrunk
    BY <1>a, <2>2 DEF SlotRec
  <2>4. kk \in {k, m.task}
    BY <1>7, <1>a DEF Starts, Empty
  <2>5. ~Open(k, tasks)
    BY <1>b, <2>1 DEF Attended
  <2> QED BY <1>b, <2>1, <2>3, <2>4, <2>5 DEF Tallied, GivesUpStopping, Attended
<1>8. ASSUME NEW o \in Reported, Ends("main", o) PROVE Good
  <2>1. UNCHANGED <<proc, tasks, disk, losses, refusals>> /\ m.phase = "running"
    BY <1>8 DEF Ends, vars
  <2>2. n = [m EXCEPT !.phase = "reporting", !.outcome = o]
    BY <1>8, <1>a DEF Ends
  <2>3. n.phase = "reporting" /\ n.task = m.task /\ n.attempts = m.attempts /\ n.shrunk = m.shrunk
    BY <1>a, <2>2 DEF SlotRec
  <2> QED BY <1>b, <2>1, <2>3 DEF Tallied, GivesUpStopping, Attended
<1>9. CASE ReportAnswered("main")
  <2>1. UNCHANGED <<proc, disk, losses, refusals>> /\ m.phase = "reporting"
    BY <1>9 DEF ReportAnswered, Reporting
  <2>2. n = [m EXCEPT !.phase = "delivered"]
    BY <1>9, <1>a DEF ReportAnswered
  <2>3. n.phase = "delivered" /\ n.attempts = m.attempts /\ n.shrunk = m.shrunk
    BY <1>a, <2>2 DEF SlotRec
  <2>4. tasks'[m.task].status # "running"
    BY <1>9, <1>a, DeliverCloses DEF ReportAnswered
  <2>5. ~Open(k, tasks')
    BY <1>b, <1>c, <2>1, <2>4 DEF Attended, Open
  <2> QED BY <1>b, <2>1, <2>3, <2>5 DEF Tallied, GivesUpStopping, Attended
<1>10. CASE ReportLost("main") \/ ReportAnswerLost("main")
  <2>1. /\ UNCHANGED <<proc, disk, refusals>> /\ m.phase = "reporting"
        /\ losses < MaxLosses /\ losses' = losses + 1
    BY <1>10 DEF ReportLost, ReportAnswerLost, Reporting, NoAnswer
  <2>2. m.attempts + 1 <= losses' + refusals /\ m.attempts + 1 < MaxAttempts /\ m.attempts \in Nat
    BY <1>a, <1>b, <2>1, AgentBoundsAssumption DEF Tallied, FewFaults, SlotRec
  <2>3. n = [m EXCEPT !.attempts = m.attempts + 1,
                      !.phase = IF proc = "stopping" \/ m.attempts + 1 >= MaxAttempts
                                THEN "undelivered" ELSE m.phase]
    BY <1>10, <1>a DEF ReportLost, ReportAnswerLost, NoAnswer
  <2>4. /\ n.attempts = m.attempts + 1 /\ n.shrunk = m.shrunk /\ n.task = m.task
        /\ n.phase = IF proc = "stopping" \/ m.attempts + 1 >= MaxAttempts THEN "undelivered" ELSE m.phase
    BY <1>a, <2>3 DEF SlotRec
  <2>5. n.phase \in {"reporting", "undelivered"} /\ (n.phase = "undelivered" => proc = "stopping")
    BY <2>1, <2>2, <2>4, AgentBoundsAssumption
  <2>6. Tallied(n, losses', refusals')
    BY <1>b, <2>1, <2>2, <2>4, AgentBoundsAssumption DEF Tallied
  <2> QED BY <1>b, <1>c, <2>1, <2>4, <2>5, <2>6 DEF GivesUpStopping, Attended
<1>11. ASSUME NEW r \in BOOLEAN, ReportRefused("main", r) PROVE Good
  <2>1. /\ UNCHANGED <<proc, disk, tasks, losses>> /\ m.phase = "reporting"
        /\ refusals < MaxRefusals /\ refusals' = refusals + 1
    BY <1>11 DEF ReportRefused, Reporting, vars
  <2>2. n = [m EXCEPT !.shrunk = TRUE, !.attempts = m.attempts + 1,
                      !.outcome = IF r THEN "failed" ELSE m.outcome]
    BY <1>11, <1>a DEF ReportRefused
  <2>3. n.attempts = m.attempts + 1 /\ n.phase = m.phase /\ n.task = m.task /\ m.attempts \in Nat
    BY <1>a, <2>2 DEF SlotRec
  <2>4. Tallied(n, losses', refusals')
    BY <1>b, <2>1, <2>3, AgentBoundsAssumption DEF Tallied
  <2> QED BY <1>b, <2>1, <2>3, <2>4 DEF GivesUpStopping, Attended
<1>12. CASE ReportRefusedAgain("main")
  <2>1. m.shrunk /\ refusals < MaxRefusals
    BY <1>12 DEF ReportRefusedAgain
  <2> QED BY <1>b, <2>1, AgentBoundsAssumption DEF Tallied, FewFaults
<1>13. ASSUME NEW s \in Slots, Returns(s) PROVE Good
  <2>1. UNCHANGED <<tasks, losses, refusals>> /\ slot[s].phase \in {"delivered", "undelivered"}
    BY <1>13 DEF Returns, vars
  <2>2. proc' = proc \/ (proc = "booting" /\ proc' = "up")
    BY <1>13 DEF Returns
  <2>3. CASE s # "main"
    <3>1. n = m /\ kk = k
      BY <1>13, <1>a, <2>3 DEF Returns, Opened
    <3> QED BY <1>b, <2>1, <2>2, <3>1 DEF GivesUpStopping, Attended
  <2>4. CASE s = "main"
    <3>1. n = IdleSlot
      BY <1>13, <1>a, <2>4 DEF Returns, Opened
    <3>2. kk = Kept("main").task
      BY <1>13, <1>a, <2>4 DEF Returns
    <3>3. CASE m.phase = "delivered"
      <4>1. ~Open(k, tasks)
        BY <1>b, <3>3 DEF Attended
      <4>2. kk \in {k, NoTaskId}
        BY <3>2, <3>3 DEF Kept, Empty
      <4> QED BY <1>b, <1>i, <2>1, <3>1, <4>1, <4>2 DEF Tallied, GivesUpStopping, Attended, Open
    <3>4. CASE m.phase = "undelivered"
      <4>1. proc = "stopping" /\ proc' = "stopping"
        BY <1>b, <2>2, <3>4 DEF GivesUpStopping
      <4>2. kk \in {k, m.task}
        BY <3>2, <3>4 DEF Kept
      <4>3. kk = k \/ ~Open(k, tasks)
        BY <1>b, <3>4, <4>2 DEF Attended
      <4> QED BY <1>b, <1>i, <2>1, <3>1, <4>1, <4>3 DEF Tallied, GivesUpStopping, Attended
    <3> QED BY <2>1, <2>4, <3>3, <3>4
  <2> QED BY <2>3, <2>4
<1>14. CASE Requests \/ (\E i \in TaskIds : RunningLeaseEnds(i)) \/ UNCHANGED allVars
  <2>1. UNCHANGED <<proc, slot, disk, losses, refusals>>
    BY <1>14 DEF Requests, RunningLeaseEnds, agentVars, allVars
  <2> QED BY <1>same, <2>1
<1> HIDE DEF Good
<1>15. ASSUME NEW s \in Slots,
              \/ Starts(s) \/ (\E o \in Reported : Ends(s, o)) \/ ReportAnswered(s) \/ ReportLost(s)
              \/ ReportAnswerLost(s) \/ (\E r \in BOOLEAN : ReportRefused(s, r)) \/ ReportRefusedAgain(s)
       PROVE Good
  BY <1>6, <1>7, <1>8, <1>9, <1>10, <1>11, <1>12, <1>15
<1> QED
  BY <1>1, <1>2, <1>3, <1>4, <1>5, <1>13, <1>14, <1>15 DEF ANext, Reported

(* "Keep the outcome on disk; the next agent process sends it."            *)
(* (agent.go:623): however often the agent crashes or stops, what the main *)
(* loop keeps of a task goes only once the control plane has closed that   *)
(* task, if fewer answers are lost or refused in all than one report has   *)
(* attempts, and at most one is refused (execute, report,                  *)
(* reportInterrupted).                                                     *)
THEOREM KeptOutcomeIsSent == FewFaults => (ASpec => KeptUntilSent)
<1> SUFFICES ASSUME FewFaults PROVE ASpec => KeptUntilSent
  OBVIOUS
<1>1. AInit => KeptInv
  <2> SUFFICES ASSUME AInit PROVE KeptInv
    OBVIOUS
  <2>1. slot["main"] = IdleSlot /\ disk["main"].task = NoTaskId /\ losses = 0 /\ refusals = 0
    BY DEF AInit, Slots, Loops, Keepers, Empty
  <2> QED BY <2>1, AgentBoundsAssumption
          DEF KeptInv, Tallied, GivesUpStopping, Attended, Open, IdleSlot
<1>2. TypeOK /\ SlotsOK /\ HoldInv /\ KeptInv /\ [ANext]_allVars => KeptInv'
  BY KeptStep
<1>3. TypeOK /\ SlotsOK /\ HoldInv /\ KeptInv /\ [ANext]_allVars =>
        [disk["main"].task # NoTaskId /\ disk'["main"].task # disk["main"].task
           => tasks[disk["main"].task].status # "running"]_allVars
  BY KeptStep DEF Open
<1> QED BY <1>1, <1>2, <1>3, SlotsAlways, TypeUnderAgent, HoldAlways, PTL DEF ASpec, KeptUntilSent
=============================================================================
