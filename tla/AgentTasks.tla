---------------------------- MODULE AgentTasks ----------------------------
(***************************************************************************)
(* The agent's loops over the task queue (internal/agent): several loops   *)
(* claim from one control plane, run what they get and report it with      *)
(* retries, while answers get lost, the agent stops, crashes and starts    *)
(* again.  The main loop keeps the task it runs in running-task.json, the  *)
(* files loop in its own state file; the others keep nothing.              *)
(*                                                                         *)
(* Left out: the two types whose outcome the next process finds out by     *)
(* itself (reboot, agent_container_update).                                *)
(***************************************************************************)
EXTENDS TaskQueue

CONSTANTS
  MaxAttempts,   \* attempts of report before it gives up (20)
  MaxLosses,     \* bound: requests or answers lost on the way
  MaxRefusals,   \* bound: reports a control plane refuses with 400 or 413
  MaxStops       \* bound: crashes and shutdowns

ASSUME AgentBoundsAssumption ==
  MaxAttempts \in Nat \ {0} /\ MaxLosses \in Nat /\ MaxRefusals \in Nat /\ MaxStops \in Nat

VARIABLES
  proc,      \* the agent process: "down", "booting", "up" or "stopping"
  slot,      \* what each loop is doing
  disk,      \* running-task.json, and Running of the files loop's state
  ran,       \* history: what really became of each task on this server
  losses, refusals, stops

agentVars == <<proc, slot, disk, ran, losses, refusals, stops>>
allVars == <<tasks, databases, proc, slot, disk, ran, losses, refusals, stops>>

(***************************************************************************)
(* Loops and what they ask for                                             *)
(***************************************************************************)
Loops == {"main", "fast", "standby", "files"}
Beside == {"side", "pooler"}     \* goroutines the fast lane starts
Slots == Loops \cup Beside
Keepers == {"main", "files"}     \* keep their task on disk

fastLaneTypes == {"restore_point", "copy_schema"}
sideTypes == {"maintenance", "rewind_compare", "rewind_rows", "rewind_drop", "rewind_cleanup",
              "find_moment", "dbadmin", "backup_passphrase", "server_firewall",
              "server_certificate", "migrate", "settings", "security_scan", "security_fix",
              "permissions", "permissions_remove"}
poolerTypes == {"pooler_retarget", "pooling"}
standbyUrgentTypes == {"standby_fence", "standby_promote", "standby_prepare", "standby_release",
                       "standby_remove", "standby_unfence"}

\* Every claim request of the loops is one the queue is specified for.
ASSUME FiltersAssumption ==
  /\ {{}, standbyUrgentTypes, FilesTaskTypes} \subseteq ClaimFilters
  /\ \A a \in {{}, sideTypes}, b \in {{}, poolerTypes} : fastLaneTypes \cup a \cup b \in ClaimFilters

IdleSlot == [phase |-> "idle", task |-> NoTaskId, outcome |-> "failed", attempts |-> 0,
             shrunk |-> FALSE, boot |-> FALSE]
Idle(s) == slot[s].phase = "idle"
Empty == [task |-> NoTaskId, report |-> "none"]

fastLaneClaim == fastLaneTypes \cup (IF Idle("side") THEN sideTypes ELSE {})
                               \cup (IF Idle("pooler") THEN poolerTypes ELSE {})

ClaimTypes(l) == CASE l = "main" -> {}
                   [] l = "fast" -> fastLaneClaim
                   [] l = "standby" -> standbyUrgentTypes
                   [] l = "files" -> FilesTaskTypes

\* Where the loop runs a task it got: itself, or a goroutine beside it.
RunsIn(l, typ) == CASE l = "fast" /\ typ \in sideTypes -> "side"
                    [] l = "fast" /\ typ \in poolerTypes -> "pooler"
                    [] OTHER -> l

\* execute's persist, and the files loop's own record.
Keeps(s, i) == s = "files" \/ (s = "main" /\ tasks[i].type \notin fastLaneTypes)

AInit ==
  /\ Init
  /\ proc = "down"
  /\ slot = [s \in Slots |-> IdleSlot]
  /\ disk = [k \in Keepers |-> Empty]
  /\ ran = [i \in TaskIds |-> "no"]
  /\ losses = 0 /\ refusals = 0 /\ stops = 0

(***************************************************************************)
(* Starting: reportInterrupted comes before every loop                     *)
(***************************************************************************)
\* Mutant: an interrupted task counts as done.
BootOutcome_ok(kept) == IF kept.report # "none" THEN kept.report ELSE "succeeded"

\* The saved outcome, or that the agent stopped while the task was running.
BootOutcome(kept) == IF kept.report # "none" THEN kept.report ELSE "failed"

BootSlot(kept) ==
  [IdleSlot EXCEPT !.phase = "reporting", !.task = kept.task, !.outcome = BootOutcome(kept),
                   !.boot = TRUE]

\* The loops start; the files loop first reports what it was interrupted in.
Opened(sl) ==
  [sl EXCEPT !["files"] = IF disk["files"].task = NoTaskId THEN IdleSlot ELSE BootSlot(disk["files"])]

\* Mutant: the interrupted task is not reported.
Boot_silent ==
  /\ proc = "down"
  /\ proc' = "up" /\ slot' = Opened(slot)
  /\ UNCHANGED <<disk, ran, losses, refusals, stops, vars>>

Boot ==
  /\ proc = "down"
  /\ IF disk["main"].task = NoTaskId
     THEN proc' = "up" /\ slot' = Opened(slot)
     ELSE proc' = "booting" /\ slot' = [slot EXCEPT !["main"] = BootSlot(disk["main"])]
  /\ UNCHANGED <<disk, ran, losses, refusals, stops, vars>>

(***************************************************************************)
(* Claiming and running                                                    *)
(***************************************************************************)
HandedOut == {i \in TaskIds : tasks[i].status = "queued" /\ tasks'[i].status = "running"}

\* A loop claims and gets the answer.
LoopClaims(l) ==
  /\ proc = "up" /\ Idle(l)
  /\ Claim(ClaimTypes(l))
  /\ slot' = [s \in Slots |->
        IF \E i \in HandedOut : RunsIn(l, tasks[i].type) = s
        THEN [IdleSlot EXCEPT !.phase = "claimed", !.task = CHOOSE i \in HandedOut : TRUE]
        ELSE slot[s]]
  /\ UNCHANGED <<proc, disk, ran, losses, refusals, stops>>

\* The queue handed a task out, but the answer was lost or came too late.
ClaimAnswerLost(l) ==
  /\ proc = "up" /\ Idle(l) /\ losses < MaxLosses
  /\ Claim(ClaimTypes(l))
  /\ HandedOut # {}
  /\ losses' = losses + 1
  /\ UNCHANGED <<proc, slot, disk, ran, refusals, stops>>

Alive == proc \in {"booting", "up", "stopping"}

\* saveRunning, then the task begins.
Starts(s) ==
  LET i == slot[s].task
  IN /\ Alive /\ slot[s].phase = "claimed"
     /\ slot' = [slot EXCEPT ![s].phase = "running"]
     /\ disk' = IF Keeps(s, i) THEN [disk EXCEPT ![s] = [Empty EXCEPT !.task = i]] ELSE disk
     /\ ran' = [ran EXCEPT ![i] = "started"]
     /\ UNCHANGED <<proc, losses, refusals, stops, vars>>

\* runTask returns: done, failed, timed out or cancelled by the shutdown.
Ends(s, outcome) ==
  /\ Alive /\ slot[s].phase = "running"
  /\ slot' = [slot EXCEPT ![s].phase = "reporting", ![s].outcome = outcome]
  /\ ran' = [ran EXCEPT ![slot[s].task] = outcome]
  /\ UNCHANGED <<proc, disk, losses, refusals, stops, vars>>

(***************************************************************************)
(* report: one attempt after the other                                     *)
(***************************************************************************)
\* Mutant: the control plane takes an outcome for a task it closed.
Deliver_late(s) ==
  tasks' = prune([tasks EXCEPT ![slot[s].task] = finish(@, slot[s].outcome)]) /\ UNCHANGED databases

\* The control plane gets the report: it records it, or answers 409.
Deliver(s) ==
  IF tasks[slot[s].task].status = "running" THEN Complete(slot[s].task, slot[s].outcome)
  ELSE UNCHANGED vars

Reporting(s) == Alive /\ slot[s].phase = "reporting"

\* 2xx, or a 4xx that says the task is no longer ours.
ReportAnswered(s) ==
  /\ Reporting(s)
  /\ Deliver(s)
  /\ slot' = [slot EXCEPT ![s].phase = "delivered"]
  /\ UNCHANGED <<proc, disk, ran, losses, refusals, stops>>

\* No answer: the last of MaxAttempts attempts, or any when stopping, gives up.
NoAnswer(s) ==
  /\ losses < MaxLosses /\ losses' = losses + 1
  /\ slot' = [slot EXCEPT ![s].attempts = @ + 1,
                          ![s].phase = IF proc = "stopping" \/ slot[s].attempts + 1 >= MaxAttempts
                                       THEN "undelivered" ELSE @]
  /\ UNCHANGED <<proc, disk, ran, refusals, stops>>

ReportLost(s) == Reporting(s) /\ NoAnswer(s) /\ UNCHANGED vars

ReportAnswerLost(s) == Reporting(s) /\ NoAnswer(s) /\ Deliver(s)

\* 400 or 413: once more, shorter; a result it had to drop makes it a failure.
ReportRefused(s, hadResult) ==
  /\ Reporting(s) /\ ~slot[s].shrunk /\ refusals < MaxRefusals
  /\ refusals' = refusals + 1
  /\ slot' = [slot EXCEPT ![s].shrunk = TRUE, ![s].attempts = @ + 1,
                          ![s].outcome = IF hadResult THEN "failed" ELSE @]
  /\ UNCHANGED <<proc, disk, ran, losses, stops, vars>>

\* Refused again: taken for a task that is no longer ours.
ReportRefusedAgain(s) ==
  /\ Reporting(s) /\ slot[s].shrunk /\ refusals < MaxRefusals
  /\ refusals' = refusals + 1
  /\ slot' = [slot EXCEPT ![s].phase = "delivered"]
  /\ UNCHANGED <<proc, disk, ran, losses, stops, vars>>

\* Mutant: what could not be delivered is dropped as well.
Kept_dropped(s) == IF Keeps(s, slot[s].task) THEN Empty ELSE disk[s]

(* What a keeper has on disk when execute, or the report at start, returns.*)
(* The files loop forgets its task however execute ended.                  *)
Kept(s) ==
  LET sl == slot[s]
  IN CASE ~sl.boot /\ ~Keeps(s, sl.task) -> disk[s]
       [] sl.phase = "delivered" \/ (s = "files" /\ ~sl.boot) -> Empty
       [] sl.boot -> disk[s]
       [] OTHER -> [task |-> sl.task, report |-> sl.outcome]

\* execute, or the report at start, returns: the loop goes on.
Returns(s) ==
  /\ Alive /\ slot[s].phase \in {"delivered", "undelivered"}
  /\ disk' = IF s \in Keepers THEN [disk EXCEPT ![s] = Kept(s)] ELSE disk
  /\ LET idle == [slot EXCEPT ![s] = IdleSlot]
     IN IF proc = "booting" THEN proc' = "up" /\ slot' = Opened(idle)
        ELSE slot' = idle /\ UNCHANGED proc
  /\ UNCHANGED <<ran, losses, refusals, stops, vars>>

(***************************************************************************)
(* Stopping                                                                *)
(***************************************************************************)
Down == proc' = "down" /\ slot' = [s \in Slots |-> IdleSlot]

\* Killed, out of memory, power lost.
Crash ==
  /\ Alive /\ stops < MaxStops /\ stops' = stops + 1
  /\ Down
  /\ UNCHANGED <<disk, ran, losses, refusals, vars>>

\* The context is cancelled: no loop claims again.
Stop ==
  /\ proc \in {"booting", "up"} /\ stops < MaxStops /\ stops' = stops + 1
  /\ proc' = "stopping"
  /\ UNCHANGED <<slot, disk, ran, losses, refusals, vars>>

\* ErrRestartForUpdate, between tasks, once every lane it locks is idle.
RestartForUpdate ==
  /\ proc = "up" /\ stops < MaxStops /\ stops' = stops + 1
  /\ \A s \in Slots \ {"files"} : Idle(s)
  /\ proc' = "stopping"
  /\ UNCHANGED <<slot, disk, ran, losses, refusals, vars>>

\* Run returns: the main loop is done; the others had their grace period.
Exit ==
  /\ proc = "stopping" /\ Idle("main")
  /\ Down
  /\ UNCHANGED <<disk, ran, losses, refusals, stops, vars>>

(***************************************************************************)
(* The control plane on its own                                            *)
(***************************************************************************)
Executing(s, i) == slot[s].phase \in {"claimed", "running"} /\ slot[s].task = i

\* Mutant: the lease is not longer than the task may run.
RunningLeaseEnds_short(i) == LeaseEnds(i) /\ UNCHANGED agentVars

(* The lease is five minutes longer than TaskTimeout, when the agent kills *)
(* the task: it can't end while the agent is running it.                   *)
RunningLeaseEnds(i) ==
  /\ \A s \in Slots : ~Executing(s, i)
  /\ LeaseEnds(i)
  /\ UNCHANGED agentVars

Requests ==
  /\ \/ \E d \in Databases : Register(d) \/ CancelQueued(d) \/ Forget(d)
     \/ \E d \in Databases \cup {Host}, typ \in Types, arg \in Args, after \in TaskIds \cup {NoTaskId} :
          Enqueue(d, typ, arg, after)
     \/ \E i \in TaskIds : CancelSafeCopy(i)
     \/ Tick
  /\ UNCHANGED agentVars

ANext ==
  \/ Boot \/ Crash \/ Stop \/ RestartForUpdate \/ Exit
  \/ \E l \in Loops : LoopClaims(l) \/ ClaimAnswerLost(l)
  \/ \E s \in Slots :
       \/ Starts(s) \/ (\E o \in {"succeeded", "failed"} : Ends(s, o))
       \/ ReportAnswered(s) \/ ReportLost(s) \/ ReportAnswerLost(s)
       \/ (\E r \in BOOLEAN : ReportRefused(s, r)) \/ ReportRefusedAgain(s)
       \/ Returns(s)
  \/ \E i \in TaskIds : RunningLeaseEnds(i)
  \/ Requests

(* systemd starts the agent again, tasks end (TaskTimeout), a stopping     *)
(* agent exits and a report that is tried often enough is answered.  No    *)
(* lease is assumed to end.                                                *)
AFairness ==
  /\ WF_allVars(Boot) /\ WF_allVars(Exit)
  /\ \A s \in Slots : /\ WF_allVars(Starts(s)) /\ WF_allVars(\E o \in {"succeeded", "failed"} : Ends(s, o))
                      /\ WF_allVars(ReportAnswered(s)) /\ WF_allVars(Returns(s))

ASpec == AInit /\ [][ANext]_allVars /\ AFairness

(***************************************************************************)
(* Properties                                                              *)
(***************************************************************************)
Phases == {"idle", "claimed", "running", "reporting", "delivered", "undelivered"}

ATypeOK ==
  /\ TypeOK
  /\ proc \in {"down", "booting", "up", "stopping"}
  /\ slot \in [Slots -> [phase : Phases, task : TaskIds \cup {NoTaskId}, outcome : {"succeeded", "failed"},
                         attempts : 0..(MaxLosses + MaxRefusals), shrunk : BOOLEAN, boot : BOOLEAN]]
  /\ disk \in [Keepers -> [task : TaskIds \cup {NoTaskId}, report : {"none", "succeeded", "failed"}]]
  /\ ran \in [TaskIds -> {"no", "started", "succeeded", "failed"}]
  /\ losses \in 0..MaxLosses /\ refusals \in 0..MaxRefusals /\ stops \in 0..MaxStops

(* No task is begun twice, though claims, reports and their answers get    *)
(* lost and the agent restarts in the middle of it: an interrupted backup, *)
(* restart or rewind is reported, never silently run again.                *)
NeverBegunTwice ==
  [][\A s \in Slots : slot[s].phase = "claimed" /\ slot'[s].phase = "running"
                      => ran[slot[s].task] = "no"]_allVars

(* A task the control plane has as succeeded did succeed on the server,    *)
(* whichever process and attempt told it so.                               *)
TruthfulSuccess == \A i \in TaskIds : tasks[i].status = "succeeded" => ran[i] = "succeeded"

(* Two loops never work on one database in ways the control plane keeps    *)
(* apart: what a loop executes is still running for the control plane, so  *)
(* no lane is given away under it.                                         *)
ExecutedApart ==
  \A s, t \in Slots : \A i, j \in TaskIds :
    (/\ s # t /\ Executing(s, i) /\ Executing(t, j) /\ tasks[i].db = tasks[j].db)
    => /\ lane(tasks[i].type) # lane(tasks[j].type)
       /\ tasks[i].type \in stopsPostgres => lane(tasks[j].type) # "maintenance"

(* "Keep the outcome on disk; the next agent process sends it."            *)
(* (agent.go:623): what the main loop keeps of a task goes only once the   *)
(* control plane has closed that task.                                     *)
KeptUntilSent ==
  [][disk["main"].task # NoTaskId /\ disk'["main"].task # disk["main"].task
     => tasks[disk["main"].task].status # "running"]_allVars

(* A task the main loop has on disk is closed, by this process or the      *)
(* next, without anyone waiting for its lease to end (agent.go:230-232).   *)
KeptTaskCloses ==
  \A i \in TaskIds : (disk["main"].task = i /\ Running(i)) ~> ~Running(i)

(* The queue under these loops behaves as TaskQueue allows.                *)
UsesQueue == Init /\ [][Next]_vars
=============================================================================
