--------------------------- MODULE ControlPlane ---------------------------
(***************************************************************************)
(* The control plane without an account (internal/localcp) over its queue: *)
(* setting a database up until archiving is proven, schedules, Marks, the  *)
(* changes that wait for a Mark (upgrade, reboot, security updates, rewind *)
(* in place), and what a finished task sets off.                           *)
(*                                                                         *)
(* Every action is one store.update.  The second copy, the standby pair,   *)
(* Guard and the files of a database are other components.  prune's limit  *)
(* of 500 Marks (keepMarks) is left out: no Mark is forgotten.             *)
(***************************************************************************)
EXTENDS TaskQueue

CONSTANTS
  Scenarios,   \* what people and schedules ask for, one of them per behaviour
  MarkNames    \* names of Marks: people's, and "before-...-<time>"

Plan == "plan"
Apply == "apply"
Full == "full"
Diff == "diff"
\* A scenario: the databases it is about, the task types people ask for, the
\* kinds whose schedule is not switched off, whether it starts with an empty
\* server ("new") or one whose databases are set up ("settled"), and the bound
\* on the tasks it creates.
Scenario == [dbs : SUBSET Databases, requests : SUBSET Types, schedules : SUBSET {Full, Diff, "drill"},
             start : {"new", "settled"}, bound : 1 .. MaxTasks]
ASSUME ScenariosAssumption == Scenarios \subseteq Scenario
ASSUME CPArgsAssumption == {Plan, Apply, Full, Diff} \cup MarkNames \subseteq Args
\* What the control plane queues of its own accord.
ASSUME CPTypesAssumption ==
  {"adopt", "check", "restore_point", "inspect", "backup", "drill"} \subseteq Types
\* A loop of the agent that asks for Proofs asks for backups too: the main
\* loop asks without a filter, the other loops for tasks of the side lanes.
ASSUME ProofFiltersAssumption == \A types \in ClaimFilters : "drill" \in types => "backup" \in types

VARIABLES
  dbStatus,   \* dbRec.Status ("none" before it is registered)
  backedUp,   \* state.Backups has one of this database
  marks,      \* state.Marks: database, name, task, and whether its LSN is known
  kept,       \* data a rewind in place keeps aside (keptView)
  proven,     \* history: a check of the database passed
  fresh,      \* history: the full backup the last rewind or undo asked for
  scenario    \* the scenario of this behaviour; never changes

cpVars == <<dbStatus, backedUp, marks, kept, proven, fresh>>
allVars == <<tasks, databases, dbStatus, backedUp, marks, kept, proven, fresh, scenario>>

Requests == scenario.requests
Schedules == scenario.schedules

userTasks == {"backup", "drill", "check", "inspect", "restart", "adopt"}
upgradeTaskTypes == {"upgrade_check", "upgrade_rehearsal", "upgrade", "upgrade_undo",
                     "upgrade_cleanup", "security_updates", "reboot"}
hostWideTypes == {"security_updates", "reboot", "upgrade", "upgrade_undo"}

CInit ==
  /\ scenario \in Scenarios
  /\ tasks = [i \in TaskIds |-> NoTask]
  /\ databases = [d \in Databases |-> IF scenario.start = "new" THEN "new" ELSE "present"]
  /\ dbStatus = [d \in Databases |-> IF scenario.start = "new" THEN "none" ELSE "active"]
  /\ backedUp = [d \in Databases |-> scenario.start = "settled"]
  /\ marks = {}
  /\ kept = [d \in Databases |-> "none"]
  /\ proven = [d \in Databases |-> scenario.start = "settled"]
  /\ fresh = [d \in Databases |-> NoTaskId]

(***************************************************************************)
(* Helpers on the table of tasks                                           *)
(***************************************************************************)
\* Bound: ids left for what a request or an outcome may queue.
RoomFor(n) == Cardinality({i \in 1 .. scenario.bound : tasks[i].status = "none"}) >= n

NewId(ts) == CHOOSE i \in TaskIds : IsNew(ts, i)

\* The id enqueue answers with: the open task of that kind, or the new one.
EnqueuedId(ts, d, typ, arg) ==
  IF OpenSame(ts, d, typ, arg) # {} THEN CHOOSE i \in OpenSame(ts, d, typ, arg) : TRUE ELSE NewId(ts)

openTask(d, types) == \E i \in TaskIds : open(tasks[i]) /\ tasks[i].db = d /\ tasks[i].type \in types

(* A full backup and, after it, a Proof; a full backup that is open       *)
(* already (errTaskOpen) ends it there.                                    *)
FullThenProof(ts, d) ==
  IF OpenSame(ts, d, "backup", Full) # {} THEN ts
  ELSE enqueue(enqueue(ts, d, "backup", Full, NoTaskId), d, "drill", SomeArg, NewId(ts))

Check(ts, d) == enqueue(ts, d, "check", SomeArg, NoTaskId)

(***************************************************************************)
(* Registering and setting up                                              *)
(***************************************************************************)
\* register: adds the database, or finds it again, and queues its plan.
RegisterDatabase(d) ==
  /\ RoomFor(1)
  /\ \/ databases[d] = "new"
     \/ databases[d] = "present" /\ dbStatus[d] = "pending_adopt"
  /\ databases' = [databases EXCEPT ![d] = "present"]
  /\ dbStatus' = [dbStatus EXCEPT ![d] = "pending_adopt"]
  /\ tasks' = prune(enqueue(tasks, d, "adopt", Plan, NoTaskId))
  /\ UNCHANGED <<backedUp, marks, kept, proven, fresh>>

Adopts(d) == {i \in TaskIds : tasks[i].db = d /\ tasks[i].type = "adopt"}

\* applyBlocked allows it: a plan was made, or an apply failed (or force).
MayApply(d, force) ==
  \E i \in Adopts(d) :
    /\ \A j \in Adopts(d) : j <= i
    /\ \/ tasks[i].status = "succeeded" /\ tasks[i].arg = Plan
       \/ tasks[i].status \in {"failed", "lost", "cancelled"} /\ (tasks[i].arg = Apply \/ force)

\* createTask and setupApply.
CreateTask(d, typ, arg, force) ==
  /\ typ \in Requests \cap userTasks /\ databases[d] = "present" /\ RoomFor(1)
  /\ typ \in {"backup", "drill"} => dbStatus[d] = "active"
  /\ typ = "adopt" => dbStatus[d] = "pending_adopt" /\ (arg = Apply => MayApply(d, force))
  /\ arg \in CASE typ = "backup" -> {Full, Diff}
               [] typ = "adopt" -> {Plan, Apply}
               [] OTHER -> {SomeArg}
  /\ tasks' = prune(enqueue(tasks, d, typ, arg, NoTaskId))
  /\ UNCHANGED <<databases, cpVars>>

\* archiver: a heartbeat shows that PostgreSQL was restarted with archiving on.
ArchiverOn(d) ==
  /\ dbStatus[d] = "awaiting_restart" /\ RoomFor(1)
  /\ dbStatus' = [dbStatus EXCEPT ![d] = "verifying"]
  /\ tasks' = prune(Check(tasks, d))
  /\ UNCHANGED <<databases, backedUp, marks, kept, proven, fresh>>

(***************************************************************************)
(* Marks, and the changes that wait for one                                *)
(***************************************************************************)
\* Mutant: a Mark that is still being written is replaced too.
Unwritten_open(d, name) == {m \in marks : m.db = d /\ m.name = name /\ ~m.written}

\* An earlier attempt with this name that never got written is replaced.
Unwritten(d, name) ==
  {m \in marks : m.db = d /\ m.name = name /\ ~m.written /\ tasks[m.task].status \in Dead}

Replaced(d, name) == marks \ Unwritten(d, name)

\* The name is taken, or enqueue finds the restore point open.
MarkRefused(d, name) ==
  \/ \E m \in Replaced(d, name) : m.db = d /\ m.name = name
  \/ OpenSame(tasks, d, "restore_point", name) # {}

MarkTask(d, name) == enqueue(tasks, d, "restore_point", name, NoTaskId)

NewMark(d, name) == [db |-> d, name |-> name, task |-> NewId(tasks), written |-> FALSE]

\* createMark; a refusal answers 409, and what was replaced before it stays so.
CreateMark(d, name) ==
  /\ "restore_point" \in Requests /\ RoomFor(1) /\ dbStatus[d] = "active"
  /\ IF MarkRefused(d, name)
     THEN marks' = Replaced(d, name) /\ tasks' = prune(tasks)
     ELSE marks' = Replaced(d, name) \cup {NewMark(d, name)} /\ tasks' = prune(MarkTask(d, name))
  /\ UNCHANGED <<databases, dbStatus, backedUp, kept, proven, fresh>>

\* Mutant: only this database's tasks are looked at.
refuseOpen_own(d) == openTask(d, upgradeTaskTypes)

refuseOpen(d) == openTask(d, upgradeTaskTypes) \/ \E e \in Databases : openTask(e, hostWideTypes)

\* Mutant: the change doesn't wait for the Mark.
MarkThen_now(d, name, typ) ==
  /\ RoomFor(2) /\ dbStatus[d] = "active" /\ ~MarkRefused(d, name)
  /\ marks' = Replaced(d, name) \cup {NewMark(d, name)}
  /\ tasks' = prune(enqueue(MarkTask(d, name), d, typ, SomeArg, NoTaskId))

\* A Mark, then the task that waits for it.
MarkThen(d, name, typ) ==
  /\ RoomFor(2) /\ dbStatus[d] = "active" /\ ~MarkRefused(d, name)
  /\ marks' = Replaced(d, name) \cup {NewMark(d, name)}
  /\ tasks' = prune(enqueue(MarkTask(d, name), d, typ, SomeArg, NewId(tasks)))

\* postUpgrade, postUpgradeUndo, postSecurityUpdates, postReboot: queueWithMark.
QueueWithMark(d, name, typ) ==
  /\ typ \in Requests \cap hostWideTypes
  /\ ~refuseOpen(d)
  /\ typ = "upgrade" => backedUp[d]
  /\ MarkThen(d, name, typ)
  /\ UNCHANGED <<databases, dbStatus, backedUp, kept, proven, fresh>>

\* postUpgradeCheck, postUpgradeRehearsal, postUpgradeCleanup.
QueueUpgradeTask(d, typ) ==
  /\ typ \in Requests \cap {"upgrade_check", "upgrade_rehearsal", "upgrade_cleanup"}
  /\ databases[d] = "present" /\ RoomFor(1)
  /\ ~refuseOpen(d)
  /\ typ = "upgrade_rehearsal" => dbStatus[d] = "active"
  /\ tasks' = prune(enqueue(tasks, d, typ, SomeArg, NoTaskId))
  /\ UNCHANGED <<databases, cpVars>>

\* rewindInPlace.
RewindInPlace(d, name) ==
  /\ "rewind_in_place" \in Requests
  /\ backedUp[d] /\ kept[d] = "none"
  /\ ~openTask(d, {"rewind_in_place", "rewind_undo", "restart"})
  /\ MarkThen(d, name, "rewind_in_place")
  /\ UNCHANGED <<databases, dbStatus, backedUp, kept, proven, fresh>>

\* undoRewind.
UndoRewind(d) ==
  /\ "rewind_undo" \in Requests /\ RoomFor(1)
  /\ kept[d] = "before" /\ dbStatus[d] = "active"
  /\ ~openTask(d, {"rewind_in_place", "rewind_undo", "restart", "rewind_cleanup"})
  /\ tasks' = prune(enqueue(tasks, d, "rewind_undo", SomeArg, NoTaskId))
  /\ UNCHANGED <<databases, cpVars>>

\* Mutant: the kept data may be deleted under an undo.
CleanupRewind_any(d) ==
  /\ "rewind_cleanup" \in Requests /\ RoomFor(1)
  /\ kept[d] # "none"
  /\ tasks' = prune(enqueue(tasks, d, "rewind_cleanup", SomeArg, NoTaskId))
  /\ UNCHANGED <<databases, cpVars>>

\* cleanupRewind.
CleanupRewind(d) ==
  /\ "rewind_cleanup" \in Requests /\ RoomFor(1)
  /\ kept[d] # "none"
  /\ ~openTask(d, {"rewind_in_place", "rewind_undo"})
  /\ tasks' = prune(enqueue(tasks, d, "rewind_cleanup", SomeArg, NoTaskId))
  /\ UNCHANGED <<databases, cpVars>>

\* recordKept: the agent no longer reports the data (deleted when it expired).
KeptGone(d) ==
  /\ kept[d] # "none"
  /\ ~openTask(d, {"rewind_undo"})
  /\ kept' = [kept EXCEPT ![d] = "none"]
  /\ tasks' = prune(tasks)
  /\ UNCHANGED <<databases, dbStatus, backedUp, marks, proven, fresh>>

(***************************************************************************)
(* Schedules                                                               *)
(***************************************************************************)
\* An open task already does what kind would.
covered(ts, d, kind) ==
  CASE kind = Full -> OpenSame(ts, d, "backup", Full) # {}
    [] kind = Diff -> OpenSame(ts, d, "backup", Full) \cup OpenSame(ts, d, "backup", Diff) # {}
    [] kind = "drill" -> OpenSame(ts, d, "drill", SomeArg) # {}

scheduleKind(ts, d, kind, due) ==
  IF kind \notin due \/ covered(ts, d, kind) THEN ts
  ELSE IF kind = "drill" THEN enqueue(ts, d, "drill", SomeArg, NoTaskId)
  ELSE enqueue(ts, d, "backup", kind, NoTaskId)

\* Mutant: every registered database is scheduled.
schedule_all(ts, d, due) ==
  IF dbStatus[d] = "none" THEN ts
  ELSE scheduleKind(scheduleKind(scheduleKind(ts, d, Full, due), d, Diff, due), d, "drill", due)

\* full, then diff, then drill.
schedule(ts, d, due) ==
  IF dbStatus[d] # "active" THEN ts
  ELSE scheduleKind(scheduleKind(scheduleKind(ts, d, Full, due), d, Diff, due), d, "drill", due)

(* Tick: reaps, then schedules.  Databases due in one tick are the same as *)
(* in ticks right after each other.                                        *)
TickSchedules(d, due) ==
  /\ RoomFor(Cardinality(due))
  /\ tasks' = prune(schedule(reap(tasks), d, due))
  /\ UNCHANGED <<databases, cpVars>>

(***************************************************************************)
(* Outcomes: complete, then afterTask                                      *)
(***************************************************************************)
Finished(i, ok) == [tasks EXCEPT ![i] = finish(@, IF ok THEN "succeeded" ELSE "failed")]

Completing(i, types) == tasks[i].status = "running" /\ tasks[i].type \in types

CompleteAdopt(i, ok, restartRequired) ==
  LET d == tasks[i].db
      applied == ok /\ tasks[i].arg = Apply
  IN /\ Completing(i, {"adopt"}) /\ RoomFor(1)
     /\ dbStatus' = IF ~applied THEN dbStatus
                    ELSE [dbStatus EXCEPT ![d] = IF restartRequired THEN "awaiting_restart" ELSE "verifying"]
     /\ tasks' = prune(IF applied /\ ~restartRequired THEN Check(Finished(i, ok), d) ELSE Finished(i, ok))
     /\ UNCHANGED <<databases, backedUp, marks, kept, proven, fresh>>

\* A check that passed activates the database, once.
CompleteCheck(i, ok, passed) ==
  LET d == tasks[i].db
      activates == ok /\ passed /\ dbStatus[d] # "active"
  IN /\ Completing(i, {"check"}) /\ RoomFor(2)
     /\ dbStatus' = IF activates THEN [dbStatus EXCEPT ![d] = "active"] ELSE dbStatus
     /\ tasks' = prune(IF activates /\ ~backedUp[d] THEN FullThenProof(Finished(i, ok), d)
                       ELSE Finished(i, ok))
     /\ proven' = [proven EXCEPT ![d] = @ \/ (ok /\ passed)]
     /\ UNCHANGED <<databases, backedUp, marks, kept, fresh>>

CompleteBackup(i, ok) ==
  /\ Completing(i, {"backup"})
  /\ backedUp' = [backedUp EXCEPT ![tasks[i].db] = @ \/ ok]
  /\ tasks' = prune(Finished(i, ok))
  /\ UNCHANGED <<databases, dbStatus, marks, kept, proven, fresh>>

CompleteRestart(i, ok, restarted) ==
  LET d == tasks[i].db
      moves == ok /\ restarted /\ dbStatus[d] = "awaiting_restart"
  IN /\ Completing(i, {"restart"}) /\ RoomFor(1)
     /\ dbStatus' = IF moves THEN [dbStatus EXCEPT ![d] = "verifying"] ELSE dbStatus
     /\ tasks' = prune(IF moves THEN Check(Finished(i, ok), d) ELSE Finished(i, ok))
     /\ UNCHANGED <<databases, backedUp, marks, kept, proven, fresh>>

\* finishMark: a Mark whose position is not known goes; a task that
\* succeeded knows it, one that failed may (written, not archived).
CompleteMark(i, ok, lsn) ==
  /\ Completing(i, {"restore_point"}) /\ (ok => lsn)
  /\ marks' = {m \in marks : m.task # i}
                \cup {[m EXCEPT !.written = TRUE] : m \in {x \in marks : x.task = i /\ lsn}}
  /\ tasks' = prune(Finished(i, ok))
  /\ UNCHANGED <<databases, dbStatus, backedUp, kept, proven, fresh>>

\* afterUpgrade.
CompleteUpgrade(i, ok) ==
  LET d == tasks[i].db
      inspected == enqueue(Finished(i, ok), d, "inspect", SomeArg, NoTaskId)
  IN /\ Completing(i, {"upgrade", "upgrade_undo"}) /\ RoomFor(3)
     /\ tasks' = prune(IF ok THEN FullThenProof(inspected, d) ELSE Finished(i, ok))
     /\ UNCHANGED <<databases, cpVars>>

\* Mutant: a Proof that is queued already is left alone.
Retargeted_none(ts, d, full) == ts

\* A Proof waiting to run restores the newest backup: from the new timeline.
Retargeted(ts, d, full) ==
  [i \in TaskIds |->
     IF ts[i].status = "queued" /\ ts[i].db = d /\ ts[i].type = "drill" /\ ts[i].after = NoTaskId
     THEN [ts[i] EXCEPT !.after = full] ELSE ts[i]]

\* afterInPlace, of a rewind or an undo.
CompleteInPlace(i, ok) ==
  LET d == tasks[i].db
      ts == Finished(i, ok)
      full == EnqueuedId(ts, d, "backup", Full)
  IN /\ Completing(i, {"rewind_in_place", "rewind_undo"}) /\ RoomFor(2)
     /\ IF ok
        THEN /\ kept' = [kept EXCEPT ![d] = IF tasks[i].type = "rewind_undo" THEN "after_undo" ELSE "before"]
             /\ fresh' = [fresh EXCEPT ![d] = full]
             /\ tasks' = prune(Check(Retargeted(enqueue(ts, d, "backup", Full, NoTaskId), d, full), d))
        ELSE tasks' = prune(ts) /\ UNCHANGED <<kept, fresh>>
     /\ UNCHANGED <<databases, dbStatus, backedUp, marks, proven>>

\* afterInPlace, of a cleanup.
CompleteCleanup(i, ok) ==
  /\ Completing(i, {"rewind_cleanup"})
  /\ kept' = IF ok THEN [kept EXCEPT ![tasks[i].db] = "none"] ELSE kept
  /\ tasks' = prune(Finished(i, ok))
  /\ UNCHANGED <<databases, dbStatus, backedUp, marks, proven, fresh>>

\* The types whose outcome changes nothing else here.
CompleteOther(i, ok) ==
  /\ Completing(i, {"drill", "inspect", "security_updates", "reboot",
                    "upgrade_check", "upgrade_rehearsal", "upgrade_cleanup"})
  /\ tasks' = prune(Finished(i, ok))
  /\ UNCHANGED <<databases, cpVars>>

(***************************************************************************)
(* The specification                                                       *)
(***************************************************************************)
ClaimTask(types) == Claim(types) /\ UNCHANGED cpVars
LeaseRunsOut(i) == LeaseEnds(i) /\ UNCHANGED cpVars

CStep ==
  \/ \E d \in scenario.dbs :
       \/ RegisterDatabase(d) \/ ArchiverOn(d) \/ UndoRewind(d) \/ CleanupRewind(d) \/ KeptGone(d)
       \/ \E typ \in userTasks, arg \in Args, force \in BOOLEAN : CreateTask(d, typ, arg, force)
       \/ \E name \in MarkNames :
            \/ CreateMark(d, name) \/ RewindInPlace(d, name)
            \/ \E typ \in hostWideTypes : QueueWithMark(d, name, typ)
       \/ \E typ \in upgradeTaskTypes : QueueUpgradeTask(d, typ)
       \/ \E due \in SUBSET Schedules : TickSchedules(d, due)
  \/ \E types \in ClaimFilters : ClaimTask(types)
  \/ \E i \in TaskIds, ok \in BOOLEAN :
       \/ CompleteBackup(i, ok) \/ CompleteUpgrade(i, ok) \/ CompleteInPlace(i, ok)
       \/ CompleteCleanup(i, ok) \/ CompleteOther(i, ok)
       \/ \E x \in BOOLEAN : CompleteAdopt(i, ok, x) \/ CompleteCheck(i, ok, x)
                             \/ CompleteRestart(i, ok, x) \/ CompleteMark(i, ok, x)
  \/ \E i \in TaskIds : LeaseRunsOut(i)

CNext == CStep /\ UNCHANGED scenario

CSpec == CInit /\ [][CNext]_allVars

(***************************************************************************)
(* Properties                                                              *)
(***************************************************************************)
Mark == [db : Databases, name : MarkNames, task : TaskIds, written : BOOLEAN]

CTypeOK ==
  /\ TypeOK
  /\ dbStatus \in [Databases -> {"none", "pending_adopt", "awaiting_restart", "verifying", "active"}]
  /\ backedUp \in [Databases -> BOOLEAN] /\ proven \in [Databases -> BOOLEAN]
  /\ marks \in SUBSET Mark
  /\ kept \in [Databases -> {"none", "before", "after_undo"}]
  /\ fresh \in [Databases -> TaskIds \cup {NoTaskId}]

(* "backups start once it is set up and archiving is proven"               *)
(* (server.go:844): whatever queues one (a request, a schedule, a finished *)
(* task), no backup or Proof is open before a check passed.  A promoted    *)
(* standby is activated without one (standby.go:282); the pair is another  *)
(* component.                                                              *)
BackupsNeedProof ==
  \A i \in TaskIds : open(tasks[i]) /\ tasks[i].type \in {"backup", "drill"} => proven[tasks[i].db]

(* A name means one Mark of its database, and a restore point that is      *)
(* being made has its Mark to put the position in, however its name was    *)
(* used, lost or replaced before (createMark, finishMark), as long as no   *)
(* 500 newer Marks push it out (keepMarks).                                *)
MarksOfTasks ==
  /\ \A m, n \in marks : m.db = n.db /\ m.name = n.name => m = n
  /\ \A i \in TaskIds : open(tasks[i]) /\ tasks[i].type = "restore_point"
                        => \E m \in marks : m.task = i /\ m.db = tasks[i].db /\ m.name = tasks[i].arg

(* "Rowsafe saves a Mark before changing its server" (upgrade.go:334): an  *)
(* upgrade, reboot, security update or rewind in place runs only with its  *)
(* Mark's position known, with the same limit (keepMarks).                 *)
MarkBeforeChange ==
  \A i \in TaskIds :
    Running(i) /\ tasks[i].type \in hostWideTypes \cup {"rewind_in_place"}
    => \E m \in marks : m.task = tasks[i].after /\ m.written

(* "hostWideTypes change the whole server: none runs beside another one,   *)
(* of any database" (upgrade.go:46).                                       *)
HostWideAlone ==
  \A i, j \in TaskIds :
    (i # j /\ open(tasks[i]) /\ open(tasks[j]) /\ tasks[i].type \in hostWideTypes)
    => tasks[j].type \notin hostWideTypes

(* An undo that is queued or running has the data it puts back: no cleanup *)
(* or expiry seen by a heartbeat takes it from under the undo.             *)
UndoHasItsData ==
  \A i \in TaskIds :
    open(tasks[i]) /\ tasks[i].type = "rewind_undo"
    => kept[tasks[i].db] = "before" /\ ~openTask(tasks[i].db, {"rewind_cleanup"})

(* "After a rewind or an undo a full backup starts the new timeline in the *)
(* repository (Proof waits for it)" (rewind_inplace.go:30): no Proof is    *)
(* handed out while that backup is still to come or being made, except one *)
(* that already waited for another backup when the rewind ended: only a    *)
(* Proof that waits for nothing is moved behind it (:337).                 *)
ProofWaits ==
  [][\A i \in TaskIds :
       (/\ tasks[i].status = "queued" /\ tasks'[i].status = "running" /\ tasks[i].type = "drill"
        /\ fresh[tasks[i].db] # NoTaskId
        /\ tasks[i].after \in {NoTaskId, fresh[tasks[i].db]})
       => ~open(tasks[fresh[tasks[i].db]])]_allVars
=============================================================================
