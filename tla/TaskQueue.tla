----------------------------- MODULE TaskQueue -----------------------------
(***************************************************************************)
(* The task queue of the control plane that runs inside the agent of a     *)
(* server without an account (internal/localcp): enqueue, claim, complete, *)
(* the leases, the history that is kept, and the handlers that cancel.     *)
(*                                                                         *)
(* Every action is one store.update: the whole handler runs under the      *)
(* store's lock, then the history is pruned and the state saved.  A task's *)
(* id is its place in state.Tasks (append order), so "oldest first" is     *)
(* "smallest id first".                                                    *)
(***************************************************************************)
EXTENDS Integers, FiniteSets

CONSTANTS
  Databases,     \* database IDs this server may ever hand out
  Host,          \* DatabaseID "" : a task of the server, not of a database
  Types,         \* the task types of this instance
  Args,          \* what tells two tasks of one type apart: kind, name, copy
  ClaimFilters,  \* the "types" of the agent's claim requests; {} is no filter
  MaxTasks,      \* bound: tasks ever created
  KeepFinished   \* keepFinishedTasks

ASSUME BoundsAssumption == MaxTasks \in Nat /\ KeepFinished \in Nat
ASSUME ArgsAssumption == Args # {}
ASSUME HostAssumption == Host \notin Databases

TaskIds == 1..MaxTasks
NoTaskId == 0

VARIABLES
  tasks,      \* state.Tasks: id -> task
  databases   \* state.Databases: "new" (no such ID yet), "present", "gone"

vars == <<tasks, databases>>

(***************************************************************************)
(* Task types, lanes and conflicts                                         *)
(***************************************************************************)
FilesTaskTypes == {"files_backup", "files_restore", "files_undo", "files_cleanup",
                   "files_browse", "files_discover", "files_access", "files_check"}

sideLanes ==
  [restore_point  |-> "restore_point", copy_schema     |-> "restore_point",
   maintenance    |-> "maintenance",   settings        |-> "maintenance",
   rewind_compare |-> "maintenance",   rewind_rows     |-> "maintenance",
   rewind_drop    |-> "maintenance",   rewind_cleanup  |-> "maintenance",
   standby_fence  |-> "standby",       standby_promote |-> "standby",
   standby_unfence |-> "standby",      standby_prepare |-> "standby",
   standby_release |-> "standby",      security_scan   |-> "maintenance",
   security_fix   |-> "maintenance"]

stopsPostgres == {"restart", "rewind_in_place", "rewind_undo", "upgrade", "upgrade_undo",
                  "standby_fence", "standby_unfence"}

StandbyTasks == {"standby_prepare", "standby_create", "standby_promote", "standby_fence",
                 "standby_remove", "standby_release", "standby_unfence"}

lane(typ) == IF typ \in FilesTaskTypes THEN "files"
             ELSE IF typ \in DOMAIN sideLanes THEN sideLanes[typ]
             ELSE "main"

\* Mutant: two tasks of a lane may run together.
conflicts_no_lane(r, t) ==
  \/ r \in stopsPostgres /\ lane(t) \in {"maintenance", "restore_point"}
  \/ lane(r) = "maintenance" /\ t \in stopsPostgres

\* Mutant: a task that stops PostgreSQL doesn't wait for a health fix.
conflicts_one_way(r, t) ==
  \/ lane(r) = lane(t)
  \/ r \in stopsPostgres /\ lane(t) \in {"maintenance", "restore_point"}

\* Queued task type t must wait for running task type r of its database.
conflicts(r, t) ==
  \/ lane(r) = lane(t)
  \/ r \in stopsPostgres /\ lane(t) \in {"maintenance", "restore_point"}
  \/ lane(r) = "maintenance" /\ t \in stopsPostgres

KeyedByArg == {"backup", "restore_point", "preview_migration", "safe_copy"}
NoArg == "no arg"

\* What makes two open tasks the same.
openKey(typ, arg) == <<typ, IF typ \in KeyedByArg THEN arg ELSE NoArg>>

(***************************************************************************)
(* Task records.  overdue: now is after LeaseUntil (claim + TaskTimeout +  *)
(* five minutes).  after: AfterTaskID.                                     *)
(***************************************************************************)
Outcome == {"succeeded", "failed", "lost", "cancelled"}
TaskStatus == {"none", "queued", "running", "forgotten"} \cup Outcome

TaskRec == [status : TaskStatus, type : Types \cup {"none"}, db : Databases \cup {Host},
            arg : Args, after : TaskIds \cup {NoTaskId}, overdue : BOOLEAN]

SomeArg == CHOOSE a \in Args : TRUE
NoTask == [status |-> "none", type |-> "none", db |-> Host, arg |-> SomeArg,
           after |-> NoTaskId, overdue |-> FALSE]
Forgotten == [NoTask EXCEPT !.status = "forgotten"]

open(t) == t.status \in {"queued", "running"}

\* i is the id the next task gets.
IsNew(ts, i) == ts[i].status = "none" /\ \A j \in 1..(i - 1) : ts[j].status # "none"
Room(ts) == \E i \in TaskIds : IsNew(ts, i)

OpenSame(ts, d, typ, arg) ==
  {i \in TaskIds : /\ open(ts[i]) /\ ts[i].db = d
                   /\ openKey(ts[i].type, ts[i].arg) = openKey(typ, arg)}

Queued(d, typ, arg, after) ==
  [status |-> "queued", type |-> typ, db |-> d, arg |-> arg, after |-> after, overdue |-> FALSE]

\* Mutant: an open task of the same kind is not looked for.
enqueue_always(ts, d, typ, arg, after) ==
  [i \in TaskIds |-> IF IsNew(ts, i) THEN Queued(d, typ, arg, after) ELSE ts[i]]

\* Adds a task unless an open one has its key (errTaskOpen).
enqueue(ts, d, typ, arg, after) ==
  IF OpenSame(ts, d, typ, arg) # {} THEN ts
  ELSE [i \in TaskIds |-> IF IsNew(ts, i) THEN Queued(d, typ, arg, after) ELSE ts[i]]

finish(t, status) == [t EXCEPT !.status = status, !.overdue = FALSE]

(***************************************************************************)
(* claim                                                                   *)
(***************************************************************************)
Dead == {"failed", "lost", "cancelled", "forgotten"}

(* Queued tasks waiting for one that didn't succeed, in the order the loop *)
(* meets them: one cancelled earlier in the loop takes a later one along.  *)
Orphans(ts) ==
  LET orphan[i \in TaskIds] ==
        /\ ts[i].status = "queued" /\ ts[i].after # NoTaskId
        /\ \/ ts[ts[i].after].status \in Dead
           \/ ts[i].after < i /\ orphan[ts[i].after]
  IN {i \in TaskIds : ts[i].status = "queued" /\ ts[i].after # NoTaskId /\ orphan[i]}

CancelOrphans(ts) ==
  [i \in TaskIds |-> IF i \in Orphans(ts) THEN finish(ts[i], "cancelled") ELSE ts[i]]

\* Mutant: a task runs although the one it waits for hasn't finished.
Asked_any(ts, types, i) == ts[i].status = "queued" /\ (types = {} \/ ts[i].type \in types)

\* The filters of the claim loop before the database is looked up.
Asked(ts, types, i) ==
  /\ ts[i].status = "queued"
  /\ types = {} \/ ts[i].type \in types
  /\ ts[i].after = NoTaskId \/ ts[ts[i].after].status = "succeeded"

Known(dbs, d) == d # Host => dbs[d] = "present"

busy(ts, i) == \E r \in TaskIds : /\ ts[r].status = "running" /\ ts[r].db = ts[i].db
                                  /\ conflicts(ts[r].type, ts[i].type)

Claimable(ts, dbs, types, i) ==
  Asked(ts, types, i) /\ Known(dbs, ts[i].db) /\ ~busy(ts, i)

Picked(ts, dbs, types, i) ==
  /\ Claimable(ts, dbs, types, i)
  /\ \A j \in 1..(i - 1) : ~Claimable(ts, dbs, types, j)

\* Met by the loop before it returns: the database was removed.
CancelledRemoved(ts, dbs, types, i) ==
  /\ Asked(ts, types, i) /\ ~Known(dbs, ts[i].db)
  /\ \A j \in 1..(i - 1) : ~Claimable(ts, dbs, types, j)

\* Mutant: tasks of removed databases stay queued.
claim_keeps(ts, dbs, types) ==
  LET c == CancelOrphans(ts)
  IN [i \in TaskIds |-> IF Picked(c, dbs, types, i) THEN [c[i] EXCEPT !.status = "running"] ELSE c[i]]

claim(ts, dbs, types) ==
  LET c == CancelOrphans(ts)
  IN [i \in TaskIds |->
        CASE Picked(c, dbs, types, i) -> [c[i] EXCEPT !.status = "running"]
          [] CancelledRemoved(c, dbs, types, i) -> finish(c[i], "cancelled")
          [] OTHER -> c[i]]

(***************************************************************************)
(* reap, cancelQueued, prune                                               *)
(***************************************************************************)
\* Mutant: leases are never checked.
reap_none(ts) == ts

\* Mutant: a task whose lease ended is tried again.
reap_again(ts) == [i \in TaskIds |-> IF ts[i].status = "running" /\ ts[i].overdue
                                     THEN finish(ts[i], "queued") ELSE ts[i]]

reap(ts) == [i \in TaskIds |-> IF ts[i].status = "running" /\ ts[i].overdue
                               THEN finish(ts[i], "lost") ELSE ts[i]]

\* Before PostgreSQL is fenced; the standby's own tasks stay.
cancelQueued(ts, d) ==
  [i \in TaskIds |-> IF ts[i].status = "queued" /\ ts[i].db = d /\ ts[i].type \notin StandbyTasks
                     THEN finish(ts[i], "cancelled") ELSE ts[i]]

Newer(ts, i) == {j \in TaskIds : j > i /\ ts[j].status \in Outcome}

\* Finished tasks beyond the KeepFinished newest go; open ones always stay.
prune(ts) ==
  [i \in TaskIds |-> IF ts[i].status \in Outcome /\ Cardinality(Newer(ts, i)) >= KeepFinished
                     THEN Forgotten ELSE ts[i]]

(***************************************************************************)
(* The handlers                                                            *)
(***************************************************************************)
Init ==
  /\ tasks = [i \in TaskIds |-> NoTask]
  /\ databases = [d \in Databases |-> "new"]

\* register, standbyCreate: a database with a fresh ID.
Register(d) ==
  /\ databases[d] = "new"
  /\ databases' = [databases EXCEPT ![d] = "present"]
  /\ tasks' = prune(tasks)

\* A request that queues a task, alone or behind an open one of its database.
Enqueue(d, typ, arg, after) ==
  /\ Known(databases, d)
  /\ Room(tasks)
  /\ typ \notin KeyedByArg => arg = SomeArg
  /\ after # NoTaskId => open(tasks[after]) /\ tasks[after].db = d
  /\ tasks' = prune(enqueue(tasks, d, typ, arg, after))
  /\ UNCHANGED databases

\* POST /v1/agent/tasks/claim.
Claim(types) ==
  /\ tasks' = prune(claim(tasks, databases, types))
  /\ UNCHANGED databases

\* Mutant: an outcome is accepted for a task that isn't running any more.
Complete_any(i, status) ==
  /\ tasks[i].status \in {"running"} \cup Outcome
  /\ tasks' = prune([tasks EXCEPT ![i] = finish(@, status)])
  /\ UNCHANGED databases

\* POST /v1/agent/tasks/{id}/complete; any other task: 409, nothing changes.
Complete(i, status) ==
  /\ tasks[i].status = "running"
  /\ tasks' = prune([tasks EXCEPT ![i] = finish(@, status)])
  /\ UNCHANGED databases

\* Time passes: the lease of a running task runs out.
LeaseEnds(i) ==
  /\ tasks[i].status = "running" /\ ~tasks[i].overdue
  /\ tasks' = [tasks EXCEPT ![i].overdue = TRUE]
  /\ UNCHANGED databases

\* Tick, every 30 seconds (what schedule queues is an Enqueue).
Tick ==
  /\ tasks' = prune(reap(tasks))
  /\ UNCHANGED databases

\* standbyFence, fenceSuperseded.
CancelQueued(d) ==
  /\ databases[d] = "present"
  /\ tasks' = prune(cancelQueued(tasks, d))
  /\ UNCHANGED databases

\* deleteSafeCopy of a copy that isn't being made yet.
CancelSafeCopy(i) ==
  /\ tasks[i].status = "queued" /\ tasks[i].type = "safe_copy"
  /\ tasks' = prune([tasks EXCEPT ![i] = finish(@, "cancelled")])
  /\ UNCHANGED databases

\* standbyForget, and standbyRemove once it succeeded: the tasks stay.
Forget(d) ==
  /\ databases[d] = "present"
  /\ ~\E i \in TaskIds : open(tasks[i]) /\ tasks[i].db = d /\ tasks[i].type \in StandbyTasks
  /\ databases' = [databases EXCEPT ![d] = "gone"]
  /\ tasks' = prune(tasks)

Next ==
  \/ \E d \in Databases : Register(d) \/ CancelQueued(d) \/ Forget(d)
  \/ \E d \in Databases \cup {Host}, typ \in Types, arg \in Args, after \in TaskIds \cup {NoTaskId} :
       Enqueue(d, typ, arg, after)
  \/ \E types \in ClaimFilters : Claim(types)
  \/ \E i \in TaskIds, status \in {"succeeded", "failed"} : Complete(i, status)
  \/ \E i \in TaskIds : LeaseEnds(i) \/ CancelSafeCopy(i)
  \/ Tick

(* The scheduler goroutine ticks for ever, clocks advance, and the agent's *)
(* main loop polls without a filter whatever else it does.                 *)
Fairness ==
  /\ WF_vars(Tick)
  /\ \A i \in TaskIds : WF_vars(LeaseEnds(i))
  /\ WF_vars(Claim({}))

Spec == Init /\ [][Next]_vars /\ Fairness

(***************************************************************************)
(* Properties                                                              *)
(***************************************************************************)
TypeOK ==
  /\ tasks \in [TaskIds -> TaskRec]
  /\ databases \in [Databases -> {"new", "present", "gone"}]

Running(i) == tasks[i].status = "running"

(* "A full and a differential backup may wait together", but never two     *)
(* open tasks with one key: what enqueue refuses stays refused whatever    *)
(* order requests, claims and outcomes come in (tasks.go, openKey).        *)
OneOpenPerKey ==
  \A i, j \in TaskIds :
    (/\ i # j /\ open(tasks[i]) /\ open(tasks[j]) /\ tasks[i].db = tasks[j].db)
    => openKey(tasks[i].type, tasks[i].arg) # openKey(tasks[j].type, tasks[j].arg)

(* "Tasks run one at a time per database and lane" (tasks.go:13), with     *)
(* several agent loops claiming, leases running out and late outcomes.     *)
OnePerLane ==
  \A i, j \in TaskIds :
    (i # j /\ Running(i) /\ Running(j) /\ tasks[i].db = tasks[j].db)
    => lane(tasks[i].type) # lane(tasks[j].type)

(* "A task that stops PostgreSQL never runs beside a health fix"           *)
(* (tasks.go:15): neither may be handed out while the other runs.          *)
NoFixBesideStop ==
  \A i, j \in TaskIds :
    (/\ i # j /\ Running(i) /\ Running(j) /\ tasks[i].db = tasks[j].db
     /\ tasks[i].type \in stopsPostgres)
    => lane(tasks[j].type) # "maintenance"

(* A task that waits for another one is only ever handed out after that    *)
(* one succeeded (its record may be gone from the history since): a Mark   *)
(* before an upgrade or a rewind, a backup before its Proof.               *)
DependentsWait ==
  \A i \in TaskIds :
    (tasks[i].status \in {"running", "succeeded", "failed", "lost"} /\ tasks[i].after # NoTaskId)
    => tasks[tasks[i].after].status \in {"succeeded", "forgotten"}

(* No running task stays open for ever: its outcome arrives or its lease   *)
(* ends it, though the agent that ran it may be gone (reap).               *)
EveryClaimCloses == \A i \in TaskIds : Running(i) ~> ~Running(i)

(* No queued task waits for ever, whatever it waits for: it is handed out  *)
(* or cancelled (lanes, dependencies and removed databases together never  *)
(* block one for good).                                                    *)
EveryQueuedMoves == \A i \in TaskIds : (tasks[i].status = "queued") ~> (tasks[i].status # "queued")

(* The queue implements what TaskLifecycle promises for every task.        *)
Lifecycle == INSTANCE TaskLifecycle WITH status <- [i \in TaskIds |-> tasks[i].status]
ImplementsLifecycle == Lifecycle!Spec
=============================================================================
