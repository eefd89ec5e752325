-------------------------- MODULE TaskQueueProofs --------------------------
(***************************************************************************)
(* Proofs about TaskQueue for any number of databases, types and tasks.    *)
(*                                                                         *)
(* Every update is a composition of functions on the task table.  Each     *)
(* function gets one lemma that says what it does to a task; an invariant  *)
(* then needs those lemmas and not the functions' definitions.             *)
(***************************************************************************)
EXTENDS TaskQueue, TLAPS

Table == [TaskIds -> TaskRec]

\* The tasks of table b that are open (running) were so in a, unchanged in
\* what keys and lanes depend on.
SameTask(t, u) == t.type = u.type /\ t.db = u.db /\ t.arg = u.arg /\ t.after = u.after
OpenNarrows(a, b) == \A i \in TaskIds : open(b[i]) => open(a[i]) /\ SameTask(a[i], b[i])
RunNarrows(a, b) ==
  \A i \in TaskIds : b[i].status = "running" => a[i].status = "running" /\ SameTask(a[i], b[i])

(* NoTask and Forgotten are task records. *)
LEMMA BlankRecords == NoTask \in TaskRec /\ Forgotten \in TaskRec
  <1>1. SomeArg \in Args
    BY ArgsAssumption DEF SomeArg
  <1>2. NoTask \in TaskRec
    BY <1>1 DEF NoTask, TaskRec, TaskStatus, Outcome, NoTaskId
  <1>3. Forgotten \in TaskRec
    BY <1>2 DEF Forgotten, NoTask, TaskRec, TaskStatus, Outcome, NoTaskId
  <1> QED BY <1>2, <1>3

(* finish changes the status and the lease, nothing else. *)
LEMMA FinishEffect ==
  ASSUME NEW t \in TaskRec, NEW s \in Outcome
  PROVE  /\ finish(t, s) \in TaskRec
         /\ finish(t, s).status = s
         /\ SameTask(t, finish(t, s))
  BY DEF finish, TaskRec, TaskStatus, Outcome, SameTask

(* prune only turns finished tasks into forgotten ones. *)
LEMMA PruneEffect ==
  ASSUME NEW ts \in Table
  PROVE  /\ prune(ts) \in Table
         /\ \A i \in TaskIds : \/ prune(ts)[i] = ts[i]
                               \/ ts[i].status \in Outcome /\ prune(ts)[i] = Forgotten
  BY BlankRecords DEF prune, Table

LEMMA PruneNarrows ==
  ASSUME NEW ts \in Table
  PROVE  OpenNarrows(ts, prune(ts)) /\ RunNarrows(ts, prune(ts))
  BY PruneEffect DEF OpenNarrows, RunNarrows, SameTask, open, Forgotten, NoTask, Outcome

(* Narrowing composes. *)
LEMMA NarrowsTrans ==
  ASSUME NEW a \in Table, NEW b \in Table, NEW c \in Table
  PROVE  /\ OpenNarrows(a, b) /\ OpenNarrows(b, c) => OpenNarrows(a, c)
         /\ RunNarrows(a, b) /\ RunNarrows(b, c) => RunNarrows(a, c)
  BY DEF OpenNarrows, RunNarrows, SameTask

(* At most one id is the next one. *)
LEMMA NewUnique ==
  ASSUME NEW ts \in Table, NEW i \in TaskIds, NEW j \in TaskIds, IsNew(ts, i), IsNew(ts, j)
  PROVE  i = j
  BY BoundsAssumption DEF IsNew, TaskIds

(* enqueue leaves the table as it was, or puts a queued task in the next   *)
(* free place when no open task has its key.                               *)
LEMMA EnqueueEffect ==
  ASSUME NEW ts \in Table, NEW d \in Databases \cup {Host}, NEW typ \in Types,
         NEW arg \in Args, NEW after \in TaskIds \cup {NoTaskId}
  PROVE  /\ enqueue(ts, d, typ, arg, after) \in Table
         /\ \/ enqueue(ts, d, typ, arg, after) = ts
            \/ /\ OpenSame(ts, d, typ, arg) = {}
               /\ \A i \in TaskIds :
                    \/ enqueue(ts, d, typ, arg, after)[i] = ts[i]
                    \/ /\ IsNew(ts, i)
                       /\ enqueue(ts, d, typ, arg, after)[i] = Queued(d, typ, arg, after)
  <1>1. Queued(d, typ, arg, after) \in TaskRec
    BY DEF Queued, TaskRec, TaskStatus
  <1> QED BY <1>1 DEF enqueue, Table

LEMMA EnqueueStatus ==
  ASSUME NEW ts \in Table, NEW d \in Databases \cup {Host}, NEW typ \in Types,
         NEW arg \in Args, NEW after \in TaskIds \cup {NoTaskId}
  PROVE  \A i \in TaskIds : \/ enqueue(ts, d, typ, arg, after)[i] = ts[i]
                            \/ /\ ts[i].status = "none"
                               /\ enqueue(ts, d, typ, arg, after)[i].status = "queued"
  <1> DEFINE out == enqueue(ts, d, typ, arg, after)
             new == Queued(d, typ, arg, after)
  <1>1. /\ out \in Table
        /\ \/ out = ts
           \/ /\ OpenSame(ts, d, typ, arg) = {}
              /\ \A i \in TaskIds : out[i] = ts[i] \/ (IsNew(ts, i) /\ out[i] = new)
    BY EnqueueEffect
  <1>2. new.status = "queued"
    BY DEF Queued
  <1> HIDE DEF out, new
  <1>3. \A i \in TaskIds : out[i] = ts[i] \/ (ts[i].status = "none" /\ out[i].status = "queued")
    BY <1>1, <1>2 DEF IsNew
  <1> QED BY <1>3 DEF out

(* Orphans are queued tasks, so CancelOrphans only cancels queued tasks. *)
LEMMA CancelOrphansEffect ==
  ASSUME NEW ts \in Table
  PROVE  /\ CancelOrphans(ts) \in Table
         /\ \A i \in TaskIds :
              \/ CancelOrphans(ts)[i] = ts[i]
              \/ ts[i].status = "queued" /\ CancelOrphans(ts)[i] = finish(ts[i], "cancelled")
  <1>1. \A i \in Orphans(ts) : ts[i].status = "queued"
    BY DEF Orphans
  <1>2. \A i \in TaskIds : finish(ts[i], "cancelled") \in TaskRec
    BY FinishEffect DEF Table, Outcome
  <1> QED BY <1>1, <1>2 DEF CancelOrphans, Table

(* claim hands out tasks that Picked names and cancels queued ones. *)
LEMMA ClaimEffect ==
  ASSUME NEW ts \in Table, NEW dbs, NEW types
  PROVE  /\ claim(ts, dbs, types) \in Table
         /\ \A i \in TaskIds :
              \/ claim(ts, dbs, types)[i] = CancelOrphans(ts)[i]
              \/ /\ CancelOrphans(ts)[i].status = "queued"
                 /\ claim(ts, dbs, types)[i] = finish(CancelOrphans(ts)[i], "cancelled")
              \/ /\ Picked(CancelOrphans(ts), dbs, types, i)
                 /\ claim(ts, dbs, types)[i] = [CancelOrphans(ts)[i] EXCEPT !.status = "running"]
  <1> DEFINE c == CancelOrphans(ts)
             out == claim(ts, dbs, types)
  <1>0. c \in Table
    BY CancelOrphansEffect
  <1> HIDE DEF c
  <1>1. ASSUME NEW i \in TaskIds
        PROVE  /\ finish(c[i], "cancelled") \in TaskRec
               /\ [c[i] EXCEPT !.status = "running"] \in TaskRec
    <2>1. c[i] \in TaskRec
      BY <1>0 DEF Table
    <2>2. finish(c[i], "cancelled") \in TaskRec
      BY <2>1, FinishEffect DEF Outcome
    <2>3. [c[i] EXCEPT !.status = "running"] \in TaskRec
      BY <2>1 DEF TaskRec, TaskStatus
    <2> QED BY <2>2, <2>3
  <1>2. \A i \in TaskIds : CancelledRemoved(c, dbs, types, i) => c[i].status = "queued"
    BY DEF CancelledRemoved, Asked
  <1>3. out = [i \in TaskIds |->
                 CASE Picked(c, dbs, types, i) -> [c[i] EXCEPT !.status = "running"]
                   [] CancelledRemoved(c, dbs, types, i) -> finish(c[i], "cancelled")
                   [] OTHER -> c[i]]
    BY DEF claim, c
  <1> HIDE DEF out
  <1>4. \A i \in TaskIds :
              \/ out[i] = c[i]
              \/ c[i].status = "queued" /\ out[i] = finish(c[i], "cancelled")
              \/ Picked(c, dbs, types, i) /\ out[i] = [c[i] EXCEPT !.status = "running"]
    BY <1>2, <1>3
  <1>5. out \in Table
    BY <1>0, <1>1, <1>3, <1>4 DEF Table
  <1> QED BY <1>4, <1>5 DEF out, c

(* At most one task is picked. *)
LEMMA PickedUnique ==
  ASSUME NEW ts, NEW dbs, NEW types, NEW i \in TaskIds, NEW j \in TaskIds,
         Picked(ts, dbs, types, i), Picked(ts, dbs, types, j)
  PROVE  i = j
  BY BoundsAssumption DEF Picked, TaskIds

(* A picked task was queued and conflicts with no running one. *)
LEMMA PickedFree ==
  ASSUME NEW ts, NEW dbs, NEW types, NEW i \in TaskIds, Picked(ts, dbs, types, i)
  PROVE  /\ ts[i].status = "queued"
         /\ ts[i].after # NoTaskId => ts[ts[i].after].status = "succeeded"
         /\ \A r \in TaskIds : ts[r].status = "running" /\ ts[r].db = ts[i].db
                               => ~conflicts(ts[r].type, ts[i].type)
  BY DEF Picked, Claimable, Asked, busy

LEMMA ReapEffect ==
  ASSUME NEW ts \in Table
  PROVE  /\ reap(ts) \in Table
         /\ \A i \in TaskIds : \/ reap(ts)[i] = ts[i]
                               \/ ts[i].status = "running" /\ reap(ts)[i] = finish(ts[i], "lost")
  <1>1. \A i \in TaskIds : finish(ts[i], "lost") \in TaskRec
    BY FinishEffect DEF Table, Outcome
  <1> QED BY <1>1 DEF reap, Table

LEMMA CancelQueuedEffect ==
  ASSUME NEW ts \in Table, NEW d
  PROVE  /\ cancelQueued(ts, d) \in Table
         /\ \A i \in TaskIds :
              \/ cancelQueued(ts, d)[i] = ts[i]
              \/ ts[i].status = "queued" /\ cancelQueued(ts, d)[i] = finish(ts[i], "cancelled")
  <1>1. \A i \in TaskIds : finish(ts[i], "cancelled") \in TaskRec
    BY FinishEffect DEF Table, Outcome
  <1> QED BY <1>1 DEF cancelQueued, Table

(***************************************************************************)
(* The shape of a step: a handler that neither queues nor hands out, an    *)
(* enqueue, or a claim; each followed by prune (time passing: without).    *)
(***************************************************************************)
QuietStep(a, b) ==
  \A i \in TaskIds :
    \/ b[i] = a[i]
    \/ a[i].status = "running" /\ b[i] = [a[i] EXCEPT !.overdue = TRUE]
    \/ a[i].status = "running" /\ \E s \in {"succeeded", "failed", "lost"} : b[i] = finish(a[i], s)
    \/ a[i].status = "queued" /\ b[i] = finish(a[i], "cancelled")

QuietUpdate == \E b \in Table : QuietStep(tasks, b) /\ tasks' \in {b, prune(b)}

EnqueueUpdate ==
  \E d \in Databases \cup {Host}, typ \in Types, arg \in Args, after \in TaskIds \cup {NoTaskId} :
    tasks' = prune(enqueue(tasks, d, typ, arg, after))

ClaimUpdate == \E types \in ClaimFilters : tasks' = prune(claim(tasks, databases, types))

\* Finishing one task of a well-typed table is a quiet step.
LEMMA FinishOne ==
  ASSUME NEW ts \in Table, NEW i \in TaskIds, NEW s \in Outcome,
         \/ ts[i].status = "running" /\ s \in {"succeeded", "failed", "lost"}
         \/ ts[i].status = "queued" /\ s = "cancelled"
  PROVE  /\ [ts EXCEPT ![i] = finish(@, s)] \in Table
         /\ QuietStep(ts, [ts EXCEPT ![i] = finish(@, s)])
  <1>1. finish(ts[i], s) \in TaskRec
    BY FinishEffect DEF Table
  <1> QED BY <1>1 DEF Table, QuietStep

LEMMA StepShape ==
  ASSUME TypeOK, [Next]_vars
  PROVE  QuietUpdate \/ EnqueueUpdate \/ ClaimUpdate
  <1> USE DEF TypeOK
  <1>0. tasks \in Table
    BY DEF Table
  <1>q. QuietStep(tasks, tasks)
    BY DEF QuietStep
  <1>1. ASSUME NEW d \in Databases, Register(d) \/ Forget(d)
        PROVE QuietUpdate
    BY <1>0, <1>1, <1>q DEF Register, Forget, QuietUpdate
  <1>2. ASSUME NEW d \in Databases, CancelQueued(d)
        PROVE QuietUpdate
    <2>1. cancelQueued(tasks, d) \in Table /\ QuietStep(tasks, cancelQueued(tasks, d))
      BY <1>0, CancelQueuedEffect DEF QuietStep
    <2> QED BY <1>2, <2>1 DEF CancelQueued, QuietUpdate
  <1>3. ASSUME NEW d \in Databases \cup {Host}, NEW typ \in Types, NEW arg \in Args,
               NEW after \in TaskIds \cup {NoTaskId}, Enqueue(d, typ, arg, after)
        PROVE EnqueueUpdate
    BY <1>3 DEF Enqueue, EnqueueUpdate
  <1>4. ASSUME NEW types \in ClaimFilters, Claim(types)
        PROVE ClaimUpdate
    BY <1>4 DEF Claim, ClaimUpdate
  <1>5. ASSUME NEW i \in TaskIds, NEW status \in {"succeeded", "failed"}, Complete(i, status)
        PROVE QuietUpdate
    <2>1. /\ [tasks EXCEPT ![i] = finish(@, status)] \in Table
          /\ QuietStep(tasks, [tasks EXCEPT ![i] = finish(@, status)])
      BY <1>0, <1>5, FinishOne DEF Complete, Outcome
    <2> QED BY <1>5, <2>1 DEF Complete, QuietUpdate
  <1>6. ASSUME NEW i \in TaskIds, LeaseEnds(i)
        PROVE QuietUpdate
    <2>1. tasks[i] \in TaskRec
      BY <1>0 DEF Table
    <2>2. [tasks[i] EXCEPT !.overdue = TRUE] \in TaskRec
      BY <2>1 DEF TaskRec
    <2>3. tasks' = [tasks EXCEPT ![i] = [tasks[i] EXCEPT !.overdue = TRUE]]
      BY <1>6 DEF LeaseEnds
    <2>4. tasks' \in Table
      BY <1>0, <2>2, <2>3 DEF Table
    <2>5. QuietStep(tasks, tasks')
      BY <1>0, <1>6, <2>3 DEF Table, LeaseEnds, QuietStep
    <2> QED BY <2>4, <2>5 DEF QuietUpdate
  <1>7. ASSUME NEW i \in TaskIds, CancelSafeCopy(i)
        PROVE QuietUpdate
    <2>1. /\ [tasks EXCEPT ![i] = finish(@, "cancelled")] \in Table
          /\ QuietStep(tasks, [tasks EXCEPT ![i] = finish(@, "cancelled")])
      BY <1>0, <1>7, FinishOne DEF CancelSafeCopy, Outcome
    <2> QED BY <1>7, <2>1 DEF CancelSafeCopy, QuietUpdate
  <1>8. ASSUME Tick
        PROVE QuietUpdate
    <2>1. reap(tasks) \in Table /\ QuietStep(tasks, reap(tasks))
      BY <1>0, ReapEffect DEF QuietStep
    <2> QED BY <1>8, <2>1 DEF Tick, QuietUpdate
  <1>9. ASSUME UNCHANGED vars
        PROVE QuietUpdate
    BY <1>0, <1>9, <1>q DEF vars, QuietUpdate
  <1> QED BY <1>1, <1>2, <1>3, <1>4, <1>5, <1>6, <1>7, <1>8, <1>9 DEF Next

(***************************************************************************)
(* Type correctness                                                        *)
(***************************************************************************)
LEMMA TablePreserved ==
  ASSUME TypeOK, [Next]_vars
  PROVE  tasks' \in Table
  <1>0. tasks \in Table
    BY DEF TypeOK, Table
  <1>1. CASE QuietUpdate
    BY <1>1, PruneEffect DEF QuietUpdate
  <1>2. CASE EnqueueUpdate
    BY <1>0, <1>2, EnqueueEffect, PruneEffect DEF EnqueueUpdate
  <1>3. CASE ClaimUpdate
    BY <1>0, <1>3, ClaimEffect, PruneEffect DEF ClaimUpdate
  <1> QED BY <1>1, <1>2, <1>3, StepShape

LEMMA TypeStep ==
  ASSUME TypeOK, [Next]_vars
  PROVE  TypeOK'
  <1>1. tasks' \in [TaskIds -> TaskRec]
    BY TablePreserved DEF Table
  <1>2. databases' \in [Databases -> {"new", "present", "gone"}]
    BY DEF TypeOK, Next, vars, Register, Enqueue, Claim, Complete, LeaseEnds, Tick, CancelQueued,
           CancelSafeCopy, Forget
  <1> QED BY <1>1, <1>2 DEF TypeOK

LEMMA TypeInit == Init => TypeOK
  BY BlankRecords DEF Init, TypeOK

(* The task table and the list of databases keep their types, in every     *)
(* behaviour of the queue (the records of state.Tasks, tasks.go).          *)
THEOREM TypeCorrect == Spec => []TypeOK
  <1>1. TypeOK /\ [Next]_vars => TypeOK'
    BY TypeStep
  <1> QED BY <1>1, TypeInit, PTL DEF Spec

(***************************************************************************)
(* Open keys and lanes                                                     *)
(***************************************************************************)
KeysDistinct(ts) ==
  \A i, j \in TaskIds :
    (i # j /\ open(ts[i]) /\ open(ts[j]) /\ ts[i].db = ts[j].db)
    => openKey(ts[i].type, ts[i].arg) # openKey(ts[j].type, ts[j].arg)

\* Tasks of one database that run together: what OnePerLane and
\* NoFixBesideStop say of a pair.
Apart(t, u) == /\ lane(t.type) # lane(u.type)
               /\ t.type \in stopsPostgres => lane(u.type) # "maintenance"
               /\ u.type \in stopsPostgres => lane(t.type) # "maintenance"

RunningApart(ts) ==
  \A i, j \in TaskIds :
    (i # j /\ ts[i].status = "running" /\ ts[j].status = "running" /\ ts[i].db = ts[j].db)
    => Apart(ts[i], ts[j])

LEMMA NarrowKeeps ==
  ASSUME NEW a \in Table, NEW b \in Table
  PROVE  /\ KeysDistinct(a) /\ OpenNarrows(a, b) => KeysDistinct(b)
         /\ RunningApart(a) /\ RunNarrows(a, b) => RunningApart(b)
  BY DEF KeysDistinct, RunningApart, Apart, OpenNarrows, RunNarrows, SameTask

LEMMA QuietNarrows ==
  ASSUME NEW a \in Table, NEW b \in Table, QuietStep(a, b)
  PROVE  OpenNarrows(a, b) /\ RunNarrows(a, b)
  <1> SUFFICES ASSUME NEW i \in TaskIds
               PROVE  /\ open(b[i]) => open(a[i]) /\ SameTask(a[i], b[i])
                      /\ b[i].status = "running" => a[i].status = "running" /\ SameTask(a[i], b[i])
    BY DEF OpenNarrows, RunNarrows
  <1>0. a[i] \in TaskRec
    BY DEF Table
  <1>1. CASE b[i] = a[i]
    BY <1>1 DEF SameTask
  <1>2. CASE a[i].status = "running" /\ b[i] = [a[i] EXCEPT !.overdue = TRUE]
    BY <1>0, <1>2 DEF TaskRec, SameTask, open
  <1>3. CASE \E s \in {"succeeded", "failed", "lost", "cancelled"} : b[i] = finish(a[i], s)
    BY <1>0, <1>3, FinishEffect DEF Outcome, open
  <1> QED BY <1>1, <1>2, <1>3 DEF QuietStep

LEMMA CancelOrphansNarrows ==
  ASSUME NEW ts \in Table
  PROVE  OpenNarrows(ts, CancelOrphans(ts)) /\ RunNarrows(ts, CancelOrphans(ts))
  <1>1. CancelOrphans(ts) \in Table /\ QuietStep(ts, CancelOrphans(ts))
    BY CancelOrphansEffect DEF QuietStep
  <1> QED BY <1>1, QuietNarrows

(* Handing out one task keeps the open keys, and keeps running tasks apart *)
(* because the picked one conflicts with none of them.                     *)
LEMMA ClaimKeeps ==
  ASSUME NEW ts \in Table, NEW dbs, NEW types
  PROVE  /\ KeysDistinct(ts) => KeysDistinct(claim(ts, dbs, types))
         /\ RunningApart(ts) => RunningApart(claim(ts, dbs, types))
  <1> DEFINE c == CancelOrphans(ts)
             out == claim(ts, dbs, types)
  <1>1. c \in Table /\ OpenNarrows(ts, c) /\ RunNarrows(ts, c)
    BY CancelOrphansEffect, CancelOrphansNarrows
  <1>2. /\ out \in Table
        /\ \A i \in TaskIds :
             \/ out[i] = c[i]
             \/ c[i].status = "queued" /\ out[i] = finish(c[i], "cancelled")
             \/ Picked(c, dbs, types, i) /\ out[i] = [c[i] EXCEPT !.status = "running"]
    BY ClaimEffect
  <1> HIDE DEF c, out
  <1>3. ASSUME NEW i \in TaskIds, open(out[i])
        PROVE  /\ open(c[i]) /\ SameTask(c[i], out[i])
               /\ out[i].status = "running" => c[i].status = "running" \/ Picked(c, dbs, types, i)
    <2>0. c[i] \in TaskRec
      BY <1>1 DEF Table
    <2>1. CASE out[i] = c[i]
      BY <1>3, <2>1 DEF SameTask
    <2>2. CASE out[i] = finish(c[i], "cancelled")
      BY <1>3, <2>0, <2>2, FinishEffect DEF open, Outcome
    <2>3. CASE Picked(c, dbs, types, i) /\ out[i] = [c[i] EXCEPT !.status = "running"]
      <3>1. c[i].status = "queued"
        BY <2>3, PickedFree
      <3> QED BY <2>0, <2>3, <3>1 DEF SameTask, TaskRec, open
    <2> QED BY <1>2, <2>1, <2>2, <2>3
  <1>4. KeysDistinct(ts) => KeysDistinct(out)
    <2>1. OpenNarrows(c, out)
      BY <1>3 DEF OpenNarrows
    <2> QED BY <1>1, <1>2, <2>1, NarrowKeeps
  <1>5. ASSUME RunningApart(ts)
        PROVE  RunningApart(out)
    <2>1. RunningApart(c)
      BY <1>1, <1>5, NarrowKeeps
    <2> SUFFICES ASSUME NEW i \in TaskIds, NEW j \in TaskIds, i # j, out[i].status = "running",
                        out[j].status = "running", out[i].db = out[j].db
                 PROVE  Apart(out[i], out[j])
      BY DEF RunningApart
    <2>2. /\ SameTask(c[i], out[i]) /\ SameTask(c[j], out[j])
          /\ c[i].status = "running" \/ Picked(c, dbs, types, i)
          /\ c[j].status = "running" \/ Picked(c, dbs, types, j)
      BY <1>3 DEF open
    <2>3. ~(Picked(c, dbs, types, i) /\ Picked(c, dbs, types, j))
      BY PickedUnique
    <2>4. CASE c[i].status = "running" /\ c[j].status = "running"
      BY <2>1, <2>2, <2>4 DEF RunningApart, Apart, SameTask
    <2>5. CASE c[i].status = "running" /\ Picked(c, dbs, types, j)
      <3>1. ~conflicts(c[i].type, c[j].type)
        BY <2>2, <2>5, PickedFree DEF SameTask
      <3> QED BY <2>2, <3>1 DEF conflicts, Apart, SameTask
    <2>6. CASE c[j].status = "running" /\ Picked(c, dbs, types, i)
      <3>1. ~conflicts(c[j].type, c[i].type)
        BY <2>2, <2>6, PickedFree DEF SameTask
      <3> QED BY <2>2, <3>1 DEF conflicts, Apart, SameTask
    <2> QED BY <2>2, <2>3, <2>4, <2>5, <2>6
  <1> QED BY <1>4, <1>5 DEF out

(* A new task has a key no open task has, and doesn't run. *)
LEMMA EnqueueKeeps ==
  ASSUME NEW ts \in Table, NEW d \in Databases \cup {Host}, NEW typ \in Types,
         NEW arg \in Args, NEW after \in TaskIds \cup {NoTaskId}
  PROVE  /\ KeysDistinct(ts) => KeysDistinct(enqueue(ts, d, typ, arg, after))
         /\ RunningApart(ts) => RunningApart(enqueue(ts, d, typ, arg, after))
  <1> DEFINE out == enqueue(ts, d, typ, arg, after)
             new == Queued(d, typ, arg, after)
  <1>1. /\ out \in Table
        /\ \/ out = ts
           \/ /\ OpenSame(ts, d, typ, arg) = {}
              /\ \A i \in TaskIds : out[i] = ts[i] \/ (IsNew(ts, i) /\ out[i] = new)
    BY EnqueueEffect
  <1>2. new.status = "queued" /\ new.db = d /\ new.type = typ /\ new.arg = arg
    BY DEF Queued
  <1> HIDE DEF out, new
  <1>3. CASE out = ts
    BY <1>3 DEF out
  <1>4. CASE /\ OpenSame(ts, d, typ, arg) = {}
             /\ \A i \in TaskIds : out[i] = ts[i] \/ (IsNew(ts, i) /\ out[i] = new)
    <2>1. RunNarrows(ts, out)
      BY <1>2, <1>4 DEF RunNarrows, SameTask
    <2>2. RunningApart(ts) => RunningApart(out)
      BY <1>1, <2>1, NarrowKeeps
    <2>3. \A i \in TaskIds : open(ts[i]) /\ ts[i].db = d => openKey(ts[i].type, ts[i].arg) # openKey(typ, arg)
      BY <1>4 DEF OpenSame
    <2>4. ASSUME KeysDistinct(ts), NEW i \in TaskIds, NEW j \in TaskIds, i # j,
                 open(out[i]), open(out[j]), out[i].db = out[j].db
          PROVE  openKey(out[i].type, out[i].arg) # openKey(out[j].type, out[j].arg)
      <3>1. CASE out[i] = ts[i] /\ out[j] = ts[j]
        BY <2>4, <3>1 DEF KeysDistinct
      <3>2. CASE out[i] = ts[i] /\ out[j] = new
        BY <1>2, <2>3, <2>4, <3>2
      <3>3. CASE out[i] = new /\ out[j] = ts[j]
        BY <1>2, <2>3, <2>4, <3>3
      <3>4. CASE IsNew(ts, i) /\ IsNew(ts, j)
        BY <2>4, <3>4, NewUnique
      <3> QED BY <1>4, <3>1, <3>2, <3>3, <3>4
    <2> QED BY <2>2, <2>4 DEF KeysDistinct, out
  <1> QED BY <1>1, <1>3, <1>4 DEF out

QueueInv == KeysDistinct(tasks) /\ RunningApart(tasks)

LEMMA QueueInvStep ==
  ASSUME TypeOK, QueueInv, [Next]_vars
  PROVE  QueueInv'
  <1>0. tasks \in Table
    BY DEF TypeOK, Table
  <1>p. ASSUME NEW b \in Table, KeysDistinct(b), RunningApart(b), tasks' \in {b, prune(b)}
        PROVE  QueueInv'
    <2>1. /\ prune(b) \in Table
          /\ OpenNarrows(b, prune(b)) /\ RunNarrows(b, prune(b))
      BY PruneEffect, PruneNarrows
    <2>2. KeysDistinct(prune(b)) /\ RunningApart(prune(b))
      BY <1>p, <2>1, NarrowKeeps
    <2>3. KeysDistinct(tasks') /\ RunningApart(tasks')
      BY <1>p, <2>2
    <2> QED BY <2>3 DEF QueueInv, KeysDistinct, RunningApart
  <1>1. CASE QuietUpdate
    <2>1. PICK b \in Table : QuietStep(tasks, b) /\ tasks' \in {b, prune(b)}
      BY <1>1 DEF QuietUpdate
    <2>2. KeysDistinct(b) /\ RunningApart(b)
      BY <1>0, <2>1, QuietNarrows, NarrowKeeps DEF QueueInv
    <2> QED BY <1>p, <2>1, <2>2
  <1>2. CASE EnqueueUpdate
    <2>1. PICK d \in Databases \cup {Host}, typ \in Types, arg \in Args, after \in TaskIds \cup {NoTaskId} :
            tasks' = prune(enqueue(tasks, d, typ, arg, after))
      BY <1>2 DEF EnqueueUpdate
    <2>2. /\ enqueue(tasks, d, typ, arg, after) \in Table
          /\ KeysDistinct(enqueue(tasks, d, typ, arg, after))
          /\ RunningApart(enqueue(tasks, d, typ, arg, after))
      BY <1>0, EnqueueEffect, EnqueueKeeps DEF QueueInv
    <2> QED BY <1>p, <2>1, <2>2
  <1>3. CASE ClaimUpdate
    <2>1. PICK types \in ClaimFilters : tasks' = prune(claim(tasks, databases, types))
      BY <1>3 DEF ClaimUpdate
    <2>2. /\ claim(tasks, databases, types) \in Table
          /\ KeysDistinct(claim(tasks, databases, types))
          /\ RunningApart(claim(tasks, databases, types))
      BY <1>0, ClaimEffect, ClaimKeeps DEF QueueInv
    <2> QED BY <1>p, <2>1, <2>2
  <1> QED BY <1>1, <1>2, <1>3, StepShape

LEMMA QueueInvInit == Init => QueueInv
  BY DEF Init, QueueInv, KeysDistinct, RunningApart, NoTask, open

LEMMA QueueInvAlways == Spec => []QueueInv
  <1>1. TypeOK /\ QueueInv /\ [Next]_vars => QueueInv'
    BY QueueInvStep
  <1> QED BY <1>1, QueueInvInit, TypeCorrect, PTL DEF Spec

LEMMA QueueInvSays == QueueInv => OneOpenPerKey /\ OnePerLane /\ NoFixBesideStop
  BY DEF QueueInv, KeysDistinct, OneOpenPerKey, RunningApart, Apart, OnePerLane, NoFixBesideStop, Running

(* However many loops claim and whatever arrives late, no database ever    *)
(* has two open tasks with one key (openKey, enqueue).                     *)
THEOREM OneOpenPerKeyAlways == Spec => []OneOpenPerKey
  BY QueueInvSays, QueueInvAlways, PTL

(* One task runs at a time per database and lane, and none that stops      *)
(* PostgreSQL beside a health fix (conflicts, claim).                      *)
THEOREM LanesAlways == Spec => [](OnePerLane /\ NoFixBesideStop)
  BY QueueInvSays, QueueInvAlways, PTL

(***************************************************************************)
(* Tasks that wait for another one                                         *)
(***************************************************************************)
Started == {"running", "succeeded", "failed", "lost"}
Settled == {"succeeded", "forgotten"}

DependentsOK(ts) ==
  \A i \in TaskIds : ts[i].status \in Started /\ ts[i].after # NoTaskId => ts[ts[i].after].status \in Settled

\* From a to b no settled task is unsettled, and a task that has started
\* had started before.
Settles(a, b) ==
  \A i \in TaskIds : /\ a[i].status \in Settled => b[i].status \in Settled
                     /\ b[i].status \in Started => a[i].status \in Started /\ a[i].after = b[i].after

LEMMA SettlesKeeps ==
  ASSUME NEW a \in Table, NEW b \in Table, Settles(a, b), DependentsOK(a)
  PROVE  DependentsOK(b)
  <1> SUFFICES ASSUME NEW i \in TaskIds, b[i].status \in Started, b[i].after # NoTaskId
               PROVE  b[b[i].after].status \in Settled
    BY DEF DependentsOK
  <1>1. b[i].after \in TaskIds
    BY DEF Table, TaskRec
  <1>2. a[i].status \in Started /\ a[i].after = b[i].after
    BY DEF Settles
  <1>3. a[b[i].after].status \in Settled
    BY <1>2 DEF DependentsOK
  <1> QED BY <1>1, <1>3 DEF Settles

LEMMA QuietSettles ==
  ASSUME NEW a \in Table, NEW b \in Table, QuietStep(a, b)
  PROVE  Settles(a, b)
  <1> SUFFICES ASSUME NEW i \in TaskIds
               PROVE  /\ a[i].status \in Settled => b[i].status \in Settled
                      /\ b[i].status \in Started => a[i].status \in Started /\ a[i].after = b[i].after
    BY DEF Settles
  <1>0. a[i] \in TaskRec
    BY DEF Table
  <1>1. CASE b[i] = a[i]
    BY <1>1
  <1>2. CASE a[i].status = "running" /\ b[i] = [a[i] EXCEPT !.overdue = TRUE]
    BY <1>0, <1>2 DEF TaskRec, Started, Settled
  <1>3. CASE a[i].status = "running" /\ \E s \in {"succeeded", "failed", "lost"} : b[i] = finish(a[i], s)
    BY <1>0, <1>3, FinishEffect DEF Outcome, SameTask, Started, Settled
  <1>4. CASE a[i].status = "queued" /\ b[i] = finish(a[i], "cancelled")
    BY <1>0, <1>4, FinishEffect DEF Outcome, SameTask, Started, Settled
  <1> QED BY <1>1, <1>2, <1>3, <1>4 DEF QuietStep

LEMMA PruneSettles ==
  ASSUME NEW ts \in Table
  PROVE  Settles(ts, prune(ts))
  BY PruneEffect DEF Settles, Started, Settled, Forgotten, NoTask, Outcome

LEMMA EnqueueSettles ==
  ASSUME NEW ts \in Table, NEW d \in Databases \cup {Host}, NEW typ \in Types,
         NEW arg \in Args, NEW after \in TaskIds \cup {NoTaskId}
  PROVE  Settles(ts, enqueue(ts, d, typ, arg, after))
  BY EnqueueStatus DEF Settles, Started, Settled

(* The one task a claim starts waits for nothing or for one that succeeded. *)
LEMMA ClaimDependents ==
  ASSUME NEW ts \in Table, NEW dbs, NEW types, DependentsOK(ts)
  PROVE  DependentsOK(claim(ts, dbs, types))
  <1> DEFINE c == CancelOrphans(ts)
             out == claim(ts, dbs, types)
  <1>1. c \in Table /\ QuietStep(ts, c)
    BY CancelOrphansEffect DEF QuietStep
  <1>2. /\ out \in Table
        /\ \A i \in TaskIds :
             \/ out[i] = c[i]
             \/ c[i].status = "queued" /\ out[i] = finish(c[i], "cancelled")
             \/ Picked(c, dbs, types, i) /\ out[i] = [c[i] EXCEPT !.status = "running"]
    BY ClaimEffect
  <1>3. DependentsOK(c)
    BY <1>1, QuietSettles, SettlesKeeps
  <1> HIDE DEF c, out
  <1>4. \A i \in TaskIds : c[i].status \in Settled => out[i] = c[i]
    BY <1>2, PickedFree DEF Settled
  <1>5. ASSUME NEW i \in TaskIds, out[i].status \in Started, out[i].after # NoTaskId
        PROVE  out[out[i].after].status \in Settled
    <2>0. c[i] \in TaskRec
      BY <1>1 DEF Table
    <2>1. CASE out[i] = c[i]
      BY <1>1, <1>3, <1>4, <1>5, <2>0, <2>1 DEF DependentsOK, TaskRec
    <2>2. CASE out[i] = finish(c[i], "cancelled")
      BY <1>5, <2>0, <2>2, FinishEffect DEF Outcome, Started
    <2>3. CASE Picked(c, dbs, types, i) /\ out[i] = [c[i] EXCEPT !.status = "running"]
      <3>1. out[i].after = c[i].after
        BY <2>0, <2>3 DEF TaskRec
      <3>2. c[c[i].after].status = "succeeded"
        BY <1>5, <2>3, <3>1, PickedFree
      <3>3. c[i].after \in TaskIds
        BY <1>5, <2>0, <3>1 DEF TaskRec
      <3> QED BY <1>4, <3>1, <3>2, <3>3 DEF Settled
    <2> QED BY <1>2, <2>1, <2>2, <2>3
  <1> QED BY <1>5 DEF DependentsOK, out

(* Nothing starts before what it waits for has succeeded: the Mark before  *)
(* an upgrade or a rewind in place, the backup before its Proof (claim).   *)
THEOREM DependentsWaitAlways == Spec => []DependentsWait
  <1>1. Init => DependentsOK(tasks)
    BY DEF Init, DependentsOK, NoTask, Started
  <1>2. ASSUME TypeOK, DependentsOK(tasks), [Next]_vars
        PROVE  DependentsOK(tasks')
    <2>0. tasks \in Table
      BY <1>2 DEF TypeOK, Table
    <2>p. ASSUME NEW b \in Table, DependentsOK(b), tasks' \in {b, prune(b)}
          PROVE  DependentsOK(tasks')
      BY <2>p, PruneEffect, PruneSettles, SettlesKeeps
    <2>1. CASE QuietUpdate
      <3>1. PICK b \in Table : QuietStep(tasks, b) /\ tasks' \in {b, prune(b)}
        BY <2>1 DEF QuietUpdate
      <3>2. DependentsOK(b)
        BY <1>2, <2>0, <3>1, QuietSettles, SettlesKeeps
      <3> QED BY <2>p, <3>1, <3>2
    <2>2. CASE EnqueueUpdate
      <3>1. PICK d \in Databases \cup {Host}, typ \in Types, arg \in Args, after \in TaskIds \cup {NoTaskId} :
              tasks' = prune(enqueue(tasks, d, typ, arg, after))
        BY <2>2 DEF EnqueueUpdate
      <3>2. /\ enqueue(tasks, d, typ, arg, after) \in Table
            /\ DependentsOK(enqueue(tasks, d, typ, arg, after))
        BY <1>2, <2>0, EnqueueEffect, EnqueueSettles, SettlesKeeps
      <3> QED BY <2>p, <3>1, <3>2
    <2>3. CASE ClaimUpdate
      <3>1. PICK types \in ClaimFilters : tasks' = prune(claim(tasks, databases, types))
        BY <2>3 DEF ClaimUpdate
      <3>2. claim(tasks, databases, types) \in Table /\ DependentsOK(claim(tasks, databases, types))
        BY <1>2, <2>0, ClaimEffect, ClaimDependents
      <3> QED BY <2>p, <3>1, <3>2
    <2> QED BY <1>2, <2>1, <2>2, <2>3, StepShape
  <1>3. DependentsWait <=> DependentsOK(tasks)
    BY DEF DependentsWait, DependentsOK, Started, Settled
  <1>4. TypeOK /\ DependentsWait /\ [Next]_vars => DependentsWait'
    BY <1>2, <1>3 DEF DependentsWait, DependentsOK, Started, Settled
  <1>5. Init => DependentsWait
    BY <1>1, <1>3
  <1> QED BY <1>4, <1>5, TypeCorrect, PTL DEF Spec

(***************************************************************************)
(* Refinement: the queue implements TaskLifecycle.                         *)
(***************************************************************************)
Moved(s, t) == t = s \/ t \in Lifecycle!Moves[s]
NewlyRunning(a, b, i) == a[i].status = "queued" /\ b[i].status = "running"

LifecycleStep(a, b) ==
  /\ \A i \in TaskIds : Moved(a[i].status, b[i].status)
  /\ \A i, j \in TaskIds : NewlyRunning(a, b, i) /\ NewlyRunning(a, b, j) => i = j

\* Pruning after a lifecycle step is still one lifecycle step, unless it
\* would forget a task created in that step: a created task is queued.
LEMMA PruneStep ==
  ASSUME NEW a \in Table, NEW b \in Table, LifecycleStep(a, b)
  PROVE  LifecycleStep(a, prune(b))
  <1>1. \A i \in TaskIds : prune(b)[i] = b[i] \/ (b[i].status \in Outcome /\ prune(b)[i].status = "forgotten")
    BY PruneEffect DEF Forgotten, NoTask
  <1>2. ASSUME NEW i \in TaskIds PROVE Moved(a[i].status, prune(b)[i].status)
    <2>1. a[i].status \in TaskStatus /\ b[i].status \in TaskStatus
      BY DEF Table, TaskRec
    <2>2. Moved(a[i].status, b[i].status)
      BY DEF LifecycleStep
    <2>3. CASE prune(b)[i] = b[i]
      BY <2>2, <2>3
    <2>4. CASE b[i].status \in Outcome /\ prune(b)[i].status = "forgotten"
      BY <2>1, <2>2, <2>4 DEF Moved, Lifecycle!Moves, TaskStatus, Outcome
    <2> QED BY <1>1, <2>3, <2>4
  <1>3. ASSUME NEW i \in TaskIds, NEW j \in TaskIds, NewlyRunning(a, prune(b), i), NewlyRunning(a, prune(b), j)
        PROVE  i = j
    BY <1>1, <1>3 DEF NewlyRunning, LifecycleStep
  <1> QED BY <1>2, <1>3 DEF LifecycleStep

LEMMA QuietLifecycle ==
  ASSUME NEW a \in Table, NEW b \in Table, QuietStep(a, b)
  PROVE  LifecycleStep(a, b)
  <1>1. ASSUME NEW i \in TaskIds
        PROVE  Moved(a[i].status, b[i].status) /\ ~NewlyRunning(a, b, i)
    <2>0. a[i] \in TaskRec
      BY DEF Table
    <2>1. CASE b[i] = a[i]
      BY <2>1 DEF Moved, NewlyRunning
    <2>2. CASE a[i].status = "running" /\ b[i] = [a[i] EXCEPT !.overdue = TRUE]
      BY <2>0, <2>2 DEF TaskRec, Moved, NewlyRunning
    <2>3. CASE a[i].status = "running" /\ \E s \in {"succeeded", "failed", "lost"} : b[i] = finish(a[i], s)
      BY <2>0, <2>3, FinishEffect DEF Outcome, Moved, NewlyRunning, Lifecycle!Moves
    <2>4. CASE a[i].status = "queued" /\ b[i] = finish(a[i], "cancelled")
      BY <2>0, <2>4, FinishEffect DEF Outcome, Moved, NewlyRunning, Lifecycle!Moves
    <2> QED BY <2>1, <2>2, <2>3, <2>4 DEF QuietStep
  <1> QED BY <1>1 DEF LifecycleStep

LEMMA EnqueueLifecycle ==
  ASSUME NEW ts \in Table, NEW d \in Databases \cup {Host}, NEW typ \in Types,
         NEW arg \in Args, NEW after \in TaskIds \cup {NoTaskId}
  PROVE  LifecycleStep(ts, enqueue(ts, d, typ, arg, after))
  BY EnqueueStatus DEF LifecycleStep, Moved, NewlyRunning, Lifecycle!Moves

LEMMA ClaimLifecycle ==
  ASSUME NEW ts \in Table, NEW dbs, NEW types
  PROVE  LifecycleStep(ts, claim(ts, dbs, types))
  <1> DEFINE c == CancelOrphans(ts)
             out == claim(ts, dbs, types)
  <1>1. \A i \in TaskIds : \/ c[i] = ts[i]
                           \/ ts[i].status = "queued" /\ c[i].status = "cancelled"
    BY CancelOrphansEffect, FinishEffect DEF Table, Outcome
  <1>2. \A i \in TaskIds :
             \/ out[i] = c[i]
             \/ c[i].status = "queued" /\ out[i] = finish(c[i], "cancelled")
             \/ Picked(c, dbs, types, i) /\ out[i] = [c[i] EXCEPT !.status = "running"]
    BY ClaimEffect
  <1>3. c \in Table
    BY CancelOrphansEffect
  <1> HIDE DEF c, out
  <1>4. ASSUME NEW i \in TaskIds
        PROVE  \/ out[i].status = c[i].status
               \/ c[i].status = "queued" /\ out[i].status = "cancelled"
               \/ Picked(c, dbs, types, i) /\ c[i].status = "queued" /\ out[i].status = "running"
    <2>0. c[i] \in TaskRec
      BY <1>3 DEF Table
    <2>1. CASE out[i] = c[i]
      BY <2>1
    <2>2. CASE c[i].status = "queued" /\ out[i] = finish(c[i], "cancelled")
      BY <2>0, <2>2, FinishEffect DEF Outcome
    <2>3. CASE Picked(c, dbs, types, i) /\ out[i] = [c[i] EXCEPT !.status = "running"]
      BY <2>0, <2>3, PickedFree DEF TaskRec
    <2> QED BY <1>2, <2>1, <2>2, <2>3
  <1>5. \A i \in TaskIds : Moved(ts[i].status, out[i].status)
    BY <1>1, <1>4 DEF Moved, Lifecycle!Moves
  <1>6. ASSUME NEW i \in TaskIds, NEW j \in TaskIds, NewlyRunning(ts, out, i), NewlyRunning(ts, out, j)
        PROVE  i = j
    <2>1. Picked(c, dbs, types, i) /\ Picked(c, dbs, types, j)
      BY <1>1, <1>4, <1>6 DEF NewlyRunning
    <2> QED BY <2>1, PickedUnique
  <1> QED BY <1>5, <1>6 DEF LifecycleStep, out

LEMMA EveryStepLifecycle ==
  ASSUME TypeOK, [Next]_vars
  PROVE  LifecycleStep(tasks, tasks')
  <1>0. tasks \in Table
    BY DEF TypeOK, Table
  <1>1. CASE QuietUpdate
    <2>1. PICK b \in Table : QuietStep(tasks, b) /\ tasks' \in {b, prune(b)}
      BY <1>1 DEF QuietUpdate
    <2> QED BY <1>0, <2>1, QuietLifecycle, PruneStep
  <1>2. CASE EnqueueUpdate
    BY <1>0, <1>2, EnqueueEffect, EnqueueLifecycle, PruneStep DEF EnqueueUpdate
  <1>3. CASE ClaimUpdate
    BY <1>0, <1>3, ClaimEffect, ClaimLifecycle, PruneStep DEF ClaimUpdate
  <1> QED BY <1>1, <1>2, <1>3, StepShape

(* Each task is queued once, handed out at most once and closed once, with *)
(* an outcome that never changes (claim, complete, reap, prune).           *)
THEOREM QueueImplementsLifecycle == Spec => ImplementsLifecycle
  <1>1. Init => Lifecycle!Init
    BY DEF Init, Lifecycle!Init, NoTask
  <1>2. ASSUME TypeOK, [Next]_vars
        PROVE  Lifecycle!Next
    <2>1. LifecycleStep(tasks, tasks')
      BY <1>2, EveryStepLifecycle
    <2>2. \A i \in TaskIds : tasks'[i].status \in Lifecycle!Status
      BY <1>2, TablePreserved DEF Table, TaskRec, TaskStatus, Outcome, Lifecycle!Status, Lifecycle!Outcome
    <2> QED BY <2>1, <2>2 DEF Lifecycle!Next, LifecycleStep, Moved, NewlyRunning
  <1>3. TypeOK /\ [Next]_vars => [Lifecycle!Next]_([i \in TaskIds |-> tasks[i].status])
    BY <1>2
  <1> QED BY <1>1, <1>3, TypeCorrect, PTL DEF Spec, ImplementsLifecycle, Lifecycle!Spec
=============================================================================
