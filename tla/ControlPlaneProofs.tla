------------------------ MODULE ControlPlaneProofs ------------------------
(***************************************************************************)
(* Proofs about ControlPlane for any number of databases, tasks, Marks and *)
(* scenarios.                                                              *)
(*                                                                         *)
(* Every handler turns the table of tasks into another one by a few        *)
(* enqueues, outcomes, and a prune.  What a step does to the table is said *)
(* once, by Moves: which kinds of task are new, which may have succeeded,  *)
(* which may have started.  The invariants are then kept by Moves, and by  *)
(* what the handler's guards say about the new tasks.                      *)
(***************************************************************************)
EXTENDS ControlPlane, TaskQueueProofs, FiniteSetTheorems, WellFoundedInduction

\* What stays of an open task: only a Proof's dependency may be added later.
SameKind(t, u) ==
  /\ t.type = u.type /\ t.db = u.db /\ t.arg = u.arg
  /\ t.type # "drill" => t.after = u.after
  /\ u.after = NoTaskId => t.after = NoTaskId

\* From table a to b: the open tasks are those of a and new ones like those
\* in new; only tasks in done have succeeded, only tasks in run have started.
Moves(a, b, new, done, run) ==
  \A i \in TaskIds :
    /\ open(b[i]) => \/ open(a[i]) /\ SameKind(a[i], b[i])
                     \/ a[i].status = "none" /\ \E t \in new : SameKind(t, b[i])
    /\ b[i].status = "none" => a[i].status = "none"
    /\ b[i].status = "queued" => a[i].status \in {"none", "queued"}
    /\ b[i].status = "succeeded" => a[i].status = "succeeded" \/ i \in done
    /\ b[i].status = "running" => a[i].status = "running" \/ i \in run

\* Ids are handed out in order.
Appended(ts) == \A i, j \in TaskIds : i < j /\ ts[i].status = "none" => ts[j].status = "none"
SameBlanks(a, b) == \A i \in TaskIds : a[i].status = "none" <=> b[i].status = "none"

\* What every table of the control plane is.
Good(ts) == ts \in Table /\ KeysDistinct(ts) /\ Appended(ts)

(***************************************************************************)
(* Moves of the functions on tables                                        *)
(***************************************************************************)
LEMMA MovesTrans ==
  ASSUME NEW a, NEW b, NEW c, NEW new, NEW more, NEW done, NEW also,
         Moves(a, b, new, done, {}), Moves(b, c, more, also, {})
  PROVE  Moves(a, c, new \cup more, done \cup also, {})
  BY DEF Moves, SameKind, open

LEMMA MovesMore ==
  ASSUME NEW a, NEW b, NEW new, NEW more, NEW done, NEW run, new \subseteq more,
         Moves(a, b, new, done, run)
  PROVE  Moves(a, b, more, done, run)
  BY DEF Moves

LEMMA BlanksKeep ==
  ASSUME NEW a, NEW b, SameBlanks(a, b), Appended(a)
  PROVE  Appended(b)
  BY DEF SameBlanks, Appended

(* prune moves nothing. *)
LEMMA PruneMoves ==
  ASSUME NEW ts, Good(ts)
  PROVE  Good(prune(ts)) /\ Moves(ts, prune(ts), {}, {}, {})
  <1>0. ts \in Table
    BY DEF Good
  <1>1. /\ prune(ts) \in Table
        /\ \A i \in TaskIds : \/ prune(ts)[i] = ts[i]
                              \/ ts[i].status \in Outcome /\ prune(ts)[i] = Forgotten
    BY <1>0, PruneEffect
  <1>2. Forgotten.status = "forgotten"
    BY DEF Forgotten, NoTask
  <1>3. Moves(ts, prune(ts), {}, {}, {})
    BY <1>1, <1>2 DEF Moves, SameKind, open
  <1>4. SameBlanks(ts, prune(ts))
    BY <1>1, <1>2 DEF SameBlanks, Outcome
  <1>5. KeysDistinct(prune(ts))
    BY <1>0, <1>1, PruneNarrows, NarrowKeeps DEF Good
  <1> QED BY <1>1, <1>3, <1>4, <1>5, BlanksKeep DEF Good

(* A quiet step (an outcome, a lease) moves nothing but what it finishes.  *)
LEMMA QuietMoves ==
  ASSUME NEW a, NEW b \in Table, Good(a), QuietStep(a, b), NEW done,
         \A i \in TaskIds : b[i].status = "succeeded" => a[i].status = "succeeded" \/ i \in done
  PROVE  Good(b) /\ Moves(a, b, {}, done, {})
  <1>0. a \in Table
    BY DEF Good
  <1>1. OpenNarrows(a, b) /\ RunNarrows(a, b)
    BY <1>0, QuietNarrows
  <1>2. KeysDistinct(b)
    BY <1>0, <1>1, NarrowKeeps DEF Good
  <1>3. ASSUME NEW i \in TaskIds
        PROVE  /\ a[i].status = "none" <=> b[i].status = "none"
               /\ b[i].status = "queued" => a[i].status \in {"none", "queued"}
    <2>0. a[i] \in TaskRec
      BY <1>0 DEF Table
    <2>1. CASE b[i] = a[i]
      BY <2>1
    <2>2. CASE a[i].status = "running" /\ b[i] = [a[i] EXCEPT !.overdue = TRUE]
      BY <2>0, <2>2 DEF TaskRec
    <2>3. CASE /\ a[i].status \in {"running", "queued"}
               /\ \E s \in {"succeeded", "failed", "lost", "cancelled"} : b[i] = finish(a[i], s)
      BY <2>0, <2>3, FinishEffect DEF Outcome
    <2> QED BY <2>1, <2>2, <2>3 DEF QuietStep
  <1>4. Moves(a, b, {}, done, {})
    BY <1>1, <1>3 DEF Moves, SameKind, OpenNarrows, RunNarrows, SameTask
  <1>5. SameBlanks(a, b)
    BY <1>3 DEF SameBlanks
  <1> QED BY <1>2, <1>4, <1>5, BlanksKeep DEF Good

(* enqueue adds a task in the first free place. *)
LEMMA EnqueueMoves ==
  ASSUME NEW ts, Good(ts), NEW d \in Databases, NEW typ \in Types,
         NEW arg \in Args, NEW after \in TaskIds \cup {NoTaskId}
  PROVE  /\ Good(enqueue(ts, d, typ, arg, after))
         /\ Moves(ts, enqueue(ts, d, typ, arg, after), {Queued(d, typ, arg, after)}, {}, {})
  <1> DEFINE out == enqueue(ts, d, typ, arg, after)
             new == Queued(d, typ, arg, after)
  <1>0. ts \in Table /\ KeysDistinct(ts) /\ Appended(ts)
    BY DEF Good
  <1>1. /\ out \in Table
        /\ \A i \in TaskIds : out[i] = ts[i] \/ (IsNew(ts, i) /\ out[i] = new)
    BY <1>0, EnqueueEffect
  <1>2. KeysDistinct(out)
    BY <1>0, EnqueueKeeps
  <1>3. new.status = "queued"
    BY DEF Queued
  <1> HIDE DEF out, new
  <1>4. Moves(ts, out, {new}, {}, {})
    BY <1>1, <1>3 DEF Moves, SameKind, open, IsNew
  <1>5. ASSUME NEW i \in TaskIds, NEW j \in TaskIds, i < j, out[i].status = "none"
        PROVE  out[j].status = "none"
    <2>1. ts[i].status = "none" /\ ts[j].status = "none"
      BY <1>0, <1>1, <1>3, <1>5 DEF Appended
    <2>2. ~IsNew(ts, j)
      BY <1>5, <2>1, BoundsAssumption DEF IsNew, TaskIds
    <2> QED BY <1>1, <2>1, <2>2
  <1> QED BY <1>1, <1>2, <1>4, <1>5 DEF Good, Appended, out, new

(* The outcome of a running task: it is closed, nothing else moves. *)
LEMMA FinishedMoves ==
  ASSUME Good(tasks), NEW i \in TaskIds, NEW ok \in BOOLEAN, tasks[i].status = "running"
  PROVE  /\ Good(Finished(i, ok))
         /\ Moves(tasks, Finished(i, ok), {}, IF ok THEN {i} ELSE {}, {})
         /\ Finished(i, ok)[i].status \in {"succeeded", "failed"}
         /\ \A j \in TaskIds \ {i} : Finished(i, ok)[j] = tasks[j]
  <1> DEFINE s == IF ok THEN "succeeded" ELSE "failed"
             b == [tasks EXCEPT ![i] = finish(@, s)]
  <1>0. tasks \in Table
    BY DEF Good
  <1>1. s \in {"succeeded", "failed"} /\ s \in Outcome
    BY DEF Outcome
  <1>2. s = "succeeded" => ok
    OBVIOUS
  <1>3. Finished(i, ok) = b
    BY DEF Finished
  <1> HIDE DEF s
  <1>4. b \in Table /\ QuietStep(tasks, b)
    BY <1>0, <1>1, FinishOne
  <1>5. b[i] = finish(tasks[i], s) /\ \A j \in TaskIds \ {i} : b[j] = tasks[j]
    BY <1>0 DEF Table
  <1>6. b[i].status = s
    BY <1>0, <1>1, <1>5, FinishEffect DEF Table
  <1> HIDE DEF b
  <1>7. \A j \in TaskIds : b[j].status = "succeeded"
                           => tasks[j].status = "succeeded" \/ j \in (IF ok THEN {i} ELSE {})
    BY <1>2, <1>5, <1>6
  <1>8. Good(b) /\ Moves(tasks, b, {}, IF ok THEN {i} ELSE {}, {})
    BY <1>4, <1>7, QuietMoves
  <1> QED BY <1>1, <1>3, <1>5, <1>6, <1>8

(* Once closed, a task stays so. *)
LEMMA ClosedStays ==
  ASSUME NEW a, NEW b, NEW new, NEW done, NEW run, Moves(a, b, new, done, run),
         NEW i \in TaskIds, ~open(a[i]), a[i].status # "none"
  PROVE  ~open(b[i])
  BY DEF Moves

(* A free id, and then the first free id. *)
LEMMA FirstFree ==
  ASSUME NEW ts, NEW k \in TaskIds, ts[k].status = "none"
  PROVE  NewId(ts) \in TaskIds /\ IsNew(ts, NewId(ts))
  <1> DEFINE T == {i \in TaskIds : ts[i].status = "none"}
  <1>1. T \subseteq Nat /\ T # {}
    BY BoundsAssumption DEF TaskIds
  <1> DEFINE R == OpToRel(<, Nat)
  <1>2. IsWellFoundedOn(R, Nat)
    BY NatLessThanWellFounded, Zenon
  <1>3. \A x, y \in Nat : x < y => <<x, y>> \in R
    BY Zenon DEF OpToRel
  <1> HIDE DEF T, R
  <1>4. PICK x \in T : \A y \in T : ~(<<y, x>> \in R)
    BY <1>1, <1>2, WFMin
  <1>5. \A y \in T : ~(y < x)
    BY <1>1, <1>3, <1>4
  <1>6. x \in TaskIds /\ IsNew(ts, x)
    BY <1>5, BoundsAssumption DEF IsNew, TaskIds, T
  <1> QED BY <1>6 DEF NewId

LEMMA FreeIds ==
  ASSUME scenario \in Scenario, NEW n \in Nat, RoomFor(n), n >= 1
  PROVE  /\ \E i \in TaskIds : tasks[i].status = "none"
         /\ n >= 2 => \A j : \E i \in TaskIds : i # j /\ tasks[i].status = "none"
  <1> DEFINE S == {i \in 1 .. scenario.bound : tasks[i].status = "none"}
  <1>1. scenario.bound \in 1 .. MaxTasks
    BY DEF Scenario
  <1>2. S \subseteq 1 .. scenario.bound /\ S \subseteq TaskIds /\ scenario.bound \in Int
    BY <1>1, BoundsAssumption DEF TaskIds
  <1>3. IsFiniteSet(1 .. scenario.bound)
    BY <1>2, FS_Interval
  <1>4. IsFiniteSet(S)
    BY <1>2, <1>3, FS_Subset
  <1>5. Cardinality(S) >= n
    BY DEF RoomFor
  <1> HIDE DEF S
  <1>6. Cardinality(S) \in Nat
    BY <1>4, FS_CardinalityType
  <1>7. S # {}
    BY <1>4, <1>5, <1>6, FS_EmptySet
  <1>8. ASSUME n >= 2, NEW j
        PROVE  S \ {j} # {}
    <2>1. IsFiniteSet(S \ {j}) /\ Cardinality(S \ {j}) \in {Cardinality(S), Cardinality(S) - 1}
      BY <1>4, FS_RemoveElement
    <2>2. Cardinality(S \ {j}) # 0
      BY <1>5, <1>6, <1>8, <2>1
    <2> QED BY <2>1, <2>2, FS_EmptySet
  <1> QED BY <1>2, <1>7, <1>8 DEF S

(* With a free id and no open task of its key, the task gets the first one. *)
LEMMA EnqueuePlace ==
  ASSUME NEW ts, ts \in Table, NEW d, NEW typ, NEW arg, NEW after,
         OpenSame(ts, d, typ, arg) = {}, NEW k \in TaskIds, ts[k].status = "none"
  PROVE  /\ NewId(ts) \in TaskIds /\ ts[NewId(ts)].status = "none"
         /\ enqueue(ts, d, typ, arg, after)[NewId(ts)] = Queued(d, typ, arg, after)
         /\ \A i \in TaskIds \ {NewId(ts)} : enqueue(ts, d, typ, arg, after)[i] = ts[i]
  <1>1. NewId(ts) \in TaskIds /\ IsNew(ts, NewId(ts))
    BY FirstFree
  <1>2. \A i \in TaskIds : IsNew(ts, i) => i = NewId(ts)
    BY <1>1, NewUnique
  <1>3. enqueue(ts, d, typ, arg, after)
          = [i \in TaskIds |-> IF IsNew(ts, i) THEN Queued(d, typ, arg, after) ELSE ts[i]]
    BY DEF enqueue
  <1>4. ts[NewId(ts)].status = "none"
    BY <1>1 DEF IsNew
  <1> QED BY <1>1, <1>2, <1>3, <1>4

(* A full backup and a Proof that waits for it, if any. *)
LEMMA FullThenProofMoves ==
  ASSUME NEW ts, Good(ts), NEW d \in Databases, NEW k \in TaskIds, ts[k].status = "none"
  PROVE  /\ Good(FullThenProof(ts, d))
         /\ Moves(ts, FullThenProof(ts, d),
                  {Queued(d, "backup", Full, NoTaskId), Queued(d, "drill", SomeArg, NewId(ts))}, {}, {})
  <1> DEFINE full == Queued(d, "backup", Full, NoTaskId)
             proof == Queued(d, "drill", SomeArg, NewId(ts))
             one == enqueue(ts, d, "backup", Full, NoTaskId)
             two == enqueue(one, d, "drill", SomeArg, NewId(ts))
  <1>1. NewId(ts) \in TaskIds \cup {NoTaskId}
    BY FirstFree
  <1>2. Full \in Args /\ SomeArg \in Args /\ "backup" \in Types /\ "drill" \in Types
    BY CPArgsAssumption, CPTypesAssumption, ArgsAssumption DEF SomeArg
  <1>3. Good(one) /\ Moves(ts, one, {full}, {}, {})
    BY <1>2, EnqueueMoves
  <1>4. Good(two) /\ Moves(one, two, {proof}, {}, {})
    BY <1>1, <1>2, <1>3, EnqueueMoves
  <1>5. FullThenProof(ts, d) = ts \/ FullThenProof(ts, d) = two
    BY DEF FullThenProof
  <1> HIDE DEF full, proof, one, two
  <1>6. Moves(ts, ts, {}, {}, {})
    BY DEF Moves, SameKind
  <1>7. Moves(ts, ts, {full, proof}, {}, {})
    BY <1>6, MovesMore
  <1>8. Moves(ts, two, {full} \cup {proof}, {} \cup {}, {})
    BY <1>3, <1>4, MovesTrans
  <1>9. {full} \cup {proof} = {full, proof} /\ {} \cup {} = {}
    OBVIOUS
  <1>10. Moves(ts, FullThenProof(ts, d), {full, proof}, {}, {})
    BY <1>5, <1>7, <1>8, <1>9
  <1> QED BY <1>4, <1>5, <1>10 DEF full, proof

(* What a schedule queues, and only for a database that is active. *)
Scheduled(d) == IF dbStatus[d] # "active" THEN {}
                ELSE {Queued(d, "backup", Full, NoTaskId), Queued(d, "backup", Diff, NoTaskId),
                      Queued(d, "drill", SomeArg, NoTaskId)}

LEMMA ScheduleKindMoves ==
  ASSUME NEW ts, Good(ts), NEW d \in Databases, NEW kind \in {Full, Diff, "drill"}, NEW due,
         dbStatus[d] = "active"
  PROVE  Good(scheduleKind(ts, d, kind, due)) /\ Moves(ts, scheduleKind(ts, d, kind, due), Scheduled(d), {}, {})
  <1> DEFINE drill == enqueue(ts, d, "drill", SomeArg, NoTaskId)
             backup == enqueue(ts, d, "backup", kind, NoTaskId)
  <1>1. {Full, Diff, SomeArg} \subseteq Args /\ "backup" \in Types /\ "drill" \in Types
    BY CPArgsAssumption, CPTypesAssumption, ArgsAssumption DEF SomeArg
  <1>2. CASE scheduleKind(ts, d, kind, due) = ts
    <2>1. Moves(ts, ts, Scheduled(d), {}, {})
      BY DEF Moves, SameKind
    <2> QED BY <1>2, <2>1
  <1>3. CASE kind = "drill" /\ scheduleKind(ts, d, kind, due) = drill
    <2>1. Good(drill) /\ Moves(ts, drill, {Queued(d, "drill", SomeArg, NoTaskId)}, {}, {})
      BY <1>1, EnqueueMoves
    <2>2. {Queued(d, "drill", SomeArg, NoTaskId)} \subseteq Scheduled(d)
      BY DEF Scheduled
    <2> QED BY <1>3, <2>1, <2>2, MovesMore
  <1>4. CASE kind # "drill" /\ scheduleKind(ts, d, kind, due) = backup
    <2>1. Good(backup) /\ Moves(ts, backup, {Queued(d, "backup", kind, NoTaskId)}, {}, {})
      BY <1>1, <1>4, EnqueueMoves
    <2>2. {Queued(d, "backup", kind, NoTaskId)} \subseteq Scheduled(d)
      BY <1>4 DEF Scheduled
    <2> QED BY <1>4, <2>1, <2>2, MovesMore
  <1> QED BY <1>2, <1>3, <1>4 DEF scheduleKind

LEMMA ScheduleMoves ==
  ASSUME NEW ts, Good(ts), NEW d \in Databases, NEW due
  PROVE  Good(schedule(ts, d, due)) /\ Moves(ts, schedule(ts, d, due), Scheduled(d), {}, {})
  <1> DEFINE one == scheduleKind(ts, d, Full, due)
             two == scheduleKind(one, d, Diff, due)
             three == scheduleKind(two, d, "drill", due)
  <1>1. CASE dbStatus[d] # "active"
    <2>1. Moves(ts, ts, Scheduled(d), {}, {})
      BY DEF Moves, SameKind
    <2> QED BY <1>1, <2>1 DEF schedule
  <1>2. CASE dbStatus[d] = "active"
    <2>1. Good(one) /\ Moves(ts, one, Scheduled(d), {}, {})
      BY <1>2, ScheduleKindMoves
    <2>2. Good(two) /\ Moves(one, two, Scheduled(d), {}, {})
      BY <1>2, <2>1, ScheduleKindMoves
    <2>3. Good(three) /\ Moves(two, three, Scheduled(d), {}, {})
      BY <1>2, <2>2, ScheduleKindMoves
    <2>4. schedule(ts, d, due) = three
      BY <1>2 DEF schedule
    <2> HIDE DEF one, two, three
    <2>5. Moves(ts, two, Scheduled(d) \cup Scheduled(d), {} \cup {}, {})
      BY <2>1, <2>2, MovesTrans
    <2>6. Scheduled(d) \cup Scheduled(d) = Scheduled(d) /\ {} \cup {} = {}
      OBVIOUS
    <2>7. Moves(ts, three, Scheduled(d) \cup Scheduled(d), {} \cup {}, {})
      BY <2>3, <2>5, <2>6, MovesTrans
    <2> QED BY <2>3, <2>4, <2>6, <2>7
  <1> QED BY <1>1, <1>2

(* Retargeted only makes Proofs wait that waited for nothing. *)
LEMMA RetargetedMoves ==
  ASSUME NEW ts, Good(ts), NEW d, NEW full \in TaskIds
  PROVE  /\ Good(Retargeted(ts, d, full))
         /\ Moves(ts, Retargeted(ts, d, full), {}, {}, {})
         /\ \A i \in TaskIds : /\ Retargeted(ts, d, full)[i].status = "queued"
                               /\ Retargeted(ts, d, full)[i].db = d
                               /\ Retargeted(ts, d, full)[i].type = "drill"
                               => Retargeted(ts, d, full)[i].after # NoTaskId
         /\ \A i \in TaskIds : ts[i].type # "drill" => Retargeted(ts, d, full)[i] = ts[i]
  <1> DEFINE out == Retargeted(ts, d, full)
  <1>0. ts \in Table /\ KeysDistinct(ts) /\ Appended(ts) /\ full # NoTaskId
    BY BoundsAssumption DEF Good, TaskIds, NoTaskId
  <1>1. out = [i \in TaskIds |->
                 IF ts[i].status = "queued" /\ ts[i].db = d /\ ts[i].type = "drill" /\ ts[i].after = NoTaskId
                 THEN [ts[i] EXCEPT !.after = full] ELSE ts[i]]
    BY DEF Retargeted
  <1> HIDE DEF out
  <1>2. ASSUME NEW i \in TaskIds
        PROVE  /\ out[i] \in TaskRec
               /\ out[i].status = ts[i].status /\ out[i].type = ts[i].type /\ out[i].db = ts[i].db
               /\ out[i].arg = ts[i].arg
               /\ \/ out[i] = ts[i]
                  \/ /\ ts[i].type = "drill" /\ ts[i].after = NoTaskId /\ out[i].after = full
               /\ out[i].status = "queued" /\ out[i].db = d /\ out[i].type = "drill"
                  => out[i].after # NoTaskId
    <2>1. ts[i] \in TaskRec
      BY <1>0 DEF Table
    <2>2. CASE ts[i].status = "queued" /\ ts[i].db = d /\ ts[i].type = "drill" /\ ts[i].after = NoTaskId
      <3>1. out[i] = [ts[i] EXCEPT !.after = full]
        BY <1>1, <2>2
      <3> QED BY <1>0, <2>1, <2>2, <3>1 DEF TaskRec
    <2>3. CASE ~(ts[i].status = "queued" /\ ts[i].db = d /\ ts[i].type = "drill" /\ ts[i].after = NoTaskId)
      <3>1. out[i] = ts[i]
        BY <1>1, <2>3
      <3> QED BY <2>1, <2>3, <3>1
    <2> QED BY <2>2, <2>3
  <1>3. out \in Table
    BY <1>1, <1>2 DEF Table
  <1>4. KeysDistinct(out)
    BY <1>0, <1>2 DEF KeysDistinct, open
  <1>5. Appended(out)
    BY <1>0, <1>2 DEF Appended
  <1>6. Moves(ts, out, {}, {}, {})
    BY <1>0, <1>2 DEF Moves, SameKind, open
  <1> QED BY <1>2, <1>3, <1>4, <1>5, <1>6 DEF Good, out

\* The task a claim hands out, if any.
PickedNow(ts, dbs, types) == {i \in TaskIds : Picked(CancelOrphans(ts), dbs, types, i)}

(* A claim starts what it picked, and closes some queued tasks. *)
LEMMA ClaimMoves ==
  ASSUME NEW ts, Good(ts), NEW dbs, NEW types
  PROVE  /\ Good(claim(ts, dbs, types))
         /\ Moves(ts, claim(ts, dbs, types), {}, {}, PickedNow(ts, dbs, types))
  <1> DEFINE c == CancelOrphans(ts)
             out == claim(ts, dbs, types)
             picked == PickedNow(ts, dbs, types)
  <1>0. ts \in Table /\ KeysDistinct(ts) /\ Appended(ts)
    BY DEF Good
  <1>1. /\ c \in Table
        /\ \A i \in TaskIds : c[i] = ts[i] \/ (ts[i].status = "queued" /\ c[i] = finish(ts[i], "cancelled"))
    BY <1>0, CancelOrphansEffect
  <1>2. /\ out \in Table
        /\ \A i \in TaskIds :
             \/ out[i] = c[i]
             \/ c[i].status = "queued" /\ out[i] = finish(c[i], "cancelled")
             \/ Picked(c, dbs, types, i) /\ out[i] = [c[i] EXCEPT !.status = "running"]
    BY <1>0, ClaimEffect
  <1>3. KeysDistinct(out)
    BY <1>0, ClaimKeeps
  <1>4. \A i \in TaskIds : Picked(c, dbs, types, i) <=> i \in picked
    BY DEF PickedNow
  <1>5. \A i \in TaskIds : Picked(c, dbs, types, i) => c[i].status = "queued"
    BY PickedFree
  <1> HIDE DEF c, out, picked
  <1>6. ASSUME NEW i \in TaskIds
        PROVE  \/ out[i] = ts[i]
               \/ ts[i].status = "queued" /\ out[i].status = "cancelled"
               \/ /\ ts[i].status = "queued" /\ out[i].status = "running" /\ i \in picked
                  /\ SameTask(ts[i], out[i])
    <2>0. ts[i] \in TaskRec /\ c[i] \in TaskRec
      BY <1>0, <1>1 DEF Table
    <2>1. finish(ts[i], "cancelled").status = "cancelled" /\ finish(c[i], "cancelled").status = "cancelled"
      BY <2>0, FinishEffect DEF Outcome
    <2>2. CASE out[i] = c[i]
      BY <1>1, <2>1, <2>2
    <2>3. CASE c[i].status = "queued" /\ out[i] = finish(c[i], "cancelled")
      BY <1>1, <2>1, <2>3
    <2>4. CASE Picked(c, dbs, types, i) /\ out[i] = [c[i] EXCEPT !.status = "running"]
      <3>1. c[i] = ts[i] /\ ts[i].status = "queued"
        BY <1>1, <1>5, <2>1, <2>4
      <3> QED BY <1>4, <2>0, <2>4, <3>1 DEF TaskRec, SameTask
    <2> QED BY <1>2, <2>2, <2>3, <2>4
  <1>7. Moves(ts, out, {}, {}, picked)
    BY <1>6 DEF Moves, SameKind, SameTask, open
  <1>8. SameBlanks(ts, out)
    BY <1>6 DEF SameBlanks
  <1> QED BY <1>0, <1>2, <1>3, <1>7, <1>8, BlanksKeep DEF Good, out, picked

(* Pruning after a step changes nothing of what the step is said to do. *)
LEMMA ThenPrune ==
  ASSUME NEW a, NEW b, Good(b), NEW new, NEW done, NEW run, Moves(a, b, new, done, run)
  PROVE  Good(prune(b)) /\ Moves(a, prune(b), new, done, run)
  <1>1. Good(prune(b)) /\ Moves(b, prune(b), {}, {}, {})
    BY PruneMoves
  <1>2. Moves(a, prune(b), new, done, run)
    BY <1>1 DEF Moves, SameKind, open
  <1> QED BY <1>1, <1>2

(***************************************************************************)
(* The inductive invariant                                                 *)
(***************************************************************************)
Typed ==
  /\ Good(tasks)
  /\ databases \in [Databases -> {"new", "present", "gone"}]
  /\ dbStatus \in [Databases -> {"none", "pending_adopt", "awaiting_restart", "verifying", "active"}]
  /\ kept \in [Databases -> {"none", "before", "after_undo"}]
  /\ fresh \in [Databases -> TaskIds \cup {NoTaskId}]
  /\ marks \subseteq Mark
  /\ scenario \in Scenario

Flags == backedUp \in [Databases -> BOOLEAN] /\ proven \in [Databases -> BOOLEAN]

\* Tasks of the server itself belong to other components.
OfDatabases == \A i \in TaskIds : open(tasks[i]) => tasks[i].db \in Databases

\* A database is active once proven, and what backs it up, proves it or is
\* followed by a backup is only asked for when it is active.
needProof == {"backup", "drill", "upgrade", "upgrade_undo", "rewind_in_place", "rewind_undo"}
ActiveProven ==
  /\ \A d \in Databases : dbStatus[d] = "active" => proven[d]
  /\ \A i \in TaskIds : open(tasks[i]) /\ tasks[i].type \in needProof => proven[tasks[i].db]

\* A change waits for its restore point; once that succeeded, or the change
\* runs, its Mark is written.
changeTypes == hostWideTypes \cup {"rewind_in_place"}
Saved(ms, n) == \E m \in ms : m.task = n /\ m.written
Waits(ts, ms, i) ==
  /\ ts[i].after \in TaskIds /\ ts[ts[i].after].status # "none"
  /\ open(ts[ts[i].after]) => ts[i].status = "queued" /\ ts[ts[i].after].type = "restore_point"
  /\ ts[i].status = "running" \/ ts[ts[i].after].status = "succeeded" => Saved(ms, ts[i].after)
ChangesWait ==
  \A i \in TaskIds : open(tasks[i]) /\ tasks[i].type \in changeTypes => Waits(tasks, marks, i)

\* While the backup of the new timeline is open, a Proof that waits for
\* nothing was queued after it.
Behind(d) ==
  \A i \in TaskIds : /\ tasks[i].status = "queued" /\ tasks[i].type = "drill"
                     /\ tasks[i].db = d /\ tasks[i].after = NoTaskId
                     => i > fresh[d]
FreshFirst ==
  /\ \A i \in TaskIds : open(tasks[i]) /\ tasks[i].type = "backup" => tasks[i].after = NoTaskId
  /\ \A d \in Databases :
       fresh[d] # NoTaskId =>
         /\ tasks[fresh[d]].status # "none"
         /\ open(tasks[fresh[d]])
            => tasks[fresh[d]].type = "backup" /\ tasks[fresh[d]].db = d /\ Behind(d)

CInv == /\ Typed /\ Flags /\ OfDatabases /\ ActiveProven /\ HostWideAlone /\ UndoHasItsData
        /\ MarksOfTasks /\ ChangesWait /\ FreshFirst

(***************************************************************************)
(* What keeps each part                                                    *)
(***************************************************************************)
Did(new, done, run) == Good(tasks') /\ Moves(tasks, tasks', new, done, run)

LEMMA KeepDbs ==
  ASSUME OfDatabases, NEW new, NEW done, NEW run, Did(new, done, run),
         \A t \in new : t.db \in Databases
  PROVE  OfDatabases'
  BY DEF OfDatabases, Did, Moves, SameKind

LEMMA KeepProven ==
  ASSUME OfDatabases, ActiveProven, NEW new, NEW done, NEW run, Did(new, done, run),
         \A t \in new : t.type \in needProof => proven'[t.db],
         \A d \in Databases : proven[d] => proven'[d],
         \A d \in Databases : dbStatus'[d] = "active" => proven'[d]
  PROVE  ActiveProven'
  BY DEF OfDatabases, ActiveProven, Did, Moves, SameKind

LEMMA KeepHostWide ==
  ASSUME HostWideAlone, NEW new, NEW done, NEW run, Did(new, done, run),
         \A t \in new : t.type \notin hostWideTypes
  PROVE  HostWideAlone'
  BY DEF HostWideAlone, Did, Moves, SameKind

LEMMA KeepUndo ==
  ASSUME OfDatabases, UndoHasItsData, NEW new, NEW done, NEW run, Did(new, done, run),
         \A t \in new : t.type \notin {"rewind_undo", "rewind_cleanup"},
         UNCHANGED kept
  PROVE  UndoHasItsData'
  BY DEF UndoHasItsData, openTask, Did, Moves, SameKind

LEMMA KeepMarks ==
  ASSUME MarksOfTasks, NEW new, NEW done, NEW run, Did(new, done, run),
         \A t \in new : t.type # "restore_point",
         UNCHANGED marks
  PROVE  MarksOfTasks'
  BY DEF MarksOfTasks, Did, Moves, SameKind

\* A task that succeeds in the step is no restore point, or its Mark is
\* written; a written Mark of a task that is not open stays.
MarksStay(done) ==
  /\ \A j \in done : (open(tasks[j]) /\ tasks[j].type # "restore_point") \/ Saved(marks', j)
  /\ \A n \in TaskIds : ~open(tasks[n]) /\ Saved(marks, n) => Saved(marks', n)

LEMMA KeepWait ==
  ASSUME ChangesWait, NEW new, NEW done, Did(new, done, {}), MarksStay(done),
         NEW i \in TaskIds, open(tasks[i]), open(tasks'[i]), SameKind(tasks[i], tasks'[i]),
         tasks'[i].type \in changeTypes
  PROVE  Waits(tasks', marks', i)
  <1>1. tasks[i].type = tasks'[i].type /\ tasks[i].after = tasks'[i].after
    BY DEF SameKind, changeTypes, hostWideTypes
  <1> DEFINE a == tasks[i].after
  <1>2. /\ a \in TaskIds /\ tasks[a].status # "none"
        /\ open(tasks[a]) => tasks[i].status = "queued" /\ tasks[a].type = "restore_point"
        /\ tasks[i].status = "running" \/ tasks[a].status = "succeeded" => Saved(marks, a)
    BY <1>1 DEF ChangesWait, Waits
  <1> HIDE DEF a
  <1>3. /\ tasks'[a].status # "none"
        /\ open(tasks'[a]) => open(tasks[a]) /\ tasks'[a].type = tasks[a].type
        /\ tasks'[a].status = "succeeded" => tasks[a].status = "succeeded" \/ a \in done
        /\ tasks'[i].status = "running" => tasks[i].status = "running"
    BY <1>2 DEF Did, Moves, SameKind
  <1>4. a \in done => Saved(marks', a)
    BY <1>2 DEF MarksStay
  <1>5. ~open(tasks[a]) /\ Saved(marks, a) => Saved(marks', a)
    BY <1>2 DEF MarksStay
  <1>6. tasks'[i].status \in {"queued", "running"} /\ tasks[i].status \in {"queued", "running"}
    BY DEF open
  <1>7. a = tasks'[i].after
    BY <1>1 DEF a
  <1>8. tasks[i].status = "queued" => tasks'[i].status = "queued"
    BY <1>3, <1>6
  <1>9. tasks[i].status = "running" \/ tasks[a].status = "succeeded" => ~open(tasks[a])
    BY <1>2 DEF open
  <1>10. tasks'[i].status = "running" \/ tasks'[a].status = "succeeded" => Saved(marks', a)
    BY <1>2, <1>3, <1>4, <1>5, <1>9
  <1> QED BY <1>2, <1>3, <1>7, <1>8, <1>10 DEF Waits

LEMMA KeepWaits ==
  ASSUME ChangesWait, NEW new, NEW done, Did(new, done, {}), MarksStay(done),
         \A t \in new : t.type \notin changeTypes
  PROVE  ChangesWait'
  <1>1. ASSUME NEW i \in TaskIds, open(tasks'[i]), tasks'[i].type \in changeTypes
        PROVE  Waits(tasks', marks', i)
    <2>1. open(tasks[i]) /\ SameKind(tasks[i], tasks'[i])
      BY <1>1 DEF Did, Moves, SameKind
    <2> QED BY <1>1, <2>1, KeepWait
  <1> QED BY <1>1 DEF ChangesWait

LEMMA KeepFresh ==
  ASSUME Typed, FreshFirst, NEW new, NEW done, NEW run, Did(new, done, run),
         \A t \in new : t.type = "backup" => t.after = NoTaskId,
         NEW D \in SUBSET Databases, \A d \in D : fresh'[d] = fresh[d]
  PROVE  /\ \A i \in TaskIds : open(tasks'[i]) /\ tasks'[i].type = "backup" => tasks'[i].after = NoTaskId
         /\ \A d \in D :
              fresh'[d] # NoTaskId =>
                /\ tasks'[fresh'[d]].status # "none"
                /\ open(tasks'[fresh'[d]])
                   => tasks'[fresh'[d]].type = "backup" /\ tasks'[fresh'[d]].db = d /\ Behind(d)'
  <1>1. \A i \in TaskIds : open(tasks'[i]) /\ tasks'[i].type = "backup" => tasks'[i].after = NoTaskId
    BY DEF FreshFirst, Did, Moves, SameKind
  <1>2. ASSUME NEW d \in D, fresh[d] # NoTaskId
        PROVE  /\ tasks'[fresh[d]].status # "none"
               /\ open(tasks'[fresh[d]])
                  => tasks'[fresh[d]].type = "backup" /\ tasks'[fresh[d]].db = d /\ Behind(d)'
    <2> DEFINE f == fresh[d]
    <2>1. f \in TaskIds /\ tasks[f].status # "none"
      BY <1>2 DEF Typed, FreshFirst
    <2>2. open(tasks[f]) => tasks[f].type = "backup" /\ tasks[f].db = d /\ Behind(d)
      BY <1>2 DEF FreshFirst
    <2>3. tasks'[f].status # "none"
      BY <2>1 DEF Did, Moves
    <2>4. open(tasks'[f]) => open(tasks[f]) /\ SameKind(tasks[f], tasks'[f])
      BY <2>1 DEF Did, Moves
    <2>5. ASSUME open(tasks[f]), NEW i \in TaskIds, tasks'[i].status = "queued", tasks'[i].type = "drill",
                 tasks'[i].db = d, tasks'[i].after = NoTaskId
          PROVE  i > f
      <3>1. CASE open(tasks[i]) /\ SameKind(tasks[i], tasks'[i])
        <4>1. tasks[i].type = "drill" /\ tasks[i].db = d /\ tasks[i].after = NoTaskId
          BY <2>5, <3>1 DEF SameKind
        <4>2. tasks[i].status = "queued"
          BY <2>5, <3>1 DEF Did, Moves, open
        <4> QED BY <2>2, <2>5, <4>1, <4>2 DEF Behind
      <3>2. CASE tasks[i].status = "none"
        <4>1. Appended(tasks)
          BY DEF Typed, Good
        <4>2. ~(i < f) /\ i # f
          BY <2>1, <3>2, <4>1 DEF Appended
        <4> QED BY <2>1, <4>2, BoundsAssumption DEF TaskIds
      <3> QED BY <2>5, <3>1, <3>2 DEF Did, Moves, open
    <2>6. open(tasks[f]) => Behind(d)'
      BY <2>5, fresh'[d] = fresh[d] DEF Behind
    <2> QED BY <2>2, <2>3, <2>4, <2>6 DEF SameKind
  <1> QED BY <1>1, <1>2

(***************************************************************************)
(* Steps that only queue plain tasks: no change, no Mark, no undo          *)
(***************************************************************************)
plainTypes == {"adopt", "check", "restart", "inspect", "backup", "drill",
               "upgrade_check", "upgrade_rehearsal", "upgrade_cleanup"}

\* New tasks whose databases may have them.
Plain(new) ==
  \A t \in new : /\ t.db \in Databases /\ t.type \in plainTypes
                 /\ t.type = "backup" => t.after = NoTaskId
                 /\ t.type \in {"backup", "drill"} => proven'[t.db]

\* What is known of a database only grows, and it is active once proven.
ProofGrows == /\ \A d \in Databases : proven[d] => proven'[d]
              /\ \A d \in Databases : dbStatus'[d] = "active" => proven'[d]

LEMMA PlainKeeps ==
  ASSUME CInv, NEW new, NEW done, Did(new, done, {}), Plain(new), ProofGrows
  PROVE  /\ OfDatabases' /\ ActiveProven' /\ HostWideAlone'
         /\ UNCHANGED kept => UndoHasItsData'
         /\ UNCHANGED marks => MarksOfTasks'
         /\ UNCHANGED fresh => FreshFirst'
         /\ /\ UNCHANGED marks
            /\ \A j \in done : open(tasks[j]) /\ tasks[j].type # "restore_point"
            => ChangesWait'
  <1>0. /\ Typed /\ OfDatabases /\ ActiveProven /\ HostWideAlone /\ UndoHasItsData
        /\ MarksOfTasks /\ ChangesWait /\ FreshFirst
    BY DEF CInv
  <1>1. OfDatabases'
    BY <1>0, KeepDbs DEF Plain
  <1>2. \A t \in new : t.type \in needProof => proven'[t.db]
    BY DEF Plain, plainTypes, needProof
  <1>3. ActiveProven'
    BY <1>0, <1>2, KeepProven DEF ProofGrows
  <1>4. \A t \in new : /\ t.type \notin hostWideTypes /\ t.type \notin changeTypes /\ t.type # "restore_point"
                       /\ t.type \notin {"rewind_undo", "rewind_cleanup"}
    BY DEF Plain, plainTypes, hostWideTypes, changeTypes
  <1>5. HostWideAlone'
    BY <1>0, <1>4, KeepHostWide
  <1>6. UNCHANGED kept => UndoHasItsData'
    BY <1>0, <1>4, KeepUndo
  <1>7. UNCHANGED marks => MarksOfTasks'
    BY <1>0, <1>4, KeepMarks
  <1>8. ASSUME UNCHANGED fresh
        PROVE  FreshFirst'
    <2>1. \A t \in new : t.type = "backup" => t.after = NoTaskId
      BY DEF Plain
    <2>2. /\ \A i \in TaskIds : open(tasks'[i]) /\ tasks'[i].type = "backup" => tasks'[i].after = NoTaskId
          /\ \A d \in Databases :
              fresh'[d] # NoTaskId =>
                /\ tasks'[fresh'[d]].status # "none"
                /\ open(tasks'[fresh'[d]])
                   => tasks'[fresh'[d]].type = "backup" /\ tasks'[fresh'[d]].db = d /\ Behind(d)'
      BY <1>0, <1>8, <2>1, KeepFresh
    <2> QED BY <2>2 DEF FreshFirst
  <1>9. ASSUME UNCHANGED marks, \A j \in done : open(tasks[j]) /\ tasks[j].type # "restore_point"
        PROVE  ChangesWait'
    <2>1. MarksStay(done)
      BY <1>9 DEF MarksStay
    <2> QED BY <1>0, <1>4, <2>1, KeepWaits
  <1> QED BY <1>1, <1>3, <1>5, <1>6, <1>7, <1>8, <1>9

\* The variables besides the tasks that plain steps may change.
OthersTyped ==
  /\ databases' \in [Databases -> {"new", "present", "gone"}]
  /\ dbStatus' \in [Databases -> {"none", "pending_adopt", "awaiting_restart", "verifying", "active"}]
  /\ UNCHANGED scenario

\* Only a claim hands a task out.
NoneStarts == \A i \in TaskIds : tasks'[i].status = "running" => tasks[i].status = "running"

LEMMA DidNotStart ==
  ASSUME NEW new, NEW done, Did(new, done, {})
  PROVE  NoneStarts
  BY DEF Did, Moves, NoneStarts

LEMMA PlainStep ==
  ASSUME CInv, NEW new, NEW done, Did(new, done, {}), Plain(new), ProofGrows, OthersTyped, Flags',
         UNCHANGED <<marks, kept, fresh>>,
         \A j \in done : open(tasks[j]) /\ tasks[j].type # "restore_point"
  PROVE  CInv' /\ NoneStarts
  <1>1. Typed'
    BY DEF CInv, Typed, OthersTyped, Did
  <1> QED BY <1>1, PlainKeeps, DidNotStart DEF CInv

(* A request's task; nothing but history; an outcome and what follows it. *)
LEMMA EnqueueDid ==
  ASSUME Typed, NEW d \in Databases, NEW typ \in Types, NEW arg \in Args, NEW after \in TaskIds \cup {NoTaskId},
         tasks' = prune(enqueue(tasks, d, typ, arg, after))
  PROVE  Did({Queued(d, typ, arg, after)}, {}, {})
  <1>1. /\ Good(enqueue(tasks, d, typ, arg, after))
        /\ Moves(tasks, enqueue(tasks, d, typ, arg, after), {Queued(d, typ, arg, after)}, {}, {})
    BY EnqueueMoves DEF Typed
  <1> QED BY <1>1, ThenPrune DEF Did

LEMMA PruneDid ==
  ASSUME Typed, tasks' = prune(tasks)
  PROVE  Did({}, {}, {})
  BY PruneMoves DEF Typed, Did

LEMMA OutcomeDid ==
  ASSUME Typed, NEW i \in TaskIds, NEW ok \in BOOLEAN, tasks[i].status = "running",
         NEW b, Good(b), NEW new, Moves(Finished(i, ok), b, new, {}, {}), tasks' = prune(b)
  PROVE  Did(new, IF ok THEN {i} ELSE {}, {}) /\ ~open(tasks'[i])
  <1> DEFINE f == Finished(i, ok)
             done == IF ok THEN {i} ELSE {}
  <1>1. Good(f) /\ Moves(tasks, f, {}, done, {}) /\ f[i].status \in {"succeeded", "failed"}
    BY FinishedMoves DEF Typed
  <1> HIDE DEF f, done
  <1>2. Moves(tasks, b, {} \cup new, done \cup {}, {})
    BY <1>1, MovesTrans DEF f
  <1>3. {} \cup new = new /\ done \cup {} = done
    OBVIOUS
  <1>4. Did(new, done, {})
    BY <1>2, <1>3, ThenPrune DEF Did
  <1>5. Moves(f, tasks', new, {}, {})
    BY ThenPrune DEF f
  <1>6. ~open(tasks'[i])
    BY <1>1, <1>5, ClosedStays DEF open
  <1> QED BY <1>4, <1>6 DEF done

LEMMA FinishDid ==
  ASSUME Typed, NEW i \in TaskIds, NEW ok \in BOOLEAN, tasks[i].status = "running",
         tasks' = prune(Finished(i, ok))
  PROVE  Did({}, IF ok THEN {i} ELSE {}, {}) /\ ~open(tasks'[i])
  <1>1. Good(Finished(i, ok))
    BY FinishedMoves DEF Typed
  <1>2. Moves(Finished(i, ok), Finished(i, ok), {}, {}, {})
    BY DEF Moves, SameKind
  <1> QED BY <1>1, <1>2, OutcomeDid

LEMMA QueuedIs ==
  ASSUME NEW d, NEW typ, NEW arg, NEW after
  PROVE  /\ Queued(d, typ, arg, after).type = typ /\ Queued(d, typ, arg, after).db = d
         /\ Queued(d, typ, arg, after).arg = arg /\ Queued(d, typ, arg, after).after = after
         /\ Queued(d, typ, arg, after).status = "queued"
  BY DEF Queued

LEMMA PlainOne ==
  ASSUME NEW d \in Databases, NEW typ \in plainTypes, NEW arg, NEW after,
         typ = "backup" => after = NoTaskId,
         typ \in {"backup", "drill"} => proven'[d]
  PROVE  Plain({Queued(d, typ, arg, after)})
  BY QueuedIs DEF Plain

\* The args and types the control plane uses.
LEMMA Kinds ==
  /\ {Plan, Apply, Full, Diff, SomeArg} \subseteq Args /\ MarkNames \subseteq Args
  /\ {"adopt", "check", "restore_point", "inspect", "backup", "drill"} \subseteq Types
  BY CPArgsAssumption, CPTypesAssumption, ArgsAssumption DEF SomeArg

LEMMA Asks ==
  ASSUME Typed
  PROVE  Requests \subseteq Types /\ scenario.dbs \subseteq Databases
  BY DEF Typed, Scenario, Requests

LEMMA RegisterKeeps ==
  ASSUME CInv, NEW d \in scenario.dbs, RegisterDatabase(d), UNCHANGED scenario
  PROVE  CInv' /\ NoneStarts
  <1> USE DEF RegisterDatabase
  <1>0. Typed /\ ActiveProven /\ d \in Databases
    BY Asks DEF CInv
  <1>1. Did({Queued(d, "adopt", Plan, NoTaskId)}, {}, {})
    BY <1>0, Kinds, EnqueueDid
  <1>2. Plain({Queued(d, "adopt", Plan, NoTaskId)})
    BY <1>0, PlainOne DEF plainTypes
  <1>3. ProofGrows
    BY <1>0 DEF ProofGrows, ActiveProven, Typed
  <1>4. OthersTyped
    BY <1>0 DEF OthersTyped, Typed
  <1>5. Flags'
    BY DEF CInv, Flags
  <1> QED BY <1>1, <1>2, <1>3, <1>4, <1>5, PlainStep

LEMMA CreateTaskKeeps ==
  ASSUME CInv, NEW d \in scenario.dbs, NEW typ \in userTasks, NEW arg \in Args, NEW force,
         CreateTask(d, typ, arg, force), UNCHANGED scenario
  PROVE  CInv' /\ NoneStarts
  <1> USE DEF CreateTask, cpVars
  <1>0. Typed /\ ActiveProven /\ d \in Databases /\ typ \in Types
    BY Asks DEF CInv
  <1>1. Did({Queued(d, typ, arg, NoTaskId)}, {}, {})
    BY <1>0, EnqueueDid
  <1>2. Plain({Queued(d, typ, arg, NoTaskId)})
    <2>1. typ \in plainTypes
      BY DEF plainTypes, userTasks
    <2>2. typ \in {"backup", "drill"} => proven'[d]
      BY <1>0 DEF ActiveProven
    <2> QED BY <1>0, <2>1, <2>2, PlainOne
  <1>3. ProofGrows
    BY <1>0 DEF ProofGrows, ActiveProven
  <1>4. OthersTyped
    BY <1>0 DEF OthersTyped, Typed
  <1>5. Flags'
    BY DEF CInv, Flags
  <1> QED BY <1>1, <1>2, <1>3, <1>4, <1>5, PlainStep

LEMMA ArchiverOnKeeps ==
  ASSUME CInv, NEW d \in scenario.dbs, ArchiverOn(d), UNCHANGED scenario
  PROVE  CInv' /\ NoneStarts
  <1> USE DEF ArchiverOn
  <1>0. Typed /\ ActiveProven /\ d \in Databases
    BY Asks DEF CInv
  <1>1. Did({Queued(d, "check", SomeArg, NoTaskId)}, {}, {})
    BY <1>0, Kinds, EnqueueDid DEF Check
  <1>2. Plain({Queued(d, "check", SomeArg, NoTaskId)})
    BY <1>0, PlainOne DEF plainTypes
  <1>3. ProofGrows
    BY <1>0 DEF ProofGrows, ActiveProven, Typed
  <1>4. OthersTyped
    BY <1>0 DEF OthersTyped, Typed
  <1>5. Flags'
    BY DEF CInv, Flags
  <1> QED BY <1>1, <1>2, <1>3, <1>4, <1>5, PlainStep

LEMMA QueueUpgradeTaskKeeps ==
  ASSUME CInv, NEW d \in scenario.dbs, NEW typ \in upgradeTaskTypes, QueueUpgradeTask(d, typ), UNCHANGED scenario
  PROVE  CInv' /\ NoneStarts
  <1> USE DEF QueueUpgradeTask, cpVars
  <1>0. Typed /\ ActiveProven /\ d \in Databases /\ typ \in Types
    BY Asks DEF CInv
  <1>1. Did({Queued(d, typ, SomeArg, NoTaskId)}, {}, {})
    BY <1>0, Kinds, EnqueueDid
  <1>2. Plain({Queued(d, typ, SomeArg, NoTaskId)})
    BY <1>0, PlainOne DEF plainTypes
  <1>3. ProofGrows
    BY <1>0 DEF ProofGrows, ActiveProven
  <1>4. OthersTyped
    BY <1>0 DEF OthersTyped, Typed
  <1>5. Flags'
    BY DEF CInv, Flags
  <1> QED BY <1>1, <1>2, <1>3, <1>4, <1>5, PlainStep

LEMMA ScheduledPlain ==
  ASSUME ActiveProven, NEW d \in Databases, UNCHANGED proven
  PROVE  Plain(Scheduled(d))
  BY QueuedIs DEF Plain, Scheduled, ActiveProven, plainTypes

LEMMA TickKeeps ==
  ASSUME CInv, NEW d \in scenario.dbs, NEW due, TickSchedules(d, due), UNCHANGED scenario
  PROVE  CInv' /\ NoneStarts
  <1> USE DEF TickSchedules, cpVars
  <1>0. Typed /\ ActiveProven /\ d \in Databases /\ Good(tasks)
    BY Asks DEF CInv, Typed
  <1> DEFINE r == reap(tasks)
             sc == schedule(r, d, due)
  <1>1. Good(r) /\ Moves(tasks, r, {}, {}, {})
    <2>1. /\ r \in Table
          /\ \A i \in TaskIds : \/ r[i] = tasks[i]
                                \/ tasks[i].status = "running" /\ r[i] = finish(tasks[i], "lost")
      BY <1>0, ReapEffect DEF Good
    <2>2. \A i \in TaskIds : finish(tasks[i], "lost").status = "lost"
      BY <1>0, FinishEffect DEF Good, Table, Outcome
    <2> HIDE DEF r
    <2>3. QuietStep(tasks, r)
      BY <2>1 DEF QuietStep
    <2>4. \A i \in TaskIds : r[i].status = "succeeded" => tasks[i].status = "succeeded" \/ i \in {}
      BY <2>1, <2>2
    <2> QED BY <1>0, <2>1, <2>3, <2>4, QuietMoves
  <1>2. Good(sc) /\ Moves(r, sc, Scheduled(d), {}, {})
    BY <1>0, <1>1, ScheduleMoves
  <1>3. tasks' = prune(sc)
    OBVIOUS
  <1> HIDE DEF r, sc
  <1>4. Moves(tasks, sc, {} \cup Scheduled(d), {} \cup {}, {})
    BY <1>1, <1>2, MovesTrans
  <1>5. {} \cup Scheduled(d) = Scheduled(d) /\ {} \cup {} = {}
    OBVIOUS
  <1>6. Did(Scheduled(d), {}, {})
    BY <1>2, <1>3, <1>4, <1>5, ThenPrune DEF Did
  <1>7. Plain(Scheduled(d))
    BY <1>0, ScheduledPlain
  <1>8. ProofGrows
    BY <1>0 DEF ProofGrows, ActiveProven
  <1>9. OthersTyped
    BY <1>0 DEF OthersTyped, Typed
  <1>10. Flags'
    BY DEF CInv, Flags
  <1> QED BY <1>6, <1>7, <1>8, <1>9, <1>10, PlainStep

(***************************************************************************)
(* Outcomes that queue plain tasks                                         *)
(***************************************************************************)
LEMMA CompletingIs ==
  ASSUME CInv, NEW i \in TaskIds, NEW types, Completing(i, types), "restore_point" \notin types, NEW ok
  PROVE  /\ Typed /\ ActiveProven /\ Flags /\ tasks[i].status = "running" /\ tasks[i].db \in Databases
         /\ tasks[i].type \in types
         /\ \A j \in (IF ok THEN {i} ELSE {}) : open(tasks[j]) /\ tasks[j].type # "restore_point"
  BY DEF CInv, OfDatabases, Completing, open

\* The check after an outcome.
LEMMA CheckMoves ==
  ASSUME NEW ts, Good(ts), NEW d \in Databases
  PROVE  Good(Check(ts, d)) /\ Moves(ts, Check(ts, d), {Queued(d, "check", SomeArg, NoTaskId)}, {}, {})
  BY Kinds, EnqueueMoves DEF Check

LEMMA CompleteAdoptKeeps ==
  ASSUME CInv, NEW i \in TaskIds, NEW ok \in BOOLEAN, NEW x \in BOOLEAN, CompleteAdopt(i, ok, x),
         UNCHANGED scenario
  PROVE  CInv' /\ NoneStarts
  <1> USE DEF CompleteAdopt
  <1> DEFINE d == tasks[i].db
             f == Finished(i, ok)
             new == Queued(d, "check", SomeArg, NoTaskId)
             done == IF ok THEN {i} ELSE {}
  <1>0. /\ Typed /\ ActiveProven /\ Flags /\ tasks[i].status = "running" /\ d \in Databases
        /\ \A j \in done : open(tasks[j]) /\ tasks[j].type # "restore_point"
    BY CompletingIs
  <1>1. Good(f) /\ Moves(f, f, {new}, {}, {})
    BY <1>0, FinishedMoves DEF Typed, Moves, SameKind
  <1>2. Good(Check(f, d)) /\ Moves(f, Check(f, d), {new}, {}, {})
    BY <1>0, <1>1, CheckMoves
  <1>3. tasks' = prune(f) \/ tasks' = prune(Check(f, d))
    OBVIOUS
  <1>4. Did({new}, done, {})
    BY <1>0, <1>1, <1>2, <1>3, OutcomeDid
  <1>5. Plain({new})
    BY <1>0, PlainOne DEF plainTypes
  <1>6. ProofGrows
    BY <1>0 DEF ProofGrows, ActiveProven, Typed
  <1>7. OthersTyped
    BY <1>0 DEF OthersTyped, Typed
  <1>8. Flags'
    BY <1>0 DEF Flags
  <1> QED BY <1>0, <1>4, <1>5, <1>6, <1>7, <1>8, PlainStep

LEMMA CompleteRestartKeeps ==
  ASSUME CInv, NEW i \in TaskIds, NEW ok \in BOOLEAN, NEW x \in BOOLEAN, CompleteRestart(i, ok, x),
         UNCHANGED scenario
  PROVE  CInv' /\ NoneStarts
  <1> USE DEF CompleteRestart
  <1> DEFINE d == tasks[i].db
             f == Finished(i, ok)
             new == Queued(d, "check", SomeArg, NoTaskId)
             done == IF ok THEN {i} ELSE {}
  <1>0. /\ Typed /\ ActiveProven /\ Flags /\ tasks[i].status = "running" /\ d \in Databases
        /\ \A j \in done : open(tasks[j]) /\ tasks[j].type # "restore_point"
    BY CompletingIs
  <1>1. Good(f) /\ Moves(f, f, {new}, {}, {})
    BY <1>0, FinishedMoves DEF Typed, Moves, SameKind
  <1>2. Good(Check(f, d)) /\ Moves(f, Check(f, d), {new}, {}, {})
    BY <1>0, <1>1, CheckMoves
  <1>3. tasks' = prune(f) \/ tasks' = prune(Check(f, d))
    OBVIOUS
  <1>4. Did({new}, done, {})
    BY <1>0, <1>1, <1>2, <1>3, OutcomeDid
  <1>5. Plain({new})
    BY <1>0, PlainOne DEF plainTypes
  <1>6. ProofGrows
    BY <1>0 DEF ProofGrows, ActiveProven, Typed
  <1>7. OthersTyped
    BY <1>0 DEF OthersTyped, Typed
  <1>8. Flags'
    BY <1>0 DEF Flags
  <1> QED BY <1>0, <1>4, <1>5, <1>6, <1>7, <1>8, PlainStep

\* A first full backup and its Proof are plain once the database is proven.
LEMMA FullThenProofPlain ==
  ASSUME NEW d \in Databases, NEW n, proven'[d]
  PROVE  Plain({Queued(d, "backup", Full, NoTaskId), Queued(d, "drill", SomeArg, n)})
  BY QueuedIs DEF Plain, plainTypes

LEMMA CompleteCheckKeeps ==
  ASSUME CInv, NEW i \in TaskIds, NEW ok \in BOOLEAN, NEW x \in BOOLEAN, CompleteCheck(i, ok, x),
         UNCHANGED scenario
  PROVE  CInv' /\ NoneStarts
  <1> USE DEF CompleteCheck
  <1> DEFINE d == tasks[i].db
             f == Finished(i, ok)
             new == {Queued(d, "backup", Full, NoTaskId), Queued(d, "drill", SomeArg, NewId(f))}
             done == IF ok THEN {i} ELSE {}
  <1>0. /\ Typed /\ ActiveProven /\ Flags /\ tasks[i].status = "running" /\ d \in Databases
        /\ \A j \in done : open(tasks[j]) /\ tasks[j].type # "restore_point"
    BY CompletingIs
  <1>1. Good(f) /\ \A j \in TaskIds \ {i} : f[j] = tasks[j]
    BY <1>0, FinishedMoves DEF Typed
  <1>2. PICK k \in TaskIds : tasks[k].status = "none"
    BY <1>0, FreeIds DEF Typed
  <1>3. f[k].status = "none"
    BY <1>0, <1>1, <1>2
  <1>4. Good(FullThenProof(f, d)) /\ Moves(f, FullThenProof(f, d), new, {}, {})
    BY <1>0, <1>1, <1>3, FullThenProofMoves
  <1>5. proven' = [proven EXCEPT ![d] = @ \/ (ok /\ x)]
    OBVIOUS
  <1>6. (\A e \in Databases : proven[e] => proven'[e]) /\ (ok /\ x => proven'[d]) /\ Flags'
    BY <1>0, <1>5 DEF Flags
  <1>7. ProofGrows
    BY <1>0, <1>6 DEF ProofGrows, ActiveProven, Typed
  <1>8. OthersTyped
    BY <1>0 DEF OthersTyped, Typed
  <1>9. CASE ok /\ x /\ tasks' = prune(FullThenProof(f, d))
    <2>1. Did(new, done, {})
      BY <1>0, <1>4, <1>9, OutcomeDid
    <2>2. Plain(new)
      BY <1>0, <1>6, <1>9, FullThenProofPlain
    <2> QED BY <1>0, <1>6, <1>7, <1>8, <2>1, <2>2, PlainStep
  <1>10. CASE tasks' = prune(f)
    <2>1. Did({}, done, {})
      BY <1>0, <1>10, FinishDid
    <2>2. Plain({})
      BY DEF Plain
    <2> QED BY <1>0, <1>6, <1>7, <1>8, <2>1, <2>2, PlainStep
  <1> QED BY <1>9, <1>10

LEMMA CompleteBackupKeeps ==
  ASSUME CInv, NEW i \in TaskIds, NEW ok \in BOOLEAN, CompleteBackup(i, ok), UNCHANGED scenario
  PROVE  CInv' /\ NoneStarts
  <1> USE DEF CompleteBackup
  <1> DEFINE done == IF ok THEN {i} ELSE {}
  <1>0. /\ Typed /\ ActiveProven /\ Flags /\ tasks[i].status = "running" /\ tasks[i].db \in Databases
        /\ \A j \in done : open(tasks[j]) /\ tasks[j].type # "restore_point"
    BY CompletingIs
  <1>1. Did({}, done, {}) /\ Plain({})
    BY <1>0, FinishDid DEF Plain
  <1>2. ProofGrows
    BY <1>0 DEF ProofGrows, ActiveProven
  <1>3. OthersTyped
    BY <1>0 DEF OthersTyped, Typed
  <1>4. Flags'
    BY <1>0 DEF Flags
  <1> QED BY <1>0, <1>1, <1>2, <1>3, <1>4, PlainStep

LEMMA CompleteOtherKeeps ==
  ASSUME CInv, NEW i \in TaskIds, NEW ok \in BOOLEAN, CompleteOther(i, ok), UNCHANGED scenario
  PROVE  CInv' /\ NoneStarts
  <1> USE DEF CompleteOther, cpVars
  <1> DEFINE done == IF ok THEN {i} ELSE {}
  <1>0. /\ Typed /\ ActiveProven /\ Flags /\ tasks[i].status = "running" /\ tasks[i].db \in Databases
        /\ \A j \in done : open(tasks[j]) /\ tasks[j].type # "restore_point"
    BY CompletingIs
  <1>1. Did({}, done, {}) /\ Plain({})
    BY <1>0, FinishDid DEF Plain
  <1>2. ProofGrows
    BY <1>0 DEF ProofGrows, ActiveProven
  <1>3. OthersTyped
    BY <1>0 DEF OthersTyped, Typed
  <1>4. Flags'
    BY <1>0 DEF Flags
  <1> QED BY <1>0, <1>1, <1>2, <1>3, <1>4, PlainStep

LEMMA CompleteUpgradeKeeps ==
  ASSUME CInv, NEW i \in TaskIds, NEW ok \in BOOLEAN, CompleteUpgrade(i, ok), UNCHANGED scenario
  PROVE  CInv' /\ NoneStarts
  <1> USE DEF CompleteUpgrade, cpVars
  <1> DEFINE d == tasks[i].db
             f == Finished(i, ok)
             n == enqueue(f, d, "inspect", SomeArg, NoTaskId)
             inspect == Queued(d, "inspect", SomeArg, NoTaskId)
             new == {Queued(d, "backup", Full, NoTaskId), Queued(d, "drill", SomeArg, NewId(n))}
             done == IF ok THEN {i} ELSE {}
  <1>0. /\ Typed /\ ActiveProven /\ Flags /\ tasks[i].status = "running" /\ d \in Databases
        /\ tasks[i].type \in {"upgrade", "upgrade_undo"}
        /\ \A j \in done : open(tasks[j]) /\ tasks[j].type # "restore_point"
    BY CompletingIs
  <1>p. proven[d]
    BY <1>0 DEF ActiveProven, needProof, open
  <1>1. Good(f) /\ \A j \in TaskIds \ {i} : f[j] = tasks[j]
    BY <1>0, FinishedMoves DEF Typed
  <1>2. Good(n) /\ Moves(f, n, {inspect}, {}, {})
    BY <1>0, <1>1, Kinds, EnqueueMoves
  <1>3. PICK k \in TaskIds : k # NewId(f) /\ tasks[k].status = "none"
    BY <1>0, FreeIds DEF Typed
  <1>4. f[k].status = "none"
    BY <1>0, <1>1, <1>3
  <1>5. n[k].status = "none"
    <2>1. CASE OpenSame(f, d, "inspect", SomeArg) # {}
      BY <1>4, <2>1 DEF enqueue
    <2>2. CASE OpenSame(f, d, "inspect", SomeArg) = {}
      BY <1>1, <1>3, <1>4, <2>2, EnqueuePlace DEF Good
    <2> QED BY <2>1, <2>2
  <1>6. Good(FullThenProof(n, d)) /\ Moves(n, FullThenProof(n, d), new, {}, {})
    BY <1>0, <1>2, <1>5, FullThenProofMoves
  <1>7. tasks' = prune(f) \/ tasks' = prune(FullThenProof(n, d))
    OBVIOUS
  <1>8. ProofGrows
    BY <1>0 DEF ProofGrows, ActiveProven
  <1>9. OthersTyped
    BY <1>0 DEF OthersTyped, Typed
  <1>10. Flags' /\ UNCHANGED <<marks, kept, fresh>> /\ UNCHANGED proven
    BY <1>0 DEF Flags
  <1>11. Plain({inspect} \cup new)
    <2>1. Plain({inspect})
      BY <1>0, PlainOne DEF plainTypes
    <2>2. Plain(new)
      BY <1>0, <1>p, <1>10, FullThenProofPlain
    <2> HIDE DEF inspect, new
    <2> QED BY <2>1, <2>2 DEF Plain
  <1>12. CASE tasks' = prune(FullThenProof(n, d))
    <2> DEFINE b == FullThenProof(n, d)
    <2> HIDE DEF inspect, new, done, f, n, b
    <2>1. Moves(f, b, {inspect} \cup new, {} \cup {}, {})
      BY <1>2, <1>6, MovesTrans DEF b
    <2>2. {} \cup {} = {}
      OBVIOUS
    <2>3. Did({inspect} \cup new, done, {})
      BY <1>0, <1>6, <1>12, <2>1, <2>2, OutcomeDid DEF b, f, done
    <2> QED BY <1>0, <1>8, <1>9, <1>10, <1>11, <2>3, PlainStep
  <1>13. CASE tasks' = prune(f)
    <2>1. Did({}, done, {}) /\ Plain({})
      BY <1>0, <1>13, FinishDid DEF Plain
    <2> QED BY <1>0, <1>8, <1>9, <1>10, <2>1, PlainStep
  <1> QED BY <1>7, <1>12, <1>13

LEMMA LeaseKeeps ==
  ASSUME CInv, NEW i \in TaskIds, LeaseRunsOut(i), UNCHANGED scenario
  PROVE  CInv' /\ NoneStarts
  <1> USE DEF LeaseRunsOut, LeaseEnds, cpVars
  <1>0. Typed /\ ActiveProven /\ Flags /\ Good(tasks) /\ tasks \in Table
    BY DEF CInv, Typed, Good
  <1>1. tasks[i] \in TaskRec /\ [tasks[i] EXCEPT !.overdue = TRUE] \in TaskRec
    BY <1>0 DEF Table, TaskRec
  <1>2. tasks' = [tasks EXCEPT ![i] = [tasks[i] EXCEPT !.overdue = TRUE]]
    OBVIOUS
  <1>3. tasks' \in Table
    BY <1>0, <1>1, <1>2 DEF Table
  <1>4. QuietStep(tasks, tasks')
    BY <1>0, <1>2 DEF Table, QuietStep
  <1>5. \A j \in TaskIds : tasks'[j].status = "succeeded" => tasks[j].status = "succeeded" \/ j \in {}
    BY <1>0, <1>1, <1>2 DEF Table, TaskRec
  <1>6. Did({}, {}, {}) /\ Plain({})
    BY <1>0, <1>3, <1>4, <1>5, QuietMoves DEF Did, Plain
  <1>7. ProofGrows
    BY <1>0 DEF ProofGrows, ActiveProven
  <1>8. OthersTyped
    BY <1>0 DEF OthersTyped, Typed
  <1>9. Flags'
    BY <1>0 DEF Flags
  <1> QED BY <1>6, <1>7, <1>8, <1>9, PlainStep

(***************************************************************************)
(* The data a rewind keeps: undo, cleanup, expiry                          *)
(***************************************************************************)
\* Only the kept data changes besides plain tasks.
LEMMA KeptStep ==
  ASSUME CInv, NEW done, Did({}, done, {}), UndoHasItsData',
         kept' \in [Databases -> {"none", "before", "after_undo"}],
         UNCHANGED <<databases, dbStatus, backedUp, marks, proven, fresh, scenario>>,
         \A j \in done : open(tasks[j]) /\ tasks[j].type # "restore_point"
  PROVE  CInv' /\ NoneStarts
  <1>0. Typed /\ ActiveProven /\ Flags
    BY DEF CInv
  <1>1. ProofGrows
    BY <1>0 DEF ProofGrows, ActiveProven
  <1>2. Plain({})
    BY DEF Plain
  <1>3. Typed'
    BY <1>0 DEF Typed, Did
  <1>4. Flags'
    BY <1>0 DEF Flags
  <1> QED BY <1>1, <1>2, <1>3, <1>4, PlainKeeps, DidNotStart DEF CInv

LEMMA KeptGoneKeeps ==
  ASSUME CInv, NEW d \in scenario.dbs, KeptGone(d), UNCHANGED scenario
  PROVE  CInv' /\ NoneStarts
  <1> USE DEF KeptGone
  <1>0. Typed /\ OfDatabases /\ UndoHasItsData /\ d \in Databases
    BY Asks DEF CInv
  <1>1. Did({}, {}, {})
    BY <1>0, PruneDid
  <1>2. UndoHasItsData'
    BY <1>0, <1>1 DEF UndoHasItsData, OfDatabases, openTask, Did, Moves, SameKind, Typed
  <1>3. kept' \in [Databases -> {"none", "before", "after_undo"}]
    BY <1>0 DEF Typed
  <1> QED BY <1>1, <1>2, <1>3, KeptStep

LEMMA CompleteCleanupKeeps ==
  ASSUME CInv, NEW i \in TaskIds, NEW ok \in BOOLEAN, CompleteCleanup(i, ok), UNCHANGED scenario
  PROVE  CInv' /\ NoneStarts
  <1> USE DEF CompleteCleanup
  <1> DEFINE done == IF ok THEN {i} ELSE {}
             d == tasks[i].db
  <1>0. /\ Typed /\ OfDatabases /\ UndoHasItsData
        /\ tasks[i].status = "running" /\ d \in Databases /\ tasks[i].type = "rewind_cleanup"
        /\ \A j \in done : open(tasks[j]) /\ tasks[j].type # "restore_point"
    BY CompletingIs DEF CInv
  <1>1. Did({}, done, {})
    BY <1>0, FinishDid
  <1>2. \A j \in TaskIds : open(tasks[j]) /\ tasks[j].type = "rewind_undo" => tasks[j].db # d
    BY <1>0 DEF UndoHasItsData, openTask, open
  <1>3. \A e \in Databases \ {d} : kept'[e] = kept[e]
    BY <1>0 DEF Typed
  <1> HIDE DEF done, d
  <1>4. UndoHasItsData'
    BY <1>0, <1>1, <1>2, <1>3 DEF UndoHasItsData, OfDatabases, openTask, Did, Moves, SameKind
  <1>5. kept' \in [Databases -> {"none", "before", "after_undo"}]
    BY <1>0 DEF Typed
  <1> QED BY <1>0, <1>1, <1>4, <1>5, KeptStep

\* An undo or a cleanup is asked for.
LEMMA RewindTaskKeeps ==
  ASSUME CInv, NEW d \in Databases, NEW typ \in {"rewind_undo", "rewind_cleanup"} \cap Types,
         tasks' = prune(enqueue(tasks, d, typ, SomeArg, NoTaskId)),
         typ = "rewind_undo" => proven[d] /\ kept[d] = "before" /\ ~openTask(d, {"rewind_cleanup"}),
         typ = "rewind_cleanup" => ~openTask(d, {"rewind_undo"}),
         UNCHANGED <<databases, cpVars, scenario>>
  PROVE  CInv' /\ NoneStarts
  <1> USE DEF cpVars
  <1> DEFINE t == Queued(d, typ, SomeArg, NoTaskId)
  <1>0. /\ Typed /\ Flags /\ OfDatabases /\ ActiveProven /\ HostWideAlone /\ UndoHasItsData
        /\ MarksOfTasks /\ ChangesWait /\ FreshFirst
    BY DEF CInv
  <1>1. Did({t}, {}, {})
    BY <1>0, Kinds, EnqueueDid
  <1>2. t.type = typ /\ t.db = d
    BY QueuedIs
  <1> HIDE DEF t
  <1>3. OfDatabases'
    BY <1>0, <1>1, <1>2, KeepDbs
  <1>4. ActiveProven'
    <2>1. \A u \in {t} : u.type \in needProof => proven'[u.db]
      BY <1>2 DEF needProof
    <2>2. /\ \A e \in Databases : proven[e] => proven'[e]
          /\ \A e \in Databases : dbStatus'[e] = "active" => proven'[e]
      BY <1>0 DEF ActiveProven
    <2> QED BY <1>0, <1>1, <2>1, <2>2, KeepProven
  <1>5. \A u \in {t} : /\ u.type \notin hostWideTypes /\ u.type # "restore_point" /\ u.type \notin changeTypes
                       /\ u.type # "backup"
    BY <1>2 DEF hostWideTypes, changeTypes
  <1>6. HostWideAlone'
    BY <1>0, <1>1, <1>5, KeepHostWide
  <1>7. MarksOfTasks'
    BY <1>0, <1>1, <1>5, KeepMarks
  <1>8. ChangesWait'
    <2>1. MarksStay({})
      BY DEF MarksStay
    <2> QED BY <1>0, <1>1, <1>5, <2>1, KeepWaits
  <1>9. FreshFirst'
    <2>1. \A u \in {t} : u.type = "backup" => u.after = NoTaskId
      BY <1>5
    <2>2. \A e \in Databases : fresh'[e] = fresh[e]
      OBVIOUS
    <2>3. /\ \A i \in TaskIds : open(tasks'[i]) /\ tasks'[i].type = "backup" => tasks'[i].after = NoTaskId
          /\ \A e \in Databases :
              fresh'[e] # NoTaskId =>
                /\ tasks'[fresh'[e]].status # "none"
                /\ open(tasks'[fresh'[e]])
                   => tasks'[fresh'[e]].type = "backup" /\ tasks'[fresh'[e]].db = e /\ Behind(e)'
      BY <1>0, <1>1, <2>1, <2>2, KeepFresh
    <2> QED BY <2>3 DEF FreshFirst
  <1>10. UndoHasItsData'
    BY <1>0, <1>1, <1>2 DEF UndoHasItsData, openTask, Did, Moves, SameKind
  <1>11. Typed' /\ Flags'
    BY <1>0, <1>1 DEF Typed, Flags, Did
  <1> QED BY <1>1, <1>3, <1>4, <1>6, <1>7, <1>8, <1>9, <1>10, <1>11, DidNotStart DEF CInv

LEMMA UndoRewindKeeps ==
  ASSUME CInv, NEW d \in scenario.dbs, UndoRewind(d) \/ CleanupRewind(d), UNCHANGED scenario
  PROVE  CInv' /\ NoneStarts
  <1>0. Typed /\ ActiveProven /\ d \in Databases /\ Requests \subseteq Types
    BY Asks DEF CInv
  <1>1. CASE UndoRewind(d)
    <2> USE DEF UndoRewind
    <2>1. "rewind_undo" \in {"rewind_undo", "rewind_cleanup"} \cap Types
      BY <1>0, <1>1
    <2>2. proven[d]
      BY <1>0, <1>1 DEF ActiveProven
    <2>3. ~openTask(d, {"rewind_cleanup"})
      BY <1>1 DEF openTask
    <2> QED BY <1>0, <1>1, <2>1, <2>2, <2>3, RewindTaskKeeps
  <1>2. CASE CleanupRewind(d)
    <2> USE DEF CleanupRewind
    <2>1. "rewind_cleanup" \in {"rewind_undo", "rewind_cleanup"} \cap Types
      BY <1>0, <1>2
    <2>2. ~openTask(d, {"rewind_undo"})
      BY <1>2 DEF openTask
    <2> QED BY <1>0, <1>2, <2>1, <2>2, RewindTaskKeeps
  <1> QED BY <1>1, <1>2

(***************************************************************************)
(* Marks, and the changes that wait for one                                *)
(***************************************************************************)
LEMMA NewMarkIs ==
  ASSUME NEW d, NEW name
  PROVE  /\ NewMark(d, name).db = d /\ NewMark(d, name).name = name
         /\ NewMark(d, name).task = NewId(tasks) /\ NewMark(d, name).written = FALSE
  BY DEF NewMark

\* What is replaced was never written and its task is dead.
LEMMA ReplacedKeeps ==
  ASSUME NEW d, NEW name
  PROVE  /\ Replaced(d, name) \subseteq marks
         /\ \A m \in marks : m.written => m \in Replaced(d, name)
         /\ \A m \in marks : open(tasks[m.task]) => m \in Replaced(d, name)
  BY DEF Replaced, Unwritten, Dead, open

\* A restore point, its Mark, and perhaps other tasks after it.
LEMMA NewMarkKeeps ==
  ASSUME CInv, NEW d \in Databases, NEW name \in MarkNames, ~MarkRefused(d, name),
         NEW k \in TaskIds, tasks[k].status = "none",
         marks' = Replaced(d, name) \cup {NewMark(d, name)},
         NEW new, Moves(MarkTask(d, name), tasks', new, {}, {}), \A t \in new : t.type # "restore_point"
  PROVE  /\ MarksOfTasks' /\ marks' \subseteq Mark
         /\ \A n \in TaskIds : Saved(marks, n) => Saved(marks', n)
  <1> DEFINE n == NewId(tasks)
             mt == MarkTask(d, name)
             nm == NewMark(d, name)
             old == Replaced(d, name)
  <1>0. Typed /\ MarksOfTasks
    BY DEF CInv
  <1>1. OpenSame(tasks, d, "restore_point", name) = {}
    BY DEF MarkRefused
  <1>2. /\ n \in TaskIds
        /\ mt[n] = Queued(d, "restore_point", name, NoTaskId)
        /\ \A i \in TaskIds \ {n} : mt[i] = tasks[i]
    BY <1>0, <1>1, EnqueuePlace DEF Typed, Good, MarkTask
  <1>3. nm.db = d /\ nm.name = name /\ nm.task = n
    BY NewMarkIs
  <1>4. nm \in Mark
    BY <1>2 DEF NewMark, Mark
  <1>5. mt[n].db = d /\ mt[n].arg = name
    BY <1>2, QueuedIs
  <1>6. /\ old \subseteq marks
        /\ \A m \in marks : m.written => m \in old
        /\ \A m \in marks : open(tasks[m.task]) => m \in old
    BY ReplacedKeeps
  <1>7. \A m \in old : ~(m.db = d /\ m.name = name)
    BY DEF MarkRefused
  <1>8. marks' = old \cup {nm}
    OBVIOUS
  <1> HIDE DEF n, mt, nm, old
  <1>9. marks' \subseteq Mark
    BY <1>0, <1>4, <1>6, <1>8 DEF Typed
  <1>10. \A a, b \in marks' : a.db = b.db /\ a.name = b.name => a = b
    BY <1>0, <1>3, <1>6, <1>7, <1>8 DEF MarksOfTasks
  <1>11. ASSUME NEW i \in TaskIds, open(tasks'[i]), tasks'[i].type = "restore_point"
         PROVE  \E m \in marks' : m.task = i /\ m.db = tasks'[i].db /\ m.name = tasks'[i].arg
    <2>1. open(mt[i]) /\ mt[i].type = "restore_point" /\ mt[i].db = tasks'[i].db /\ mt[i].arg = tasks'[i].arg
      BY <1>11 DEF Moves, SameKind, mt
    <2>2. CASE i = n
      BY <1>3, <1>5, <1>8, <2>1, <2>2
    <2>3. CASE i # n
      <3>1. mt[i] = tasks[i]
        BY <1>2, <2>3
      <3>2. PICK m \in marks : m.task = i /\ m.db = tasks[i].db /\ m.name = tasks[i].arg
        BY <1>0, <2>1, <3>1 DEF MarksOfTasks
      <3>3. m \in old
        BY <1>6, <2>1, <3>1, <3>2
      <3> QED BY <1>8, <2>1, <3>1, <3>2, <3>3
    <2> QED BY <2>2, <2>3
  <1>12. MarksOfTasks'
    BY <1>10, <1>11 DEF MarksOfTasks
  <1>13. \A j \in TaskIds : Saved(marks, j) => Saved(marks', j)
    BY <1>6, <1>8 DEF Saved
  <1> QED BY <1>9, <1>12, <1>13

LEMMA MarkTaskMoves ==
  ASSUME Typed, NEW d \in Databases, NEW name \in MarkNames
  PROVE  /\ Good(MarkTask(d, name))
         /\ Moves(tasks, MarkTask(d, name), {Queued(d, "restore_point", name, NoTaskId)}, {}, {})
  BY Kinds, EnqueueMoves DEF MarkTask, Typed

\* What a Mark's step leaves alone.
StillOf == UNCHANGED <<databases, dbStatus, backedUp, kept, proven, fresh, scenario>>

\* The parts of the invariant that Marks have no part in.
LEMMA AroundMarks ==
  ASSUME CInv, NEW new, NEW done, Did(new, done, {}), StillOf, marks' \subseteq Mark,
         \A t \in new : /\ t.db \in Databases
                        /\ t.type \in needProof => proven[t.db]
                        /\ t.type \notin {"rewind_undo", "rewind_cleanup", "backup"}
  PROVE  Typed' /\ Flags' /\ OfDatabases' /\ ActiveProven' /\ UndoHasItsData' /\ FreshFirst' /\ NoneStarts
  <1> USE DEF StillOf
  <1>0. /\ Typed /\ Flags /\ OfDatabases /\ ActiveProven /\ UndoHasItsData /\ FreshFirst
    BY DEF CInv
  <1>1. OfDatabases'
    BY <1>0, KeepDbs
  <1>2. ActiveProven'
    <2>1. \A t \in new : t.type \in needProof => proven'[t.db]
      OBVIOUS
    <2>2. /\ \A e \in Databases : proven[e] => proven'[e]
          /\ \A e \in Databases : dbStatus'[e] = "active" => proven'[e]
      BY <1>0 DEF ActiveProven
    <2> QED BY <1>0, <2>1, <2>2, KeepProven
  <1>3. UndoHasItsData'
    BY <1>0, KeepUndo
  <1>4. FreshFirst'
    <2>1. \A t \in new : t.type = "backup" => t.after = NoTaskId
      OBVIOUS
    <2>2. \A e \in Databases : fresh'[e] = fresh[e]
      OBVIOUS
    <2>3. /\ \A i \in TaskIds : open(tasks'[i]) /\ tasks'[i].type = "backup" => tasks'[i].after = NoTaskId
          /\ \A e \in Databases :
              fresh'[e] # NoTaskId =>
                /\ tasks'[fresh'[e]].status # "none"
                /\ open(tasks'[fresh'[e]])
                   => tasks'[fresh'[e]].type = "backup" /\ tasks'[fresh'[e]].db = e /\ Behind(e)'
      BY <1>0, <2>1, <2>2, KeepFresh
    <2> QED BY <2>3 DEF FreshFirst
  <1>5. Typed' /\ Flags'
    BY <1>0 DEF Typed, Flags, Did
  <1> QED BY <1>1, <1>2, <1>3, <1>4, <1>5, DidNotStart

LEMMA CreateMarkKeeps ==
  ASSUME CInv, NEW d \in scenario.dbs, NEW name \in MarkNames, CreateMark(d, name), UNCHANGED scenario
  PROVE  CInv' /\ NoneStarts
  <1> USE DEF CreateMark
  <1>0. /\ Typed /\ HostWideAlone /\ MarksOfTasks /\ ChangesWait /\ d \in Databases
    BY Asks DEF CInv
  <1>1. StillOf
    BY DEF StillOf
  <1>2. CASE MarkRefused(d, name)
    <2>1. Did({}, {}, {})
      BY <1>0, <1>2, PruneDid
    <2>2. /\ marks' = Replaced(d, name) /\ marks' \subseteq marks
          /\ \A m \in marks : m.written => m \in marks'
          /\ \A m \in marks : open(tasks[m.task]) => m \in marks'
      BY <1>2, ReplacedKeeps
    <2>3. marks' \subseteq Mark
      BY <1>0, <2>2 DEF Typed
    <2>4. \A a, b \in marks' : a.db = b.db /\ a.name = b.name => a = b
      BY <1>0, <2>2 DEF MarksOfTasks
    <2>5. ASSUME NEW i \in TaskIds, open(tasks'[i]), tasks'[i].type = "restore_point"
          PROVE  \E m \in marks' : m.task = i /\ m.db = tasks'[i].db /\ m.name = tasks'[i].arg
      <3>1. open(tasks[i]) /\ SameKind(tasks[i], tasks'[i])
        BY <2>1, <2>5 DEF Did, Moves
      <3>2. PICK m \in marks : m.task = i /\ m.db = tasks[i].db /\ m.name = tasks[i].arg
        BY <1>0, <2>5, <3>1 DEF MarksOfTasks, SameKind
      <3> QED BY <2>2, <3>1, <3>2 DEF SameKind
    <2>6. MarksOfTasks'
      BY <2>4, <2>5 DEF MarksOfTasks
    <2>7. MarksStay({})
      BY <2>2 DEF MarksStay, Saved
    <2>8. ChangesWait' /\ HostWideAlone'
      BY <1>0, <2>1, <2>7, KeepWaits, KeepHostWide
    <2>9. Typed' /\ Flags' /\ OfDatabases' /\ ActiveProven' /\ UndoHasItsData' /\ FreshFirst' /\ NoneStarts
      BY <1>1, <2>1, <2>3, AroundMarks
    <2> QED BY <2>6, <2>8, <2>9 DEF CInv
  <1>3. CASE ~MarkRefused(d, name)
    <2> DEFINE rp == Queued(d, "restore_point", name, NoTaskId)
               mt == MarkTask(d, name)
               none == {}
    <2>1. tasks' = prune(mt) /\ marks' = Replaced(d, name) \cup {NewMark(d, name)}
      BY <1>3
    <2>2. Good(mt) /\ Moves(tasks, mt, {rp}, {}, {})
      BY <1>0, MarkTaskMoves
    <2>3. rp.type = "restore_point" /\ rp.db = d
      BY QueuedIs
    <2>4. PICK k \in TaskIds : tasks[k].status = "none"
      BY <1>0, FreeIds DEF Typed
    <2>5. Did({rp}, {}, {})
      BY <2>1, <2>2, ThenPrune DEF Did
    <2>6. Moves(MarkTask(d, name), tasks', none, {}, {}) /\ \A t \in none : t.type # "restore_point"
      BY <2>1, <2>2, PruneMoves
    <2> HIDE DEF rp, mt, none, CreateMark
    <2>7. /\ MarksOfTasks' /\ marks' \subseteq Mark
          /\ \A n \in TaskIds : Saved(marks, n) => Saved(marks', n)
      BY <1>0, <1>3, <2>1, <2>4, <2>6, NewMarkKeeps
    <2>8. \A t \in {rp} : /\ t.type \notin hostWideTypes /\ t.type \notin changeTypes /\ t.type \notin needProof
                          /\ t.db \in Databases /\ t.type \notin {"rewind_undo", "rewind_cleanup", "backup"}
      BY <1>0, <2>3 DEF hostWideTypes, changeTypes, needProof
    <2>9. MarksStay({})
      BY <2>7 DEF MarksStay
    <2>10. ChangesWait' /\ HostWideAlone'
      BY <1>0, <2>5, <2>8, <2>9, KeepWaits, KeepHostWide
    <2>11. Typed' /\ Flags' /\ OfDatabases' /\ ActiveProven' /\ UndoHasItsData' /\ FreshFirst' /\ NoneStarts
      BY <1>1, <2>5, <2>7, <2>8, AroundMarks
    <2> QED BY <2>7, <2>10, <2>11 DEF CInv
  <1> QED BY <1>2, <1>3

(* A Mark, and the change that waits for it.  A host-wide change is queued *)
(* only while no other one is open (refuseOpen).                           *)
LEMMA MarkThenKeeps ==
  ASSUME CInv, NEW d \in Databases, NEW name \in MarkNames, NEW typ \in changeTypes \cap Types,
         MarkThen(d, name, typ), StillOf,
         typ \in hostWideTypes => \A i \in TaskIds : open(tasks[i]) => tasks[i].type \notin hostWideTypes
  PROVE  CInv' /\ NoneStarts
  <1> DEFINE n == NewId(tasks)
             rp == Queued(d, "restore_point", name, NoTaskId)
             ch == Queued(d, typ, SomeArg, n)
             mt == MarkTask(d, name)
             two == enqueue(mt, d, typ, SomeArg, n)
             chs == {ch}
             both == {rp} \cup {ch}
             none == {}
  <1>0. /\ Typed /\ HostWideAlone /\ ChangesWait /\ ActiveProven
    BY DEF CInv
  <1>1. /\ tasks' = prune(two) /\ marks' = Replaced(d, name) \cup {NewMark(d, name)}
        /\ ~MarkRefused(d, name) /\ RoomFor(2) /\ dbStatus[d] = "active"
    BY DEF MarkThen
  <1>2. PICK k \in TaskIds : tasks[k].status = "none"
    BY <1>0, <1>1, FreeIds DEF Typed
  <1>3. Good(mt) /\ Moves(tasks, mt, {rp}, {}, {})
    BY <1>0, MarkTaskMoves
  <1>4. /\ n \in TaskIds /\ tasks[n].status = "none"
        /\ mt[n] = rp
        /\ \A i \in TaskIds \ {n} : mt[i] = tasks[i]
    <2>1. OpenSame(tasks, d, "restore_point", name) = {}
      BY <1>1 DEF MarkRefused
    <2> QED BY <1>0, <1>2, <2>1, EnqueuePlace DEF Typed, Good, MarkTask
  <1>5. Good(two) /\ Moves(mt, two, {ch}, {}, {})
    BY <1>3, <1>4, Kinds, EnqueueMoves
  <1>6. /\ rp.type = "restore_point" /\ rp.db = d /\ rp.status = "queued"
        /\ ch.type = typ /\ ch.db = d /\ ch.after = n /\ ch.arg = SomeArg
    BY QueuedIs
  <1> HIDE DEF n, rp, ch, two
  <1>7. Moves(mt, tasks', {ch}, {}, {}) /\ Good(tasks')
    BY <1>1, <1>5, ThenPrune
  <1>8. Did({rp} \cup {ch}, {}, {})
    <2>1. Moves(tasks, tasks', {rp} \cup {ch}, {} \cup {}, {})
      BY <1>3, <1>7, MovesTrans
    <2>2. {} \cup {} = {}
      OBVIOUS
    <2> QED BY <1>7, <2>1, <2>2 DEF Did
  <1>9. typ \notin {"restore_point", "rewind_undo", "rewind_cleanup", "backup", "drill"} /\ typ \notin KeyedByArg
    BY DEF changeTypes, hostWideTypes, KeyedByArg
  <1>10. /\ MarksOfTasks' /\ marks' \subseteq Mark
         /\ \A j \in TaskIds : Saved(marks, j) => Saved(marks', j)
    <2>1. \A t \in chs : t.type # "restore_point"
      BY <1>6, <1>9
    <2>2. Moves(MarkTask(d, name), tasks', chs, {}, {})
      BY <1>7
    <2> HIDE DEF chs
    <2> QED BY <1>1, <1>2, <2>1, <2>2, NewMarkKeeps
  <1> HIDE DEF mt
  <1>11. Typed' /\ Flags' /\ OfDatabases' /\ ActiveProven' /\ UndoHasItsData' /\ FreshFirst' /\ NoneStarts
    <2>1. proven[d]
      BY <1>0, <1>1 DEF ActiveProven
    <2>2. \A t \in both : /\ t.db \in Databases
                          /\ t.type \in needProof => proven[t.db]
                          /\ t.type \notin {"rewind_undo", "rewind_cleanup", "backup"}
      BY <1>6, <1>9, <2>1
    <2>3. Did(both, none, {})
      BY <1>8
    <2> HIDE DEF both, none
    <2> QED BY <1>10, <2>2, <2>3, AroundMarks
  <1>12. HostWideAlone'
    <2>1. CASE typ \notin hostWideTypes
      <3>1. \A t \in {rp} \cup {ch} : t.type \notin hostWideTypes
        BY <1>6, <2>1 DEF hostWideTypes
      <3> QED BY <1>0, <1>8, <3>1, KeepHostWide
    <2>2. CASE typ \in hostWideTypes
      <3>1. \A i \in TaskIds : open(tasks'[i]) /\ tasks'[i].type \in hostWideTypes
                              => tasks'[i].type = typ /\ tasks'[i].db = d
        BY <1>6, <1>8, <2>2 DEF Did, Moves, SameKind, hostWideTypes
      <3>2. KeysDistinct(tasks')
        BY <1>7 DEF Good
      <3>3. ASSUME NEW i \in TaskIds, NEW j \in TaskIds, i # j, open(tasks'[i]), open(tasks'[j]),
                   tasks'[i].type \in hostWideTypes, tasks'[j].type \in hostWideTypes
            PROVE  FALSE
        <4>1. /\ tasks'[i].type = typ /\ tasks'[j].type = typ
              /\ tasks'[i].db = tasks'[j].db
          BY <3>1, <3>3
        <4>2. openKey(tasks'[i].type, tasks'[i].arg) = openKey(tasks'[j].type, tasks'[j].arg)
          BY <1>9, <4>1 DEF openKey
        <4> QED BY <3>2, <3>3, <4>1, <4>2 DEF KeysDistinct
      <3> QED BY <3>3 DEF HostWideAlone
    <2> QED BY <2>1, <2>2
  <1>13. ASSUME NEW i \in TaskIds, open(tasks'[i]), tasks'[i].type \in changeTypes
         PROVE  Waits(tasks', marks', i)
    <2>1. CASE open(tasks[i]) /\ SameKind(tasks[i], tasks'[i])
      <3>1. MarksStay({})
        BY <1>10 DEF MarksStay
      <3> QED BY <1>0, <1>8, <1>13, <2>1, <3>1, KeepWait
    <2>2. CASE tasks[i].status = "none" /\ SameKind(ch, tasks'[i])
      <3>1. tasks'[i].after = n
        BY <1>6, <1>9, <2>2 DEF SameKind
      <3>2. tasks'[i].status = "queued"
        BY <1>8, <1>13, <2>2 DEF Did, Moves, open
      <3>3. tasks'[n].status # "none"
        BY <1>4, <1>6, <1>7 DEF Moves
      <3>4. tasks'[n].status # "succeeded"
        BY <1>4, <1>6, <1>7 DEF Moves
      <3>5. open(tasks'[n]) => tasks'[n].type = "restore_point"
        BY <1>4, <1>6, <1>7 DEF Moves, SameKind, open
      <3> QED BY <1>4, <3>1, <3>2, <3>3, <3>4, <3>5 DEF Waits
    <2>3. ~(tasks[i].status = "none" /\ SameKind(rp, tasks'[i]))
      BY <1>6, <1>13 DEF SameKind, changeTypes, hostWideTypes
    <2> QED BY <1>8, <1>13, <2>1, <2>2, <2>3 DEF Did, Moves
  <1>14. ChangesWait'
    BY <1>13 DEF ChangesWait
  <1> QED BY <1>10, <1>11, <1>12, <1>14 DEF CInv

LEMMA QueueWithMarkKeeps ==
  ASSUME CInv, NEW d \in scenario.dbs, NEW name \in MarkNames, NEW typ \in hostWideTypes,
         QueueWithMark(d, name, typ), UNCHANGED scenario
  PROVE  CInv' /\ NoneStarts
  <1>0. OfDatabases /\ d \in Databases /\ Requests \subseteq Types
    BY Asks DEF CInv
  <1>1. typ \in changeTypes \cap Types /\ MarkThen(d, name, typ) /\ StillOf /\ ~refuseOpen(d)
    BY <1>0 DEF QueueWithMark, StillOf, changeTypes
  <1>2. \A i \in TaskIds : open(tasks[i]) => tasks[i].type \notin hostWideTypes
    BY <1>0, <1>1 DEF OfDatabases, refuseOpen, openTask
  <1> QED BY <1>0, <1>1, <1>2, MarkThenKeeps

LEMMA RewindKeeps ==
  ASSUME CInv, NEW d \in scenario.dbs, NEW name \in MarkNames, RewindInPlace(d, name), UNCHANGED scenario
  PROVE  CInv' /\ NoneStarts
  <1>0. d \in Databases /\ Requests \subseteq Types
    BY Asks DEF CInv
  <1>1. /\ "rewind_in_place" \in changeTypes \cap Types /\ "rewind_in_place" \notin hostWideTypes
        /\ MarkThen(d, name, "rewind_in_place") /\ StillOf
    BY <1>0 DEF RewindInPlace, StillOf, changeTypes, hostWideTypes
  <1> QED BY <1>0, <1>1, MarkThenKeeps

\* finishMark's Mark differs from the one before only in being written.
LEMMA WrittenMark ==
  ASSUME NEW m \in Mark
  PROVE  /\ [m EXCEPT !.written = TRUE] \in Mark
         /\ [m EXCEPT !.written = TRUE].db = m.db /\ [m EXCEPT !.written = TRUE].name = m.name
         /\ [m EXCEPT !.written = TRUE].task = m.task /\ [m EXCEPT !.written = TRUE].written
  BY DEF Mark

LEMMA CompleteMarkKeeps ==
  ASSUME CInv, NEW i \in TaskIds, NEW ok \in BOOLEAN, NEW lsn \in BOOLEAN, CompleteMark(i, ok, lsn),
         UNCHANGED scenario
  PROVE  CInv' /\ NoneStarts
  <1> USE DEF CompleteMark
  <1> DEFINE done == IF ok THEN {i} ELSE {}
             wr(m) == [m EXCEPT !.written = TRUE]
  <1>0. /\ Typed /\ HostWideAlone /\ ChangesWait /\ MarksOfTasks /\ marks \subseteq Mark
    BY DEF CInv, Typed
  <1>1. tasks[i].status = "running" /\ tasks[i].type = "restore_point" /\ open(tasks[i])
    BY DEF Completing, open
  <1>2. Did({}, done, {}) /\ ~open(tasks'[i])
    BY <1>0, <1>1, FinishDid
  <1>3. StillOf
    BY DEF StillOf
  <1>4. \A m \in marks : /\ wr(m) \in Mark /\ wr(m).db = m.db /\ wr(m).name = m.name
                         /\ wr(m).task = m.task /\ wr(m).written
    BY <1>0, WrittenMark
  <1>6. marks' = {m \in marks : m.task # i} \cup {wr(m) : m \in {x \in marks : x.task = i /\ lsn}}
    BY DEF CompleteMark
  <1>l. ok => lsn
    BY DEF CompleteMark
  <1> HIDE DEF wr, CompleteMark
  <1>5. /\ \A m \in marks' : \E x \in marks : (m = x /\ x.task # i) \/ (m = wr(x) /\ x.task = i)
        /\ \A x \in marks : x.task # i => x \in marks'
        /\ \A x \in marks : x.task = i /\ lsn => wr(x) \in marks'
    <2> DEFINE mine == {x \in marks : x.task = i /\ lsn}
               stay == {m \in marks : m.task # i}
    <2>1. /\ \A x : x \in mine <=> x \in marks /\ x.task = i /\ lsn
          /\ \A x : x \in stay <=> x \in marks /\ x.task # i
      OBVIOUS
    <2>2. marks' = stay \cup {wr(m) : m \in mine}
      BY <1>6
    <2> HIDE DEF mine, stay
    <2>3. \A m : m \in marks' <=> m \in stay \/ \E x \in mine : m = wr(x)
      BY <2>2
    <2> QED BY <2>1, <2>3
  <1>7. marks' \subseteq Mark
    BY <1>0, <1>4, <1>5
  <1>8. \A a, b \in marks' : a.db = b.db /\ a.name = b.name => a = b
    <2> SUFFICES ASSUME NEW a \in marks', NEW b \in marks', a.db = b.db, a.name = b.name
                 PROVE  a = b
      OBVIOUS
    <2>1. PICK x \in marks : (a = x /\ x.task # i) \/ (a = wr(x) /\ x.task = i)
      BY <1>5
    <2>2. PICK y \in marks : (b = y /\ y.task # i) \/ (b = wr(y) /\ y.task = i)
      BY <1>5
    <2>3. x.db = a.db /\ x.name = a.name /\ y.db = b.db /\ y.name = b.name
      BY <1>4, <2>1, <2>2
    <2>4. x = y
      BY <1>0, <2>3 DEF MarksOfTasks
    <2> QED BY <2>1, <2>2, <2>4
  <1>9. ASSUME NEW j \in TaskIds, open(tasks'[j]), tasks'[j].type = "restore_point"
        PROVE  \E m \in marks' : m.task = j /\ m.db = tasks'[j].db /\ m.name = tasks'[j].arg
    <2>1. open(tasks[j]) /\ SameKind(tasks[j], tasks'[j]) /\ j # i
      BY <1>2, <1>9 DEF Did, Moves
    <2>2. PICK m \in marks : m.task = j /\ m.db = tasks[j].db /\ m.name = tasks[j].arg
      BY <1>0, <1>9, <2>1 DEF MarksOfTasks, SameKind
    <2> QED BY <1>5, <2>1, <2>2 DEF SameKind
  <1>10. MarksOfTasks'
    BY <1>8, <1>9 DEF MarksOfTasks
  <1>11. ok => Saved(marks', i)
    <2>1. PICK m \in marks : m.task = i
      BY <1>0, <1>1 DEF MarksOfTasks
    <2> QED BY <1>4, <1>5, <1>l, <2>1 DEF Saved
  <1>12. MarksStay(done)
    BY <1>1, <1>5, <1>11 DEF MarksStay, Saved
  <1> HIDE DEF done
  <1>13. ChangesWait' /\ HostWideAlone'
    BY <1>0, <1>2, <1>12, KeepWaits, KeepHostWide
  <1>14. Typed' /\ Flags' /\ OfDatabases' /\ ActiveProven' /\ UndoHasItsData' /\ FreshFirst' /\ NoneStarts
    <2>1. \A t \in {} : /\ t.db \in Databases
                        /\ t.type \in needProof => proven[t.db]
                        /\ t.type \notin {"rewind_undo", "rewind_cleanup", "backup"}
      OBVIOUS
    <2> QED BY <1>2, <1>3, <1>7, <2>1, AroundMarks
  <1> QED BY <1>10, <1>13, <1>14 DEF CInv

(***************************************************************************)
(* After a rewind in place or its undo                                     *)
(***************************************************************************)
(* The task enqueue answers with is open, and of the kind asked for. *)
LEMMA EnqueuedIs ==
  ASSUME NEW ts, Good(ts), NEW d, NEW typ, NEW arg, NEW after, NEW k \in TaskIds, ts[k].status = "none"
  PROVE  LET n == EnqueuedId(ts, d, typ, arg)
             t == enqueue(ts, d, typ, arg, after)[n]
         IN  n \in TaskIds /\ open(t) /\ t.type = typ /\ t.db = d
  <1> DEFINE n == EnqueuedId(ts, d, typ, arg)
             out == enqueue(ts, d, typ, arg, after)
             same == OpenSame(ts, d, typ, arg)
  <1>1. CASE same # {}
    <2>1. n \in same /\ out = ts
      BY <1>1 DEF EnqueuedId, enqueue
    <2>2. n \in TaskIds /\ open(ts[n]) /\ ts[n].db = d /\ openKey(ts[n].type, ts[n].arg) = openKey(typ, arg)
      BY <2>1 DEF OpenSame
    <2>3. ts[n].type = typ
      BY <2>2 DEF openKey
    <2> QED BY <2>1, <2>2, <2>3
  <1>2. CASE same = {}
    <2>1. n = NewId(ts)
      BY <1>2 DEF EnqueuedId
    <2>2. ts \in Table
      BY DEF Good
    <2>3. NewId(ts) \in TaskIds /\ out[NewId(ts)] = Queued(d, typ, arg, after)
      BY <1>2, <2>2, EnqueuePlace
    <2>4. n \in TaskIds /\ open(out[n]) /\ out[n].type = typ /\ out[n].db = d
      BY <2>1, <2>3, QueuedIs DEF open
    <2> QED BY <2>4
  <1> QED BY <1>1, <1>2

LEMMA CompleteInPlaceKeeps ==
  ASSUME CInv, NEW i \in TaskIds, NEW ok \in BOOLEAN, CompleteInPlace(i, ok), UNCHANGED scenario
  PROVE  CInv' /\ NoneStarts
  <1> USE DEF CompleteInPlace
  <1> DEFINE d == tasks[i].db
             ts == Finished(i, ok)
             full == EnqueuedId(ts, d, "backup", Full)
             one == enqueue(ts, d, "backup", Full, NoTaskId)
             two == Retargeted(one, d, full)
             three == Check(two, d)
             b == Queued(d, "backup", Full, NoTaskId)
             c == Queued(d, "check", SomeArg, NoTaskId)
             done == IF ok THEN {i} ELSE {}
  <1>0. /\ Typed /\ ActiveProven /\ Flags /\ tasks[i].status = "running" /\ d \in Databases
        /\ tasks[i].type \in {"rewind_in_place", "rewind_undo"}
        /\ \A j \in done : open(tasks[j]) /\ tasks[j].type # "restore_point"
    BY CompletingIs
  <1>p. proven[d] /\ open(tasks[i])
    BY <1>0 DEF ActiveProven, needProof, open
  <1>1. Good(ts) /\ \A j \in TaskIds \ {i} : ts[j] = tasks[j]
    BY <1>0, FinishedMoves DEF Typed
  <1>2. PICK k \in TaskIds : tasks[k].status = "none"
    BY <1>0, FreeIds DEF Typed
  <1>3. ts[k].status = "none"
    BY <1>0, <1>1, <1>2
  <1>4. UNCHANGED <<databases, dbStatus, backedUp, marks, proven>> /\ RoomFor(2)
    OBVIOUS
  <1>5. ProofGrows
    BY <1>0, <1>4 DEF ProofGrows, ActiveProven
  <1>6. OthersTyped
    BY <1>0, <1>4 DEF OthersTyped, Typed
  <1>7. Flags'
    BY <1>0, <1>4 DEF Flags
  <1>8. CASE ~ok
    <2>1. tasks' = prune(ts) /\ UNCHANGED <<kept, fresh>>
      BY <1>8
    <2>2. Did({}, done, {}) /\ Plain({})
      BY <1>0, <2>1, FinishDid DEF Plain
    <2> QED BY <1>0, <1>4, <1>5, <1>6, <1>7, <2>1, <2>2, PlainStep
  <1>9. CASE ok
    <2>0. /\ tasks' = prune(three)
          /\ kept' = [kept EXCEPT ![d] = IF tasks[i].type = "rewind_undo" THEN "after_undo" ELSE "before"]
          /\ fresh' = [fresh EXCEPT ![d] = full]
      BY <1>9
    <2>1. full \in TaskIds /\ open(one[full]) /\ one[full].type = "backup" /\ one[full].db = d
      BY <1>0, <1>1, <1>3, EnqueuedIs
    <2>2. Good(one) /\ Moves(ts, one, {b}, {}, {})
      BY <1>0, <1>1, Kinds, EnqueueMoves
    <2> HIDE DEF one, full
    <2>3. /\ Good(two) /\ Moves(one, two, {}, {}, {})
          /\ \A j \in TaskIds : two[j].status = "queued" /\ two[j].db = d /\ two[j].type = "drill"
                               => two[j].after # NoTaskId
          /\ two[full] = one[full]
      BY <2>1, <2>2, RetargetedMoves
    <2> HIDE DEF two
    <2>4. Good(three) /\ Moves(two, three, {c}, {}, {})
      BY <1>0, <2>3, CheckMoves
    <2>5. b.type = "backup" /\ b.db = d /\ b.after = NoTaskId /\ c.type = "check" /\ c.db = d
      BY QueuedIs
    <2> HIDE DEF three, b, c
    <2>6. Moves(ts, three, {b} \cup {c}, {}, {})
      <3>1. Moves(ts, two, {b} \cup {}, {} \cup {}, {})
        BY <2>2, <2>3, MovesTrans
      <3>2. {b} \cup {} = {b} /\ {} \cup {} = {}
        OBVIOUS
      <3>3. Moves(ts, three, {b} \cup {c}, {} \cup {}, {})
        BY <2>4, <3>1, <3>2, MovesTrans
      <3> QED BY <3>2, <3>3
    <2>7. Did({b} \cup {c}, done, {}) /\ ~open(tasks'[i])
      BY <1>0, <2>0, <2>4, <2>6, OutcomeDid
    <2>8. Moves(two, tasks', {c}, {}, {})
      BY <2>0, <2>4, ThenPrune
    <2> DEFINE new == {b} \cup {c}
    <2>9. Plain(new) /\ \A t \in new : t.type = "backup" => t.after = NoTaskId
      BY <1>0, <1>p, <1>4, <2>5 DEF Plain, plainTypes
    <2>10. Did(new, done, {})
      BY <2>7
    <2> HIDE DEF new, CompleteInPlace
    <2>11. OfDatabases' /\ ActiveProven' /\ HostWideAlone' /\ MarksOfTasks' /\ ChangesWait' /\ NoneStarts
      BY <1>0, <1>4, <1>5, <2>9, <2>10, PlainKeeps, DidNotStart
    <2>12. Typed'
      BY <1>0, <1>6, <2>0, <2>1, <2>10, <1>4 DEF Typed, OthersTyped, Did
    <2>13. UndoHasItsData'
      <3>a. ASSUME NEW j \in TaskIds, open(tasks'[j]), tasks'[j].type = "rewind_undo"
            PROVE  /\ kept'[tasks'[j].db] = "before"
                   /\ \A x \in TaskIds : ~(/\ open(tasks'[x]) /\ tasks'[x].db = tasks'[j].db
                                           /\ tasks'[x].type \in {"rewind_cleanup"})
        <4>1. /\ open(tasks[j]) /\ j # i
              /\ tasks[j].type = "rewind_undo" /\ tasks[j].db = tasks'[j].db
          BY <3>a, <2>5, <2>7 DEF Did, Moves, SameKind
        <4>2. kept[tasks[j].db] = "before" /\ ~openTask(tasks[j].db, {"rewind_cleanup"})
          BY <4>1 DEF CInv, UndoHasItsData
        <4>3. \A x \in TaskIds : ~(/\ open(tasks'[x]) /\ tasks'[x].db = tasks'[j].db
                                   /\ tasks'[x].type \in {"rewind_cleanup"})
          BY <2>5, <2>7, <4>1, <4>2 DEF openTask, Did, Moves, SameKind
        <4>4. tasks[j].db \in Databases
          BY <4>1 DEF CInv, OfDatabases
        <4>5. CASE tasks[j].db # d
          BY <1>0, <2>0, <4>1, <4>2, <4>3, <4>4, <4>5 DEF Typed
        <4>6. CASE tasks[j].db = d
          <5>0. KeysDistinct(tasks)
            BY <1>0 DEF Typed, Good
          <5>1. openKey(tasks[i].type, tasks[i].arg) # openKey(tasks[j].type, tasks[j].arg)
            BY <1>p, <4>1, <4>6, <5>0 DEF KeysDistinct
          <5>2. tasks[i].type # "rewind_undo"
            BY <4>1, <5>1 DEF openKey, KeyedByArg
          <5>3. kept'[d] = "before"
            BY <1>0, <2>0, <5>2 DEF Typed
          <5> QED BY <4>1, <4>3, <4>6, <5>3
        <4> QED BY <4>5, <4>6
      <3> QED BY <3>a DEF UndoHasItsData, openTask
    <2>14. FreshFirst'
      <3> DEFINE D == Databases \ {d}
      <3>1. D \in SUBSET Databases /\ \A e \in D : fresh'[e] = fresh[e]
        BY <1>0, <2>0 DEF Typed
      <3>2. FreshFirst
        BY DEF CInv
      <3> HIDE DEF D
      <3>3. /\ \A j \in TaskIds : open(tasks'[j]) /\ tasks'[j].type = "backup" => tasks'[j].after = NoTaskId
            /\ \A e \in D :
                fresh'[e] # NoTaskId =>
                  /\ tasks'[fresh'[e]].status # "none"
                  /\ open(tasks'[fresh'[e]])
                     => tasks'[fresh'[e]].type = "backup" /\ tasks'[fresh'[e]].db = e /\ Behind(e)'
        BY <1>0, <2>9, <2>10, <3>1, <3>2, KeepFresh
      <3>4. fresh'[d] = full
        BY <1>0, <2>0 DEF Typed
      <3>5. tasks'[full].status # "none"
        BY <2>1, <2>3, <2>8 DEF Moves, open
      <3>6. open(tasks'[full]) => tasks'[full].type = "backup" /\ tasks'[full].db = d
        BY <2>1, <2>3, <2>8 DEF Moves, SameKind, open
      <3>7. ASSUME NEW j \in TaskIds, tasks'[j].status = "queued", tasks'[j].type = "drill",
                   tasks'[j].db = d, tasks'[j].after = NoTaskId
            PROVE  FALSE
        BY <2>3, <2>5, <2>8, <3>7 DEF Moves, SameKind, open
      <3>8. ASSUME NEW e \in Databases, e \notin D
            PROVE  /\ e = d /\ fresh'[e] = full
                   /\ Behind(e)'
        <4>1. e = d
          BY <3>8 DEF D
        <4>2. \A j \in TaskIds : ~(/\ tasks'[j].status = "queued" /\ tasks'[j].type = "drill"
                                   /\ tasks'[j].db = e /\ tasks'[j].after = NoTaskId)
          BY <3>7, <4>1
        <4>3. Behind(e)'
          BY <4>2 DEF Behind
        <4> QED BY <3>4, <4>1, <4>3
      <3>9. ASSUME NEW e \in Databases, fresh'[e] # NoTaskId
            PROVE  /\ tasks'[fresh'[e]].status # "none"
                   /\ open(tasks'[fresh'[e]])
                      => tasks'[fresh'[e]].type = "backup" /\ tasks'[fresh'[e]].db = e /\ Behind(e)'
        BY <3>3, <3>5, <3>6, <3>8, <3>9
      <3> QED BY <3>3, <3>9 DEF FreshFirst
    <2> QED BY <1>7, <2>11, <2>12, <2>13, <2>14 DEF CInv
  <1> QED BY <1>8, <1>9

(***************************************************************************)
(* Handing a task out                                                      *)
(***************************************************************************)
(* What a claim picks was queued, waits for nothing or for a task that     *)
(* succeeded, and is the oldest one of those it may hand out.              *)
LEMMA PickedIs ==
  ASSUME NEW ts \in Table, NEW dbs, NEW types, NEW i \in PickedNow(ts, dbs, types)
  PROVE  /\ i \in TaskIds /\ ts[i].status = "queued" /\ CancelOrphans(ts)[i] = ts[i]
         /\ types = {} \/ ts[i].type \in types
         /\ ts[i].after = NoTaskId \/ (ts[i].after \in TaskIds /\ ts[ts[i].after].status = "succeeded")
         /\ Known(dbs, ts[i].db) /\ ~busy(CancelOrphans(ts), i)
         /\ \A j \in 1 .. (i - 1) : ~Claimable(CancelOrphans(ts), dbs, types, j)
  <1> DEFINE c == CancelOrphans(ts)
  <1>1. i \in TaskIds /\ Picked(c, dbs, types, i)
    BY DEF PickedNow
  <1>2. /\ c \in Table
        /\ \A j \in TaskIds : c[j] = ts[j] \/ (ts[j].status = "queued" /\ c[j] = finish(ts[j], "cancelled"))
    BY CancelOrphansEffect
  <1>3. \A j \in TaskIds : finish(ts[j], "cancelled").status = "cancelled" /\ ts[j] \in TaskRec
    BY FinishEffect DEF Table, Outcome
  <1> HIDE DEF c
  <1>4. /\ c[i].status = "queued" /\ (types = {} \/ c[i].type \in types)
        /\ c[i].after = NoTaskId \/ c[c[i].after].status = "succeeded"
        /\ Known(dbs, c[i].db) /\ ~busy(c, i)
        /\ \A j \in 1 .. (i - 1) : ~Claimable(c, dbs, types, j)
    BY <1>1 DEF Picked, Claimable, Asked
  <1>5. c[i] = ts[i] /\ ts[i].status = "queued"
    BY <1>1, <1>2, <1>3, <1>4
  <1>6. ts[i].after \in TaskIds \cup {NoTaskId}
    BY <1>1, <1>3 DEF TaskRec
  <1>7. ts[i].after # NoTaskId => ts[i].after \in TaskIds /\ ts[ts[i].after].status = "succeeded"
    BY <1>2, <1>3, <1>4, <1>5, <1>6
  <1> QED BY <1>1, <1>4, <1>5, <1>7 DEF c

LEMMA ClaimDid ==
  ASSUME Typed, NEW types, ClaimTask(types)
  PROVE  /\ Did({}, {}, PickedNow(tasks, databases, types))
         /\ UNCHANGED <<databases, dbStatus, backedUp, marks, kept, proven, fresh>>
  <1> DEFINE c == claim(tasks, databases, types)
             run == PickedNow(tasks, databases, types)
  <1>1. tasks' = prune(c) /\ UNCHANGED <<databases, dbStatus, backedUp, marks, kept, proven, fresh>>
    BY DEF ClaimTask, Claim, cpVars
  <1>2. Good(c) /\ Moves(tasks, c, {}, {}, run)
    BY ClaimMoves DEF Typed
  <1> HIDE DEF c, run
  <1>3. Good(prune(c)) /\ Moves(tasks, prune(c), {}, {}, run)
    BY <1>2, ThenPrune
  <1> QED BY <1>1, <1>3 DEF Did, run

LEMMA ClaimTaskKeeps ==
  ASSUME CInv, NEW types, ClaimTask(types), UNCHANGED scenario
  PROVE  CInv'
  <1> DEFINE run == PickedNow(tasks, databases, types)
             none == {}
  <1>0. /\ Typed /\ Flags /\ OfDatabases /\ ActiveProven /\ HostWideAlone /\ UndoHasItsData
        /\ MarksOfTasks /\ ChangesWait /\ FreshFirst /\ tasks \in Table
    BY DEF CInv, Typed, Good
  <1>1. Did(none, none, run)
    BY <1>0, ClaimDid
  <1>2. UNCHANGED <<databases, dbStatus, backedUp, marks, kept, proven, fresh>>
    BY <1>0, ClaimDid
  <1>3. \A i \in run : /\ tasks[i].status = "queued"
                      /\ \/ tasks[i].after = NoTaskId
                         \/ tasks[i].after \in TaskIds /\ tasks[tasks[i].after].status = "succeeded"
    BY <1>0, PickedIs
  <1>n. \A t \in none : FALSE
    OBVIOUS
  <1>a. \A t \in none : t.db \in Databases
    OBVIOUS
  <1>b. \A t \in none : t.type \in needProof => proven'[t.db]
    OBVIOUS
  <1>c. \A t \in none : t.type \notin hostWideTypes
    OBVIOUS
  <1>d. \A t \in none : t.type \notin {"rewind_undo", "rewind_cleanup"}
    OBVIOUS
  <1>e. \A t \in none : t.type # "restore_point"
    OBVIOUS
  <1>f. \A t \in none : t.type = "backup" => t.after = NoTaskId
    OBVIOUS
  <1> HIDE DEF run, none
  <1>5. Typed' /\ Flags'
    BY <1>0, <1>1, <1>2 DEF Typed, Flags, Did
  <1>6. OfDatabases'
    BY <1>0, <1>1, <1>a, KeepDbs
  <1>7. ActiveProven'
    <2>1. /\ \A d \in Databases : proven[d] => proven'[d]
          /\ \A d \in Databases : dbStatus'[d] = "active" => proven'[d]
      BY <1>0, <1>2 DEF ActiveProven
    <2> QED BY <1>0, <1>1, <1>b, <2>1, KeepProven
  <1>8. HostWideAlone'
    BY <1>0, <1>1, <1>c, KeepHostWide
  <1>9. UndoHasItsData'
    BY <1>0, <1>1, <1>2, <1>d, KeepUndo
  <1>10. MarksOfTasks'
    BY <1>0, <1>1, <1>2, <1>e, KeepMarks
  <1>11. FreshFirst'
    <2>1. /\ \A i \in TaskIds : open(tasks'[i]) /\ tasks'[i].type = "backup" => tasks'[i].after = NoTaskId
          /\ \A d \in Databases :
              fresh'[d] # NoTaskId =>
                /\ tasks'[fresh'[d]].status # "none"
                /\ open(tasks'[fresh'[d]])
                   => tasks'[fresh'[d]].type = "backup" /\ tasks'[fresh'[d]].db = d /\ Behind(d)'
      BY <1>0, <1>1, <1>2, <1>f, KeepFresh
    <2> QED BY <2>1 DEF FreshFirst
  <1>12. ASSUME NEW i \in TaskIds, open(tasks'[i]), tasks'[i].type \in changeTypes
         PROVE  Waits(tasks', marks, i)
    <2>1. open(tasks[i]) /\ SameKind(tasks[i], tasks'[i])
      BY <1>1, <1>n, <1>12 DEF Did, Moves
    <2>2. tasks[i].type = tasks'[i].type /\ tasks[i].after = tasks'[i].after
      BY <1>12, <2>1 DEF SameKind, changeTypes, hostWideTypes
    <2> DEFINE a == tasks[i].after
    <2>3. /\ a \in TaskIds /\ tasks[a].status # "none"
          /\ open(tasks[a]) => tasks[i].status = "queued" /\ tasks[a].type = "restore_point"
          /\ tasks[i].status = "running" \/ tasks[a].status = "succeeded" => Saved(marks, a)
      BY <1>0, <1>12, <2>1, <2>2 DEF ChangesWait, Waits
    <2>4. i \in run => tasks[a].status = "succeeded"
      BY <1>3, <2>3, BoundsAssumption DEF TaskIds, NoTaskId
    <2>5. a = tasks'[i].after
      BY <2>2
    <2> HIDE DEF a
    <2>6. /\ tasks'[a].status # "none"
          /\ open(tasks'[a]) => open(tasks[a]) /\ tasks'[a].type = tasks[a].type
          /\ tasks'[a].status = "succeeded" => tasks[a].status = "succeeded"
          /\ tasks'[i].status = "running" => tasks[i].status = "running" \/ i \in run
      BY <1>1, <1>n, <2>3 DEF Did, Moves, SameKind
    <2>7. tasks'[i].status = "running" \/ tasks'[a].status = "succeeded" => Saved(marks, a)
      BY <2>3, <2>4, <2>6
    <2>8. open(tasks'[a]) => tasks'[i].status = "queued"
      BY <1>12, <2>3, <2>4, <2>6 DEF open
    <2> QED BY <2>3, <2>5, <2>6, <2>7, <2>8 DEF Waits
  <1>13. ChangesWait'
    BY <1>2, <1>12 DEF ChangesWait
  <1> QED BY <1>5, <1>6, <1>7, <1>8, <1>9, <1>10, <1>11, <1>13 DEF CInv

\* A step of ProofWaits.
ProofWaited ==
  \A i \in TaskIds :
    (/\ tasks[i].status = "queued" /\ tasks'[i].status = "running" /\ tasks[i].type = "drill"
     /\ fresh[tasks[i].db] # NoTaskId
     /\ tasks[i].after \in {NoTaskId, fresh[tasks[i].db]})
    => ~open(tasks[fresh[tasks[i].db]])

(* A Proof that waits for nothing stands behind the open backup of the new *)
(* timeline, which the same loop would have been given first.              *)
LEMMA ClaimProofWaits ==
  ASSUME CInv, NEW types \in ClaimFilters, ClaimTask(types)
  PROVE  ProofWaited
  <1> DEFINE run == PickedNow(tasks, databases, types)
             c == CancelOrphans(tasks)
  <1>0. Typed /\ OfDatabases /\ FreshFirst /\ tasks \in Table
    BY DEF CInv, Typed, Good
  <1>1. Did({}, {}, run)
    BY <1>0, ClaimDid
  <1> SUFFICES ASSUME NEW i \in TaskIds, tasks[i].status = "queued", tasks'[i].status = "running",
                      tasks[i].type = "drill", fresh[tasks[i].db] # NoTaskId,
                      tasks[i].after \in {NoTaskId, fresh[tasks[i].db]},
                      open(tasks[fresh[tasks[i].db]])
               PROVE  FALSE
    BY DEF ProofWaited
  <1> DEFINE d == tasks[i].db
             f == fresh[d]
  <1>2. i \in run
    BY <1>1 DEF Did, Moves
  <1>3. /\ c[i] = tasks[i] /\ (types = {} \/ "drill" \in types)
        /\ tasks[i].after = NoTaskId \/ tasks[tasks[i].after].status = "succeeded"
        /\ Known(databases, d) /\ ~busy(c, i)
        /\ \A j \in 1 .. (i - 1) : ~Claimable(c, databases, types, j)
    BY <1>0, <1>2, PickedIs
  <1>4. d \in Databases
    BY <1>0 DEF OfDatabases, open
  <1>5. /\ f \in TaskIds /\ open(tasks[f])
        /\ tasks[f].type = "backup" /\ tasks[f].db = d /\ tasks[f].after = NoTaskId
    BY <1>0, <1>4 DEF Typed, FreshFirst
  <1>6. tasks[i].after = NoTaskId
    BY <1>3, <1>5 DEF open
  <1>7. i > f
    BY <1>0, <1>4, <1>6 DEF FreshFirst, Behind
  <1>8. c[f] = tasks[f]
    BY <1>5 DEF CancelOrphans, Orphans
  <1>9. lane("backup") = "main" /\ lane("drill") = "main"
    BY DEF lane, FilesTaskTypes, sideLanes
  <1> HIDE DEF c, d, f, run
  <1>10. tasks[f].status # "running"
    <2>1. conflicts("backup", "drill")
      BY <1>9 DEF conflicts
    <2> QED BY <1>3, <1>5, <1>8, <2>1 DEF busy, d
  <1>11. ~busy(c, f)
    <2>1. \A r : conflicts(r, "backup") => conflicts(r, "drill")
      BY <1>9 DEF conflicts, stopsPostgres
    <2> QED BY <1>3, <1>5, <1>8, <2>1 DEF busy, d
  <1>12. types = {} \/ "backup" \in types
    BY <1>3, ProofFiltersAssumption
  <1>13. Claimable(c, databases, types, f)
    BY <1>3, <1>5, <1>8, <1>10, <1>11, <1>12 DEF Claimable, Asked, open
  <1>14. f \in 1 .. (i - 1)
    BY <1>5, <1>7, BoundsAssumption DEF TaskIds
  <1> QED BY <1>3, <1>13, <1>14

(***************************************************************************)
(* The inductive invariant holds, and what it says                         *)
(***************************************************************************)
LEMMA StartsRight == CInit => CInv
  <1> SUFFICES ASSUME CInit PROVE CInv
    OBVIOUS
  <1> USE DEF CInit
  <1>1. \A i \in TaskIds : tasks[i] = NoTask /\ tasks[i].status = "none" /\ ~open(tasks[i])
    BY DEF NoTask, open
  <1>2. Good(tasks)
    BY <1>1, BlankRecords DEF Good, Table, KeysDistinct, Appended
  <1>3. Typed
    BY <1>2, ScenariosAssumption DEF Typed, Mark, NoTaskId
  <1>4. Flags
    BY DEF Flags
  <1>5. \A d \in Databases : dbStatus[d] = "active" => proven[d]
    <2>1. scenario.start \in {"new", "settled"}
      BY ScenariosAssumption DEF Scenario
    <2> QED BY <2>1
  <1>6. ActiveProven /\ OfDatabases
    BY <1>1, <1>5 DEF ActiveProven, OfDatabases
  <1>7. HostWideAlone /\ UndoHasItsData /\ MarksOfTasks /\ ChangesWait
    BY <1>1 DEF HostWideAlone, UndoHasItsData, MarksOfTasks, ChangesWait
  <1>8. FreshFirst
    BY <1>1 DEF FreshFirst
  <1> QED BY <1>3, <1>4, <1>6, <1>7, <1>8 DEF CInv

(* Where nothing starts, no Proof does. *)
LEMMA NoProofStarts ==
  ASSUME NoneStarts
  PROVE  ProofWaited
  BY DEF NoneStarts, ProofWaited

LEMMA EveryStepKeeps ==
  ASSUME CInv, [CNext]_allVars
  PROVE  CInv' /\ ProofWaited
  <1>1. CASE UNCHANGED allVars
    <2>1. tasks' = tasks
      BY <1>1 DEF allVars
    <2>2. ProofWaited
      BY <2>1 DEF ProofWaited
    <2>3. CInv'
      BY <1>1 DEF allVars, CInv, Typed, Flags, OfDatabases, ActiveProven, HostWideAlone, UndoHasItsData, openTask,
                  MarksOfTasks, ChangesWait, FreshFirst, Behind
    <2> QED BY <2>2, <2>3
  <1>2. CASE CStep /\ UNCHANGED scenario
    <2>1. ASSUME NEW d \in scenario.dbs,
                 \/ RegisterDatabase(d) \/ ArchiverOn(d) \/ UndoRewind(d) \/ CleanupRewind(d) \/ KeptGone(d)
                 \/ \E typ \in userTasks, arg \in Args, force \in BOOLEAN : CreateTask(d, typ, arg, force)
                 \/ \E name \in MarkNames :
                      \/ CreateMark(d, name) \/ RewindInPlace(d, name)
                      \/ \E typ \in hostWideTypes : QueueWithMark(d, name, typ)
                 \/ \E typ \in upgradeTaskTypes : QueueUpgradeTask(d, typ)
                 \/ \E due \in SUBSET Schedules : TickSchedules(d, due)
          PROVE  CInv' /\ NoneStarts
      BY <1>2, <2>1, RegisterKeeps, ArchiverOnKeeps, UndoRewindKeeps, KeptGoneKeeps, CreateTaskKeeps,
         CreateMarkKeeps, RewindKeeps, QueueWithMarkKeeps, QueueUpgradeTaskKeeps, TickKeeps
    <2>2. ASSUME NEW types \in ClaimFilters, ClaimTask(types)
          PROVE  CInv' /\ ProofWaited
      BY <1>2, <2>2, ClaimTaskKeeps, ClaimProofWaits
    <2>3. ASSUME NEW i \in TaskIds, NEW ok \in BOOLEAN,
                 \/ CompleteBackup(i, ok) \/ CompleteUpgrade(i, ok) \/ CompleteInPlace(i, ok)
                 \/ CompleteCleanup(i, ok) \/ CompleteOther(i, ok)
                 \/ \E x \in BOOLEAN : CompleteAdopt(i, ok, x) \/ CompleteCheck(i, ok, x)
                                       \/ CompleteRestart(i, ok, x) \/ CompleteMark(i, ok, x)
          PROVE  CInv' /\ NoneStarts
      BY <1>2, <2>3, CompleteBackupKeeps, CompleteUpgradeKeeps, CompleteInPlaceKeeps, CompleteCleanupKeeps,
         CompleteOtherKeeps, CompleteAdoptKeeps, CompleteCheckKeeps, CompleteRestartKeeps, CompleteMarkKeeps
    <2>4. ASSUME NEW i \in TaskIds, LeaseRunsOut(i)
          PROVE  CInv' /\ NoneStarts
      BY <1>2, <2>4, LeaseKeeps
    <2> QED BY <1>2, <2>1, <2>2, <2>3, <2>4, NoProofStarts DEF CStep
  <1> QED BY <1>1, <1>2 DEF CNext

LEMMA AlwaysCInv == CSpec => []CInv
  <1>1. CInv /\ [CNext]_allVars => CInv'
    BY EveryStepKeeps
  <1> QED BY <1>1, StartsRight, PTL DEF CSpec

(* The state of the control plane keeps its types, in every scenario (the  *)
(* records of store.go).                                                   *)
THEOREM ControlPlaneTyped == CSpec => []CTypeOK
  <1>1. CInv => CTypeOK
    BY DEF CInv, Typed, Flags, Good, Table, CTypeOK, TypeOK
  <1> QED BY <1>1, AlwaysCInv, PTL

(* No backup and no Proof is queued or runs before a check proved that     *)
(* archiving works (createTask, schedule, afterTask).                      *)
THEOREM BackupsWaitForProof == CSpec => []BackupsNeedProof
  <1>1. CInv => BackupsNeedProof
    BY DEF CInv, ActiveProven, BackupsNeedProof, needProof
  <1> QED BY <1>1, AlwaysCInv, PTL

(* One change of the whole server at a time, whatever database it was      *)
(* asked for (hostWideTypes, refuseOpen).                                  *)
THEOREM OneHostWideChange == CSpec => []HostWideAlone
  <1>1. CInv => HostWideAlone
    BY DEF CInv
  <1> QED BY <1>1, AlwaysCInv, PTL

(* A name means one Mark, and an open restore point has its Mark           *)
(* (createMark, finishMark).                                               *)
THEOREM MarksHaveTheirTasks == CSpec => []MarksOfTasks
  <1>1. CInv => MarksOfTasks
    BY DEF CInv
  <1> QED BY <1>1, AlwaysCInv, PTL

(* An upgrade, a reboot, security updates and a rewind in place run only   *)
(* with the position of their Mark known (queueWithMark, rewindInPlace,    *)
(* claim).                                                                 *)
THEOREM ChangesHaveTheirMark == CSpec => []MarkBeforeChange
  <1>1. CInv => MarkBeforeChange
    BY DEF CInv, ChangesWait, Waits, Saved, changeTypes, MarkBeforeChange, Running, open
  <1> QED BY <1>1, AlwaysCInv, PTL

(* The data an undo puts back is there while the undo is open (undoRewind, *)
(* cleanupRewind, recordKept, afterInPlace).                               *)
THEOREM UndoKeepsItsData == CSpec => []UndoHasItsData
  <1>1. CInv => UndoHasItsData
    BY DEF CInv
  <1> QED BY <1>1, AlwaysCInv, PTL

(* No database has two open tasks with one key: the handlers, schedules    *)
(* and outcomes of the control plane keep what enqueue promises (openKey). *)
THEOREM KeysStayDistinct == CSpec => []OneOpenPerKey
  <1>1. CInv => OneOpenPerKey
    BY DEF CInv, Typed, Good, KeysDistinct, OneOpenPerKey
  <1> QED BY <1>1, AlwaysCInv, PTL

(* After a rewind in place or an undo, no Proof that waits for nothing, or *)
(* for the full backup of the new timeline, is handed out before that      *)
(* backup is over (afterInPlace, claim).                                   *)
THEOREM ProofsWaitForTheirBackup == CSpec => ProofWaits
  <1>1. CInv /\ [CNext]_allVars => ProofWaited
    BY EveryStepKeeps
  <1> QED BY <1>1, AlwaysCInv, PTL DEF CSpec, ProofWaits, ProofWaited
=============================================================================
