------------------------- MODULE StandbyPairProofs -------------------------
(***************************************************************************)
(* What StandbyPair promises, for any number of requests, faults and       *)
(* writes: every variable keeps its type, a server the bucket calls        *)
(* stopped takes no writes, two copies never take writes at once, and the  *)
(* copy that takes writes has everything the other one has, each with the  *)
(* excuses the property names.                                             *)
(*                                                                         *)
(* The argument has two inductive invariants.  WriterInv says who may take *)
(* writes, from four facts about each server (StopAt, NamesAt, StatusAt,   *)
(* OwnAt): the owner is the server the record calls the primary, or the    *)
(* one that took writes and could not say so yet, and there is never a     *)
(* second one.  DataInv adds what the two copies hold: of two copies one   *)
(* has all of the other, and a server that goes on to take writes is the   *)
(* one that has it.  A step is one server's (OneServer), so each invariant *)
(* is shown for the server that steps and carried over for the other one.  *)
(***************************************************************************)
EXTENDS StandbyPair, FiniteSetTheorems, SequenceTheorems, WellFoundedInduction, TLAPS

-----------------------------------------------------------------------------
(* Sequences of changes: their beginnings, and the promotions in them.     *)

Changes == Servers \cup {"w"}

(* The promotions in a copy can be counted: Timeline is a number.          *)
LEMMA CountNat ==
  ASSUME NEW d \in Seq(Changes)
  PROVE  IsFiniteSet(Promotions(d)) /\ Cardinality(Promotions(d)) \in Nat
<1>1. Promotions(d) \in SUBSET (1..Len(d)) /\ Len(d) \in Nat
  BY DEF Promotions
<1>2. IsFiniteSet(1..Len(d))
  BY <1>1, FS_Interval
<1> QED
  BY <1>1, <1>2, FS_Subset, FS_CardinalityType

(* The first n changes of a copy.                                          *)
LEMMA SubSeqOf ==
  ASSUME NEW d \in Seq(Changes), NEW n \in 0..Len(d)
  PROVE  /\ SubSeq(d, 1, n) \in Seq(Changes) /\ Len(SubSeq(d, 1, n)) = n
         /\ \A i \in 1..n : SubSeq(d, 1, n)[i] = d[i]
BY SubSeqProperties

(* IsPrefix, change by change.                                             *)
LEMMA PrefixIs ==
  ASSUME NEW d \in Seq(Changes), NEW e \in Seq(Changes)
  PROVE  IsPrefix(d, e) <=> Len(d) <= Len(e) /\ \A i \in 1..Len(d) : d[i] = e[i]
<1>1. CASE ~(Len(d) <= Len(e))
  BY <1>1 DEF IsPrefix
<1>2. CASE Len(d) <= Len(e)
  <2> DEFINE n == Len(d)  x == SubSeq(d, 1, n)  y == SubSeq(e, 1, n)
  <2>1. n \in 0..Len(d) /\ n \in 0..Len(e)
    BY <1>2
  <2>2. /\ x \in Seq(Changes) /\ Len(x) = n /\ \A i \in 1..n : x[i] = d[i]
        /\ y \in Seq(Changes) /\ Len(y) = n /\ \A i \in 1..n : y[i] = e[i]
    BY <2>1, SubSeqOf
  <2>3. x = y <=> \A i \in 1..n : x[i] = y[i]
    BY <2>2, SeqEqual
  <2> QED
    BY <1>2, <2>2, <2>3 DEF IsPrefix
<1> QED
  BY <1>1, <1>2

(* A strict prefix is shorter.                                             *)
LEMMA StrictIs ==
  ASSUME NEW d \in Seq(Changes), NEW e \in Seq(Changes), IsStrictPrefix(d, e)
  PROVE  IsPrefix(d, e) /\ Len(d) < Len(e)
<1>1. IsPrefix(d, e) /\ d # e
  BY DEF IsStrictPrefix
<1>2. Len(d) <= Len(e) /\ \A i \in 1..Len(d) : d[i] = e[i]
  BY <1>1, PrefixIs
<1>3. CASE Len(d) = Len(e)
  BY <1>1, <1>2, <1>3, SeqEqual
<1> QED
  BY <1>1, <1>2, <1>3

(* Of the sequences with a common beginning one is the longest.            *)
LEMMA LongestIs ==
  ASSUME NEW d \in Seq(Changes), NEW e \in Seq(Changes)
  PROVE  LET c == LongestCommonPrefix({d, e})
         IN  /\ c \in Seq(Changes) /\ IsPrefix(c, d) /\ IsPrefix(c, e)
             /\ \A x \in Seq(Changes) : IsPrefix(x, d) /\ IsPrefix(x, e) => Len(x) <= Len(c)
<1> DEFINE C == CommonPrefixes({d, e})
           T == {k \in Nat : \E x \in C : k = Len(d) - Len(x)}
<1>1. \A x : x \in C <=> x \in Seq(Changes) /\ IsPrefix(x, d) /\ IsPrefix(x, e)
  <2>1. ASSUME NEW x, x \in C  PROVE x \in Seq(Changes) /\ IsPrefix(x, d) /\ IsPrefix(x, e)
    <3>1. PICK y \in {d, e} : x \in Prefixes(y)
      BY <2>1 DEF CommonPrefixes
    <3>2. PICK l \in 0..Len(y) : x = SubSeq(y, 1, l)
      BY <3>1 DEF Prefixes
    <3>3. x \in Seq(Changes)
      BY <3>2, SubSeqOf
    <3> QED
      BY <2>1, <3>3 DEF CommonPrefixes
  <2>2. ASSUME NEW x \in Seq(Changes), IsPrefix(x, d), IsPrefix(x, e)  PROVE x \in C
    <3>1. Len(x) \in 0..Len(d) /\ \A i \in 1..Len(x) : x[i] = d[i]
      BY <2>2, PrefixIs
    <3>2. x = SubSeq(d, 1, Len(x))
      BY <3>1, SubSeqOf, SeqEqual
    <3>3. x \in Prefixes(d)
      BY <3>1, <3>2 DEF Prefixes
    <3> QED
      BY <2>2, <3>3 DEF CommonPrefixes
  <2> QED
    BY <2>1, <2>2
<1> HIDE DEF C
<1>2. \A x \in C : Len(x) \in Nat /\ Len(x) <= Len(d)
  BY <1>1, PrefixIs
<1>3. T # {}
  <2> DEFINE z == SubSeq(d, 1, 0)
  <2>1. z \in Seq(Changes) /\ Len(z) = 0
    BY SubSeqOf, 0 \in 0..Len(d)
  <2> HIDE DEF z
  <2>2. IsPrefix(z, d) /\ IsPrefix(z, e)
    <3>1. /\ Len(z) <= Len(d) /\ \A i \in 1..Len(z) : z[i] = d[i]
          /\ Len(z) <= Len(e) /\ \A i \in 1..Len(z) : z[i] = e[i]
      BY <2>1
    <3> QED
      BY <2>1, <3>1, PrefixIs
  <2>4. z \in C
    BY <1>1, <2>1, <2>2
  <2>3. Len(d) - Len(z) \in T
    BY <2>1, <2>4
  <2> QED
    BY <2>3
<1>4. PICK k \in T : \A j \in T : ~(<<j, k>> \in OpToRel(<, Nat))
  <2>1. T \subseteq Nat
    OBVIOUS
  <2> HIDE DEF T
  <2> QED
    BY <1>3, <2>1, NatLessThanWellFounded, WFMin
<1>5. \A j \in T : ~(j < k)
  BY <1>4 DEF OpToRel
<1>6. PICK c \in C : k = Len(d) - Len(c)
  BY <1>4
<1>7. ASSUME NEW x \in C  PROVE Len(x) <= Len(c)
  <2>1. Len(d) - Len(x) \in T
    <3>1. Len(x) \in Nat /\ Len(d) \in Nat /\ Len(x) <= Len(d)
      BY <1>2
    <3>2. Len(d) - Len(x) \in Nat
      BY <3>1
    <3> QED
      BY <3>2
  <2>2. ~(Len(d) - Len(x) < Len(d) - Len(c))
    BY <1>5, <1>6, <2>1
  <2> QED
    BY <1>2, <2>2
<1> HIDE DEF T
<1>8. /\ LongestCommonPrefix({d, e}) \in C
      /\ \A x \in C : Len(x) <= Len(LongestCommonPrefix({d, e}))
  BY <1>6, <1>7 DEF LongestCommonPrefix, C
<1> QED
  BY <1>1, <1>8


































-----------------------------------------------------------------------------
(* What a step leaves of the types.                                        *)

Step(s) == Ask(s) \/ TaskStep(s) \/ HoldFence(s) \/ Beat(s) \/ World(s)

(* What a task's step changes of it: where it is, and what it waits for.   *)
LEMMA GoOnIs ==
  ASSUME job \in [Servers -> Jobs], NEW s \in Servers, NEW x \in JobSteps, NEW n \in Nat,
         job' = [job EXCEPT ![s].step = x, ![s].wait = n]
  PROVE  /\ job' \in [Servers -> Jobs]
         /\ \A r \in Servers \ {s} : job'[r] = job[r]
         /\ job'[s].step = x /\ job'[s].wait = n
         /\ job'[s].type = job[s].type /\ job'[s].fence = job[s].fence /\ job'[s].down = job[s].down
<1> DEFINE j == [job[s] EXCEPT !.step = x, !.wait = n]
<1>1. job' = [job EXCEPT ![s] = j]
  OBVIOUS
<1>2. /\ j \in Jobs /\ j.step = x /\ j.wait = n
      /\ j.type = job[s].type /\ j.fence = job[s].fence /\ j.down = job[s].down
  BY DEF Jobs
<1> HIDE DEF j
<1> QED
  BY <1>1, <1>2

(* The same for a step that changes only where it is.                      *)
LEMMA GotoIs ==
  ASSUME job \in [Servers -> Jobs], NEW s \in Servers, NEW x \in JobSteps, Goto(s, x)
  PROVE  /\ job' \in [Servers -> Jobs]
         /\ \A r \in Servers \ {s} : job'[r] = job[r]
         /\ job'[s].step = x
         /\ job'[s].type = job[s].type /\ job'[s].fence = job[s].fence
         /\ job'[s].down = job[s].down /\ job'[s].wait = job[s].wait
<1> DEFINE j == [job[s] EXCEPT !.step = x]
<1>1. job' = [job EXCEPT ![s] = j]
  BY DEF Goto
<1>2. /\ j \in Jobs /\ j.step = x
      /\ j.type = job[s].type /\ j.fence = job[s].fence /\ j.down = job[s].down /\ j.wait = job[s].wait
  BY DEF Jobs
<1> HIDE DEF j
<1> QED
  BY <1>1, <1>2

(* A new task is queued with the type and fence it was asked for.          *)
LEMMA EnqueueIs ==
  ASSUME job \in [Servers -> Jobs], NEW s \in Servers, NEW type \in {"fence", "promote", "unfence", "rebuild", "remove"},
         NEW id \in Nat, NEW down \in BOOLEAN, Enqueue(s, type, id, down)
  PROVE  /\ job' \in [Servers -> Jobs]
         /\ \A r \in Servers \ {s} : job'[r] = job[r]
         /\ job'[s].step = "queued" /\ job'[s].type = type /\ job'[s].fence = id
<1> DEFINE j == [type |-> type, step |-> "queued", fence |-> id, down |-> down, wait |-> 0]
<1>1. job' = [job EXCEPT ![s] = j]
  BY DEF Enqueue, Set
<1>2. j \in Jobs /\ j.step = "queued" /\ j.type = type /\ j.fence = id
  BY DEF Jobs, JobSteps
<1> HIDE DEF j
<1> QED
  BY <1>1, <1>2

(* Holding a fence touches this server's fences only.                      *)
LEMMA HoldIs ==
  ASSUME AgentOK, NEW s \in Servers, NEW id \in Nat, Hold(s, id)
  PROVE  /\ held' \in [Servers -> SUBSET Nat]
         /\ \A r \in Servers \ {s} : held'[r] = held[r]
         /\ held'[s] = (held[s] \cup {id}) \ released[s]
<1>1. (held[s] \cup {id}) \ released[s] \in SUBSET Nat
  BY DEF AgentOK
<1> QED
  BY <1>1 DEF AgentOK, Hold, Set

(* Releasing one as well.                                                  *)
LEMMA ReleaseIs ==
  ASSUME AgentOK, NEW s \in Servers, NEW id \in Nat, Release(s, id)
  PROVE  /\ held' \in [Servers -> SUBSET Nat] /\ released' \in [Servers -> SUBSET Nat]
         /\ \A r \in Servers \ {s} : held'[r] = held[r] /\ released'[r] = released[r]
         /\ held'[s] = held[s] \ {id} /\ released'[s] = released[s] \cup {id}
<1>1. held[s] \ {id} \in SUBSET Nat /\ released[s] \cup {id} \in SUBSET Nat
  BY DEF AgentOK
<1> QED
  BY <1>1 DEF AgentOK, Release, Set

(* A fault stays in its bound.                                             *)
LEMMA FaultIs ==
  ASSUME faults \in 0 .. MaxFaults, Fault
  PROVE  faults' \in 0 .. MaxFaults
BY StandbyPairAssumption DEF Fault

(* Timelines, positions and the common beginning have their types.         *)
LEMMA NumbersAre ==
  ASSUME PostgresOK, NEW s \in Servers
  PROVE  /\ Timeline(s) \in Nat /\ Position(s) \in Nat
         /\ Common \in Seq(Changes)
<1>1. data["a"] \in Seq(Changes) /\ data["b"] \in Seq(Changes) /\ data[s] \in Seq(Changes)
  BY DEF PostgresOK, Changes, Servers
<1>2. Common \in Seq(Changes)
  BY <1>1, LongestIs DEF Common
<1>3. Cardinality(Promotions(data[s])) \in Nat
  BY <1>1, CountNat
<1>4. Len(data[s]) \in Nat
  BY <1>1
<1> QED
  BY <1>2, <1>3, <1>4 DEF Timeline, Position

(* Every action keeps every type.                                          *)
LEMMA TypesStep ==
  ASSUME TypeOK, NEW s \in Servers, Step(s)
  PROVE  TypeOK'
<1>0. /\ PostgresOK /\ RecordOK /\ ControlOK /\ AgentOK /\ HistoryOK
      /\ asks \in 0 .. MaxAsks /\ faults \in 0 .. MaxFaults /\ MaxAsks \in Nat /\ MaxFaults \in Nat
      /\ job[s] \in Jobs /\ job[s].fence \in Nat /\ job[s].wait \in Nat /\ ids[s] + 1 \in Nat
      /\ \A f \in fences[s] : f \in Fences /\ f.id \in Nat
  BY StandbyPairAssumption DEF TypeOK, AgentOK, ControlOK, Jobs, Fences
<1>a. Other(s) \in Servers
  BY DEF Other, Servers
<1>1. CASE AskFence(s)
  <2>1. ControlOK'
    <3>1. NewFence(s, "switchover") \in Fences
      BY <1>0 DEF NewFence, Fences
    <3>2. fences[s] \cup {NewFence(s, "switchover")} \in SUBSET Fences
      BY <1>0, <3>1
    <3> QED
      BY <1>0, <1>1, <3>2 DEF ControlOK, AskFence, Set, Statuses
  <2>2. AgentOK'
    <3>1. Enqueue(s, "fence", ids[s] + 1, FALSE)
      BY <1>1 DEF AskFence
    <3>2. job' \in [Servers -> Jobs]
      BY <1>0, <3>1, EnqueueIs DEF AgentOK
    <3> QED
      BY <1>0, <3>1, <3>2 DEF AgentOK, Enqueue, kept
  <2>3. PostgresOK' /\ RecordOK' /\ HistoryOK'
    BY <1>0, <1>1 DEF PostgresOK, RecordOK, HistoryOK, AskFence, Enqueue, postgres, control,
         kept, history
  <2>4. asks' \in 0 .. MaxAsks /\ faults' \in 0 .. MaxFaults
    BY <1>0, <1>1 DEF AskFence, Enqueue
  <2> QED
    BY <2>1, <2>2, <2>3, <2>4 DEF TypeOK
<1>2. CASE \E down \in BOOLEAN : AskPromote(s, down)
  <2>1. AgentOK'
    BY <1>0, <1>2 DEF AgentOK, AskPromote, Enqueue, Jobs, JobSteps, Idle, kept, Set
  <2>2. PostgresOK' /\ RecordOK' /\ ControlOK' /\ HistoryOK'
    BY <1>0, <1>2 DEF PostgresOK, RecordOK, ControlOK, HistoryOK, AskPromote, Enqueue, postgres,
         control, kept, history
  <2>3. asks' \in 0 .. MaxAsks /\ faults' \in 0 .. MaxFaults
    BY <1>0, <1>2 DEF AskPromote, Enqueue
  <2> QED
    BY <2>1, <2>2, <2>3 DEF TypeOK
<1>3. CASE AskUnfence(s)
  <2>1. AgentOK'
    <3>1. PICK f \in fences[s] : Enqueue(s, "unfence", f.id, FALSE)
      BY <1>3 DEF AskUnfence
    <3>2. job' \in [Servers -> Jobs]
      BY <1>0, <3>1, EnqueueIs DEF AgentOK
    <3> QED
      BY <1>0, <3>1, <3>2 DEF AgentOK, Enqueue, kept
  <2>2. PostgresOK' /\ RecordOK' /\ ControlOK' /\ HistoryOK'
    BY <1>0, <1>3 DEF PostgresOK, RecordOK, ControlOK, HistoryOK, AskUnfence, Enqueue, postgres,
         control, kept, history
  <2>3. asks' \in 0 .. MaxAsks /\ faults' \in 0 .. MaxFaults
    BY <1>0, <1>3 DEF AskUnfence, Enqueue
  <2> QED
    BY <2>1, <2>2, <2>3 DEF TypeOK
<1>4. CASE AskRebuild(s)
  <2>1. ControlOK'
    BY <1>0, <1>4 DEF ControlOK, AskRebuild, Enqueue, IsFenceOf, Statuses, Fences, control, Set
  <2>2. AgentOK'
    <3>1. PICK f \in fences[s] : Enqueue(s, "rebuild", f.id, FALSE)
      BY <1>4 DEF AskRebuild
    <3>2. job' \in [Servers -> Jobs]
      BY <1>0, <3>1, EnqueueIs DEF AgentOK
    <3> QED
      BY <1>0, <3>1, <3>2 DEF AgentOK, Enqueue, kept
  <2>3. PostgresOK' /\ RecordOK' /\ HistoryOK'
    BY <1>0, <1>4 DEF PostgresOK, RecordOK, HistoryOK, AskRebuild, Enqueue, postgres, control,
         kept, history
  <2>4. asks' \in 0 .. MaxAsks /\ faults' \in 0 .. MaxFaults
    BY <1>0, <1>4 DEF AskRebuild, Enqueue
  <2> QED
    BY <2>1, <2>2, <2>3, <2>4 DEF TypeOK
<1>5. CASE AskRemove(s)
  <2>1. AgentOK'
    BY <1>0, <1>5 DEF AgentOK, AskRemove, Enqueue, Jobs, JobSteps, Idle, kept, Set
  <2>2. PostgresOK' /\ RecordOK' /\ ControlOK' /\ HistoryOK'
    BY <1>0, <1>5 DEF PostgresOK, RecordOK, ControlOK, HistoryOK, AskRemove, Enqueue, postgres,
         control, kept, history
  <2>3. asks' \in 0 .. MaxAsks /\ faults' \in 0 .. MaxFaults
    BY <1>0, <1>5 DEF AskRemove, Enqueue
  <2> QED
    BY <2>1, <2>2, <2>3 DEF TypeOK
<1>6. CASE AskForget(s)
  <2>1. ControlOK'
    BY <1>0, <1>6 DEF ControlOK, AskForget, Forgotten, Statuses, Fences, control, Set
  <2>2. PostgresOK' /\ RecordOK' /\ AgentOK' /\ HistoryOK'
    BY <1>0, <1>6 DEF PostgresOK, RecordOK, AgentOK, HistoryOK, AskForget, postgres, control,
         kept, history
  <2>3. asks' \in 0 .. MaxAsks /\ faults' \in 0 .. MaxFaults
    BY <1>0, <1>6 DEF AskForget
  <2> QED
    BY <2>1, <2>2, <2>3 DEF TypeOK
<1>7. CASE FenceHold(s)
  <2>1. PostgresOK'
    BY <1>0, <1>7 DEF PostgresOK, FenceHold, postgres, Set
  <2>2. AgentOK'
    BY <1>0, <1>7, GotoIs, HoldIs DEF AgentOK, FenceHold, JobSteps, Idle, kept, Set
  <2>3. RecordOK' /\ ControlOK' /\ HistoryOK'
    BY <1>0, <1>7 DEF RecordOK, ControlOK, HistoryOK, FenceHold, postgres, control, kept, history
  <2>4. asks' \in 0 .. MaxAsks /\ faults' \in 0 .. MaxFaults
    BY <1>0, <1>7 DEF FenceHold
  <2> QED
    BY <2>1, <2>2, <2>3, <2>4 DEF TypeOK
<1>8. CASE FenceStop(s)
  <2>1. PostgresOK'
    BY <1>0, <1>8 DEF PostgresOK, FenceStop, Stopped, Fault, postgres, Set
  <2>2. AgentOK'
    BY <1>0, <1>8, GotoIs, ReleaseIs DEF AgentOK, FenceStop, Fault, JobSteps, Idle, kept, Set
  <2>3. RecordOK' /\ ControlOK' /\ HistoryOK'
    BY <1>0, <1>8 DEF RecordOK, ControlOK, HistoryOK, FenceStop, postgres, control, kept, history
  <2>4. asks' \in 0 .. MaxAsks /\ faults' \in 0 .. MaxFaults
    BY <1>0, <1>8, FaultIs DEF FenceStop
  <2> QED
    BY <2>1, <2>2, <2>3, <2>4 DEF TypeOK
<1>9. CASE FenceRecord(s)
  <2>1. RecordOK'
    BY <1>0, <1>9, NumbersAre DEF RecordOK, FenceRecord, Say, Fault, postgres, control, kept,
         history, Set
  <2>2. AgentOK'
    BY <1>0, <1>9, GotoIs DEF AgentOK, FenceRecord, Say, Fault, JobSteps, Idle, kept, Set
  <2>3. HistoryOK'
    BY <1>0, <1>9 DEF HistoryOK, FenceRecord, Goto, Say, Fault, history, Set
  <2>4. PostgresOK' /\ ControlOK'
    BY <1>0, <1>9 DEF PostgresOK, ControlOK, FenceRecord, Say, postgres, control, kept, history
  <2>5. asks' \in 0 .. MaxAsks /\ faults' \in 0 .. MaxFaults
    BY <1>0, <1>9, FaultIs DEF FenceRecord, Say
  <2> QED
    BY <2>1, <2>2, <2>3, <2>4, <2>5 DEF TypeOK
<1>10. CASE PromoteCheck(s)
  <2>1. AgentOK'
    <3>1. ASSUME PromoteRefused(s) \/ PromoteAlready(s)  PROVE job' \in [Servers -> Jobs]
      BY <1>0, <3>1, GotoIs DEF AgentOK, PromoteRefused, PromoteAlready, JobSteps
    <3>2. ASSUME PromoteGoesOn(s)  PROVE job' \in [Servers -> Jobs]
      <4>1. PICK n \in Nat : job' = [job EXCEPT ![s].step = "catch", ![s].wait = n]
        BY <1>0, <3>2 DEF PromoteGoesOn, RecordOK
      <4> QED
        BY <1>0, <4>1, GoOnIs DEF AgentOK, JobSteps
    <3>3. job' \in [Servers -> Jobs]
      BY <1>10, <3>1, <3>2 DEF PromoteCheck
    <3> QED
      BY <1>0, <1>10, <3>3 DEF AgentOK, PromoteCheck, PromoteRefused, PromoteAlready,
           PromoteGoesOn, Set
  <2>2. HistoryOK'
    BY <1>0, <1>10 DEF HistoryOK, PromoteCheck, Goto, PromoteRefused, PromoteAlready,
         PromoteGoesOn, StoppedElsewhere, Decides, history, Set
  <2>3. PostgresOK' /\ RecordOK' /\ ControlOK'
    BY <1>0, <1>10 DEF PostgresOK, RecordOK, ControlOK, PromoteCheck, PromoteRefused,
         PromoteAlready, PromoteGoesOn, postgres, control, kept, history
  <2>4. asks' \in 0 .. MaxAsks /\ faults' \in 0 .. MaxFaults
    BY <1>0, <1>10 DEF PromoteCheck, PromoteRefused, PromoteAlready, PromoteGoesOn
  <2> QED
    BY <2>1, <2>2, <2>3, <2>4 DEF TypeOK
<1>11. CASE PromoteTake(s)
  <2>1. PostgresOK'
    <3>1. Append(data[s], s) \in Seq(Servers \cup {"w"})
      BY <1>0 DEF PostgresOK
    <3>2. ASSUME NEW x, Promoted(s, x)  PROVE PostgresOK'
      BY <1>0, <1>11, <3>1, <3>2 DEF PostgresOK, PromoteTake, Promoted, Set
    <3>3. ASSUME NotPromoted(s)  PROVE PostgresOK'
      BY <1>0, <1>11, <3>3 DEF PostgresOK, PromoteTake, NotPromoted
    <3> QED
      BY <1>11, <3>2, <3>3 DEF PromoteTake
  <2>2. AgentOK'
    <3>1. ASSUME NEW x \in JobSteps, Promoted(s, x)  PROVE job' \in [Servers -> Jobs]
      BY <1>0, <3>1, NumbersAre, GoOnIs DEF AgentOK, Promoted
    <3>2. job' \in [Servers -> Jobs]
      BY <1>0, <1>11, <3>1, GotoIs DEF AgentOK, PromoteTake, NotPromoted, JobSteps
    <3> QED
      BY <1>0, <1>11, <3>2 DEF AgentOK, PromoteTake, kept
  <2>3. HistoryOK'
    BY <1>0, <1>11 DEF HistoryOK, PromoteTake, Goto, Promoted, NotPromoted, Fault, history, Set
  <2>4. RecordOK' /\ ControlOK'
    BY <1>0, <1>11 DEF RecordOK, ControlOK, PromoteTake, Promoted, postgres, control, kept, history
  <2>5. asks' \in 0 .. MaxAsks /\ faults' \in 0 .. MaxFaults
    BY <1>0, <1>11, FaultIs DEF PromoteTake, Promoted
  <2> QED
    BY <2>1, <2>2, <2>3, <2>4, <2>5 DEF TypeOK
<1>12. CASE PromoteRecord(s)
  <2>1. RecordOK'
    BY <1>0, <1>12, NumbersAre DEF RecordOK, PromoteRecord, Say, Fault, postgres, control, kept,
         history, Set
  <2>2. AgentOK'
    BY <1>0, <1>12, GotoIs DEF AgentOK, PromoteRecord, Say, Fault, JobSteps, Idle, kept, Set
  <2>3. HistoryOK'
    BY <1>0, <1>12 DEF HistoryOK, PromoteRecord, Goto, Say, Fault, history, Set
  <2>4. PostgresOK' /\ ControlOK'
    BY <1>0, <1>12 DEF PostgresOK, ControlOK, PromoteRecord, Say, postgres, control, kept, history
  <2>5. asks' \in 0 .. MaxAsks /\ faults' \in 0 .. MaxFaults
    BY <1>0, <1>12, FaultIs DEF PromoteRecord, Say
  <2> QED
    BY <2>1, <2>2, <2>3, <2>4, <2>5 DEF TypeOK
<1>13. CASE UnfenceCheck(s)
  <2>1. AgentOK'
    BY <1>0, <1>13, GotoIs DEF AgentOK, UnfenceCheck, JobSteps, Idle, kept, Set
  <2>2. HistoryOK'
    BY <1>0, <1>13 DEF HistoryOK, UnfenceCheck, Goto, Decides, history, Set
  <2>3. PostgresOK' /\ RecordOK' /\ ControlOK'
    BY <1>0, <1>13 DEF PostgresOK, RecordOK, ControlOK, UnfenceCheck, postgres, control, kept,
         history
  <2>4. asks' \in 0 .. MaxAsks /\ faults' \in 0 .. MaxFaults
    BY <1>0, <1>13 DEF UnfenceCheck
  <2> QED
    BY <2>1, <2>2, <2>3, <2>4 DEF TypeOK
<1>14. CASE UnfenceRelease(s)
  <2>1. PostgresOK'
    BY <1>0, <1>14 DEF PostgresOK, UnfenceRelease, postgres, Set
  <2>2. AgentOK'
    BY <1>0, <1>14, GotoIs, ReleaseIs DEF AgentOK, UnfenceRelease, JobSteps, Idle, kept, Set
  <2>3. HistoryOK'
    BY <1>0, <1>14 DEF HistoryOK, UnfenceRelease, Goto, Release, history, Set
  <2>4. RecordOK' /\ ControlOK'
    BY <1>0, <1>14 DEF RecordOK, ControlOK, UnfenceRelease, postgres, control, kept, history
  <2>5. asks' \in 0 .. MaxAsks /\ faults' \in 0 .. MaxFaults
    BY <1>0, <1>14 DEF UnfenceRelease
  <2> QED
    BY <2>1, <2>2, <2>3, <2>4, <2>5 DEF TypeOK
<1>15. CASE UnfenceStart(s)
  <2>1. PostgresOK'
    BY <1>0, <1>15 DEF PostgresOK, UnfenceStart, Started, Fault, postgres, Set
  <2>2. AgentOK'
    BY <1>0, <1>15, GotoIs DEF AgentOK, UnfenceStart, Fault, JobSteps, Idle, kept, Set
  <2>3. RecordOK' /\ ControlOK' /\ HistoryOK'
    BY <1>0, <1>15 DEF RecordOK, ControlOK, HistoryOK, UnfenceStart, postgres, control, kept,
         history
  <2>4. asks' \in 0 .. MaxAsks /\ faults' \in 0 .. MaxFaults
    BY <1>0, <1>15, FaultIs DEF UnfenceStart
  <2> QED
    BY <2>1, <2>2, <2>3, <2>4 DEF TypeOK
<1>16. CASE UnfenceRecord(s)
  <2>1. RecordOK'
    BY <1>0, <1>16, NumbersAre DEF RecordOK, UnfenceRecord, Say, Fault, postgres, control, kept,
         history, Set
  <2>2. AgentOK'
    BY <1>0, <1>16, GotoIs DEF AgentOK, UnfenceRecord, Say, Fault, JobSteps, Idle, kept, Set
  <2>3. HistoryOK'
    BY <1>0, <1>16 DEF HistoryOK, UnfenceRecord, Goto, Say, Fault, history, Set
  <2>4. PostgresOK' /\ ControlOK'
    BY <1>0, <1>16 DEF PostgresOK, ControlOK, UnfenceRecord, Say, postgres, control, kept, history
  <2>5. asks' \in 0 .. MaxAsks /\ faults' \in 0 .. MaxFaults
    BY <1>0, <1>16, FaultIs DEF UnfenceRecord, Say
  <2> QED
    BY <2>1, <2>2, <2>3, <2>4, <2>5 DEF TypeOK
<1>17. CASE RebuildBegin(s)
  <2>1. AgentOK'
    BY <1>0, <1>17, GotoIs DEF AgentOK, RebuildBegin, Fault, JobSteps, Idle, kept, Set
  <2>2. PostgresOK' /\ RecordOK' /\ ControlOK' /\ HistoryOK'
    BY <1>0, <1>17 DEF PostgresOK, RecordOK, ControlOK, HistoryOK, RebuildBegin, postgres,
         control, kept, history
  <2>3. asks' \in 0 .. MaxAsks /\ faults' \in 0 .. MaxFaults
    BY <1>0, <1>17, FaultIs DEF RebuildBegin
  <2> QED
    BY <2>1, <2>2, <2>3 DEF TypeOK
<1>18. CASE RebuildSwap(s)
  <2>1. PostgresOK'
    <3>1. (IF CanReattach(s) THEN data[s] ELSE Common) \in Seq(Servers \cup {"w"})
      BY <1>0, NumbersAre DEF PostgresOK, Changes
    <3>2. ASSUME Rebuilt(s)  PROVE PostgresOK'
      BY <1>0, <3>1, <3>2 DEF PostgresOK, Rebuilt, Set
    <3>3. ASSUME RolledBack(s), UNCHANGED data  PROVE PostgresOK'
      BY <1>0, <3>3 DEF PostgresOK, RolledBack, Stopped, Set
    <3> QED
      BY <1>18, <3>2, <3>3 DEF RebuildSwap
  <2>2. AgentOK'
    BY <1>0, <1>18, GotoIs, ReleaseIs DEF AgentOK, RebuildSwap, Rebuilt, RolledBack, Fault,
         JobSteps, Idle, kept, Set
  <2>3. HistoryOK'
    BY <1>0, <1>18 DEF HistoryOK, RebuildSwap, Goto, Rebuilt, RolledBack, Release, Fault,
         history, Set
  <2>4. RecordOK' /\ ControlOK'
    BY <1>0, <1>18 DEF RecordOK, ControlOK, RebuildSwap, postgres, control, kept, history
  <2>5. asks' \in 0 .. MaxAsks /\ faults' \in 0 .. MaxFaults
    BY <1>0, <1>18, FaultIs DEF RebuildSwap
  <2> QED
    BY <2>1, <2>2, <2>3, <2>4, <2>5 DEF TypeOK
<1>19. CASE RemoveStandby(s)
  <2>1. PostgresOK'
    BY <1>0, <1>19 DEF PostgresOK, RemoveStandby, Stopped, postgres, Set
  <2>2. AgentOK'
    BY <1>0, <1>19, GotoIs DEF AgentOK, RemoveStandby, JobSteps, Idle, kept, Set
  <2>3. RecordOK' /\ ControlOK' /\ HistoryOK'
    BY <1>0, <1>19 DEF RecordOK, ControlOK, HistoryOK, RemoveStandby, postgres, control, kept,
         history
  <2>4. asks' \in 0 .. MaxAsks /\ faults' \in 0 .. MaxFaults
    BY <1>0, <1>19 DEF RemoveStandby
  <2> QED
    BY <2>1, <2>2, <2>3, <2>4 DEF TypeOK
<1>20. CASE Report(s)
  <2>1. ControlOK'
    <3>1. ASSUME NEW F \in SUBSET Fences, fences' = Set(fences, s, F)  PROVE fences' \in [Servers -> SUBSET Fences]
      BY <1>0, <3>1 DEF ControlOK, Set
    <3>2. {f \in fences[s] : f.id # job[s].fence} \in SUBSET Fences
      BY <1>0
    <3>3. {[f EXCEPT !.failed = @ \/ f.id = job[s].fence] : f \in fences[s]} \in SUBSET Fences
      <4>1. ASSUME NEW f \in fences[s]  PROVE [f EXCEPT !.failed = @ \/ f.id = job[s].fence] \in Fences
        BY <1>0 DEF Fences
      <4> QED
        BY <4>1
    <3>4. fences' \in [Servers -> SUBSET Fences]
      <4>1. CASE AfterFailed(s)
        BY <1>0, <3>1, <3>3, <4>1 DEF ControlOK, AfterFailed
      <4>2. CASE AfterOk(s)
        <5>1. \/ UNCHANGED fences
              \/ fences' = Set(fences, s, {f \in fences[s] : f.id # job[s].fence})
              \/ fences' = Set(fences, s, {})
          BY <4>2 DEF AfterOk, DropFence, Forgotten, control
        <5> QED
          BY <1>0, <3>1, <3>2, <5>1 DEF ControlOK
      <4> QED
        BY <1>20, <4>1, <4>2 DEF Report
    <3>5. CASE AfterFailed(s)
      BY <1>0, <3>4, <3>5 DEF ControlOK, AfterFailed, Statuses, Set
    <3>6. CASE AfterOk(s)
      BY <1>0, <3>4, <3>6 DEF ControlOK, AfterOk, DropFence, Forgotten, Statuses, Set, control
    <3> QED
      BY <1>20, <3>5, <3>6 DEF Report
  <2>2. AgentOK'
    BY <1>0, <1>20 DEF AgentOK, Report, AfterFailed, AfterOk, DropFence, Forgotten, NoJob, Jobs,
         JobSteps, Idle, kept, Set
  <2>3. PostgresOK' /\ RecordOK' /\ HistoryOK'
    BY <1>0, <1>20 DEF PostgresOK, RecordOK, HistoryOK, Report, AfterFailed, AfterOk, postgres,
         control, kept, history
  <2>4. asks' \in 0 .. MaxAsks /\ faults' \in 0 .. MaxFaults
    BY <1>0, <1>20 DEF Report, AfterFailed, AfterOk
  <2> QED
    BY <2>1, <2>2, <2>3, <2>4 DEF TypeOK
<1>21. CASE LeaseEnds(s)
  <2>1. AgentOK'
    BY <1>0, <1>21 DEF AgentOK, LeaseEnds, NoJob, Jobs, JobSteps, Idle, kept, Set
  <2>2. PostgresOK' /\ RecordOK' /\ ControlOK' /\ HistoryOK'
    BY <1>0, <1>21 DEF PostgresOK, RecordOK, ControlOK, HistoryOK, LeaseEnds, postgres, control,
         kept, history
  <2>3. asks' \in 0 .. MaxAsks /\ faults' \in 0 .. MaxFaults
    BY <1>0, <1>21 DEF LeaseEnds
  <2> QED
    BY <2>1, <2>2, <2>3 DEF TypeOK
<1>22. CASE HoldFence(s)
  <2>1. PostgresOK'
    BY <1>0, <1>22 DEF PostgresOK, HoldFence, Stopped, Fault, postgres, Set
  <2>2. RecordOK' /\ ControlOK' /\ AgentOK' /\ HistoryOK'
    BY <1>0, <1>22 DEF RecordOK, ControlOK, AgentOK, HistoryOK, HoldFence, postgres, control,
         kept, history
  <2>3. asks' \in 0 .. MaxAsks /\ faults' \in 0 .. MaxFaults
    BY <1>0, <1>22, FaultIs DEF HoldFence
  <2> QED
    BY <2>1, <2>2, <2>3 DEF TypeOK
<1>23. CASE Heartbeat(s)
  <2>1. ControlOK'
    <3>1. NewFence(s, "superseded") \in Fences /\ ids[s] \in Nat
      BY <1>0 DEF NewFence, Fences, ControlOK
    <3>2. PICK F \in SUBSET Fences : fences' = Set(fences, s, F) /\ hb' = Set(hb, s, {f.id : f \in F})
      BY <1>0, <1>23, <3>1 DEF Heartbeat, Undone
    <3>3. fences' \in [Servers -> SUBSET Fences]
      BY <1>0, <3>2 DEF ControlOK, Set
    <3>4. st' \in [Servers -> Statuses] /\ ids' \in [Servers -> Nat]
      BY <1>0, <1>23, <3>1 DEF ControlOK, Heartbeat, Set, Statuses
    <3>5. Elsewhere(s) \in {"none", "stopped", "primary"}
      BY <1>0 DEF ControlOK, RecordOK, Elsewhere
    <3> QED
      BY <1>0, <1>23, <3>3, <3>4, <3>5 DEF ControlOK, Heartbeat, Set
  <2>2. AgentOK'
    <3>1. NewFence(s, "superseded") \in Fences
      BY <1>0 DEF NewFence, Fences
    <3>2. PICK F \in SUBSET Fences : hb' = Set(hb, s, {f.id : f \in F})
      BY <1>0, <1>23, <3>1 DEF Heartbeat, Undone
    <3>3. {f.id : f \in F} \in SUBSET Nat
      BY <3>2 DEF Fences
    <3> QED
      BY <1>0, <1>23, <3>2, <3>3 DEF AgentOK, Heartbeat, Set, kept
  <2>3. HistoryOK'
    BY <1>0, <1>23 DEF HistoryOK, Heartbeat, NewFence, Undone, Elsewhere, history, Set
  <2>4. PostgresOK' /\ RecordOK'
    BY <1>0, <1>23 DEF PostgresOK, RecordOK, Heartbeat, postgres, control, kept, history
  <2>5. asks' \in 0 .. MaxAsks /\ faults' \in 0 .. MaxFaults
    BY <1>0, <1>23 DEF Heartbeat
  <2> QED
    BY <2>1, <2>2, <2>3, <2>4, <2>5 DEF TypeOK
<1>24. CASE Apply(s)
  <2>1. AgentOK'
    BY <1>0, <1>24 DEF AgentOK, Apply, Jobs, JobSteps, Idle, kept, Set
  <2>2. PostgresOK' /\ RecordOK' /\ ControlOK' /\ HistoryOK'
    BY <1>0, <1>24 DEF PostgresOK, RecordOK, ControlOK, HistoryOK, Apply, postgres, control,
         kept, history
  <2>3. asks' \in 0 .. MaxAsks /\ faults' \in 0 .. MaxFaults
    BY <1>0, <1>24 DEF Apply
  <2> QED
    BY <2>1, <2>2, <2>3 DEF TypeOK
<1>25. CASE AnswerLost(s)
  <2>1. AgentOK'
    BY <1>0, <1>25 DEF AgentOK, AnswerLost, Fault, Jobs, JobSteps, Idle, kept, Set
  <2>2. PostgresOK' /\ RecordOK' /\ ControlOK' /\ HistoryOK'
    BY <1>0, <1>25 DEF PostgresOK, RecordOK, ControlOK, HistoryOK, AnswerLost, postgres,
         control, kept, history
  <2>3. asks' \in 0 .. MaxAsks /\ faults' \in 0 .. MaxFaults
    BY <1>0, <1>25, FaultIs DEF AnswerLost
  <2> QED
    BY <2>1, <2>2, <2>3 DEF TypeOK
<1>26. CASE Die(s)
  <2>1. PostgresOK'
    BY <1>0, <1>26 DEF PostgresOK, Die, RolledBack, Stopped, Fault, postgres, Set
  <2>2. AgentOK'
    BY <1>0, <1>26, GotoIs DEF AgentOK, Die, RolledBack, Fault, JobSteps, Idle, kept, Set
  <2>3. RecordOK' /\ ControlOK' /\ HistoryOK'
    BY <1>0, <1>26 DEF RecordOK, ControlOK, HistoryOK, Die, postgres, control, kept, history
  <2>4. asks' \in 0 .. MaxAsks /\ faults' \in 0 .. MaxFaults
    BY <1>0, <1>26, FaultIs DEF Die
  <2> QED
    BY <2>1, <2>2, <2>3, <2>4 DEF TypeOK
<1>27. CASE StopsByItself(s)
  <2>1. PostgresOK'
    BY <1>0, <1>27 DEF PostgresOK, StopsByItself, Fault, postgres, Set
  <2>2. RecordOK' /\ ControlOK' /\ AgentOK' /\ HistoryOK'
    BY <1>0, <1>27 DEF RecordOK, ControlOK, AgentOK, HistoryOK, StopsByItself, postgres,
         control, kept, history
  <2>3. asks' \in 0 .. MaxAsks /\ faults' \in 0 .. MaxFaults
    BY <1>0, <1>27, FaultIs DEF StopsByItself
  <2> QED
    BY <2>1, <2>2, <2>3 DEF TypeOK
<1>28. CASE StartByOther(s)
  <2>1. PostgresOK'
    BY <1>0, <1>28 DEF PostgresOK, StartByOther, Started, Fault, postgres, Set
  <2>2. RecordOK' /\ ControlOK' /\ AgentOK' /\ HistoryOK'
    BY <1>0, <1>28 DEF RecordOK, ControlOK, AgentOK, HistoryOK, StartByOther, postgres, control,
         kept, history
  <2>3. asks' \in 0 .. MaxAsks /\ faults' \in 0 .. MaxFaults
    BY <1>0, <1>28, FaultIs DEF StartByOther
  <2> QED
    BY <2>1, <2>2, <2>3 DEF TypeOK
<1>29. CASE Write(s)
  <2>1. PostgresOK'
    BY <1>0, <1>29 DEF PostgresOK, Write, postgres, Set
  <2>2. RecordOK' /\ ControlOK' /\ AgentOK' /\ HistoryOK'
    BY <1>0, <1>29 DEF RecordOK, ControlOK, AgentOK, HistoryOK, Write, postgres, control, kept,
         history
  <2>3. asks' \in 0 .. MaxAsks /\ faults' \in 0 .. MaxFaults
    BY <1>0, <1>29 DEF Write
  <2> QED
    BY <2>1, <2>2, <2>3 DEF TypeOK
<1>30. CASE Replay(s)
  <2>1. PostgresOK'
    <3>1. data[Other(s)] \in Seq(Changes) /\ data[s] \in Seq(Changes)
      BY <1>0, <1>a DEF PostgresOK, Changes
    <3>2. Position(s) + 1 \in 0 .. Len(data[Other(s)])
      <4>2. Len(data[s]) \in Nat /\ Len(data[Other(s)]) \in Nat
        BY <3>1
      <4>1. Len(data[s]) < Len(data[Other(s)])
        BY <1>30, <3>1, StrictIs DEF Replay
      <4> QED
        BY <4>1, <4>2 DEF Position
    <3>3. SubSeq(data[Other(s)], 1, Position(s) + 1) \in Seq(Servers \cup {"w"})
      BY <3>1, <3>2, SubSeqOf DEF Changes
    <3> QED
      BY <1>0, <1>30, <3>3 DEF PostgresOK, Replay, Set
  <2>2. RecordOK' /\ ControlOK' /\ AgentOK' /\ HistoryOK'
    BY <1>0, <1>30 DEF RecordOK, ControlOK, AgentOK, HistoryOK, Replay, postgres, control, kept,
         history
  <2>3. asks' \in 0 .. MaxAsks /\ faults' \in 0 .. MaxFaults
    BY <1>0, <1>30 DEF Replay
  <2> QED
    BY <2>1, <2>2, <2>3 DEF TypeOK
<1> QED
  BY <1>1, <1>2, <1>3, <1>4, <1>5, <1>6, <1>7, <1>8, <1>9, <1>10, <1>11, <1>12, <1>13, <1>14,
       <1>15, <1>16, <1>17, <1>18, <1>19, <1>20, <1>21, <1>22, <1>23, <1>24, <1>25, <1>26,
       <1>27, <1>28, <1>29, <1>30 DEF Step, Ask, TaskStep, Work, Beat, World

-----------------------------------------------------------------------------
(* What a step leaves alone.                                               *)

Domains ==
  /\ DOMAIN pg = Servers /\ DOMAIN signal = Servers /\ DOMAIN clean = Servers
  /\ DOMAIN data = Servers /\ DOMAIN st = Servers /\ DOMAIN fences = Servers
  /\ DOMAIN ids = Servers /\ DOMAIN seen = Servers /\ DOMAIN up = Servers
  /\ DOMAIN job = Servers /\ DOMAIN held = Servers /\ DOMAIN released = Servers
  /\ DOMAIN follows = Servers /\ DOMAIN hb = Servers /\ DOMAIN unsaid = Servers

(* Nothing of server r changes.                                            *)
Same(r) ==
  /\ pg'[r] = pg[r] /\ signal'[r] = signal[r] /\ clean'[r] = clean[r]
  /\ data'[r] = data[r] /\ st'[r] = st[r] /\ fences'[r] = fences[r]
  /\ ids'[r] = ids[r] /\ seen'[r] = seen[r] /\ up'[r] = up[r]
  /\ job'[r] = job[r] /\ held'[r] = held[r] /\ released'[r] = released[r]
  /\ follows'[r] = follows[r] /\ hb'[r] = hb[r] /\ unsaid'[r] = unsaid[r]

(* Each variable of the servers is a function on them.                     *)
LEMMA TypesDomains ==
  ASSUME TypeOK
  PROVE  Domains
BY DEF TypeOK, PostgresOK, ControlOK, AgentOK, HistoryOK, Domains

(* A step is one server's: the other one neither changes nor writes the     *)
(* record in it.                                                           *)
LEMMA OneServer ==
  ASSUME TypeOK, NEW s \in Servers, Step(s), NEW r \in Servers, r # s
  PROVE  Same(r) /\ (rec' = rec \/ rec'.by = s)
<1>0. Domains
  BY TypesDomains
<1>1. CASE AskFence(s)
  BY <1>0, <1>1 DEF Domains, Same, AskFence, Enqueue, postgres, control, kept, history, Set
<1>2. CASE \E down \in BOOLEAN : AskPromote(s, down)
  BY <1>0, <1>2 DEF Domains, Same, AskPromote, Enqueue, postgres, control, kept, history, Set
<1>3. CASE AskUnfence(s)
  BY <1>0, <1>3 DEF Domains, Same, AskUnfence, Enqueue, postgres, control, kept, history, Set
<1>4. CASE AskRebuild(s)
  BY <1>0, <1>4 DEF Domains, Same, AskRebuild, Enqueue, postgres, control, kept, history, Set
<1>5. CASE AskRemove(s)
  BY <1>0, <1>5 DEF Domains, Same, AskRemove, Enqueue, postgres, control, kept, history, Set
<1>6. CASE AskForget(s)
  BY <1>0, <1>6 DEF Domains, Same, AskForget, Forgotten, postgres, control, kept, history, Set
<1>7. CASE FenceHold(s)
  BY <1>0, <1>7 DEF Domains, Same, FenceHold, Goto, Hold, postgres, control, kept, history, Set
<1>8. CASE FenceStop(s)
  BY <1>0, <1>8 DEF Domains, Same, FenceStop, Goto, Stopped, Release, postgres, control, kept,
       history, Set
<1>9. CASE FenceRecord(s)
  BY <1>0, <1>9 DEF Domains, Same, FenceRecord, Goto, Say, postgres, control, kept, history, Set
<1>10. CASE PromoteCheck(s)
  BY <1>0, <1>10 DEF Domains, Same, PromoteCheck, Goto, PromoteRefused, PromoteAlready,
       PromoteGoesOn, Decides, postgres, control, kept, history, Set
<1>11. CASE PromoteTake(s)
  BY <1>0, <1>11 DEF Domains, Same, PromoteTake, Goto, Promoted, NotPromoted, postgres, control,
       kept, history, Set
<1>12. CASE PromoteRecord(s)
  BY <1>0, <1>12 DEF Domains, Same, PromoteRecord, Goto, Say, postgres, control, kept, history, Set
<1>13. CASE UnfenceCheck(s)
  BY <1>0, <1>13 DEF Domains, Same, UnfenceCheck, Goto, Decides, postgres, control, kept,
       history, Set
<1>14. CASE UnfenceRelease(s)
  BY <1>0, <1>14 DEF Domains, Same, UnfenceRelease, Goto, Release, postgres, control, kept,
       history, Set
<1>15. CASE UnfenceStart(s)
  BY <1>0, <1>15 DEF Domains, Same, UnfenceStart, Goto, Started, postgres, control, kept,
       history, Set
<1>16. CASE UnfenceRecord(s)
  BY <1>0, <1>16 DEF Domains, Same, UnfenceRecord, Goto, Say, postgres, control, kept, history, Set
<1>17. CASE RebuildBegin(s)
  BY <1>0, <1>17 DEF Domains, Same, RebuildBegin, Goto, postgres, control, kept, history, Set
<1>18. CASE RebuildSwap(s)
  BY <1>0, <1>18 DEF Domains, Same, RebuildSwap, Goto, Rebuilt, RolledBack, Stopped, Release,
       postgres, control, kept, history, Set
<1>19. CASE RemoveStandby(s)
  BY <1>0, <1>19 DEF Domains, Same, RemoveStandby, Goto, Stopped, postgres, control, kept,
       history, Set
<1>20. CASE Report(s)
  BY <1>0, <1>20 DEF Domains, Same, Report, AfterFailed, AfterOk, DropFence, Forgotten,
       postgres, control, kept, history, Set
<1>21. CASE LeaseEnds(s)
  BY <1>0, <1>21 DEF Domains, Same, LeaseEnds, postgres, control, kept, history, Set
<1>22. CASE HoldFence(s)
  BY <1>0, <1>22 DEF Domains, Same, HoldFence, Stopped, postgres, control, kept, history, Set
<1>23. CASE Heartbeat(s)
  BY <1>0, <1>23 DEF Domains, Same, Heartbeat, postgres, control, kept, history, Set
<1>24. CASE Apply(s)
  BY <1>0, <1>24 DEF Domains, Same, Apply, postgres, control, kept, history, Set
<1>25. CASE AnswerLost(s)
  BY <1>0, <1>25 DEF Domains, Same, AnswerLost, postgres, control, kept, history, Set
<1>26. CASE Die(s)
  BY <1>0, <1>26 DEF Domains, Same, Die, Goto, RolledBack, Stopped, postgres, control, kept,
       history, Set
<1>27. CASE StopsByItself(s)
  BY <1>0, <1>27 DEF Domains, Same, StopsByItself, postgres, control, kept, history, Set
<1>28. CASE StartByOther(s)
  BY <1>0, <1>28 DEF Domains, Same, StartByOther, Started, postgres, control, kept, history, Set
<1>29. CASE Write(s)
  BY <1>0, <1>29 DEF Domains, Same, Write, postgres, control, kept, history, Set
<1>30. CASE Replay(s)
  BY <1>0, <1>30 DEF Domains, Same, Replay, postgres, control, kept, history, Set
<1> QED
  BY <1>1, <1>2, <1>3, <1>4, <1>5, <1>6, <1>7, <1>8, <1>9, <1>10, <1>11, <1>12, <1>13, <1>14,
       <1>15, <1>16, <1>17, <1>18, <1>19, <1>20, <1>21, <1>22, <1>23, <1>24, <1>25, <1>26,
       <1>27, <1>28, <1>29, <1>30 DEF Step, Ask, TaskStep, Work, Beat, World

(* What a record that was written says.                                    *)
LEMMA SayIs ==
  ASSUME NEW s, NEW x, NEW n, Say(s, x, n)
  PROVE  rec'.state = x /\ rec'.by = s /\ rec'.lsn = n /\ rec'.tl = Timeline(s)
<1>1. PICK tl : tl = Timeline(s) /\ rec' = [state |-> x, by |-> s, tl |-> tl, lsn |-> n]
  BY DEF Say
<1> QED
  BY <1>1

(* A record is never taken back.                                           *)
LEMMA RecordStays ==
  ASSUME NEW s \in Servers, Step(s)
  PROVE  rec' = rec \/ rec'.state # "none"
<1>1. CASE AskFence(s)
  BY <1>1 DEF AskFence, Enqueue
<1>2. CASE \E down \in BOOLEAN : AskPromote(s, down)
  BY <1>2 DEF AskPromote, Enqueue
<1>3. CASE AskUnfence(s)
  BY <1>3 DEF AskUnfence, Enqueue
<1>4. CASE AskRebuild(s)
  BY <1>4 DEF AskRebuild, Enqueue
<1>5. CASE AskRemove(s)
  BY <1>5 DEF AskRemove, Enqueue
<1>6. CASE AskForget(s)
  BY <1>6 DEF AskForget
<1>7. CASE FenceHold(s)
  BY <1>7 DEF FenceHold
<1>8. CASE FenceStop(s)
  BY <1>8 DEF FenceStop
<1>9. CASE FenceRecord(s)
  BY <1>9, SayIs DEF FenceRecord
<1>10. CASE PromoteCheck(s)
  BY <1>10 DEF PromoteCheck
<1>11. CASE PromoteTake(s)
  BY <1>11 DEF PromoteTake
<1>12. CASE PromoteRecord(s)
  BY <1>12, SayIs DEF PromoteRecord
<1>13. CASE UnfenceCheck(s)
  BY <1>13 DEF UnfenceCheck
<1>14. CASE UnfenceRelease(s)
  BY <1>14 DEF UnfenceRelease
<1>15. CASE UnfenceStart(s)
  BY <1>15 DEF UnfenceStart
<1>16. CASE UnfenceRecord(s)
  BY <1>16, SayIs DEF UnfenceRecord
<1>17. CASE RebuildBegin(s)
  BY <1>17 DEF RebuildBegin
<1>18. CASE RebuildSwap(s)
  BY <1>18 DEF RebuildSwap
<1>19. CASE RemoveStandby(s)
  BY <1>19 DEF RemoveStandby
<1>20. CASE Report(s)
  BY <1>20 DEF Report
<1>21. CASE LeaseEnds(s)
  BY <1>21 DEF LeaseEnds
<1>22. CASE HoldFence(s)
  BY <1>22 DEF HoldFence
<1>23. CASE Heartbeat(s)
  BY <1>23 DEF Heartbeat
<1>24. CASE Apply(s)
  BY <1>24 DEF Apply
<1>25. CASE AnswerLost(s)
  BY <1>25 DEF AnswerLost
<1>26. CASE Die(s)
  BY <1>26 DEF Die
<1>27. CASE StopsByItself(s)
  BY <1>27 DEF StopsByItself
<1>28. CASE StartByOther(s)
  BY <1>28 DEF StartByOther
<1>29. CASE Write(s)
  BY <1>29 DEF Write
<1>30. CASE Replay(s)
  BY <1>30 DEF Replay
<1> QED
  BY <1>1, <1>2, <1>3, <1>4, <1>5, <1>6, <1>7, <1>8, <1>9, <1>10, <1>11, <1>12, <1>13, <1>14,
       <1>15, <1>16, <1>17, <1>18, <1>19, <1>20, <1>21, <1>22, <1>23, <1>24, <1>25, <1>26,
       <1>27, <1>28, <1>29, <1>30 DEF Step, Ask, TaskStep, Work, Beat, World

(* A promotion that goes on waits for the position the record has.         *)
LEMMA PromoteGoesOnIs ==
  ASSUME TypeOK, NEW s \in Servers, PromoteGoesOn(s)
  PROVE  /\ job'[s].type = job[s].type /\ job'[s].step = "catch" /\ job'[s].fence = job[s].fence
         /\ job'[s].wait = IF StoppedElsewhere(s) THEN rec.lsn ELSE 0
<1> DEFINE n == IF StoppedElsewhere(s) THEN rec.lsn ELSE 0
<1>1. n \in Nat /\ job \in [Servers -> Jobs]
  BY DEF TypeOK, RecordOK, AgentOK
<1>2. job' = [job EXCEPT ![s].step = "catch", ![s].wait = n]
  BY DEF PromoteGoesOn
<1> HIDE DEF n
<1>3. job'[s].type = job[s].type /\ job'[s].step = "catch" /\ job'[s].fence = job[s].fence /\ job'[s].wait = n
  BY <1>1, <1>2, GoOnIs DEF JobSteps
<1> QED
  BY <1>3 DEF n

(* A promotion ends with a primary that has one change more.               *)
LEMMA PromotedIs ==
  ASSUME TypeOK, NEW s \in Servers, NEW x \in JobSteps, Promoted(s, x)
  PROVE  /\ job'[s].type = job[s].type /\ job'[s].step = x /\ job'[s].fence = job[s].fence
         /\ job'[s].wait = Position(s)
         /\ pg'[s] = "rw" /\ ~signal'[s] /\ data'[s] = Append(data[s], s)
<1>1. Position(s) \in Nat /\ job \in [Servers -> Jobs] /\ Domains
  BY NumbersAre, TypesDomains DEF TypeOK, AgentOK
<1>2. /\ job'[s].type = job[s].type /\ job'[s].step = x /\ job'[s].fence = job[s].fence
      /\ job'[s].wait = Position(s)
  <2> DEFINE j == [job[s] EXCEPT !.step = x, !.wait = Position(s)]
  <2>1. job' = [job EXCEPT ![s] = j]
    BY DEF Promoted
  <2>2. j.step = x /\ j.wait = Position(s) /\ j.type = job[s].type /\ j.fence = job[s].fence
    BY <1>1 DEF Jobs
  <2> HIDE DEF j
  <2> QED
    BY <1>1, <2>1, <2>2
<1> QED
  BY <1>1, <1>2 DEF Promoted, Domains, Set

(* A dead agent's task is where it was, failed or lost.                    *)
LEMMA DieIs ==
  ASSUME TypeOK, NEW s \in Servers, Die(s)
  PROVE  /\ job'[s].type = job[s].type /\ job'[s].fence = job[s].fence
         /\ IF job[s].step \in {"none", "queued", "lost"}
            THEN job'[s].step = job[s].step
            ELSE job'[s].step \in {"failed", "lost"}
<1>1. job \in [Servers -> Jobs] /\ job[s].step \in JobSteps
  BY DEF TypeOK, AgentOK, Jobs
<1>2. CASE job[s].step \in {"none", "queued", "lost"}
  BY <1>2 DEF Die
<1>3. CASE job[s].step \notin {"none", "queued", "lost"}
  <2>1. PICK end \in {"failed", "lost"} : Goto(s, end)
    BY <1>3 DEF Die
  <2> QED
    BY <1>1, <1>3, <2>1, GotoIs DEF JobSteps
<1> QED
  BY <1>2, <1>3

-----------------------------------------------------------------------------
(* A stopped server stays stopped.                                         *)

On(s, type, steps) == job[s].type = type /\ job[s].step \in steps

(* A server of which the bucket says that it stopped takes no writes, nor  *)
(* would it if it were started, unless it took them back since; nor does   *)
(* one whose fence is about to say so.                                     *)
StopAt(s) ==
  /\ rec.state = "stopped" /\ rec.by = s /\ ~unsaid[s] => ~MayWrite(s)
  /\ On(s, "fence", {"record"}) => ~MayWrite(s)
  /\ On(s, "fence", {"stop"}) => signal[s]
  /\ On(s, "promote", {"record"}) => unsaid[s]
  /\ On(s, "unfence", {"start", "record"}) => unsaid[s]

(* Nobody else's step starts a stopped server.                             *)
LEMMA StopOther ==
  ASSUME TypeOK, NEW s \in Servers, Step(s), NEW r \in Servers, r # s, StopAt(r)
  PROVE  StopAt(r)'
<1>1. Same(r) /\ (rec' = rec \/ rec'.by = s)
  BY OneServer
<1> QED
  BY <1>1 DEF StopAt, Same, On, MayWrite

(* Nor its own, action by action.                                          *)
LEMMA StopSelf ==
  ASSUME TypeOK, NEW s \in Servers, Step(s), StopAt(s)
  PROVE  StopAt(s)'
<1>0. Domains /\ job \in [Servers -> Jobs] /\ PostgresOK /\ RecordOK
  BY TypesDomains DEF TypeOK, AgentOK
<1> USE DEF StopAt, On, MayWrite, Domains, Set
<1>1. CASE AskFence(s)
  BY <1>0, <1>1 DEF AskFence, Enqueue, postgres, control, kept, history
<1>2. CASE \E down \in BOOLEAN : AskPromote(s, down)
  BY <1>0, <1>2 DEF AskPromote, Enqueue, postgres, control, kept, history
<1>3. CASE AskUnfence(s)
  BY <1>0, <1>3 DEF AskUnfence, Enqueue, postgres, control, kept, history
<1>4. CASE AskRebuild(s)
  BY <1>0, <1>4 DEF AskRebuild, Enqueue, postgres, control, kept, history
<1>5. CASE AskRemove(s)
  BY <1>0, <1>5 DEF AskRemove, Enqueue, postgres, control, kept, history
<1>6. CASE AskForget(s)
  BY <1>0, <1>6 DEF AskForget, postgres, control, kept, history
<1>7. CASE FenceHold(s)
  BY <1>0, <1>7, GotoIs DEF FenceHold, At, JobSteps, postgres, control, kept, history
<1>8. CASE FenceStop(s)
  BY <1>0, <1>8, GotoIs DEF FenceStop, At, Stopped, Fault, JobSteps, postgres, control, kept,
       history
<1>9. CASE FenceRecord(s)
  BY <1>0, <1>9, GotoIs DEF FenceRecord, At, Say, Fault, JobSteps, postgres, control, kept, history
<1>10. CASE PromoteCheck(s)
  <2>1. job'[s].type = "promote" /\ job'[s].step \in {"failed", "ok", "catch"}
    BY <1>0, <1>10, GotoIs, PromoteGoesOnIs DEF PromoteCheck, At, PromoteRefused,
         PromoteAlready, JobSteps
  <2> QED
    BY <1>10, <2>1 DEF PromoteCheck, postgres
<1>11. CASE PromoteTake(s)
  <2>1. ASSUME NEW x \in JobSteps, Promoted(s, x)  PROVE StopAt(s)'
    <3>1. unsaid'[s] /\ job'[s].type = "promote"
      BY <1>0, <1>11, <2>1, PromotedIs DEF PromoteTake, At, Promoted
    <3> QED
      BY <3>1
  <2>2. CASE NotPromoted(s)
    BY <1>0, <1>11, <2>2, GotoIs DEF PromoteTake, NotPromoted, At, JobSteps
  <2> QED
    BY <1>11, <2>1, <2>2 DEF PromoteTake, JobSteps
<1>12. CASE PromoteRecord(s)
  BY <1>0, <1>12, GotoIs DEF PromoteRecord, At, Say, Fault, JobSteps, postgres, control, kept,
       history
<1>13. CASE UnfenceCheck(s)
  BY <1>0, <1>13, GotoIs DEF UnfenceCheck, At, Decides, JobSteps, postgres, control, kept, history
<1>14. CASE UnfenceRelease(s)
  BY <1>0, <1>14, GotoIs DEF UnfenceRelease, At, JobSteps, postgres, control, kept, history
<1>15. CASE UnfenceStart(s)
  BY <1>0, <1>15, GotoIs DEF UnfenceStart, At, Started, Fault, JobSteps, postgres, control,
       kept, history
<1>16. CASE UnfenceRecord(s)
  BY <1>0, <1>16, GotoIs DEF UnfenceRecord, At, Say, Fault, JobSteps, postgres, control, kept,
       history
<1>17. CASE RebuildBegin(s)
  BY <1>0, <1>17, GotoIs DEF RebuildBegin, At, Fault, JobSteps, postgres, control, kept, history
<1>18. CASE RebuildSwap(s)
  <2>1. job'[s].type = "rebuild"
    BY <1>0, <1>18, GotoIs DEF RebuildSwap, At, JobSteps
  <2>2. pg'[s] # "rw" /\ signal'[s]
    BY <1>0, <1>18 DEF RebuildSwap, Rebuilt, RolledBack, Stopped
  <2> QED
    BY <2>1, <2>2
<1>19. CASE RemoveStandby(s)
  BY <1>0, <1>19, GotoIs DEF RemoveStandby, At, Stopped, JobSteps, postgres, control, kept, history
<1>20. CASE Report(s)
  BY <1>0, <1>20 DEF Report, NoJob, postgres, control, kept, history
<1>21. CASE LeaseEnds(s)
  BY <1>0, <1>21 DEF LeaseEnds, NoJob, postgres, control, kept, history
<1>22. CASE HoldFence(s)
  BY <1>0, <1>22 DEF HoldFence, Stopped, Fault, postgres, control, kept, history
<1>23. CASE Heartbeat(s)
  BY <1>0, <1>23 DEF Heartbeat, postgres, control, kept, history
<1>24. CASE Apply(s)
  BY <1>0, <1>24 DEF Apply, postgres, control, kept, history
<1>25. CASE AnswerLost(s)
  BY <1>0, <1>25 DEF AnswerLost, Fault, postgres, control, kept, history
<1>26. CASE Die(s)
  BY <1>0, <1>26, DieIs DEF Die, RolledBack, Stopped, history
<1>27. CASE StopsByItself(s)
  BY <1>0, <1>27 DEF StopsByItself, Fault, postgres, control, kept, history
<1>28. CASE StartByOther(s)
  BY <1>0, <1>28 DEF StartByOther, Started, Fault, postgres, control, kept, history
<1>29. CASE Write(s)
  BY <1>0, <1>29 DEF Write, postgres, control, kept, history
<1>30. CASE Replay(s)
  BY <1>0, <1>30 DEF Replay, postgres, control, kept, history
<1> QED
  BY <1>1, <1>2, <1>3, <1>4, <1>5, <1>6, <1>7, <1>8, <1>9, <1>10, <1>11, <1>12, <1>13, <1>14,
       <1>15, <1>16, <1>17, <1>18, <1>19, <1>20, <1>21, <1>22, <1>23, <1>24, <1>25, <1>26,
       <1>27, <1>28, <1>29, <1>30 DEF Step, Ask, TaskStep, Work, Beat, World

-----------------------------------------------------------------------------
(* Which fences and which jobs a server can have.                          *)

(* A fence is held or released, never both; an open fence task has its     *)
(* fence, which has not failed; a database being promoted, removed or      *)
(* rebuilt is a standby to its control plane; a copy being swapped does    *)
(* not follow yet.                                                         *)
NamesAt(s) ==
  /\ held[s] \cap released[s] = {}
  /\ On(s, "fence", {"queued", "stop", "record"}) => \E f \in fences[s] : f.id = job[s].fence /\ ~f.failed
  /\ job[s].type \in {"promote", "remove"} => st[s] = "standby"
  /\ On(s, "rebuild", {"queued", "swap"}) => st[s] = "standby"
  /\ On(s, "rebuild", {"swap"}) => follows[s] # "following"

(* The other server's step leaves these facts alone.                       *)
LEMMA NamesOther ==
  ASSUME TypeOK, NEW s \in Servers, Step(s), NEW r \in Servers, r # s, NamesAt(r)
  PROVE  NamesAt(r)'
<1>1. Same(r)
  BY OneServer
<1> QED
  BY <1>1 DEF NamesAt, Same, On

(* Its own keep them, action by action.                                    *)
LEMMA NamesSelf ==
  ASSUME TypeOK, NEW s \in Servers, Step(s), NamesAt(s)
  PROVE  NamesAt(s)'
<1>0. Domains /\ job \in [Servers -> Jobs] /\ AgentOK /\ job[s].fence \in Nat /\ ids[s] + 1 \in Nat
      /\ \A f \in fences[s] : f.id \in Nat
  BY TypesDomains DEF TypeOK, AgentOK, ControlOK, Jobs, Fences
<1> USE DEF NamesAt, On, Domains, Set
<1>1. CASE AskFence(s)
  <2>1. Enqueue(s, "fence", ids[s] + 1, FALSE) /\ kept' = kept
    BY <1>1 DEF AskFence, Enqueue
  <2>2. job'[s].type = "fence" /\ job'[s].step = "queued" /\ job'[s].fence = ids[s] + 1
    BY <1>0, <2>1, EnqueueIs
  <2>3. NewFence(s, "switchover") \in fences'[s]
    BY <1>0, <1>1 DEF AskFence
  <2> QED
    BY <2>1, <2>2, <2>3 DEF NewFence, kept
<1>2. CASE \E down \in BOOLEAN : AskPromote(s, down)
  <2>1. PICK down \in BOOLEAN : st[s] = "standby" /\ Enqueue(s, "promote", 0, down) /\ UNCHANGED control
    BY <1>2 DEF AskPromote
  <2>2. job'[s].type = "promote" /\ job'[s].step = "queued" /\ kept' = kept
    BY <1>0, <2>1, EnqueueIs DEF Enqueue
  <2> QED
    BY <1>0, <2>1, <2>2 DEF kept, control
<1>3. CASE AskUnfence(s)
  <2>1. PICK f \in fences[s] : Enqueue(s, "unfence", f.id, FALSE) /\ UNCHANGED control
    BY <1>3 DEF AskUnfence
  <2>2. job'[s].type = "unfence" /\ job'[s].step = "queued" /\ kept' = kept
    BY <1>0, <2>1, EnqueueIs DEF Enqueue
  <2> QED
    BY <1>0, <2>1, <2>2 DEF kept, control
<1>4. CASE AskRebuild(s)
  <2>1. PICK f \in fences[s] : Enqueue(s, "rebuild", f.id, FALSE) /\ st' = Set(st, s, "standby") /\ UNCHANGED fences
    BY <1>4 DEF AskRebuild
  <2>2. job'[s].type = "rebuild" /\ job'[s].step = "queued" /\ kept' = kept
    BY <1>0, <2>1, EnqueueIs DEF Enqueue
  <2> QED
    BY <1>0, <2>1, <2>2 DEF kept, control
<1>5. CASE AskRemove(s)
  <2>1. Enqueue(s, "remove", 0, FALSE) /\ UNCHANGED control /\ st[s] = "standby"
    BY <1>5 DEF AskRemove
  <2>2. job'[s].type = "remove" /\ job'[s].step = "queued" /\ kept' = kept
    BY <1>0, <2>1, EnqueueIs DEF Enqueue
  <2> QED
    BY <1>0, <2>1, <2>2 DEF kept, control
<1>6. CASE AskForget(s)
  BY <1>0, <1>6 DEF AskForget, NoJob, kept
<1>7. CASE FenceHold(s)
  BY <1>0, <1>7, GotoIs, HoldIs DEF FenceHold, At, JobSteps, control, kept
<1>8. CASE FenceStop(s)
  BY <1>0, <1>8, GotoIs, ReleaseIs DEF FenceStop, At, Fault, JobSteps, control, kept
<1>9. CASE FenceRecord(s)
  BY <1>0, <1>9, GotoIs DEF FenceRecord, At, Say, Fault, JobSteps, control, kept
<1>10. CASE PromoteCheck(s)
  <2>1. UNCHANGED <<control, held, released>> /\ job[s].type = "promote"
    BY <1>10 DEF PromoteCheck, At
  <2>2. job'[s].type = "promote"
    BY <1>0, <1>10, GotoIs, PromoteGoesOnIs DEF PromoteCheck, At, PromoteRefused,
         PromoteAlready, JobSteps
  <2> QED
    BY <2>1, <2>2 DEF control
<1>11. CASE PromoteTake(s)
  <2>1. UNCHANGED <<control, kept>> /\ job[s].type = "promote"
    BY <1>11 DEF PromoteTake, At
  <2>2. job'[s].type = "promote"
    BY <1>0, <1>11, GotoIs, PromotedIs DEF PromoteTake, At, NotPromoted, JobSteps
  <2> QED
    BY <2>1, <2>2 DEF control, kept
<1>12. CASE PromoteRecord(s)
  BY <1>0, <1>12, GotoIs DEF PromoteRecord, At, Say, Fault, JobSteps, control, kept
<1>13. CASE UnfenceCheck(s)
  BY <1>0, <1>13, GotoIs DEF UnfenceCheck, At, Decides, JobSteps, control, kept
<1>14. CASE UnfenceRelease(s)
  BY <1>0, <1>14, GotoIs, ReleaseIs DEF UnfenceRelease, At, JobSteps, control, kept
<1>15. CASE UnfenceStart(s)
  BY <1>0, <1>15, GotoIs DEF UnfenceStart, At, Fault, JobSteps, control, kept
<1>16. CASE UnfenceRecord(s)
  BY <1>0, <1>16, GotoIs DEF UnfenceRecord, At, Say, Fault, JobSteps, control, kept
<1>17. CASE RebuildBegin(s)
  BY <1>0, <1>17, GotoIs DEF RebuildBegin, At, Fault, JobSteps, control, kept
<1>18. CASE RebuildSwap(s)
  BY <1>0, <1>18, GotoIs, ReleaseIs DEF RebuildSwap, At, Rebuilt, RolledBack, Fault, JobSteps,
       control, kept
<1>19. CASE RemoveStandby(s)
  BY <1>0, <1>19, GotoIs DEF RemoveStandby, At, JobSteps, control, kept
<1>20. CASE Report(s)
  BY <1>0, <1>20 DEF Report, NoJob, control, kept
<1>21. CASE LeaseEnds(s)
  BY <1>0, <1>21 DEF LeaseEnds, NoJob, control, kept
<1>22. CASE HoldFence(s)
  BY <1>0, <1>22 DEF HoldFence, Fault, control, kept
<1>23. CASE Heartbeat(s)
  <2>1. UNCHANGED <<job, kept>> /\ (fences'[s] = fences[s] \ Undone(s) \/ fences'[s] = (fences[s] \ Undone(s)) \cup {NewFence(s, "superseded")})
    BY <1>0, <1>23 DEF Heartbeat
  <2>2. st'[s] = st[s] \/ st[s] \in {"active", "fenced"}
    BY <1>0, <1>23 DEF Heartbeat, TakenOver
  <2>3. On(s, "fence", {"queued", "stop", "record"}) => \E f \in fences'[s] : f.id = job[s].fence /\ ~f.failed
    BY <2>1 DEF Undone
  <2> QED
    BY <2>1, <2>2, <2>3 DEF kept
<1>24. CASE Apply(s)
  BY <1>0, <1>24 DEF Apply, control, kept
<1>25. CASE AnswerLost(s)
  BY <1>0, <1>25 DEF AnswerLost, Fault, control, kept
<1>26. CASE Die(s)
  BY <1>0, <1>26, DieIs DEF Die, control
<1>27. CASE StopsByItself(s)
  BY <1>0, <1>27 DEF StopsByItself, Fault, control, kept
<1>28. CASE StartByOther(s)
  BY <1>0, <1>28 DEF StartByOther, Fault, control, kept
<1>29. CASE Write(s)
  BY <1>0, <1>29 DEF Write, control, kept
<1>30. CASE Replay(s)
  BY <1>0, <1>30 DEF Replay, control, kept
<1> QED
  BY <1>1, <1>2, <1>3, <1>4, <1>5, <1>6, <1>7, <1>8, <1>9, <1>10, <1>11, <1>12, <1>13, <1>14,
       <1>15, <1>16, <1>17, <1>18, <1>19, <1>20, <1>21, <1>22, <1>23, <1>24, <1>25, <1>26,
       <1>27, <1>28, <1>29, <1>30 DEF Step, Ask, TaskStep, Work, Beat, World

-----------------------------------------------------------------------------
(* What the control plane calls the copy while nothing went wrong that     *)
(* excuses two writers.                                                    *)

Good == ~gap /\ ~forced /\ ~mistaken

(* While a fence is being put up, and before one that stands is taken      *)
(* down, the control plane does not call the copy active.                  *)
StatusAt(s) ==
  /\ On(s, "fence", {"queued", "stop", "record"}) => st[s] # "active"
  /\ On(s, "unfence", {"queued"}) /\ job[s].fence \notin released[s]
       => st[s] = "fenced" /\ \E f \in fences[s] : f.id = job[s].fence

(* What excuses two writers is never forgotten.                            *)
LEMMA GoodBefore ==
  ASSUME TypeOK, NEW s \in Servers, Step(s), Good'
  PROVE  Good
<1>0. gap \in BOOLEAN /\ forced \in BOOLEAN /\ mistaken \in BOOLEAN
  BY DEF TypeOK, HistoryOK
<1> USE DEF Good
<1>1. CASE AskFence(s)
  BY <1>0, <1>1 DEF AskFence, Enqueue, history
<1>2. CASE \E down \in BOOLEAN : AskPromote(s, down)
  BY <1>0, <1>2 DEF AskPromote, Enqueue, history
<1>3. CASE AskUnfence(s)
  BY <1>0, <1>3 DEF AskUnfence, Enqueue, history
<1>4. CASE AskRebuild(s)
  BY <1>0, <1>4 DEF AskRebuild, Enqueue, history
<1>5. CASE AskRemove(s)
  BY <1>0, <1>5 DEF AskRemove, Enqueue, history
<1>6. CASE AskForget(s)
  BY <1>0, <1>6 DEF AskForget, history
<1>7. CASE FenceHold(s)
  BY <1>0, <1>7 DEF FenceHold, history
<1>8. CASE FenceStop(s)
  BY <1>0, <1>8 DEF FenceStop, history
<1>9. CASE FenceRecord(s)
  BY <1>0, <1>9 DEF FenceRecord, history
<1>10. CASE PromoteCheck(s)
  <2>1. CASE PromoteRefused(s) \/ PromoteAlready(s)
    BY <1>0, <1>10, <2>1 DEF PromoteCheck, PromoteRefused, PromoteAlready
  <2>2. CASE PromoteGoesOn(s)
    BY <1>0, <1>10, <2>2 DEF PromoteCheck, PromoteGoesOn, Decides
  <2> QED
    BY <1>10, <2>1, <2>2 DEF PromoteCheck
<1>11. CASE PromoteTake(s)
  BY <1>0, <1>11 DEF PromoteTake, history
<1>12. CASE PromoteRecord(s)
  BY <1>0, <1>12 DEF PromoteRecord, history
<1>13. CASE UnfenceCheck(s)
  BY <1>0, <1>13 DEF UnfenceCheck, Decides, history
<1>14. CASE UnfenceRelease(s)
  BY <1>0, <1>14 DEF UnfenceRelease, history
<1>15. CASE UnfenceStart(s)
  BY <1>0, <1>15 DEF UnfenceStart, history
<1>16. CASE UnfenceRecord(s)
  BY <1>0, <1>16 DEF UnfenceRecord, history
<1>17. CASE RebuildBegin(s)
  BY <1>0, <1>17 DEF RebuildBegin, history
<1>18. CASE RebuildSwap(s)
  BY <1>0, <1>18 DEF RebuildSwap, history
<1>19. CASE RemoveStandby(s)
  BY <1>0, <1>19 DEF RemoveStandby, history
<1>20. CASE Report(s)
  BY <1>0, <1>20 DEF Report, history
<1>21. CASE LeaseEnds(s)
  BY <1>0, <1>21 DEF LeaseEnds, history
<1>22. CASE HoldFence(s)
  BY <1>0, <1>22 DEF HoldFence, history
<1>23. CASE Heartbeat(s)
  BY <1>0, <1>23 DEF Heartbeat, history
<1>24. CASE Apply(s)
  BY <1>0, <1>24 DEF Apply, history
<1>25. CASE AnswerLost(s)
  BY <1>0, <1>25 DEF AnswerLost, history
<1>26. CASE Die(s)
  BY <1>0, <1>26 DEF Die, history
<1>27. CASE StopsByItself(s)
  BY <1>0, <1>27 DEF StopsByItself, history
<1>28. CASE StartByOther(s)
  BY <1>0, <1>28 DEF StartByOther, history
<1>29. CASE Write(s)
  BY <1>0, <1>29 DEF Write, history
<1>30. CASE Replay(s)
  BY <1>0, <1>30 DEF Replay, history
<1> QED
  BY <1>1, <1>2, <1>3, <1>4, <1>5, <1>6, <1>7, <1>8, <1>9, <1>10, <1>11, <1>12, <1>13, <1>14,
       <1>15, <1>16, <1>17, <1>18, <1>19, <1>20, <1>21, <1>22, <1>23, <1>24, <1>25, <1>26,
       <1>27, <1>28, <1>29, <1>30 DEF Step, Ask, TaskStep, Work, Beat, World

(* The other server's step leaves the status alone.                        *)
LEMMA StatusOther ==
  ASSUME TypeOK, NEW s \in Servers, Step(s), NEW r \in Servers, r # s, StatusAt(r)
  PROVE  StatusAt(r)'
<1>1. Same(r)
  BY OneServer
<1> QED
  BY <1>1 DEF StatusAt, Same, On

(* Its own keep it, as long as no fence is called undone by mistake.       *)
LEMMA StatusSelf ==
  ASSUME TypeOK, NEW s \in Servers, Step(s), NamesAt(s), StatusAt(s), Good'
  PROVE  StatusAt(s)'
<1>0. Domains /\ job \in [Servers -> Jobs] /\ AgentOK /\ job[s].fence \in Nat /\ ids[s] + 1 \in Nat
      /\ \A f \in fences[s] : f.id \in Nat
  BY TypesDomains DEF TypeOK, AgentOK, ControlOK, Jobs, Fences
<1> USE DEF StatusAt, On, Domains, Set
<1>1. CASE AskFence(s)
  <2>1. Enqueue(s, "fence", ids[s] + 1, FALSE) /\ st' = Set(st, s, "fenced")
    BY <1>1 DEF AskFence
  <2>2. job'[s].type = "fence"
    BY <1>0, <2>1, EnqueueIs
  <2> QED
    BY <1>0, <2>1, <2>2
<1>2. CASE \E down \in BOOLEAN : AskPromote(s, down)
  <2>1. PICK down \in BOOLEAN : Enqueue(s, "promote", 0, down)
    BY <1>2 DEF AskPromote
  <2> QED
    BY <1>0, <2>1, EnqueueIs
<1>3. CASE AskUnfence(s)
  <2>1. PICK f \in fences[s] : Enqueue(s, "unfence", f.id, FALSE) /\ UNCHANGED control /\ st[s] = "fenced"
    BY <1>3 DEF AskUnfence
  <2>2. job'[s].type = "unfence" /\ job'[s].step = "queued" /\ job'[s].fence = f.id
    BY <1>0, <2>1, EnqueueIs
  <2> QED
    BY <1>0, <2>1, <2>2 DEF control
<1>4. CASE AskRebuild(s)
  <2>1. PICK f \in fences[s] : Enqueue(s, "rebuild", f.id, FALSE)
    BY <1>4 DEF AskRebuild
  <2> QED
    BY <1>0, <2>1, EnqueueIs
<1>5. CASE AskRemove(s)
  <2>1. Enqueue(s, "remove", 0, FALSE)
    BY <1>5 DEF AskRemove
  <2> QED
    BY <1>0, <2>1, EnqueueIs
<1>6. CASE AskForget(s)
  BY <1>6 DEF AskForget, NoJob
<1>7. CASE FenceHold(s)
  BY <1>0, <1>7, GotoIs, HoldIs DEF FenceHold, At, JobSteps, control, kept
<1>8. CASE FenceStop(s)
  BY <1>0, <1>8, GotoIs, ReleaseIs DEF FenceStop, At, Fault, JobSteps, control, kept
<1>9. CASE FenceRecord(s)
  BY <1>0, <1>9, GotoIs DEF FenceRecord, At, Say, Fault, JobSteps, control, kept
<1>10. CASE PromoteCheck(s)
  <2>1. job'[s].type = "promote"
    BY <1>0, <1>10, GotoIs, PromoteGoesOnIs DEF PromoteCheck, At, PromoteRefused,
         PromoteAlready, JobSteps
  <2> QED
    BY <2>1
<1>11. CASE PromoteTake(s)
  <2>1. job'[s].type = "promote"
    BY <1>0, <1>11, GotoIs, PromotedIs DEF PromoteTake, At, NotPromoted, JobSteps
  <2> QED
    BY <2>1
<1>12. CASE PromoteRecord(s)
  BY <1>0, <1>12, GotoIs DEF PromoteRecord, At, Say, Fault, JobSteps, control, kept
<1>13. CASE UnfenceCheck(s)
  <2>1. job'[s].type = "unfence" /\ job'[s].step # "queued"
    BY <1>0, <1>13, GotoIs DEF UnfenceCheck, At, JobSteps
  <2> QED
    BY <2>1
<1>14. CASE UnfenceRelease(s)
  BY <1>0, <1>14, GotoIs, ReleaseIs DEF UnfenceRelease, At, JobSteps, control, kept
<1>15. CASE UnfenceStart(s)
  BY <1>0, <1>15, GotoIs DEF UnfenceStart, At, Fault, JobSteps, control, kept
<1>16. CASE UnfenceRecord(s)
  BY <1>0, <1>16, GotoIs DEF UnfenceRecord, At, Say, Fault, JobSteps, control, kept
<1>17. CASE RebuildBegin(s)
  BY <1>0, <1>17, GotoIs DEF RebuildBegin, At, Fault, JobSteps, control, kept
<1>18. CASE RebuildSwap(s)
  BY <1>0, <1>18, GotoIs, ReleaseIs DEF RebuildSwap, At, Rebuilt, RolledBack, Fault, JobSteps,
       control, kept
<1>19. CASE RemoveStandby(s)
  BY <1>0, <1>19, GotoIs DEF RemoveStandby, At, JobSteps, control, kept
<1>20. CASE Report(s)
  BY <1>0, <1>20 DEF Report, NoJob, control, kept
<1>21. CASE LeaseEnds(s)
  BY <1>0, <1>21 DEF LeaseEnds, NoJob, control, kept
<1>22. CASE HoldFence(s)
  BY <1>0, <1>22 DEF HoldFence, Fault, control, kept
<1>23. CASE Heartbeat(s)
  <2>1. UNCHANGED <<job, kept>>
    BY <1>23 DEF Heartbeat
  <2>2. fences[s] \ Undone(s) \subseteq fences'[s]
    BY <1>0, <1>23 DEF Heartbeat
  <2>3. st[s] = "fenced" /\ Undone(s) # {} => ReallyUndone(s)
    BY <1>23 DEF Heartbeat, Good
  <2>4. st[s] = "fenced" /\ Undone(s) = {} => st'[s] = "fenced"
    BY <1>0, <1>23 DEF Heartbeat, TakenOver
  <2>5. CASE On(s, "fence", {"queued", "stop", "record"})
    <3>1. PICK f \in fences[s] : f.id = job[s].fence /\ ~f.failed
      BY <2>5 DEF NamesAt
    <3>2. ~(st[s] = "fenced" /\ Undone(s) # {})
      BY <2>3, <3>1 DEF ReallyUndone, Undone
    <3> QED
      BY <1>0, <1>23, <2>1, <2>5, <3>2 DEF Heartbeat, TakenOver, kept
  <2>6. CASE On(s, "unfence", {"queued"}) /\ job[s].fence \notin released[s]
    <3>1. PICK f \in fences[s] : f.id = job[s].fence
      BY <2>6
    <3>2. st[s] = "fenced" /\ Undone(s) = {}
      BY <2>3, <2>6, <3>1 DEF ReallyUndone
    <3>3. st'[s] = "fenced" /\ f \in fences'[s]
      BY <2>2, <2>4, <3>2
    <3> QED
      BY <2>1, <2>6, <3>1, <3>3 DEF kept
  <2> QED
    BY <2>1, <2>5, <2>6 DEF kept
<1>24. CASE Apply(s)
  BY <1>0, <1>24 DEF Apply, control, kept
<1>25. CASE AnswerLost(s)
  BY <1>0, <1>25 DEF AnswerLost, Fault, control, kept
<1>26. CASE Die(s)
  BY <1>0, <1>26, DieIs DEF Die, control
<1>27. CASE StopsByItself(s)
  BY <1>0, <1>27 DEF StopsByItself, Fault, control, kept
<1>28. CASE StartByOther(s)
  BY <1>0, <1>28 DEF StartByOther, Fault, control, kept
<1>29. CASE Write(s)
  BY <1>0, <1>29 DEF Write, control, kept
<1>30. CASE Replay(s)
  BY <1>0, <1>30 DEF Replay, control, kept
<1> QED
  BY <1>1, <1>2, <1>3, <1>4, <1>5, <1>6, <1>7, <1>8, <1>9, <1>10, <1>11, <1>12, <1>13, <1>14,
       <1>15, <1>16, <1>17, <1>18, <1>19, <1>20, <1>21, <1>22, <1>23, <1>24, <1>25, <1>26,
       <1>27, <1>28, <1>29, <1>30 DEF Step, Ask, TaskStep, Work, Beat, World

-----------------------------------------------------------------------------
(* Who may take writes.                                                    *)

(* The bucket says that it takes writes, or nothing and it is the first    *)
(* primary.                                                                *)
Said(s) ==
  \/ rec.state = "primary" /\ rec.by = s
  \/ rec.state = "none" /\ s = "a"

Owner(s) == unsaid[s] \/ Said(s)

(* What only the owner is or does.                                         *)
Acts(s) ==
  \/ MayWrite(s) \/ st[s] = "active"
  \/ On(s, "fence", {"queued", "stop", "record"})
  \/ On(s, "promote", {"ok"}) \/ On(s, "unfence", {"ok"})

OwnAt(s) == (Acts(s) => Owner(s)) /\ (Deciding(s) => ~Said(Other(s)))

NotBoth == ~(Deciding("a") /\ Deciding("b"))

(* Before the first record the standby was never a primary.                *)
NoneYet ==
  rec.state = "none" => fences["b"] = {} /\ job["b"].type \in {"none", "promote", "remove"}

Own == NotBoth /\ NoneYet /\ \A s \in Servers : OwnAt(s)

(* There are two servers.                                                  *)
LEMMA OtherIs ==
  ASSUME NEW s \in Servers
  PROVE  /\ Other(s) \in Servers /\ Other(s) # s /\ Other(Other(s)) = s
         /\ \A r \in Servers : r = s \/ r = Other(s)
BY DEF Servers, Other

(* NotBoth, from either side.                                              *)
LEMMA NotBothIs ==
  ASSUME NEW s \in Servers
  PROVE  NotBoth <=> ~(Deciding(s) /\ Deciding(Other(s)))
BY DEF NotBoth, Servers, Other

(* Beside an owner, or one that is about to be it, there is no other.      *)
LEMMA OneOwner ==
  ASSUME NotBoth, NEW s \in Servers, OwnAt(s), OwnAt(Other(s))
  PROVE  Owner(s) \/ Deciding(s) => ~Owner(Other(s)) /\ ~Deciding(Other(s)) /\ ~Acts(Other(s))
<1>1. ~(Deciding(s) /\ Deciding(Other(s))) /\ Other(Other(s)) = s
  BY NotBothIs, OtherIs
<1>2. ~(Said(s) /\ Said(Other(s)))
  BY OtherIs DEF Said
<1>3. (unsaid[s] => Deciding(s)) /\ (unsaid[Other(s)] => Deciding(Other(s)))
  BY DEF Deciding
<1>4. (Deciding(s) => ~Said(Other(s))) /\ (Deciding(Other(s)) => ~Said(s))
  BY <1>1 DEF OwnAt
<1>5. Acts(Other(s)) => Owner(Other(s))
  BY DEF OwnAt
<1> QED
  BY <1>1, <1>2, <1>3, <1>4, <1>5 DEF Owner

(* What one server's step leaves of the other one.                         *)
LEMMA OtherActs ==
  ASSUME TypeOK, NEW s \in Servers, Step(s)
  PROVE  /\ Acts(Other(s))' <=> Acts(Other(s))
         /\ Deciding(Other(s))' <=> Deciding(Other(s))
         /\ unsaid'[Other(s)] = unsaid[Other(s)]
<1>1. Same(Other(s))
  BY OtherIs, OneServer
<1> QED
  BY <1>1 DEF Acts, Same, On, MayWrite, Deciding

(* A step that neither writes the record nor begins to decide.             *)
LEMMA QuietStep ==
  ASSUME TypeOK, NEW s \in Servers, Step(s), NotBoth, OwnAt(s), OwnAt(Other(s)),
         UNCHANGED <<rec, unsaid>>, Deciding(s)' => Deciding(s), Acts(s)' => Owner(s)
  PROVE  OwnAt(s)' /\ OwnAt(Other(s))' /\ NotBoth'
<1>1. \A r \in Servers : (Owner(r)' <=> Owner(r)) /\ (Said(r)' <=> Said(r))
  BY DEF Owner, Said
<1>2. OwnAt(s)'
  BY <1>1, OtherIs DEF OwnAt
<1>3. OwnAt(Other(s))'
  BY <1>1, OtherActs, OtherIs DEF OwnAt
<1>4. NotBoth'
  <2>1. NotBoth' <=> ~(Deciding(s)' /\ Deciding(Other(s))')
    BY DEF NotBoth, Servers, Other
  <2> QED
    BY <2>1, NotBothIs, OtherActs
<1> QED
  BY <1>2, <1>3, <1>4

(* Every action leaves one owner: promotions and unfences decide from the  *)
(* record, and only when the other server is not deciding.                 *)
LEMMA OwnStep ==
  ASSUME TypeOK, NEW s \in Servers, Step(s), StopAt(s), NamesAt(s), StatusAt(s), Own, Good'
  PROVE  OwnAt(s)' /\ OwnAt(Other(s))' /\ NotBoth'
<1>0. Domains /\ job \in [Servers -> Jobs] /\ AgentOK /\ job[s].fence \in Nat /\ ids[s] + 1 \in Nat
      /\ (\A f \in fences[s] : f.id \in Nat) /\ PostgresOK /\ unsaid \in [Servers -> BOOLEAN]
  BY TypesDomains DEF TypeOK, AgentOK, ControlOK, Jobs, Fences, HistoryOK
<1>a. /\ Other(s) \in Servers /\ Other(s) # s /\ Other(Other(s)) = s
      /\ OwnAt(s) /\ OwnAt(Other(s)) /\ NotBoth
  BY OtherIs DEF Own
<1>b. /\ Acts(Other(s))' <=> Acts(Other(s))
      /\ Deciding(Other(s))' <=> Deciding(Other(s))
      /\ unsaid'[Other(s)] = unsaid[Other(s)]
  BY OtherActs
<1>c. Owner(s) \/ Deciding(s) => ~Owner(Other(s)) /\ ~Deciding(Other(s)) /\ ~Acts(Other(s))
  BY <1>a, OneOwner
<1>d. ~Deciding(s)' \/ ~Deciding(Other(s)) => NotBoth'
  BY <1>b DEF NotBoth, Servers, Other
<1>q. ASSUME UNCHANGED <<rec, unsaid>>, Deciding(s)' => Deciding(s), Acts(s)' => Owner(s)
      PROVE  OwnAt(s)' /\ OwnAt(Other(s))' /\ NotBoth'
  BY <1>q, <1>a, QuietStep
<1>1. CASE AskFence(s)
  <2>1. UNCHANGED <<rec, unsaid>>
    BY <1>0, <1>1 DEF AskFence, Enqueue, history
  <2>2. (Acts(s)' => Owner(s)) /\ (Deciding(s)' => Deciding(s))
    <3>1. Enqueue(s, "fence", ids[s] + 1, FALSE) /\ st[s] = "active"
      BY <1>1 DEF AskFence
    <3>2. job'[s].step = "queued"
      BY <1>0, <3>1, EnqueueIs
    <3> QED
      BY <1>a, <2>1, <3>1, <3>2 DEF OwnAt, Acts, Deciding
  <2> QED
    BY <1>q, <2>1, <2>2
<1>2. CASE \E down \in BOOLEAN : AskPromote(s, down)
  <2>1. UNCHANGED <<rec, unsaid>>
    BY <1>0, <1>2 DEF AskPromote, Enqueue, history
  <2>2. (Acts(s)' => Owner(s)) /\ (Deciding(s)' => Deciding(s))
    <3>1. PICK down \in BOOLEAN : Enqueue(s, "promote", 0, down) /\ UNCHANGED <<postgres, control>>
      BY <1>2 DEF AskPromote, Enqueue
    <3>2. job'[s].type = "promote" /\ job'[s].step = "queued"
      BY <1>0, <3>1, EnqueueIs
    <3> QED
      BY <1>a, <2>1, <3>1, <3>2 DEF OwnAt, Acts, On, MayWrite, Deciding, postgres, control
  <2> QED
    BY <1>q, <2>1, <2>2
<1>3. CASE AskUnfence(s)
  <2>1. UNCHANGED <<rec, unsaid>>
    BY <1>0, <1>3 DEF AskUnfence, Enqueue, history
  <2>2. (Acts(s)' => Owner(s)) /\ (Deciding(s)' => Deciding(s))
    <3>1. PICK f \in fences[s] : Enqueue(s, "unfence", f.id, FALSE) /\ UNCHANGED <<postgres, control>>
      BY <1>3 DEF AskUnfence, Enqueue
    <3>2. job'[s].type = "unfence" /\ job'[s].step = "queued"
      BY <1>0, <3>1, EnqueueIs
    <3> QED
      BY <1>a, <2>1, <3>1, <3>2 DEF OwnAt, Acts, On, MayWrite, Deciding, postgres, control
  <2> QED
    BY <1>q, <2>1, <2>2
<1>4. CASE AskRebuild(s)
  <2>1. UNCHANGED <<rec, unsaid>>
    BY <1>0, <1>4 DEF AskRebuild, Enqueue, history
  <2>2. (Acts(s)' => Owner(s)) /\ (Deciding(s)' => Deciding(s))
    <3>1. PICK f \in fences[s] : Enqueue(s, "rebuild", f.id, FALSE) /\ st' = Set(st, s, "standby") /\ UNCHANGED postgres
      BY <1>4 DEF AskRebuild, Enqueue
    <3>2. job'[s].type = "rebuild" /\ job'[s].step = "queued" /\ st'[s] = "standby"
      BY <1>0, <3>1, EnqueueIs DEF Domains, Set
    <3> QED
      BY <1>a, <2>1, <3>1, <3>2 DEF OwnAt, Acts, On, MayWrite, Deciding, postgres
  <2> QED
    BY <1>q, <2>1, <2>2
<1>5. CASE AskRemove(s)
  <2>1. UNCHANGED <<rec, unsaid>>
    BY <1>0, <1>5 DEF AskRemove, Enqueue, history
  <2>2. (Acts(s)' => Owner(s)) /\ (Deciding(s)' => Deciding(s))
    <3>1. Enqueue(s, "remove", 0, FALSE) /\ UNCHANGED <<postgres, control>>
      BY <1>5 DEF AskRemove, Enqueue
    <3>2. job'[s].type = "remove" /\ job'[s].step = "queued"
      BY <1>0, <3>1, EnqueueIs
    <3> QED
      BY <1>a, <2>1, <3>1, <3>2 DEF OwnAt, Acts, On, MayWrite, Deciding, postgres, control
  <2> QED
    BY <1>q, <2>1, <2>2
<1>6. CASE AskForget(s)
  <2>1. UNCHANGED <<rec, unsaid>>
    BY <1>0, <1>6 DEF AskForget, history
  <2>2. (Acts(s)' => Owner(s)) /\ (Deciding(s)' => Deciding(s))
    BY <1>0, <1>a, <2>1, <1>6 DEF AskForget, Forgotten, OwnAt, Acts, On, MayWrite, Deciding,
         Domains, Set, postgres, control
  <2> QED
    BY <1>q, <2>1, <2>2
<1>7. CASE FenceHold(s)
  <2>1. UNCHANGED <<rec, unsaid>>
    BY <1>0, <1>7 DEF FenceHold, history
  <2>2. (Acts(s)' => Owner(s)) /\ (Deciding(s)' => Deciding(s))
    BY <1>0, <1>a, <2>1, <1>7, GotoIs DEF FenceHold, At, OwnAt, Acts, On, MayWrite, Deciding,
         Domains, Set, JobSteps, postgres, control
  <2> QED
    BY <1>q, <2>1, <2>2
<1>8. CASE FenceStop(s)
  <2>1. UNCHANGED <<rec, unsaid>>
    BY <1>0, <1>8 DEF FenceStop, history
  <2>2. (Acts(s)' => Owner(s)) /\ (Deciding(s)' => Deciding(s))
    BY <1>0, <1>a, <2>1, <1>8, GotoIs DEF FenceStop, At, Stopped, OwnAt, Acts, On, MayWrite,
         Deciding, Domains, Set, JobSteps, postgres, control
  <2> QED
    BY <1>q, <2>1, <2>2
<1>9. CASE FenceRecord(s)
  <2>1. Owner(s) /\ ~MayWrite(s) /\ st[s] # "active" /\ ~Acts(Other(s))
    BY <1>a, <1>c, <1>9 DEF FenceRecord, At, OwnAt, Acts, On, StopAt, StatusAt
  <2>2. job'[s].type = "fence" /\ job'[s].step = "ok"
    BY <1>0, <1>9, GotoIs DEF FenceRecord, At, JobSteps
  <2>3. ~Acts(s)'
    BY <2>1, <2>2, <1>9 DEF FenceRecord, Acts, On, MayWrite, postgres, control
  <2>4. CASE UNCHANGED <<rec, unsaid>>
    BY <1>q, <2>2, <2>3, <2>4 DEF Deciding
  <2>5. CASE rec'.state = "stopped" /\ unsaid'[s] = FALSE
    <3>1. ~Said(s)' /\ ~Said(Other(s))' /\ ~Deciding(s)'
      BY <2>2, <2>5 DEF Said, Deciding
    <3> QED
      BY <1>a, <1>b, <1>d, <2>1, <2>3, <3>1 DEF OwnAt
  <2> QED
    BY <1>0, <1>9, <2>4, <2>5, SayIs DEF FenceRecord, Say, Domains, Set
<1>10. CASE PromoteCheck(s)
  <2>0. UNCHANGED <<rec, unsaid, postgres, control>> /\ (Acts(s)' => Acts(s))
    <3>1. UNCHANGED <<rec, unsaid, postgres, control>>
      BY <1>10 DEF PromoteCheck
    <3>2. job'[s].type = "promote" /\ (job'[s].step = "ok" => pg[s] = "rw")
      BY <1>0, <1>10, GotoIs, PromoteGoesOnIs DEF PromoteCheck, At, PromoteRefused,
           PromoteAlready, JobSteps
    <3> QED
      BY <3>1, <3>2 DEF Acts, On, MayWrite, postgres, control
  <2>1. CASE PromoteRefused(s) \/ PromoteAlready(s)
    <3>1. job'[s].step \in {"ok", "failed"}
      BY <1>0, <2>1, GotoIs DEF PromoteRefused, PromoteAlready, JobSteps
    <3> QED
      BY <1>a, <1>q, <2>0, <3>1 DEF Deciding, OwnAt
  <2>2. CASE PromoteGoesOn(s)
    <3>1. ~Deciding(Other(s))
      BY <2>2 DEF PromoteGoesOn, Decides, Good
    <3>2. ~Said(Other(s))
      BY <2>2 DEF PromoteGoesOn, StoppedElsewhere, Good, Said
    <3>3. OwnAt(s)' /\ OwnAt(Other(s))' /\ NotBoth'
      <4>1. Owner(s)' <=> Owner(s)
        BY <2>0 DEF Owner, Said
      <4>2. (Owner(Other(s))' <=> Owner(Other(s))) /\ (Said(s)' <=> Said(s)) /\ (Said(Other(s))' <=> Said(Other(s)))
        BY <1>b, <2>0 DEF Owner, Said
      <4> QED
        BY <1>a, <1>b, <1>d, <2>0, <3>1, <3>2, <4>1, <4>2 DEF OwnAt
    <3> QED
      BY <3>3
  <2> QED
    BY <1>10, <2>1, <2>2 DEF PromoteCheck
<1>11. CASE PromoteTake(s)
  <2>1. Deciding(s) /\ rec' = rec
    BY <1>11 DEF PromoteTake, At, Deciding
  <2>2. ASSUME rec' = rec, unsaid'[s] = TRUE, Deciding(s)  PROVE OwnAt(s)' /\ OwnAt(Other(s))' /\ NotBoth'
    <3>1. (Said(s)' <=> Said(s)) /\ (Said(Other(s))' <=> Said(Other(s)))
      BY <2>2 DEF Said
    <3>2. ~Deciding(Other(s)) /\ ~Acts(Other(s))
      BY <1>c, <2>2
    <3> QED
      BY <1>a, <1>b, <1>d, <2>2, <3>1, <3>2 DEF OwnAt, Owner
  <2>3. ASSUME NEW x, Promoted(s, x)  PROVE unsaid'[s] = TRUE
    BY <1>0, <2>3 DEF Promoted, Domains, Set
  <2>4. CASE NotPromoted(s)
    <3>1. UNCHANGED <<rec, unsaid, pg, signal, control>>
      BY <1>11, <2>4 DEF PromoteTake, NotPromoted
    <3>2. job'[s].type = "promote" /\ job'[s].step = "failed"
      BY <1>0, <1>11, <2>4, GotoIs DEF PromoteTake, NotPromoted, At, JobSteps
    <3>3. Acts(s)' => Owner(s)
      BY <1>a, <3>1, <3>2 DEF OwnAt, Acts, On, MayWrite, control
    <3> QED
      BY <1>q, <2>1, <3>1, <3>3
  <2> QED
    BY <1>11, <2>1, <2>2, <2>3, <2>4 DEF PromoteTake
<1>12. CASE PromoteRecord(s)
  <2>1. unsaid[s] /\ ~Deciding(Other(s)) /\ ~Acts(Other(s))
    BY <1>a, <1>c, <1>12 DEF PromoteRecord, At, On, StopAt, Owner
  <2>2. job'[s].step = "ok"
    BY <1>0, <1>12, GotoIs DEF PromoteRecord, JobSteps
  <2>3. CASE UNCHANGED <<rec, unsaid>>
    BY <1>q, <2>1, <2>2, <2>3 DEF Deciding, Owner
  <2>4. CASE rec'.state = "primary" /\ rec'.by = s
    <3>1. Said(s)' /\ ~Said(Other(s))'
      BY <1>a, <2>4 DEF Said
    <3> QED
      BY <1>a, <1>b, <1>d, <2>1, <3>1 DEF OwnAt, Owner
  <2> QED
    BY <1>12, <2>3, <2>4, SayIs DEF PromoteRecord
<1>13. CASE UnfenceCheck(s)
  <2>0. UNCHANGED <<rec, unsaid, postgres, control>> /\ (Acts(s)' => Acts(s)) /\ job[s].type = "unfence"
    <3>1. UNCHANGED <<rec, unsaid, postgres, control>> /\ job[s].type = "unfence"
      BY <1>13 DEF UnfenceCheck, At
    <3>2. job'[s].type = "unfence" /\ job'[s].step # "ok"
      BY <1>0, <1>13, GotoIs DEF UnfenceCheck, At, JobSteps
    <3> QED
      BY <3>1, <3>2 DEF Acts, On, MayWrite, postgres, control
  <2>1. CASE Goto(s, "failed")
    <3>1. job'[s].step = "failed"
      BY <1>0, <2>1, GotoIs DEF JobSteps
    <3> QED
      BY <1>a, <1>q, <2>0, <3>1 DEF Deciding, OwnAt
  <2>2. CASE Decides(s) /\ ~(rec.state = "primary" /\ rec.by # s)
    <3>1. ~Deciding(Other(s))
      BY <2>2 DEF Decides, Good
    <3>2. ~Said(Other(s))
      BY <1>a, <2>0, <2>2 DEF Said, Own, NoneYet, Servers, Other
    <3>3. OwnAt(s)' /\ OwnAt(Other(s))' /\ NotBoth'
      <4>1. Owner(s)' <=> Owner(s)
        BY <2>0 DEF Owner, Said
      <4>2. (Owner(Other(s))' <=> Owner(Other(s))) /\ (Said(s)' <=> Said(s)) /\ (Said(Other(s))' <=> Said(Other(s)))
        BY <1>b, <2>0 DEF Owner, Said
      <4> QED
        BY <1>a, <1>b, <1>d, <2>0, <3>1, <3>2, <4>1, <4>2 DEF OwnAt
    <3> QED
      BY <3>3
  <2> QED
    BY <1>13, <2>1, <2>2 DEF UnfenceCheck
<1>14. CASE UnfenceRelease(s)
  <2>1. Deciding(s) /\ rec' = rec /\ unsaid'[s] = TRUE
    BY <1>0, <1>14 DEF UnfenceRelease, At, Deciding, Domains, Set
  <2>2. ASSUME rec' = rec, unsaid'[s] = TRUE, Deciding(s)  PROVE OwnAt(s)' /\ OwnAt(Other(s))' /\ NotBoth'
    <3>1. (Said(s)' <=> Said(s)) /\ (Said(Other(s))' <=> Said(Other(s)))
      BY <2>2 DEF Said
    <3>2. ~Deciding(Other(s)) /\ ~Acts(Other(s))
      BY <1>c, <2>2
    <3> QED
      BY <1>a, <1>b, <1>d, <2>2, <3>1, <3>2 DEF OwnAt, Owner
  <2> QED
    BY <2>1, <2>2
<1>15. CASE UnfenceStart(s)
  <2>1. UNCHANGED <<rec, unsaid>>
    BY <1>0, <1>15 DEF UnfenceStart, history
  <2>2. (Acts(s)' => Owner(s)) /\ (Deciding(s)' => Deciding(s))
    BY <1>0, <1>a, <2>1, <1>15, GotoIs DEF UnfenceStart, At, Started, OwnAt, Acts, On, MayWrite,
         Deciding, Domains, Set, JobSteps, postgres, control
  <2> QED
    BY <1>q, <2>1, <2>2
<1>16. CASE UnfenceRecord(s)
  <2>1. unsaid[s] /\ ~Deciding(Other(s)) /\ ~Acts(Other(s))
    BY <1>a, <1>c, <1>16 DEF UnfenceRecord, At, On, StopAt, Owner
  <2>2. job'[s].step = "ok"
    BY <1>0, <1>16, GotoIs DEF UnfenceRecord, JobSteps
  <2>3. CASE UNCHANGED <<rec, unsaid>>
    BY <1>q, <2>1, <2>2, <2>3 DEF Deciding, Owner
  <2>4. CASE rec'.state = "primary" /\ rec'.by = s
    <3>1. Said(s)' /\ ~Said(Other(s))'
      BY <1>a, <2>4 DEF Said
    <3> QED
      BY <1>a, <1>b, <1>d, <2>1, <3>1 DEF OwnAt, Owner
  <2> QED
    BY <1>16, <2>3, <2>4, SayIs DEF UnfenceRecord
<1>17. CASE RebuildBegin(s)
  <2>1. UNCHANGED <<rec, unsaid>>
    BY <1>0, <1>17 DEF RebuildBegin, history
  <2>2. (Acts(s)' => Owner(s)) /\ (Deciding(s)' => Deciding(s))
    BY <1>0, <1>a, <2>1, <1>17, GotoIs DEF RebuildBegin, At, OwnAt, Acts, On, MayWrite,
         Deciding, Domains, Set, JobSteps, postgres, control
  <2> QED
    BY <1>q, <2>1, <2>2
<1>18. CASE RebuildSwap(s)
  <2>0. UNCHANGED rec /\ job'[s].type = "rebuild" /\ job'[s].step \in {"ok", "failed"} /\ st'[s] = "standby"
    BY <1>0, <1>18, GotoIs DEF RebuildSwap, At, JobSteps, NamesAt, On, control
  <2>1. ~Acts(s)'
    BY <1>0, <1>18, <2>0 DEF RebuildSwap, Rebuilt, RolledBack, Stopped, Acts, On, MayWrite,
         Domains, Set
  <2>2. unsaid'[s] = FALSE \/ unsaid'[s] = unsaid[s]
    BY <1>0, <1>18 DEF RebuildSwap, Rebuilt, Set
  <2>3. Deciding(s)' => Deciding(s)
    BY <2>0, <2>2 DEF Deciding
  <2>4. (Said(s)' <=> Said(s)) /\ (Said(Other(s))' <=> Said(Other(s))) /\ (Owner(Other(s))' <=> Owner(Other(s)))
    BY <1>b, <2>0 DEF Said, Owner
  <2>5. NotBoth'
    BY <1>a, <1>b, <1>d, <2>3, NotBothIs
  <2> QED
    BY <1>a, <1>b, <2>1, <2>3, <2>4, <2>5 DEF OwnAt
<1>19. CASE RemoveStandby(s)
  <2>1. UNCHANGED <<rec, unsaid>>
    BY <1>0, <1>19 DEF RemoveStandby, history
  <2>2. (Acts(s)' => Owner(s)) /\ (Deciding(s)' => Deciding(s))
    BY <1>0, <1>a, <2>1, <1>19, GotoIs DEF RemoveStandby, At, Stopped, OwnAt, Acts, On,
         MayWrite, Deciding, Domains, Set, JobSteps, postgres, control
  <2> QED
    BY <1>q, <2>1, <2>2
<1>20. CASE Report(s)
  <2>1. UNCHANGED <<rec, unsaid>>
    BY <1>0, <1>20 DEF Report, history
  <2>2. (Acts(s)' => Owner(s)) /\ (Deciding(s)' => Deciding(s))
    <3>1. job'[s].type = "none" /\ job'[s].step = "none" /\ UNCHANGED postgres
      BY <1>0, <1>20 DEF Report, NoJob, Domains, Set
    <3>2. st'[s] = "active" => Acts(s)
      BY <1>0, <1>20 DEF Report, AfterFailed, AfterOk, Forgotten, Domains, Set, Acts, On, control
    <3> QED
      BY <1>a, <2>1, <3>1, <3>2 DEF OwnAt, Acts, On, MayWrite, Deciding, postgres
  <2> QED
    BY <1>q, <2>1, <2>2
<1>21. CASE LeaseEnds(s)
  <2>1. UNCHANGED <<rec, unsaid>>
    BY <1>0, <1>21 DEF LeaseEnds, history
  <2>2. (Acts(s)' => Owner(s)) /\ (Deciding(s)' => Deciding(s))
    BY <1>0, <1>a, <2>1, <1>21 DEF LeaseEnds, NoJob, OwnAt, Acts, On, MayWrite, Deciding,
         Domains, Set, postgres, control
  <2> QED
    BY <1>q, <2>1, <2>2
<1>22. CASE HoldFence(s)
  <2>1. UNCHANGED <<rec, unsaid>>
    BY <1>0, <1>22 DEF HoldFence, history
  <2>2. (Acts(s)' => Owner(s)) /\ (Deciding(s)' => Deciding(s))
    BY <1>0, <1>a, <2>1, <1>22 DEF HoldFence, Stopped, OwnAt, Acts, On, MayWrite, Deciding,
         Domains, Set, postgres, control
  <2> QED
    BY <1>q, <2>1, <2>2
<1>23. CASE Heartbeat(s)
  <2>1. UNCHANGED <<rec, unsaid>>
    BY <1>0, <1>23 DEF Heartbeat, history
  <2>2. (Acts(s)' => Owner(s)) /\ (Deciding(s)' => Deciding(s))
    <3>1. st[s] = "fenced" /\ Undone(s) # {} => MayWrite(s)
      BY <1>23 DEF Heartbeat, Good, ReallyUndone
    <3>2. st'[s] = "active" => st[s] = "active" \/ MayWrite(s)
      BY <1>0, <1>23, <3>1 DEF Heartbeat, Domains, Set
    <3> QED
      BY <1>a, <1>23, <2>1, <3>2 DEF Heartbeat, OwnAt, Acts, On, MayWrite, Deciding, postgres
  <2> QED
    BY <1>q, <2>1, <2>2
<1>24. CASE Apply(s)
  <2>1. UNCHANGED <<rec, unsaid>>
    BY <1>0, <1>24 DEF Apply, history
  <2>2. (Acts(s)' => Owner(s)) /\ (Deciding(s)' => Deciding(s))
    BY <1>0, <1>a, <2>1, <1>24 DEF Apply, OwnAt, Acts, On, MayWrite, Deciding, Domains, Set,
         postgres, control
  <2> QED
    BY <1>q, <2>1, <2>2
<1>25. CASE AnswerLost(s)
  <2>1. UNCHANGED <<rec, unsaid>>
    BY <1>0, <1>25 DEF AnswerLost, history
  <2>2. (Acts(s)' => Owner(s)) /\ (Deciding(s)' => Deciding(s))
    BY <1>0, <1>a, <2>1, <1>25 DEF AnswerLost, OwnAt, Acts, On, MayWrite, Deciding, Domains,
         Set, postgres, control
  <2> QED
    BY <1>q, <2>1, <2>2
<1>26. CASE Die(s)
  <2>1. UNCHANGED <<rec, unsaid>>
    BY <1>0, <1>26 DEF Die, history
  <2>2. (Acts(s)' => Owner(s)) /\ (Deciding(s)' => Deciding(s))
    <3>1. job'[s].type = job[s].type /\ job'[s].step \in {job[s].step, "failed", "lost"} /\ UNCHANGED control
      BY <1>0, <1>26, DieIs DEF Die
    <3>2. MayWrite(s)' => MayWrite(s)
      BY <1>0, <1>26 DEF Die, RolledBack, Stopped, MayWrite, Domains, Set
    <3> QED
      BY <1>a, <2>1, <3>1, <3>2 DEF OwnAt, Acts, On, Deciding, control
  <2> QED
    BY <1>q, <2>1, <2>2
<1>27. CASE StopsByItself(s)
  <2>1. UNCHANGED <<rec, unsaid>>
    BY <1>0, <1>27 DEF StopsByItself, history
  <2>2. (Acts(s)' => Owner(s)) /\ (Deciding(s)' => Deciding(s))
    BY <1>0, <1>a, <2>1, <1>27 DEF StopsByItself, OwnAt, Acts, On, MayWrite, Deciding, Domains,
         Set, postgres, control
  <2> QED
    BY <1>q, <2>1, <2>2
<1>28. CASE StartByOther(s)
  <2>1. UNCHANGED <<rec, unsaid>>
    BY <1>0, <1>28 DEF StartByOther, history
  <2>2. (Acts(s)' => Owner(s)) /\ (Deciding(s)' => Deciding(s))
    BY <1>0, <1>a, <2>1, <1>28 DEF StartByOther, Started, OwnAt, Acts, On, MayWrite, Deciding,
         Domains, Set, postgres, control
  <2> QED
    BY <1>q, <2>1, <2>2
<1>29. CASE Write(s)
  <2>1. UNCHANGED <<rec, unsaid>>
    BY <1>0, <1>29 DEF Write, history
  <2>2. (Acts(s)' => Owner(s)) /\ (Deciding(s)' => Deciding(s))
    BY <1>0, <1>a, <2>1, <1>29 DEF Write, OwnAt, Acts, On, MayWrite, Deciding, Domains, Set,
         postgres, control
  <2> QED
    BY <1>q, <2>1, <2>2
<1>30. CASE Replay(s)
  <2>1. UNCHANGED <<rec, unsaid>>
    BY <1>0, <1>30 DEF Replay, history
  <2>2. (Acts(s)' => Owner(s)) /\ (Deciding(s)' => Deciding(s))
    BY <1>0, <1>a, <2>1, <1>30 DEF Replay, OwnAt, Acts, On, MayWrite, Deciding, Domains, Set,
         postgres, control
  <2> QED
    BY <1>q, <2>1, <2>2
<1> QED
  BY <1>1, <1>2, <1>3, <1>4, <1>5, <1>6, <1>7, <1>8, <1>9, <1>10, <1>11, <1>12, <1>13, <1>14,
       <1>15, <1>16, <1>17, <1>18, <1>19, <1>20, <1>21, <1>22, <1>23, <1>24, <1>25, <1>26,
       <1>27, <1>28, <1>29, <1>30 DEF Step, Ask, TaskStep, Work, Beat, World

-----------------------------------------------------------------------------
(* Before the first record.                                                *)

(* While there is no record the standby has no fence to take down.         *)
LEMMA NoneStep ==
  ASSUME TypeOK, NEW s \in Servers, Step(s), Own, Good'
  PROVE  NoneYet'
<1> SUFFICES ASSUME rec'.state = "none"
             PROVE  fences'["b"] = {} /\ job'["b"].type \in {"none", "promote", "remove"}
  BY DEF NoneYet
<1>1. rec' = rec
  BY RecordStays
<1>2. /\ fences["b"] = {} /\ job["b"].type \in {"none", "promote", "remove"}
      /\ "b" \in Servers
  BY <1>1 DEF Own, NoneYet, Servers
<1>3. CASE s # "b"
  <2>1. Same("b")
    BY <1>2, <1>3, OneServer
  <2> QED
    BY <1>2, <2>1 DEF Same
<1>4. CASE s = "b"
  <2>0. Domains /\ job \in [Servers -> Jobs]
    BY TypesDomains DEF TypeOK, AgentOK
  <2>a. st["b"] # "active" /\ rec.state = "none"
    <3>1. rec.state = "none" /\ OwnAt("b") /\ Other("b") = "a"
      BY <1>1, <1>2 DEF Own, Other
    <3>2. ~Deciding("b")
      BY <3>1 DEF OwnAt, Said
    <3> QED
      BY <3>1, <3>2 DEF OwnAt, Acts, Owner, Said, Deciding
  <2>b. ASSUME NEW type \in {"promote", "remove"}, NEW down \in BOOLEAN, Enqueue(s, type, 0, down), UNCHANGED control
        PROVE  fences'["b"] = {} /\ job'["b"].type \in {"none", "promote", "remove"}
    <3>1. job'["b"].type = type
      BY <1>4, <2>0, <2>b, EnqueueIs
    <3> QED
      BY <1>2, <2>b, <3>1 DEF Enqueue, control, history
  <2>1. CASE AskFence(s)
    BY <1>4, <2>a, <2>1 DEF AskFence
  <2>2. CASE \E down \in BOOLEAN : AskPromote(s, down)
    BY <2>b, <2>2 DEF AskPromote
  <2>3. CASE AskUnfence(s)
    BY <1>2, <1>4, <2>3 DEF AskUnfence
  <2>4. CASE AskRebuild(s)
    BY <1>2, <1>4, <2>4 DEF AskRebuild
  <2>5. CASE AskRemove(s)
    BY <2>b, <2>5 DEF AskRemove
  <2>6. CASE AskForget(s)
    BY <1>2, <1>4, <2>0, <2>6 DEF AskForget, Forgotten, control, history, Domains, Set
  <2>7. CASE FenceHold(s)
    BY <1>2, <1>4, <2>7 DEF FenceHold, At
  <2>8. CASE FenceStop(s)
    BY <1>2, <1>4, <2>8 DEF FenceStop, At
  <2>9. CASE FenceRecord(s)
    BY <1>2, <1>4, <2>9 DEF FenceRecord, At
  <2>10. CASE PromoteCheck(s)
    <3>1. ~PromoteGoesOn(s)
      BY <2>a, <2>10 DEF PromoteCheck, PromoteGoesOn, StoppedElsewhere, Good
    <3>2. job'["b"].type = job["b"].type
      BY <1>4, <2>0, <2>10, <3>1, GotoIs DEF PromoteCheck, PromoteRefused, PromoteAlready, JobSteps
    <3> QED
      BY <1>2, <2>10, <3>1, <3>2 DEF PromoteCheck, PromoteRefused, PromoteAlready, control
  <2>11. CASE PromoteTake(s)
    <3>1. job'["b"].type = job["b"].type
      BY <1>4, <2>0, <2>11, GotoIs, PromotedIs DEF PromoteTake, NotPromoted, JobSteps
    <3> QED
      BY <1>2, <1>4, <2>0, <2>11, <3>1 DEF PromoteTake, control, Domains, Set
  <2>12. CASE PromoteRecord(s)
    <3>2. job'["b"].type = job["b"].type
      BY <1>4, <2>0, <2>12, GotoIs DEF PromoteRecord, JobSteps
    <3> QED
      BY <1>1, <1>2, <2>12, <3>2 DEF PromoteRecord, control
  <2>13. CASE UnfenceCheck(s)
    BY <1>2, <1>4, <2>13 DEF UnfenceCheck, At
  <2>14. CASE UnfenceRelease(s)
    BY <1>2, <1>4, <2>14 DEF UnfenceRelease, At
  <2>15. CASE UnfenceStart(s)
    BY <1>2, <1>4, <2>15 DEF UnfenceStart, At
  <2>16. CASE UnfenceRecord(s)
    BY <1>2, <1>4, <2>16 DEF UnfenceRecord, At
  <2>17. CASE RebuildBegin(s)
    BY <1>2, <1>4, <2>17 DEF RebuildBegin, At
  <2>18. CASE RebuildSwap(s)
    BY <1>2, <1>4, <2>18 DEF RebuildSwap, At
  <2>19. CASE RemoveStandby(s)
    BY <1>2, <1>4, <2>0, <2>19, GotoIs DEF RemoveStandby, JobSteps, control, history, Domains, Set
  <2>20. CASE Report(s)
    <3>1. job'["b"].type = "none"
      BY <1>4, <2>0, <2>20 DEF Report, NoJob, Domains, Set
    <3>2. fences'["b"] = {}
      BY <1>2, <1>4, <2>0, <2>20 DEF Report, AfterFailed, AfterOk, DropFence, Forgotten,
           Domains, Set, control
    <3> QED
      BY <1>2, <2>20, <3>1, <3>2 DEF Report, history
  <2>21. CASE LeaseEnds(s)
    BY <1>2, <1>4, <2>0, <2>21 DEF LeaseEnds, NoJob, control, history, Domains, Set
  <2>22. CASE HoldFence(s)
    BY <1>2, <1>4, <2>0, <2>22 DEF HoldFence, control, history, Domains, Set
  <2>23. CASE Heartbeat(s)
    <3>1. ~TakenOver(s, fences[s] \ Undone(s))
      BY <2>a DEF TakenOver, Superseded
    <3>2. fences'["b"] = {}
      BY <1>2, <1>4, <2>0, <2>23, <3>1 DEF Heartbeat, Domains, Set
    <3> QED
      BY <1>2, <2>23, <3>2 DEF Heartbeat
  <2>24. CASE Apply(s)
    BY <1>2, <1>4, <2>0, <2>24 DEF Apply, control, history, Domains, Set
  <2>25. CASE AnswerLost(s)
    BY <1>2, <1>4, <2>0, <2>25 DEF AnswerLost, control, history, Domains, Set
  <2>26. CASE Die(s)
    <3>1. job'["b"].type = job["b"].type
      BY <1>4, <2>26, DieIs
    <3> QED
      BY <1>2, <1>4, <2>0, <2>26, <3>1 DEF Die, control, Domains, Set
  <2>27. CASE StopsByItself(s)
    BY <1>2, <1>4, <2>0, <2>27 DEF StopsByItself, control, history, Domains, Set
  <2>28. CASE StartByOther(s)
    BY <1>2, <1>4, <2>0, <2>28 DEF StartByOther, control, history, Domains, Set
  <2>29. CASE Write(s)
    BY <1>2, <1>4, <2>0, <2>29 DEF Write, control, history, Domains, Set
  <2>30. CASE Replay(s)
    BY <1>2, <1>4, <2>0, <2>30 DEF Replay, control, history, Domains, Set
  <2> QED
    BY <2>1, <2>2, <2>3, <2>4, <2>5, <2>6, <2>7, <2>8, <2>9, <2>10, <2>11, <2>12, <2>13, <2>14,
         <2>15, <2>16, <2>17, <2>18, <2>19, <2>20, <2>21, <2>22, <2>23, <2>24, <2>25, <2>26,
         <2>27, <2>28, <2>29, <2>30 DEF Step, Ask, TaskStep, Work, Beat, World
<1> QED
  BY <1>3, <1>4

-----------------------------------------------------------------------------
(* The inductive invariant of who takes writes.                            *)

WriterInv ==
  /\ TypeOK
  /\ \A s \in Servers : StopAt(s) /\ NamesAt(s)
  /\ Good => Own /\ \A s \in Servers : StatusAt(s)

(* The three initial pairs have it.                                        *)
LEMMA WriterInit ==
  ASSUME Init
  PROVE  WriterInv
<1>1. /\ job = [s \in Servers |-> NoJob] /\ unsaid = [s \in Servers |-> FALSE]
      /\ released = [s \in Servers |-> {}]
  BY DEF Init
<1>2. TypeOK
  <2>1. PostgresOK /\ RecordOK
    <3>1. <<"w">> \in Seq(Servers \cup {"w"}) /\ <<"w", "b">> \in Seq(Servers \cup {"w"})
      BY DEF Servers
    <3>2. ASSUME NEW n \in {0, 1}  PROVE SubSeq(<<"w">>, 1, n) \in Seq(Servers \cup {"w"})
      BY <3>1, SubSeqOf DEF Changes
    <3>3. RecordOK
      BY DEF Init, Following, StoppedForIt, SwitchedOver, NoRecord, RecordOK, Servers
    <3>4. pg \in [Servers -> {"off", "ro", "rw"}]
      BY DEF Init, Following, StoppedForIt, SwitchedOver, Servers
    <3>6. ASSUME NEW x \in BOOLEAN, NEW y \in BOOLEAN  PROVE [a |-> x, b |-> y] \in [Servers -> BOOLEAN]
      BY DEF Servers
    <3>7. signal \in [Servers -> BOOLEAN]
      BY <3>6 DEF Init, Following, StoppedForIt, SwitchedOver
    <3>8. clean \in [Servers -> BOOLEAN]
      BY <3>6 DEF Init, Following, StoppedForIt, SwitchedOver
    <3>5. data \in [Servers -> Seq(Servers \cup {"w"})]
      <4>1. CASE Following
        BY <3>1, <4>1 DEF Following
      <4>2. CASE StoppedForIt
        <5>1. PICK n \in {0, 1} : data = [a |-> <<"w">>, b |-> SubSeq(<<"w">>, 1, n)]
          BY <4>2 DEF StoppedForIt
        <5>2. PICK x \in Seq(Servers \cup {"w"}), y \in Seq(Servers \cup {"w"}) : data = [a |-> x, b |-> y]
          BY <3>1, <3>2, <5>1
        <5> QED
          BY <5>2 DEF Servers
      <4>3. CASE SwitchedOver
        <5>1. PICK x \in Seq(Servers \cup {"w"}), y \in Seq(Servers \cup {"w"}) : data = [a |-> x, b |-> y]
          BY <3>1, <4>3 DEF SwitchedOver
        <5> QED
          BY <5>1 DEF Servers
      <4> QED
        BY <4>1, <4>2, <4>3 DEF Init
    <3> QED
      BY <3>3, <3>4, <3>5, <3>7, <3>8 DEF PostgresOK
  <2>2. ControlOK
    <3>1. st \in [Servers -> Statuses]
      BY DEF Init, Following, StoppedForIt, SwitchedOver, Servers, Statuses
    <3>2. fences \in [Servers -> SUBSET Fences]
      <4>1. ASSUME NEW failed \in BOOLEAN
            PROVE  [id |-> 1, reason |-> "switchover", failed |-> failed] \in Fences
        BY DEF Fences
      <4> QED
        BY <4>1 DEF Init
    <3> QED
      BY <3>1, <3>2 DEF ControlOK, Init
  <2>3. AgentOK
    <3>1. job \in [Servers -> Jobs]
      BY <1>1 DEF NoJob, Jobs, JobSteps
    <3>2. follows \in [Servers -> {"none", "creating", "following"}]
      BY DEF Init, Following, StoppedForIt, SwitchedOver, Servers
    <3> QED
      BY <3>1, <3>2 DEF AgentOK, Init, Idle
  <2> QED
    <3>1. HistoryOK /\ asks = 0 /\ faults = 0
      BY DEF HistoryOK, Init
    <3> QED
      BY <2>1, <2>2, <2>3, <3>1, StandbyPairAssumption DEF TypeOK
<1>3. ASSUME NEW s \in Servers  PROVE StopAt(s) /\ NamesAt(s) /\ StatusAt(s)
  <2>1. job[s].type = "none" /\ job[s].step = "none" /\ released[s] = {}
    BY <1>1 DEF NoJob
  <2>2. rec.state = "stopped" /\ rec.by = s => ~MayWrite(s)
    BY DEF Init, Following, StoppedForIt, SwitchedOver, NoRecord, Servers, MayWrite
  <2> QED
    BY <2>1, <2>2 DEF StopAt, NamesAt, StatusAt, On
<1>4. Own
  <2>0. \A s \in Servers : ~Deciding(s)
    BY <1>1 DEF Deciding, NoJob
  <2>1. NotBoth
    BY <2>0 DEF NotBoth, Servers
  <2>2. NoneYet
    <3>1. rec.state = "none" => st["b"] # "fenced"
      BY DEF Init, Following, StoppedForIt, SwitchedOver, Servers
    <3>2. rec.state = "none" => fences["b"] = {}
      BY <3>1 DEF Init, Servers
    <3> QED
      BY <1>1, <3>2 DEF NoneYet, NoJob, Servers
  <2>3. ASSUME NEW s \in Servers, Acts(s)  PROVE Owner(s)
    <3>1. pg[s] = "rw" \/ ~signal[s] \/ st[s] = "active"
      BY <1>1, <2>3 DEF Acts, On, NoJob, MayWrite
    <3>3. (rec.state = "primary" /\ rec.by = s) \/ (rec.state = "none" /\ s = "a")
      BY <3>1 DEF Init, Following, StoppedForIt, SwitchedOver, NoRecord, Servers
    <3> QED
      BY <3>3 DEF Owner, Said
  <2> QED
    BY <2>0, <2>1, <2>2, <2>3 DEF Own, OwnAt
<1> QED
  BY <1>2, <1>3, <1>4 DEF WriterInv

(* Every step keeps it.                                                    *)
LEMMA WriterStep ==
  ASSUME WriterInv, [Next]_vars
  PROVE  WriterInv'
<1>1. CASE UNCHANGED vars
  <2>1. TypeOK' /\ (Good' <=> Good)
    BY <1>1 DEF WriterInv, TypeOK, PostgresOK, RecordOK, ControlOK, AgentOK, HistoryOK, Good,
         vars, postgres, control, kept, history
  <2>2. ASSUME NEW s \in Servers  PROVE (StopAt(s)' <=> StopAt(s)) /\ (NamesAt(s)' <=> NamesAt(s)) /\ (StatusAt(s)' <=> StatusAt(s))
    BY <1>1 DEF StopAt, NamesAt, StatusAt, On, MayWrite, vars, postgres, control, kept, history
  <2>3. Own' <=> Own
    <3>1. ASSUME NEW s \in Servers  PROVE OwnAt(s)' <=> OwnAt(s)
      BY <1>1 DEF OwnAt, Acts, Owner, Said, Deciding, On, MayWrite, vars, postgres, control, history
    <3>2. (NotBoth' <=> NotBoth) /\ (NoneYet' <=> NoneYet)
      BY <1>1 DEF NotBoth, Deciding, NoneYet, vars, control, history
    <3> QED
      BY <3>1, <3>2 DEF Own
  <2> QED
    BY <2>1, <2>2, <2>3 DEF WriterInv
<1>2. CASE Next
  <2>1. PICK s \in Servers : Step(s)
    BY <1>2 DEF Next, Step
  <2>2. TypeOK /\ StopAt(s) /\ NamesAt(s) /\ \A r \in Servers : StopAt(r) /\ NamesAt(r)
    BY DEF WriterInv
  <2>3. TypeOK' /\ \A r \in Servers : StopAt(r)' /\ NamesAt(r)'
    BY <2>1, <2>2, TypesStep, StopSelf, StopOther, NamesSelf, NamesOther
  <2>4. ASSUME Good'  PROVE Own' /\ \A r \in Servers : StatusAt(r)'
    <3>1. Good /\ Own /\ \A r \in Servers : StatusAt(r)
      BY <2>1, <2>2, <2>4, GoodBefore DEF WriterInv
    <3>2. \A r \in Servers : StatusAt(r)'
      BY <2>1, <2>2, <2>4, <3>1, StatusSelf, StatusOther
    <3>3. OwnAt(s)' /\ OwnAt(Other(s))' /\ NotBoth'
      BY <2>1, <2>2, <2>4, <3>1, OwnStep
    <3>4. NoneYet'
      BY <2>1, <2>2, <2>4, <3>1, NoneStep
    <3>5. \A r \in Servers : OwnAt(r)'
      BY <2>1, <3>3, OtherIs
    <3> QED
      BY <3>2, <3>3, <3>4, <3>5 DEF Own
  <2> QED
    BY <2>3, <2>4 DEF WriterInv
<1> QED
  BY <1>1, <1>2

(* At all times there is at most one server that takes writes or is about  *)
(* to (but for the excuses of Good), and a stopped one is not it: the      *)
(* inductive invariant of fences, records and tasks (standby_fence.go,     *)
(* standby_promote.go, localcp/standby.go).                                *)
THEOREM WriterInvariant == Spec => []WriterInv
<1>1. Init => WriterInv
  BY WriterInit
<1>2. WriterInv /\ [Next]_vars => WriterInv'
  BY WriterStep
<1> QED
  BY <1>1, <1>2, PTL DEF Spec

(* Every variable keeps its type, whatever the agents, the control planes  *)
(* and people do to the pair.                                              *)
THEOREM TypesCorrect == Spec => []TypeOK
<1>1. WriterInv => TypeOK
  BY DEF WriterInv
<1> QED
  BY <1>1, WriterInvariant, PTL

(* While the bucket says that a server stopped, it takes no writes, whoever *)
(* starts it and wherever its agent dies (standby_fence.go:24-33).         *)
THEOREM StoppedStaysStopped == Spec => []StoppedIsStopped
<1>1. WriterInv => StoppedIsStopped
  BY DEF WriterInv, StopAt, MayWrite, StoppedIsStopped
<1> QED
  BY <1>1, WriterInvariant, PTL

(* Two copies never take writes at once, unless a person confirmed that the *)
(* primary is down, both decided before either could be told, or a fence was *)
(* taken for undone by mistake (standby_fence.go:17-35).                   *)
THEOREM OneWriterAtATime == Spec => []OneWriter
<1>1. ASSUME WriterInv  PROVE OneWriter
  <2> SUFFICES ASSUME Good  PROVE \E s \in Servers : pg[s] # "rw"
    BY DEF OneWriter, Good
  <2>1. NotBoth /\ OwnAt("a") /\ OwnAt("b") /\ "a" \in Servers /\ Other("a") = "b" /\ "b" \in Servers
    BY <1>1 DEF WriterInv, Own, Servers, Other
  <2>2. ~(Owner("a") /\ Owner("b"))
    BY <2>1, OneOwner
  <2> QED
    BY <2>1, <2>2 DEF OwnAt, Acts, MayWrite
<1> QED
  BY <1>1, WriterInvariant, PTL

-----------------------------------------------------------------------------
(* What the two copies hold.                                               *)

(* A copy has all of itself.                                               *)
LEMMA PrefixItself ==
  ASSUME NEW d \in Seq(Changes)
  PROVE  IsPrefix(d, d)
BY PrefixIs

(* A longer copy still has it.                                             *)
LEMMA PrefixAppend ==
  ASSUME NEW d \in Seq(Changes), NEW e \in Seq(Changes), NEW x \in Changes, IsPrefix(d, e)
  PROVE  IsPrefix(d, Append(e, x))
<1>1. Len(d) <= Len(e) /\ \A i \in 1..Len(d) : d[i] = e[i]
  BY PrefixIs
<1>2. Append(e, x) \in Seq(Changes) /\ Len(Append(e, x)) = Len(e) + 1 /\ \A i \in 1..Len(e) : Append(e, x)[i] = e[i]
  OBVIOUS
<1>3. Len(d) \in Nat /\ Len(e) \in Nat
  OBVIOUS
<1>4. Len(d) <= Len(Append(e, x)) /\ \A i \in 1..Len(d) : d[i] = Append(e, x)[i]
  BY <1>1, <1>2, <1>3
<1> QED
  BY <1>2, <1>4, PrefixIs

(* A copy that has all of a longer one is equal to it.                     *)
LEMMA PrefixBoth ==
  ASSUME NEW d \in Seq(Changes), NEW e \in Seq(Changes), IsPrefix(d, e), Len(e) <= Len(d)
  PROVE  d = e
<1>1. Len(d) <= Len(e) /\ \A i \in 1..Len(d) : d[i] = e[i]
  BY PrefixIs
<1>2. Len(d) = Len(e)
  BY <1>1
<1> QED
  BY <1>1, <1>2, SeqEqual

(* The first n changes of a copy are in it.                                *)
LEMMA PrefixSubSeq ==
  ASSUME NEW e \in Seq(Changes), NEW n \in 0..Len(e)
  PROVE  IsPrefix(SubSeq(e, 1, n), e)
<1>1. /\ SubSeq(e, 1, n) \in Seq(Changes) /\ Len(SubSeq(e, 1, n)) = n
      /\ \A i \in 1..n : SubSeq(e, 1, n)[i] = e[i]
  BY SubSeqOf
<1>2. n \in Nat /\ n <= Len(e)
  OBVIOUS
<1> QED
  BY <1>1, <1>2, PrefixIs

(* Of two copies, one of which has all of the other, the shorter one is    *)
(* what they have in common.                                               *)
LEMMA CommonIs ==
  ASSUME NEW d \in Seq(Changes), NEW e \in Seq(Changes), IsPrefix(d, e)
  PROVE  LongestCommonPrefix({d, e}) = d /\ LongestCommonPrefix({e, d}) = d
<1> DEFINE c == LongestCommonPrefix({d, e})
<1>1. /\ c \in Seq(Changes) /\ IsPrefix(c, d)
      /\ \A x \in Seq(Changes) : IsPrefix(x, d) /\ IsPrefix(x, e) => Len(x) <= Len(c)
  BY LongestIs
<1>2. {d, e} = {e, d}
  OBVIOUS
<1> HIDE DEF c
<1>3. Len(d) <= Len(c)
  BY <1>1, PrefixItself
<1>4. c = d
  BY <1>1, <1>3, PrefixBoth
<1> QED
  BY <1>2, <1>4 DEF c

(* A copy that has all of another is not on an earlier timeline.           *)
LEMMA CountPrefix ==
  ASSUME NEW d \in Seq(Changes), NEW e \in Seq(Changes), IsPrefix(d, e)
  PROVE  Cardinality(Promotions(d)) <= Cardinality(Promotions(e))
<1>1. Len(d) <= Len(e) /\ \A i \in 1..Len(d) : d[i] = e[i]
  BY PrefixIs
<1>2. Promotions(d) \subseteq Promotions(e)
  <2>1. DOMAIN d = 1..Len(d) /\ DOMAIN e = 1..Len(e) /\ Len(d) \in Nat /\ Len(e) \in Nat
    OBVIOUS
  <2> QED
    BY <1>1, <2>1 DEF Promotions
<1> QED
  BY <1>2, CountNat, FS_Subset

(* A promotion begins a timeline, a commit does not.                       *)
LEMMA CountAppend ==
  ASSUME NEW d \in Seq(Changes)
  PROVE  /\ Cardinality(Promotions(Append(d, "w"))) = Cardinality(Promotions(d))
         /\ \A x \in Servers : Cardinality(Promotions(Append(d, x))) = Cardinality(Promotions(d)) + 1
<1>1. ASSUME NEW x \in Changes
      PROVE  /\ DOMAIN Append(d, x) = 1..(Len(d) + 1) /\ Append(d, x)[Len(d) + 1] = x
             /\ \A i \in 1..Len(d) : Append(d, x)[i] = d[i]
  OBVIOUS
<1>2. Len(d) \in Nat /\ DOMAIN d = 1..Len(d)
  OBVIOUS
<1>3. Promotions(Append(d, "w")) = Promotions(d)
  <2>1. "w" \in Changes
    BY DEF Changes
  <2> QED
    BY <1>1, <1>2, <2>1 DEF Promotions
<1>4. ASSUME NEW x \in Servers  PROVE Cardinality(Promotions(Append(d, x))) = Cardinality(Promotions(d)) + 1
  <2>1. x \in Changes /\ x # "w"
    BY DEF Changes, Servers
  <2>2. Promotions(Append(d, x)) = Promotions(d) \cup {Len(d) + 1}
    BY <1>1, <1>2, <2>1 DEF Promotions
  <2>3. Len(d) + 1 \notin Promotions(d)
    BY <1>2 DEF Promotions
  <2> QED
    BY <2>2, <2>3, CountNat, FS_AddElement
<1> QED
  BY <1>3, <1>4

(* Every promotion knew the last position, no copy that is behind was      *)
(* unfenced, nobody decided in the dark and no fence was mistaken.         *)
Sane == ~gap /\ ~lossy /\ ~mistaken

(* It has everything the other copy has.                                   *)
HasAll(s) == IsPrefix(data[Other(s)], data[s])

(* It takes writes, or goes on to take them.                               *)
Took(s) ==
  \/ MayWrite(s)
  \/ On(s, "unfence", {"release", "start", "record", "ok"})
  \/ On(s, "promote", {"record", "ok"})

(* Its control plane could have it unfenced.                               *)
Cand(s) ==
  /\ follows[s] # "following"
  /\ st[s] \in {"active", "fenced"} \/ (job[s].type = "rebuild" /\ job[s].step # "lost")

(* The copy that takes writes has everything and is on a later timeline    *)
(* than any copy that could be unfenced; such a copy has everything or is  *)
(* behind; a promotion waits for a position at which nothing is missing;   *)
(* and the record of a stopped primary has such a position.                *)
DataAt(s) ==
  /\ Took(s) => HasAll(s) /\ (Cand(Other(s)) => Timeline(s) > Timeline(Other(s)))
  /\ Cand(s) => HasAll(s) \/ Timeline(Other(s)) > Timeline(s)
  /\ On(s, "promote", {"catch"}) => job[s].wait > 0 /\ (Position(Other(s)) <= job[s].wait \/ HasAll(s))
  /\ rec.state = "stopped" /\ rec.by = Other(s) /\ rec.lsn > 0 /\ ~unsaid[Other(s)]
       => Position(Other(s)) <= rec.lsn \/ HasAll(s)

(* Of two copies one has all of the other, and two that could be unfenced  *)
(* are not on the same timeline.                                           *)
Data ==
  /\ HasAll("a") \/ HasAll("b")
  /\ Cand("a") /\ Cand("b") => Timeline("a") # Timeline("b")
  /\ \A s \in Servers : DataAt(s)

DataInv == (forced => lossy) /\ (Sane => Data)

(* Copies, timelines and positions have their types.                       *)
LEMMA DataOf ==
  ASSUME TypeOK, NEW s \in Servers
  PROVE  /\ data[s] \in Seq(Changes) /\ data[Other(s)] \in Seq(Changes)
         /\ Timeline(s) \in Nat /\ Timeline(Other(s)) \in Nat
         /\ Position(s) \in Nat /\ Position(Other(s)) \in Nat
         /\ Position(s) = Len(data[s]) /\ Position(Other(s)) = Len(data[Other(s)])
<1>1. PostgresOK /\ Other(s) \in Servers
  BY OtherIs DEF TypeOK
<1>2. \A r \in Servers : data[r] \in Seq(Changes)
  BY <1>1 DEF PostgresOK, Changes
<1> QED
  BY <1>1, <1>2, NumbersAre DEF Position

(* Data, for a server and the other one.                                   *)
LEMMA DataTwo ==
  ASSUME NEW s \in Servers, Data
  PROVE  /\ HasAll(s) \/ HasAll(Other(s))
         /\ Cand(s) /\ Cand(Other(s)) => Timeline(s) # Timeline(Other(s))
         /\ DataAt(s) /\ DataAt(Other(s))
<1>1. Other("a") = "b" /\ Other("b") = "a" /\ "a" \in Servers /\ "b" \in Servers /\ (s = "a" \/ s = "b")
  BY DEF Other, Servers
<1> QED
  BY <1>1 DEF Data

(* And back, for the next state.                                           *)
LEMMA DataWhole ==
  ASSUME NEW s \in Servers, HasAll(s)' \/ HasAll(Other(s))',
         Cand(s)' /\ Cand(Other(s))' => Timeline(s)' # Timeline(Other(s))',
         DataAt(s)', DataAt(Other(s))'
  PROVE  Data'
<1>1. Other("a") = "b" /\ Other("b") = "a" /\ \A r \in Servers : r = s \/ r = Other(s)
  BY DEF Other, Servers
<1>2. s = "a" \/ s = "b"
  BY DEF Servers
<1> QED
  BY <1>1, <1>2 DEF Data

(* Beside a server that takes writes or is about to there is no other.     *)
LEMMA OneTakes ==
  ASSUME NotBoth, NEW s \in Servers, OwnAt(s), OwnAt(Other(s)), StopAt(s), StopAt(Other(s)),
         Took(s) \/ Deciding(s)
  PROVE  ~Took(Other(s)) /\ ~Deciding(Other(s)) /\ ~MayWrite(Other(s))
<1>1. ASSUME NEW r \in Servers, OwnAt(r), StopAt(r), Took(r)  PROVE Owner(r) \/ Deciding(r)
  BY <1>1 DEF OwnAt, StopAt, Took, Acts, Owner, Deciding, On
<1>2. ~Owner(Other(s)) /\ ~Deciding(Other(s)) /\ ~Acts(Other(s))
  BY <1>1, OneOwner
<1> QED
  BY <1>1, <1>2, OtherIs DEF Acts

(* What one server's step leaves of the other one's copy.                  *)
LEMMA OtherData ==
  ASSUME TypeOK, NEW s \in Servers, Step(s)
  PROVE  /\ Took(Other(s))' <=> Took(Other(s))
         /\ Cand(Other(s))' <=> Cand(Other(s))
         /\ job'[Other(s)] = job[Other(s)] /\ unsaid'[Other(s)] = unsaid[Other(s)]
         /\ data'[Other(s)] = data[Other(s)]
         /\ Timeline(Other(s))' = Timeline(Other(s)) /\ Position(Other(s))' = Position(Other(s))
         /\ rec' = rec \/ rec'.by = s
<1>1. Same(Other(s)) /\ (rec' = rec \/ rec'.by = s)
  BY OtherIs, OneServer
<1> QED
  BY <1>1 DEF Took, Cand, Same, On, MayWrite, Timeline, Position

(* A step that leaves the data alone.                                      *)
LEMMA DataKeep ==
  ASSUME TypeOK, NEW s \in Servers, Step(s), Data, UNCHANGED data,
         Took(s) => ~Took(Other(s)),
         Took(s)' => HasAll(s) /\ (Cand(Other(s)) => Timeline(s) > Timeline(Other(s))),
         Cand(s)' => Cand(s) \/ Took(s),
         On(s, "promote", {"catch"})'
           => job'[s].wait > 0 /\ (Position(Other(s)) <= job'[s].wait \/ HasAll(s)),
         rec'.state = "stopped" /\ rec'.by = s /\ rec'.lsn > 0 /\ ~unsaid'[s]
           => Position(s) <= rec'.lsn \/ HasAll(Other(s))
  PROVE  Data'
<1> DEFINE r == Other(s)
<1>1. /\ HasAll(s) \/ HasAll(r)
      /\ Cand(s) /\ Cand(r) => Timeline(s) # Timeline(r)
      /\ DataAt(s) /\ DataAt(r)
  BY DataTwo
<1>2. /\ HasAll(s)' <=> HasAll(s)
      /\ HasAll(r)' <=> HasAll(r)
      /\ Timeline(s)' = Timeline(s) /\ Timeline(r)' = Timeline(r)
      /\ Position(s)' = Position(s) /\ Position(r)' = Position(r)
  BY DEF HasAll, Timeline, Position
<1>3. /\ Took(r)' <=> Took(r)
      /\ Cand(r)' <=> Cand(r)
      /\ job'[r] = job[r] /\ unsaid'[r] = unsaid[r] /\ (rec' = rec \/ rec'.by = s)
  BY OtherData
<1>4. r \in Servers /\ r # s /\ Other(r) = s /\ \A x \in Servers : x = s \/ x = r
  BY OtherIs
<1>5. Timeline(s) \in Nat /\ Timeline(r) \in Nat
  BY DataOf
<1>6. Cand(s)' /\ Cand(r)' => Timeline(s)' # Timeline(r)'
  BY <1>1, <1>2, <1>3, <1>5 DEF DataAt
<1>7. DataAt(s)'
  <2>1. Took(s)' => HasAll(s)' /\ (Cand(r)' => Timeline(s)' > Timeline(r)')
    BY <1>2, <1>3
  <2>2. Cand(s)' => HasAll(s)' \/ Timeline(r)' > Timeline(s)'
    BY <1>1, <1>2 DEF DataAt
  <2>3. On(s, "promote", {"catch"})' => job'[s].wait > 0 /\ (Position(r)' <= job'[s].wait \/ HasAll(s)')
    BY <1>2
  <2>4. rec'.state = "stopped" /\ rec'.by = r /\ rec'.lsn > 0 /\ ~unsaid'[r]
          => Position(r)' <= rec'.lsn \/ HasAll(s)'
    BY <1>1, <1>2, <1>3, <1>4 DEF DataAt
  <2> QED
    BY <2>1, <2>2, <2>3, <2>4 DEF DataAt
<1>8. DataAt(r)'
  <2>1. Took(r)' => HasAll(r)' /\ (Cand(s)' => Timeline(r)' > Timeline(s)')
    BY <1>1, <1>2, <1>3, <1>4 DEF DataAt
  <2>2. Cand(r)' => HasAll(r)' \/ Timeline(s)' > Timeline(r)'
    BY <1>1, <1>2, <1>3, <1>4 DEF DataAt
  <2>3. On(r, "promote", {"catch"})' => job'[r].wait > 0 /\ (Position(s)' <= job'[r].wait \/ HasAll(r)')
    BY <1>1, <1>2, <1>3, <1>4 DEF DataAt, On
  <2>4. rec'.state = "stopped" /\ rec'.by = s /\ rec'.lsn > 0 /\ ~unsaid'[s]
          => Position(s)' <= rec'.lsn \/ HasAll(r)'
    BY <1>2
  <2> QED
    BY <1>4, <2>1, <2>2, <2>3, <2>4 DEF DataAt
<1> QED
  BY <1>1, <1>2, <1>4, <1>6, <1>7, <1>8, DataWhole

(* A step that leaves the data alone and begins nothing.                   *)
LEMMA DataQuiet ==
  ASSUME TypeOK, NEW s \in Servers, Step(s), Data, UNCHANGED data,
         Took(s) => ~Took(Other(s)),
         Took(s)' => Took(s),
         Cand(s)' => Cand(s) \/ Took(s),
         On(s, "promote", {"catch"})' => On(s, "promote", {"catch"}) /\ job'[s].wait = job[s].wait,
         rec'.state # "stopped" \/ (rec' = rec /\ (unsaid[s] => unsaid'[s]))
  PROVE  Data'
<1>1. DataAt(s) /\ DataAt(Other(s)) /\ Other(Other(s)) = s
  BY DataTwo, OtherIs
<1>2. Took(s)' => HasAll(s) /\ (Cand(Other(s)) => Timeline(s) > Timeline(Other(s)))
  BY <1>1 DEF DataAt
<1>3. On(s, "promote", {"catch"})'
        => job'[s].wait > 0 /\ (Position(Other(s)) <= job'[s].wait \/ HasAll(s))
  BY <1>1 DEF DataAt
<1>4. rec'.state = "stopped" /\ rec'.by = s /\ rec'.lsn > 0 /\ ~unsaid'[s]
        => Position(s) <= rec'.lsn \/ HasAll(Other(s))
  BY <1>1 DEF DataAt
<1> QED
  BY <1>2, <1>3, <1>4, DataKeep

(* Writing: the copy that takes writes has everything, and goes on having  *)
(* it.                                                                     *)
LEMMA DataWrite ==
  ASSUME TypeOK, NEW s \in Servers, Step(s), Data, NotBoth, OwnAt(s), OwnAt(Other(s)), StopAt(s), StopAt(Other(s)),
         Write(s)
  PROVE  Data'
<1> DEFINE r == Other(s)
<1>1. Took(s) /\ MayWrite(s) /\ rec' = rec /\ unsaid' = unsaid
  BY DEF Write, Took, MayWrite, history
<1>2. ~Took(r) /\ ~Deciding(r)
  BY <1>1, OneTakes
<1>3. /\ HasAll(s) \/ HasAll(r)
      /\ Cand(s) /\ Cand(r) => Timeline(s) # Timeline(r)
      /\ DataAt(s) /\ DataAt(r)
  BY DataTwo
<1>4. HasAll(s) /\ (Cand(r) => Timeline(s) > Timeline(r))
  BY <1>1, <1>3 DEF DataAt
<1>5. /\ Took(r)' <=> Took(r)
      /\ Cand(r)' <=> Cand(r)
      /\ job'[r] = job[r] /\ data'[r] = data[r] /\ Timeline(r)' = Timeline(r) /\ Position(r)' = Position(r)
  BY OtherData
<1>6. r \in Servers /\ r # s /\ Other(r) = s
  BY OtherIs
<1>7. /\ data[s] \in Seq(Changes) /\ data[r] \in Seq(Changes)
      /\ Timeline(s) \in Nat /\ Timeline(r) \in Nat
  BY DataOf
<1>8. data'[s] = Append(data[s], "w")
  BY TypesDomains DEF Write, Domains, Set
<1>9. Timeline(s)' = Timeline(s)
  BY <1>7, <1>8, CountAppend DEF Timeline
<1>10. HasAll(s)'
  <2>1. "w" \in Changes /\ IsPrefix(data[r], data[s])
    BY <1>4 DEF Changes, HasAll
  <2> QED
    BY <1>5, <1>7, <1>8, <2>1, PrefixAppend DEF HasAll
<1>11. DataAt(s)'
  <2>1. On(s, "promote", {"catch"})' => job'[s].wait > 0
    BY <1>3 DEF DataAt, On, Write
  <2> QED
    BY <1>4, <1>5, <1>9, <1>10, <2>1 DEF DataAt
<1>12. DataAt(r)'
  <2>1. ~On(r, "promote", {"catch"})'
    BY <1>2, <1>5 DEF On, Deciding
  <2>2. ~(rec'.state = "stopped" /\ rec'.by = s /\ ~unsaid'[s])
    BY <1>1 DEF StopAt
  <2>3. Cand(r)' => Timeline(s)' > Timeline(r)'
    BY <1>4, <1>5, <1>9
  <2> QED
    BY <1>2, <1>5, <1>6, <2>1, <2>2, <2>3 DEF DataAt
<1>13. Cand(s)' /\ Cand(r)' => Timeline(s)' # Timeline(r)'
  BY <1>4, <1>5, <1>7, <1>9
<1> QED
  BY <1>10, <1>11, <1>12, <1>13, DataWhole

(* A promotion: what it waited for is all the other one has.               *)
LEMMA DataPromoted ==
  ASSUME TypeOK, NEW s \in Servers, Step(s), Data, NotBoth, OwnAt(s), OwnAt(Other(s)), StopAt(s), StopAt(Other(s)),
         NamesAt(s), PromoteTake(s), CaughtUp(s), NEW x \in {"record", "failed"}, Promoted(s, x)
  PROVE  Data'
<1> DEFINE r == Other(s)
<1>1. /\ On(s, "promote", {"catch"}) /\ Deciding(s) /\ rec' = rec /\ UNCHANGED control
      /\ job'[s].type = "promote" /\ job'[s].step = x /\ data'[s] = Append(data[s], s) /\ unsaid'[s] = TRUE
  <2>1. At(s, "promote", "catch") /\ rec' = rec /\ UNCHANGED control
    BY DEF PromoteTake
  <2>2. x \in JobSteps
    BY DEF JobSteps
  <2>3. unsaid'[s] = TRUE
    BY TypesDomains DEF Promoted, Domains, Set
  <2> QED
    BY <2>1, <2>2, <2>3, PromotedIs DEF At, On, Deciding
<1>2. ~Took(r) /\ ~Deciding(r)
  BY <1>1, OneTakes
<1>3. (HasAll(s) \/ HasAll(r)) /\ DataAt(s)
  BY DataTwo
<1>5. /\ Took(r)' <=> Took(r)
      /\ Cand(r)' <=> Cand(r)
      /\ job'[r] = job[r] /\ data'[r] = data[r] /\ Timeline(r)' = Timeline(r) /\ Position(r)' = Position(r)
  BY OtherData
<1>6. r \in Servers /\ r # s /\ Other(r) = s
  BY OtherIs
<1>7. /\ data[s] \in Seq(Changes) /\ data[r] \in Seq(Changes)
      /\ Timeline(s) \in Nat /\ Timeline(r) \in Nat /\ Position(s) \in Nat /\ Position(r) \in Nat
      /\ Position(s) = Len(data[s]) /\ Position(r) = Len(data[r])
  BY DataOf
<1>8. IsPrefix(data[r], data[s])
  <2>1. CASE HasAll(s)
    BY <2>1 DEF HasAll
  <2>2. CASE ~HasAll(s)
    <3>1. Position(r) <= job[s].wait /\ job[s].wait <= Position(s) /\ job[s].wait \in Nat
      BY <1>1, <1>3, <2>2 DEF DataAt, CaughtUp, TypeOK, AgentOK, Jobs
    <3>2. IsPrefix(data[s], data[r])
      BY <1>3, <1>6, <2>2 DEF HasAll
    <3>3. data[s] = data[r]
      BY <1>7, <3>1, <3>2, PrefixBoth
    <3> QED
      BY <1>7, <3>3, PrefixItself
  <2> QED
    BY <2>1, <2>2
<1>9. Timeline(s)' = Timeline(s) + 1 /\ Timeline(r) <= Timeline(s)
  <2>1. Timeline(s)' = 1 + Cardinality(Promotions(Append(data[s], s)))
    BY <1>1 DEF Timeline
  <2>2. Cardinality(Promotions(Append(data[s], s))) = Cardinality(Promotions(data[s])) + 1
    BY <1>7, CountAppend
  <2>3. Cardinality(Promotions(data[r])) <= Cardinality(Promotions(data[s]))
    BY <1>7, <1>8, CountPrefix
  <2>4. Cardinality(Promotions(data[r])) \in Nat /\ Cardinality(Promotions(data[s])) \in Nat
    BY <1>7, CountNat
  <2> QED
    BY <2>1, <2>2, <2>3, <2>4 DEF Timeline
<1>10. HasAll(s)'
  <2>1. s \in Changes
    BY DEF Changes
  <2> QED
    BY <1>1, <1>5, <1>7, <1>8, <2>1, PrefixAppend DEF HasAll
<1>11. Timeline(s)' > Timeline(r)'
  BY <1>5, <1>7, <1>9
<1>12. DataAt(s)' /\ ~Cand(s)'
  <2>1. st'[s] = "standby"
    BY <1>1 DEF NamesAt, On, control
  <2>2. ~On(s, "promote", {"catch"})' /\ ~Cand(s)'
    BY <1>1, <2>1 DEF On, Cand
  <2> QED
    BY <1>10, <1>11, <2>2 DEF DataAt
<1>13. DataAt(r)'
  <2>1. ~On(r, "promote", {"catch"})'
    BY <1>2, <1>5 DEF On, Deciding
  <2> QED
    BY <1>1, <1>2, <1>5, <1>6, <1>11, <2>1 DEF DataAt
<1> QED
  BY <1>10, <1>12, <1>13, DataWhole

(* Replay: the standby gets nearer to the copy it follows.                 *)
LEMMA DataReplay ==
  ASSUME TypeOK, NEW s \in Servers, Step(s), Data, Replay(s)
  PROVE  Data'
<1> DEFINE r == Other(s)
<1>1. /\ follows[s] = "following" /\ IsStrictPrefix(data[s], data[r])
      /\ UNCHANGED <<pg, signal, job, st, follows, rec, unsaid>>
      /\ data' = Set(data, s, SubSeq(data[r], 1, Position(s) + 1))
  BY DEF Replay, control, kept, history
<1>3. DataAt(s) /\ DataAt(r)
  BY DataTwo
<1>5. /\ Took(r)' <=> Took(r)
      /\ Cand(r)' <=> Cand(r)
      /\ data'[r] = data[r] /\ Position(r)' = Position(r)
  BY OtherData
<1>6. r \in Servers /\ r # s /\ Other(r) = s
  BY OtherIs
<1>7. /\ data[s] \in Seq(Changes) /\ data[r] \in Seq(Changes)
      /\ Position(s) \in Nat /\ Position(s) = Len(data[s])
  BY DataOf
<1>8. Len(data[s]) < Len(data[r])
  BY <1>1, <1>7, StrictIs
<1>9. ~HasAll(s)
  BY <1>7, <1>8, PrefixIs DEF HasAll
<1>10. data'[s] = SubSeq(data[r], 1, Position(s) + 1)
  BY <1>1, TypesDomains DEF Domains, Set
<1>11. HasAll(r)'
  <2>1. Position(s) + 1 \in 0..Len(data[r])
    BY <1>7, <1>8
  <2>2. IsPrefix(SubSeq(data[r], 1, Position(s) + 1), data[r])
    BY <1>7, <2>1, PrefixSubSeq
  <2> QED
    BY <1>5, <1>6, <1>10, <2>2 DEF HasAll
<1>12. ~Took(s)' /\ ~Cand(s)'
  <2>1. ~Took(s)
    BY <1>3, <1>9 DEF DataAt
  <2> QED
    BY <1>1, <2>1 DEF Took, Cand, On, MayWrite
<1>13. DataAt(s)'
  BY <1>1, <1>3, <1>5, <1>9, <1>12 DEF DataAt, On
<1>14. DataAt(r)'
  <2>1. On(r, "promote", {"catch"})' => job'[r].wait > 0
    BY <1>1, <1>3 DEF DataAt, On
  <2> QED
    BY <1>6, <1>11, <1>12, <2>1 DEF DataAt
<1> QED
  BY <1>11, <1>12, <1>13, <1>14, DataWhole

(* A rebuild: the copy keeps what it has, when the new primary has it too, *)
(* or takes what both have.                                                *)
LEMMA DataRebuilt ==
  ASSUME TypeOK, NEW s \in Servers, Step(s), Data, RebuildSwap(s), Rebuilt(s)
  PROVE  Data'
<1> DEFINE r == Other(s)
<1>1. /\ rec' = rec /\ job'[s].type = "rebuild" /\ follows'[s] = "following"
      /\ pg'[s] = "ro" /\ signal'[s] = TRUE
      /\ data'[s] = IF CanReattach(s) THEN data[s] ELSE Common
  <2>1. job \in [Servers -> Jobs] /\ Domains
    BY TypesDomains DEF TypeOK, AgentOK
  <2>2. job'[s].type = "rebuild"
    BY <2>1, GotoIs DEF RebuildSwap, At, JobSteps
  <2> QED
    BY <2>1, <2>2 DEF RebuildSwap, Rebuilt, Domains, Set
<1>2. ~Took(s)' /\ ~Cand(s)' /\ ~On(s, "promote", {"catch"})'
  BY <1>1 DEF Took, Cand, On, MayWrite
<1>3. (HasAll(s) \/ HasAll(r)) /\ DataAt(s) /\ DataAt(r)
  BY DataTwo
<1>5. /\ Took(r)' <=> Took(r)
      /\ Cand(r)' <=> Cand(r)
      /\ job'[r] = job[r] /\ unsaid'[r] = unsaid[r]
      /\ data'[r] = data[r] /\ Timeline(r)' = Timeline(r) /\ Position(r)' = Position(r)
  BY OtherData
<1>6. r \in Servers /\ r # s /\ Other(r) = s
  BY OtherIs
<1>7. data[s] \in Seq(Changes) /\ data[r] \in Seq(Changes)
  BY DataOf
<1>8. On(r, "promote", {"catch"})' => job'[r].wait > 0
  BY <1>3, <1>5 DEF DataAt, On
<1>9. CASE CanReattach(s)
  <2>1. /\ data'[s] = data[s] /\ rec.state = "primary"
        /\ Timeline(s)' = Timeline(s) /\ Position(s)' = Position(s)
    BY <1>1, <1>9 DEF CanReattach, Timeline, Position
  <2>2. (HasAll(s)' <=> HasAll(s)) /\ (HasAll(r)' <=> HasAll(r))
    BY <1>5, <1>6, <2>1 DEF HasAll
  <2>3. DataAt(s)'
    BY <1>1, <1>2, <2>1 DEF DataAt
  <2>4. DataAt(r)'
    BY <1>1, <1>2, <1>3, <1>5, <1>6, <2>1, <2>2 DEF DataAt, On
  <2> QED
    BY <1>2, <1>3, <2>2, <2>3, <2>4, DataWhole
<1>10. CASE ~CanReattach(s)
  <2>0. Common = LongestCommonPrefix({data[s], data[r]}) /\ Common = LongestCommonPrefix({data[r], data[s]})
    BY DEF Common, Servers, Other
  <2>1. ASSUME HasAll(s)  PROVE HasAll(r)' /\ HasAll(s)'
    <3>1. data'[s] = data[r]
      BY <1>1, <1>7, <1>10, <2>0, <2>1, CommonIs DEF HasAll
    <3>2. HasAll(r)' /\ HasAll(s)'
      BY <1>5, <1>6, <1>7, <3>1, PrefixItself DEF HasAll
    <3> QED
      BY <3>2
  <2>2. ASSUME ~HasAll(s)  PROVE HasAll(r)'
    <3>1. IsPrefix(data[s], data[r])
      BY <1>3, <1>6, <2>2 DEF HasAll
    <3>2. data'[s] = data[s]
      BY <1>1, <1>7, <1>10, <2>0, <3>1, CommonIs
    <3> QED
      BY <1>5, <1>6, <3>1, <3>2 DEF HasAll
  <2>3. HasAll(r)' /\ (HasAll(s) => HasAll(s)')
    BY <2>1, <2>2
  <2>4. DataAt(s)'
    BY <1>1, <1>2, <1>3, <1>5, <2>3 DEF DataAt
  <2>5. DataAt(r)'
    BY <1>2, <1>6, <1>8, <2>3 DEF DataAt
  <2> QED
    BY <1>2, <2>3, <2>4, <2>5, DataWhole
<1> QED
  BY <1>9, <1>10

(* What excuses a loss is never forgotten, and a forced promotion is one.  *)
LEMMA SaneBefore ==
  ASSUME TypeOK, NEW s \in Servers, Step(s), forced => lossy
  PROVE  (Sane' => Sane) /\ (forced' => lossy')
<1>0. gap \in BOOLEAN /\ forced \in BOOLEAN /\ lossy \in BOOLEAN /\ mistaken \in BOOLEAN
  BY DEF TypeOK, HistoryOK
<1> USE DEF Sane
<1>1. CASE AskFence(s)
  BY <1>0, <1>1 DEF AskFence, Enqueue, history
<1>2. CASE \E down \in BOOLEAN : AskPromote(s, down)
  BY <1>0, <1>2 DEF AskPromote, Enqueue, history
<1>3. CASE AskUnfence(s)
  BY <1>0, <1>3 DEF AskUnfence, Enqueue, history
<1>4. CASE AskRebuild(s)
  BY <1>0, <1>4 DEF AskRebuild, Enqueue, history
<1>5. CASE AskRemove(s)
  BY <1>0, <1>5 DEF AskRemove, Enqueue, history
<1>6. CASE AskForget(s)
  BY <1>0, <1>6 DEF AskForget, history
<1>7. CASE FenceHold(s)
  BY <1>0, <1>7 DEF FenceHold, history
<1>8. CASE FenceStop(s)
  BY <1>0, <1>8 DEF FenceStop, history
<1>9. CASE FenceRecord(s)
  BY <1>0, <1>9 DEF FenceRecord, history
<1>10. CASE PromoteCheck(s)
  <2>1. CASE PromoteRefused(s) \/ PromoteAlready(s)
    BY <1>0, <1>10, <2>1 DEF PromoteCheck, PromoteRefused, PromoteAlready
  <2>2. CASE PromoteGoesOn(s)
    <3>1. mistaken' = mistaken
      BY <1>10 DEF PromoteCheck
    <3>2. (gap => gap') /\ (lossy => lossy') /\ (~StoppedElsewhere(s) => lossy') /\ (forced' => forced \/ ~StoppedElsewhere(s))
      BY <1>0, <2>2 DEF PromoteGoesOn, Decides
    <3> QED
      BY <3>1, <3>2
  <2> QED
    BY <1>10, <2>1, <2>2 DEF PromoteCheck
<1>11. CASE PromoteTake(s)
  BY <1>0, <1>11 DEF PromoteTake, history
<1>12. CASE PromoteRecord(s)
  BY <1>0, <1>12 DEF PromoteRecord, history
<1>13. CASE UnfenceCheck(s)
  BY <1>0, <1>13 DEF UnfenceCheck, Decides, history
<1>14. CASE UnfenceRelease(s)
  BY <1>0, <1>14 DEF UnfenceRelease, history
<1>15. CASE UnfenceStart(s)
  BY <1>0, <1>15 DEF UnfenceStart, history
<1>16. CASE UnfenceRecord(s)
  BY <1>0, <1>16 DEF UnfenceRecord, history
<1>17. CASE RebuildBegin(s)
  BY <1>0, <1>17 DEF RebuildBegin, history
<1>18. CASE RebuildSwap(s)
  BY <1>0, <1>18 DEF RebuildSwap, history
<1>19. CASE RemoveStandby(s)
  BY <1>0, <1>19 DEF RemoveStandby, history
<1>20. CASE Report(s)
  BY <1>0, <1>20 DEF Report, history
<1>21. CASE LeaseEnds(s)
  BY <1>0, <1>21 DEF LeaseEnds, history
<1>22. CASE HoldFence(s)
  BY <1>0, <1>22 DEF HoldFence, history
<1>23. CASE Heartbeat(s)
  BY <1>0, <1>23 DEF Heartbeat, history
<1>24. CASE Apply(s)
  BY <1>0, <1>24 DEF Apply, history
<1>25. CASE AnswerLost(s)
  BY <1>0, <1>25 DEF AnswerLost, history
<1>26. CASE Die(s)
  BY <1>0, <1>26 DEF Die, history
<1>27. CASE StopsByItself(s)
  BY <1>0, <1>27 DEF StopsByItself, history
<1>28. CASE StartByOther(s)
  BY <1>0, <1>28 DEF StartByOther, history
<1>29. CASE Write(s)
  BY <1>0, <1>29 DEF Write, history
<1>30. CASE Replay(s)
  BY <1>0, <1>30 DEF Replay, history
<1> QED
  BY <1>1, <1>2, <1>3, <1>4, <1>5, <1>6, <1>7, <1>8, <1>9, <1>10, <1>11, <1>12, <1>13, <1>14,
       <1>15, <1>16, <1>17, <1>18, <1>19, <1>20, <1>21, <1>22, <1>23, <1>24, <1>25, <1>26,
       <1>27, <1>28, <1>29, <1>30 DEF Step, Ask, TaskStep, Work, Beat, World

(* Every action keeps it: unfencing takes a copy that is not behind,       *)
(* promoting one that has caught up.                                       *)
LEMMA DataStep ==
  ASSUME WriterInv, NEW s \in Servers, Step(s), Good, Data, Sane'
  PROVE  Data'
<1>0. /\ TypeOK /\ NotBoth /\ OwnAt(s) /\ OwnAt(Other(s)) /\ StopAt(s) /\ StopAt(Other(s))
      /\ NamesAt(s) /\ StatusAt(s)
  BY OtherIs DEF WriterInv, Own
<1>a. Domains /\ job \in [Servers -> Jobs] /\ PostgresOK /\ AgentOK /\ ids[s] + 1 \in Nat
      /\ (\A f \in fences[s] : f.id \in Nat)
  BY <1>0, TypesDomains DEF TypeOK, AgentOK, ControlOK, Fences
<1>b. Took(s) => ~Took(Other(s))
  BY <1>0, OneTakes
<1>q. ASSUME UNCHANGED data, Took(s)' => Took(s), Cand(s)' => Cand(s) \/ Took(s),
             On(s, "promote", {"catch"})' => On(s, "promote", {"catch"}) /\ job'[s].wait = job[s].wait,
             rec'.state # "stopped" \/ (rec' = rec /\ (unsaid[s] => unsaid'[s]))
      PROVE  Data'
  BY <1>q, <1>0, <1>b, DataQuiet
<1>t. DataAt(s) /\ DataAt(Other(s)) /\ (Cand(s) /\ Cand(Other(s)) => Timeline(s) # Timeline(Other(s)))
  BY DataTwo
<1>n. /\ Timeline(s) \in Nat /\ Timeline(Other(s)) \in Nat /\ Position(s) \in Nat
  BY <1>0, DataOf
<1>1. CASE AskFence(s)
  <2>1. UNCHANGED <<data, rec, unsaid>>
    BY <1>1 DEF AskFence, Enqueue, history, postgres
  <2>2. /\ Took(s)' => Took(s)
        /\ Cand(s)' => Cand(s) \/ Took(s)
        /\ On(s, "promote", {"catch"})' => On(s, "promote", {"catch"}) /\ job'[s].wait = job[s].wait
    <3>1. Enqueue(s, "fence", ids[s] + 1, FALSE) /\ st[s] = "active" /\ st' = Set(st, s, "fenced") /\ UNCHANGED <<postgres, kept>>
      BY <1>1 DEF AskFence, Enqueue
    <3>2. job'[s].type = "fence" /\ job'[s].step = "queued"
      BY <1>a, <3>1, EnqueueIs
    <3> QED
      BY <1>0, <1>a, <3>1, <3>2 DEF Took, Cand, On, MayWrite, postgres, control, kept, Domains, Set
  <2> QED
    BY <1>q, <2>1, <2>2
<1>2. CASE \E down \in BOOLEAN : AskPromote(s, down)
  <2>1. UNCHANGED <<data, rec, unsaid>>
    BY <1>2 DEF AskPromote, Enqueue, history, postgres
  <2>2. /\ Took(s)' => Took(s)
        /\ Cand(s)' => Cand(s) \/ Took(s)
        /\ On(s, "promote", {"catch"})' => On(s, "promote", {"catch"}) /\ job'[s].wait = job[s].wait
    <3>1. PICK down \in BOOLEAN : Enqueue(s, "promote", 0, down) /\ UNCHANGED <<postgres, control, kept>>
      BY <1>2 DEF AskPromote, Enqueue
    <3>2. job'[s].type = "promote" /\ job'[s].step = "queued"
      BY <1>a, <3>1, EnqueueIs
    <3> QED
      BY <1>0, <1>a, <3>1, <3>2 DEF Took, Cand, On, MayWrite, postgres, control, kept, Domains, Set
  <2> QED
    BY <1>q, <2>1, <2>2
<1>3. CASE AskUnfence(s)
  <2>1. UNCHANGED <<data, rec, unsaid>>
    BY <1>3 DEF AskUnfence, Enqueue, history, postgres
  <2>2. /\ Took(s)' => Took(s)
        /\ Cand(s)' => Cand(s) \/ Took(s)
        /\ On(s, "promote", {"catch"})' => On(s, "promote", {"catch"}) /\ job'[s].wait = job[s].wait
    <3>1. PICK f \in fences[s] : Enqueue(s, "unfence", f.id, FALSE) /\ UNCHANGED <<postgres, control, kept>>
      BY <1>3 DEF AskUnfence, Enqueue
    <3>2. job'[s].type = "unfence" /\ job'[s].step = "queued"
      BY <1>a, <3>1, EnqueueIs
    <3> QED
      BY <1>0, <1>a, <3>1, <3>2 DEF Took, Cand, On, MayWrite, postgres, control, kept, Domains, Set
  <2> QED
    BY <1>q, <2>1, <2>2
<1>4. CASE AskRebuild(s)
  <2>1. UNCHANGED <<data, rec, unsaid>>
    BY <1>4 DEF AskRebuild, Enqueue, history, postgres
  <2>2. /\ Took(s)' => Took(s)
        /\ Cand(s)' => Cand(s) \/ Took(s)
        /\ On(s, "promote", {"catch"})' => On(s, "promote", {"catch"}) /\ job'[s].wait = job[s].wait
    <3>1. PICK f \in fences[s] : Enqueue(s, "rebuild", f.id, FALSE) /\ st[s] = "fenced" /\ UNCHANGED <<postgres, kept>>
      BY <1>4 DEF AskRebuild, Enqueue
    <3>2. job'[s].type = "rebuild" /\ job'[s].step = "queued"
      BY <1>a, <3>1, EnqueueIs
    <3> QED
      BY <1>0, <1>a, <3>1, <3>2 DEF Took, Cand, On, MayWrite, postgres, control, kept, Domains, Set
  <2> QED
    BY <1>q, <2>1, <2>2
<1>5. CASE AskRemove(s)
  <2>1. UNCHANGED <<data, rec, unsaid>>
    BY <1>5 DEF AskRemove, Enqueue, history, postgres
  <2>2. /\ Took(s)' => Took(s)
        /\ Cand(s)' => Cand(s) \/ Took(s)
        /\ On(s, "promote", {"catch"})' => On(s, "promote", {"catch"}) /\ job'[s].wait = job[s].wait
    <3>1. Enqueue(s, "remove", 0, FALSE) /\ UNCHANGED <<postgres, control, kept>>
      BY <1>5 DEF AskRemove, Enqueue
    <3>2. job'[s].type = "remove" /\ job'[s].step = "queued"
      BY <1>a, <3>1, EnqueueIs
    <3> QED
      BY <1>0, <1>a, <3>1, <3>2 DEF Took, Cand, On, MayWrite, postgres, control, kept, Domains, Set
  <2> QED
    BY <1>q, <2>1, <2>2
<1>6. CASE AskForget(s)
  <2>1. UNCHANGED <<data, rec, unsaid>>
    BY <1>6 DEF AskForget, history, postgres
  <2>2. /\ Took(s)' => Took(s)
        /\ Cand(s)' => Cand(s) \/ Took(s)
        /\ On(s, "promote", {"catch"})' => On(s, "promote", {"catch"}) /\ job'[s].wait = job[s].wait
    BY <1>0, <1>a, <1>6 DEF AskForget, Forgotten, NamesAt, Took, Cand, On, MayWrite, Domains,
         Set, postgres, control, kept
  <2> QED
    BY <1>q, <2>1, <2>2
<1>7. CASE FenceHold(s)
  <2>1. UNCHANGED <<data, rec, unsaid>>
    BY <1>7 DEF FenceHold, history, postgres
  <2>2. /\ Took(s)' => Took(s)
        /\ Cand(s)' => Cand(s) \/ Took(s)
        /\ On(s, "promote", {"catch"})' => On(s, "promote", {"catch"}) /\ job'[s].wait = job[s].wait
    BY <1>0, <1>a, <1>7, GotoIs DEF FenceHold, At, NamesAt, Took, Cand, On, MayWrite, Domains,
         Set, JobSteps, postgres, control, kept
  <2> QED
    BY <1>q, <2>1, <2>2
<1>8. CASE FenceStop(s)
  <2>1. UNCHANGED <<data, rec, unsaid>>
    BY <1>8 DEF FenceStop, history, postgres
  <2>2. /\ Took(s)' => Took(s)
        /\ Cand(s)' => Cand(s) \/ Took(s)
        /\ On(s, "promote", {"catch"})' => On(s, "promote", {"catch"}) /\ job'[s].wait = job[s].wait
    BY <1>0, <1>a, <1>8, GotoIs DEF FenceStop, At, Stopped, NamesAt, Took, Cand, On, MayWrite,
         Domains, Set, JobSteps, postgres, control, kept
  <2> QED
    BY <1>q, <2>1, <2>2
<1>9. CASE FenceRecord(s)
  <2>1. UNCHANGED <<postgres, control, kept>> /\ job'[s].type = "fence"
    BY <1>a, <1>9, GotoIs DEF FenceRecord, At, JobSteps
  <2>2. (Took(s)' => Took(s)) /\ (Cand(s)' => Cand(s)) /\ ~On(s, "promote", {"catch"})'
    BY <2>1 DEF Took, Cand, On, MayWrite, postgres, control, kept
  <2>3. CASE UNCHANGED <<rec, unsaid>>
    BY <1>q, <2>1, <2>2, <2>3 DEF postgres
  <2>4. CASE rec'.lsn = IF clean[s] THEN Position(s) ELSE 0
    <3>1. rec'.lsn > 0 => Position(s) <= rec'.lsn
      BY <1>n, <2>4
    <3> QED
      BY <1>0, <1>b, <1>t, <2>1, <2>2, <3>1, DataKeep DEF DataAt, postgres
  <2> QED
    BY <1>9, <2>3, <2>4, SayIs DEF FenceRecord
<1>10. CASE PromoteCheck(s)
  <2>0. UNCHANGED <<rec, unsaid, postgres, control>> /\ ~Cand(s)'
    <3>1. job'[s].type = "promote" /\ UNCHANGED <<rec, unsaid, postgres, control>>
      BY <1>0, <1>a, <1>10, GotoIs, PromoteGoesOnIs DEF PromoteCheck, At, PromoteRefused,
           PromoteAlready, JobSteps
    <3> QED
      BY <1>0, <1>10, <3>1 DEF PromoteCheck, At, NamesAt, Cand, On, control
  <2>1. CASE PromoteRefused(s) \/ PromoteAlready(s)
    <3>1. job'[s].type = "promote" /\ (job'[s].step = "failed" \/ (job'[s].step = "ok" /\ pg[s] = "rw"))
      BY <1>a, <1>10, <2>1, GotoIs DEF PromoteCheck, At, PromoteRefused, PromoteAlready, JobSteps
    <3>2. (Took(s)' => Took(s)) /\ ~On(s, "promote", {"catch"})'
      BY <2>0, <3>1 DEF Took, On, MayWrite, postgres
    <3> QED
      BY <1>q, <2>0, <3>2 DEF postgres
  <2>2. CASE PromoteGoesOn(s)
    <3>1. /\ job'[s].type = "promote" /\ job'[s].step = "catch"
          /\ job'[s].wait = IF StoppedElsewhere(s) THEN rec.lsn ELSE 0
      BY <1>0, <1>10, <2>2, PromoteGoesOnIs DEF PromoteCheck, At
    <3>2. ~Deciding(Other(s)) /\ (IF StoppedElsewhere(s) THEN rec.lsn ELSE 0) # 0
      BY <2>2 DEF PromoteGoesOn, Decides, Sane
    <3>3. rec.by = Other(s) /\ rec.state = "stopped" /\ rec.lsn \in Nat /\ rec.lsn # 0 /\ ~unsaid[Other(s)]
      BY <1>0, <3>2, OtherIs DEF StoppedElsewhere, TypeOK, RecordOK, Deciding
    <3>4. job'[s].wait > 0 /\ (Position(Other(s)) <= job'[s].wait \/ HasAll(s))
      BY <1>t, <3>1, <3>2, <3>3 DEF DataAt
    <3>5. Took(s)' => Took(s)
      BY <2>0, <3>1 DEF Took, On, MayWrite, postgres
    <3>6. ~(rec'.state = "stopped" /\ rec'.by = s)
      BY <2>0, <3>3, OtherIs
    <3> QED
      BY <1>0, <1>b, <1>t, <2>0, <3>4, <3>5, <3>6, DataKeep DEF DataAt, postgres
  <2> QED
    BY <1>10, <2>1, <2>2 DEF PromoteCheck
<1>11. CASE PromoteTake(s)
  <2>1. ASSUME NEW x \in {"record", "failed"}, CaughtUp(s), Promoted(s, x)  PROVE Data'
    BY <1>0, <1>11, <2>1, DataPromoted
  <2>2. CASE NotPromoted(s)
    <3>1. UNCHANGED <<rec, unsaid, pg, signal, data, control, follows>> /\ job'[s].type = "promote" /\ job'[s].step = "failed"
      BY <1>a, <1>11, <2>2, GotoIs DEF PromoteTake, NotPromoted, At, JobSteps, kept
    <3>2. (Took(s)' => Took(s)) /\ (Cand(s)' => Cand(s)) /\ ~On(s, "promote", {"catch"})'
      BY <3>1 DEF Took, Cand, On, MayWrite, control
    <3> QED
      BY <1>q, <3>1, <3>2
  <2> QED
    BY <1>11, <2>1, <2>2 DEF PromoteTake
<1>12. CASE PromoteRecord(s)
  <2>1. UNCHANGED <<postgres, control>> /\ job'[s].type = "promote" /\ job'[s].step = "ok"
    BY <1>a, <1>12, GotoIs DEF PromoteRecord, At, JobSteps
  <2>2. Took(s) /\ (Cand(s)' => Cand(s) \/ Took(s)) /\ ~On(s, "promote", {"catch"})'
    BY <1>12, <2>1 DEF PromoteRecord, At, Took, On
  <2>3. rec'.state # "stopped" \/ (rec' = rec /\ (unsaid[s] => unsaid'[s]))
    BY <1>12, SayIs DEF PromoteRecord
  <2> QED
    BY <1>q, <2>1, <2>2, <2>3 DEF postgres
<1>13. CASE UnfenceCheck(s)
  <2>0. /\ UNCHANGED <<postgres, rec, unsaid, control, kept>> /\ job'[s].type = "unfence"
        /\ On(s, "unfence", {"queued"})
    BY <1>a, <1>13, GotoIs DEF UnfenceCheck, At, On, JobSteps
  <2>1. (Cand(s)' => Cand(s)) /\ ~On(s, "promote", {"catch"})'
    BY <2>0 DEF Cand, On, control, kept
  <2>2. CASE Goto(s, "failed")
    <3>1. job'[s].step = "failed"
      BY <1>a, <2>2, GotoIs DEF JobSteps
    <3>2. Took(s)' => Took(s)
      BY <2>0, <3>1 DEF Took, On, MayWrite, postgres
    <3> QED
      BY <1>q, <2>0, <2>1, <3>2 DEF postgres
  <2>3. CASE job[s].fence \in held[s] /\ lossy' = (lossy \/ follows[s] = "following" \/ Timeline(s) < Timeline(Other(s)))
    <3>1. job[s].fence \notin released[s]
      BY <1>0, <2>3 DEF NamesAt
    <3>2. st[s] = "fenced" /\ follows[s] # "following" /\ ~(Timeline(s) < Timeline(Other(s)))
      BY <1>0, <2>0, <2>3, <3>1 DEF StatusAt, Sane
    <3>3. Cand(s)
      BY <3>2 DEF Cand
    <3>4. HasAll(s) /\ (Cand(Other(s)) => Timeline(s) > Timeline(Other(s)))
      BY <1>n, <1>t, <3>2, <3>3 DEF DataAt
    <3>5. rec'.state = "stopped" /\ rec'.by = s /\ rec'.lsn > 0 /\ ~unsaid'[s]
            => Position(s) <= rec'.lsn \/ HasAll(Other(s))
      BY <1>t, <2>0, OtherIs DEF DataAt
    <3> QED
      BY <1>0, <1>b, <2>0, <2>1, <3>4, <3>5, DataKeep DEF postgres
  <2> QED
    BY <1>13, <2>2, <2>3 DEF UnfenceCheck
<1>14. CASE UnfenceRelease(s)
  <2>1. /\ UNCHANGED <<data, rec, control, follows>> /\ unsaid'[s] = TRUE
        /\ Took(s) /\ job'[s].type = "unfence"
    BY <1>a, <1>14, GotoIs DEF UnfenceRelease, At, Took, On, JobSteps, Domains, Set
  <2>2. ~On(s, "promote", {"catch"})'
    BY <2>1 DEF On
  <2> QED
    BY <1>q, <2>1, <2>2
<1>15. CASE UnfenceStart(s)
  <2>1. UNCHANGED <<data, rec, unsaid>>
    BY <1>15 DEF UnfenceStart, history, postgres
  <2>2. /\ Took(s)' => Took(s)
        /\ Cand(s)' => Cand(s) \/ Took(s)
        /\ On(s, "promote", {"catch"})' => On(s, "promote", {"catch"}) /\ job'[s].wait = job[s].wait
    BY <1>0, <1>a, <1>15, GotoIs DEF UnfenceStart, At, Started, NamesAt, Took, Cand, On,
         MayWrite, Domains, Set, JobSteps, postgres, control, kept
  <2> QED
    BY <1>q, <2>1, <2>2
<1>16. CASE UnfenceRecord(s)
  <2>1. UNCHANGED <<postgres, control>> /\ job'[s].type = "unfence" /\ job'[s].step = "ok"
    BY <1>a, <1>16, GotoIs DEF UnfenceRecord, At, JobSteps
  <2>2. Took(s) /\ (Cand(s)' => Cand(s) \/ Took(s)) /\ ~On(s, "promote", {"catch"})'
    BY <1>16, <2>1 DEF UnfenceRecord, At, Took, On
  <2>3. rec'.state # "stopped" \/ (rec' = rec /\ (unsaid[s] => unsaid'[s]))
    BY <1>16, SayIs DEF UnfenceRecord
  <2> QED
    BY <1>q, <2>1, <2>2, <2>3 DEF postgres
<1>17. CASE RebuildBegin(s)
  <2>1. UNCHANGED <<data, rec, unsaid>>
    BY <1>17 DEF RebuildBegin, history, postgres
  <2>2. /\ Took(s)' => Took(s)
        /\ Cand(s)' => Cand(s) \/ Took(s)
        /\ On(s, "promote", {"catch"})' => On(s, "promote", {"catch"}) /\ job'[s].wait = job[s].wait
    BY <1>0, <1>a, <1>17, GotoIs DEF RebuildBegin, At, NamesAt, Took, Cand, On, MayWrite,
         Domains, Set, JobSteps, postgres, control, kept
  <2> QED
    BY <1>q, <2>1, <2>2
<1>18. CASE RebuildSwap(s)
  <2>1. CASE Rebuilt(s)
    BY <1>0, <1>18, <2>1, DataRebuilt
  <2>2. CASE RolledBack(s) /\ UNCHANGED <<data, unsaid>>
    <3>1. /\ On(s, "rebuild", {"swap"}) /\ job'[s].type = "rebuild" /\ rec' = rec
          /\ ~MayWrite(s)'
      BY <1>a, <1>18, <2>2, GotoIs DEF RebuildSwap, At, On, JobSteps, RolledBack, Stopped,
           MayWrite, Domains, Set
    <3>2. ~Took(s)' /\ Cand(s) /\ ~On(s, "promote", {"catch"})'
      BY <1>0, <3>1 DEF Took, Cand, On, NamesAt
    <3> QED
      BY <1>q, <2>2, <3>1, <3>2
  <2> QED
    BY <1>18, <2>1, <2>2 DEF RebuildSwap
<1>19. CASE RemoveStandby(s)
  <2>1. UNCHANGED <<data, rec, unsaid>>
    BY <1>19 DEF RemoveStandby, history, postgres
  <2>2. /\ Took(s)' => Took(s)
        /\ Cand(s)' => Cand(s) \/ Took(s)
        /\ On(s, "promote", {"catch"})' => On(s, "promote", {"catch"}) /\ job'[s].wait = job[s].wait
    BY <1>0, <1>a, <1>19, GotoIs DEF RemoveStandby, At, Stopped, NamesAt, Took, Cand, On,
         MayWrite, Domains, Set, JobSteps, postgres, control, kept
  <2> QED
    BY <1>q, <2>1, <2>2
<1>20. CASE Report(s)
  <2>1. UNCHANGED <<data, rec, unsaid>>
    BY <1>20 DEF Report, history, postgres
  <2>2. /\ Took(s)' => Took(s)
        /\ Cand(s)' => Cand(s) \/ Took(s)
        /\ On(s, "promote", {"catch"})' => On(s, "promote", {"catch"}) /\ job'[s].wait = job[s].wait
    <3>1. job'[s].type = "none" /\ UNCHANGED <<postgres, kept>>
      BY <1>a, <1>20 DEF Report, NoJob, Domains, Set
    <3>2. st'[s] \in {"active", "fenced"} => \/ st[s] \in {"active", "fenced"} \/ On(s, "rebuild", {"failed"})
                                          \/ On(s, "promote", {"ok"}) \/ On(s, "unfence", {"ok"})
      BY <1>a, <1>20 DEF Report, AfterFailed, AfterOk, Forgotten, Domains, Set, On, control
    <3> QED
      BY <3>1, <3>2 DEF Took, Cand, On, MayWrite, postgres, kept
  <2> QED
    BY <1>q, <2>1, <2>2
<1>21. CASE LeaseEnds(s)
  <2>1. UNCHANGED <<data, rec, unsaid>>
    BY <1>21 DEF LeaseEnds, history, postgres
  <2>2. /\ Took(s)' => Took(s)
        /\ Cand(s)' => Cand(s) \/ Took(s)
        /\ On(s, "promote", {"catch"})' => On(s, "promote", {"catch"}) /\ job'[s].wait = job[s].wait
    BY <1>0, <1>a, <1>21 DEF LeaseEnds, NoJob, NamesAt, Took, Cand, On, MayWrite, Domains, Set,
         postgres, control, kept
  <2> QED
    BY <1>q, <2>1, <2>2
<1>22. CASE HoldFence(s)
  <2>1. UNCHANGED <<data, rec, unsaid>>
    BY <1>22 DEF HoldFence, history, postgres
  <2>2. /\ Took(s)' => Took(s)
        /\ Cand(s)' => Cand(s) \/ Took(s)
        /\ On(s, "promote", {"catch"})' => On(s, "promote", {"catch"}) /\ job'[s].wait = job[s].wait
    BY <1>0, <1>a, <1>22 DEF HoldFence, Stopped, NamesAt, Took, Cand, On, MayWrite, Domains,
         Set, postgres, control, kept
  <2> QED
    BY <1>q, <2>1, <2>2
<1>23. CASE Heartbeat(s)
  <2>1. UNCHANGED <<data, rec, unsaid>>
    BY <1>23 DEF Heartbeat, history, postgres
  <2>2. /\ Took(s)' => Took(s)
        /\ Cand(s)' => Cand(s) \/ Took(s)
        /\ On(s, "promote", {"catch"})' => On(s, "promote", {"catch"}) /\ job'[s].wait = job[s].wait
    <3>1. UNCHANGED <<postgres, job, kept>> /\ (st'[s] \in {"active", "fenced"} => st[s] \in {"active", "fenced"})
      BY <1>a, <1>23 DEF Heartbeat, TakenOver, Domains, Set
    <3> QED
      BY <3>1 DEF Took, Cand, On, MayWrite, postgres, kept
  <2> QED
    BY <1>q, <2>1, <2>2
<1>24. CASE Apply(s)
  <2>1. UNCHANGED <<data, rec, unsaid>>
    BY <1>24 DEF Apply, history, postgres
  <2>2. /\ Took(s)' => Took(s)
        /\ Cand(s)' => Cand(s) \/ Took(s)
        /\ On(s, "promote", {"catch"})' => On(s, "promote", {"catch"}) /\ job'[s].wait = job[s].wait
    BY <1>0, <1>a, <1>24 DEF Apply, NamesAt, Took, Cand, On, MayWrite, Domains, Set, postgres,
         control, kept
  <2> QED
    BY <1>q, <2>1, <2>2
<1>25. CASE AnswerLost(s)
  <2>1. UNCHANGED <<data, rec, unsaid>>
    BY <1>25 DEF AnswerLost, history, postgres
  <2>2. /\ Took(s)' => Took(s)
        /\ Cand(s)' => Cand(s) \/ Took(s)
        /\ On(s, "promote", {"catch"})' => On(s, "promote", {"catch"}) /\ job'[s].wait = job[s].wait
    BY <1>0, <1>a, <1>25 DEF AnswerLost, NamesAt, Took, Cand, On, MayWrite, Domains, Set,
         postgres, control, kept
  <2> QED
    BY <1>q, <2>1, <2>2
<1>26. CASE Die(s)
  <2>1. UNCHANGED <<data, rec, unsaid>>
    BY <1>26 DEF Die, history, postgres
  <2>2. /\ Took(s)' => Took(s)
        /\ Cand(s)' => Cand(s) \/ Took(s)
        /\ On(s, "promote", {"catch"})' => On(s, "promote", {"catch"}) /\ job'[s].wait = job[s].wait
    <3>1. job'[s].type = job[s].type /\ job'[s].step \in {job[s].step, "failed", "lost"} /\ UNCHANGED control
            /\ (job[s].step = "lost" => job'[s].step = "lost")
      BY <1>0, <1>26, DieIs DEF Die
    <3>2. MayWrite(s)' => MayWrite(s)
      BY <1>a, <1>26 DEF Die, RolledBack, Stopped, MayWrite, Domains, Set
    <3>3. follows'[s] # "following" => follows[s] # "following"
      BY <1>a, <1>26 DEF Die, RolledBack, Domains, Set
    <3>4. job'[s].step = job[s].step => job'[s].wait = job[s].wait
      BY <1>a, <1>26, GotoIs DEF Die, JobSteps
    <3> QED
      BY <3>1, <3>2, <3>3, <3>4 DEF Took, Cand, On, control
  <2> QED
    BY <1>q, <2>1, <2>2
<1>27. CASE StopsByItself(s)
  <2>1. UNCHANGED <<data, rec, unsaid>>
    BY <1>27 DEF StopsByItself, history, postgres
  <2>2. /\ Took(s)' => Took(s)
        /\ Cand(s)' => Cand(s) \/ Took(s)
        /\ On(s, "promote", {"catch"})' => On(s, "promote", {"catch"}) /\ job'[s].wait = job[s].wait
    BY <1>0, <1>a, <1>27 DEF StopsByItself, NamesAt, Took, Cand, On, MayWrite, Domains, Set,
         postgres, control, kept
  <2> QED
    BY <1>q, <2>1, <2>2
<1>28. CASE StartByOther(s)
  <2>1. UNCHANGED <<data, rec, unsaid>>
    BY <1>28 DEF StartByOther, history, postgres
  <2>2. /\ Took(s)' => Took(s)
        /\ Cand(s)' => Cand(s) \/ Took(s)
        /\ On(s, "promote", {"catch"})' => On(s, "promote", {"catch"}) /\ job'[s].wait = job[s].wait
    BY <1>0, <1>a, <1>28 DEF StartByOther, Started, NamesAt, Took, Cand, On, MayWrite, Domains,
         Set, postgres, control, kept
  <2> QED
    BY <1>q, <2>1, <2>2
<1>29. CASE Write(s)
  BY <1>0, <1>29, DataWrite
<1>30. CASE Replay(s)
  BY <1>0, <1>30, DataReplay
<1> QED
  BY <1>1, <1>2, <1>3, <1>4, <1>5, <1>6, <1>7, <1>8, <1>9, <1>10, <1>11, <1>12, <1>13, <1>14,
       <1>15, <1>16, <1>17, <1>18, <1>19, <1>20, <1>21, <1>22, <1>23, <1>24, <1>25, <1>26,
       <1>27, <1>28, <1>29, <1>30 DEF Step, Ask, TaskStep, Work, Beat, World

(* The three initial pairs have it.                                        *)
LEMMA DataInit ==
  ASSUME Init
  PROVE  DataInv
<1>0. TypeOK /\ "a" \in Servers /\ "b" \in Servers /\ Other("a") = "b" /\ Other("b") = "a"
  BY WriterInit DEF WriterInv, Servers, Other
<1>1. forced = FALSE /\ \A s \in Servers : job[s].type = "none"
  BY DEF Init, NoJob
<1>w. <<"w">> \in Seq(Changes) /\ Len(<<"w">>) = 1 /\ "w" \in Changes /\ "b" \in Changes
  BY DEF Changes, Servers
<1>2. CASE Following
  <2>1. HasAll("a") /\ HasAll("b") /\ ~MayWrite("b") /\ ~Cand("b") /\ rec.state = "none"
    BY <1>0, <1>1, <1>2, <1>w, PrefixItself DEF Following, HasAll, MayWrite, Cand, NoRecord
  <2>2. DataAt("a") /\ DataAt("b")
    BY <1>0, <1>1, <2>1 DEF DataAt, Took, On
  <2> QED
    BY <1>1, <2>1, <2>2 DEF Data, DataInv, Servers
<1>3. CASE StoppedForIt
  <2>1. PICK n \in {0, 1} : data = [a |-> <<"w">>, b |-> SubSeq(<<"w">>, 1, n)]
    BY <1>3 DEF StoppedForIt
  <2>2. HasAll("a")
    <3>1. n \in 0..Len(<<"w">>)
      BY <1>w
    <3>2. IsPrefix(SubSeq(<<"w">>, 1, n), <<"w">>)
      BY <1>w, <3>1, PrefixSubSeq
    <3>3. data["a"] = <<"w">> /\ data["b"] = SubSeq(<<"w">>, 1, n)
      BY <2>1
    <3> QED
      BY <1>0, <3>2, <3>3 DEF HasAll
  <2>3. ~MayWrite("a") /\ ~MayWrite("b") /\ ~Cand("b") /\ rec.by = "a" /\ rec.lsn = 1 /\ Position("a") = 1
    BY <1>0, <1>1, <1>3, <1>w, <2>1 DEF StoppedForIt, MayWrite, Cand, Position
  <2>4. DataAt("a") /\ DataAt("b")
    BY <1>0, <1>1, <2>2, <2>3 DEF DataAt, Took, On
  <2> QED
    BY <1>1, <2>2, <2>3, <2>4 DEF Data, DataInv, Servers
<1>4. CASE SwitchedOver
  <2>1. data["a"] = <<"w">> /\ data["b"] = Append(<<"w">>, "b")
    BY <1>4 DEF SwitchedOver
  <2>2. HasAll("b")
    BY <1>0, <1>w, <2>1, PrefixItself, PrefixAppend DEF HasAll
  <2>3. Timeline("b") > Timeline("a") /\ Timeline("b") # Timeline("a")
    <3>1. Cardinality(Promotions(data["b"])) = Cardinality(Promotions(data["a"])) + 1
      BY <1>0, <1>w, <2>1, CountAppend
    <3>2. Cardinality(Promotions(data["a"])) \in Nat
      BY <1>w, <2>1, CountNat
    <3> QED
      BY <3>1, <3>2 DEF Timeline
  <2>4. ~MayWrite("a") /\ rec.state = "primary"
    BY <1>4 DEF SwitchedOver, MayWrite
  <2>5. DataAt("a") /\ DataAt("b")
    BY <1>0, <1>1, <2>2, <2>3, <2>4 DEF DataAt, Took, On
  <2> QED
    BY <1>1, <2>2, <2>3, <2>5 DEF Data, DataInv, Servers
<1> QED
  BY <1>2, <1>3, <1>4 DEF Init

(* Every step keeps it.                                                    *)
LEMMA DataNext ==
  ASSUME WriterInv, DataInv, [Next]_vars
  PROVE  DataInv'
<1>1. CASE UNCHANGED vars
  BY <1>1 DEF DataInv, Sane, Data, DataAt, HasAll, Took, Cand, On, MayWrite, Timeline, Position,
       vars, postgres, control, kept, history
<1>2. CASE Next
  <2>1. PICK s \in Servers : Step(s)
    BY <1>2 DEF Next, Step
  <2>2. (Sane' => Sane) /\ (forced' => lossy')
    BY <2>1, SaneBefore DEF WriterInv, DataInv
  <2>3. ASSUME Sane'  PROVE Data'
    <3>1. Good /\ Data
      BY <2>2, <2>3 DEF DataInv, Sane, Good
    <3> QED
      BY <2>1, <2>3, <3>1, DataStep
  <2> QED
    BY <2>2, <2>3 DEF DataInv
<1> QED
  BY <1>1, <1>2

(* The copy that takes writes has everything the other one has, through    *)
(* switchovers, unfences and rebuilds back and forth, unless one of them   *)
(* decided without the last position, in the dark or by mistake            *)
(* (standby_promote.go:18).                                                *)
THEOREM NothingIsLost == Spec => []NothingLost
<1>1. Init => WriterInv /\ DataInv
  BY WriterInit, DataInit
<1>2. WriterInv /\ DataInv /\ [Next]_vars => WriterInv' /\ DataInv'
  BY WriterStep, DataNext
<1>3. WriterInv /\ DataInv => NothingLost
  BY DEF DataInv, Sane, Data, DataAt, HasAll, Took, MayWrite, NothingLost
<1> QED
  BY <1>1, <1>2, <1>3, PTL DEF Spec
=============================================================================
