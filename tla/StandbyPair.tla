---------------------------- MODULE StandbyPair ----------------------------
(***************************************************************************)
(* A primary and its standby on two servers without an account.  Each      *)
(* server has its own control plane (internal/localcp/standby.go) and its  *)
(* own agent (internal/agent/standby*.go); the two share a bucket and      *)
(* nothing else.  A record in the bucket says that the primary stopped for *)
(* a switchover, or which server was promoted.                             *)
(*                                                                         *)
(* People ask either control plane to fence, promote, unfence, rebuild,    *)
(* remove or forget.  The agent runs each task in several steps, beside    *)
(* its heartbeats (a snapshot, the control plane's handling, an answer     *)
(* that may be old when it is applied) and the loop that holds fences and  *)
(* reads the record.  PostgreSQL may be stopped and started by others, a   *)
(* call may fail and an agent may die at any point.                        *)
(***************************************************************************)
EXTENDS Naturals, Sequences, FiniteSets, SequencesExt

CONSTANTS
  MaxAsks,     \* bound: requests people make
  MaxFaults,   \* bound: failed calls, dead agents, PostgreSQL dying or started by others
  MaxWrites    \* bound: changes committed

ASSUME StandbyPairAssumption ==
  MaxAsks \in Nat /\ MaxFaults \in Nat /\ MaxWrites \in Nat

Servers == {"a", "b"}
Other(s) == IF s = "a" THEN "b" ELSE "a"

Statuses == {"active", "standby", "fenced", "gone"}

VARIABLES
  pg,        \* PostgreSQL: "off", "ro" (in recovery) or "rw"
  signal,    \* standby.signal is in the data directory
  clean,     \* it is off and was shut down cleanly
  data,      \* its changes in WAL order: "w" a commit, a server's name where that one was promoted
  rec,       \* the pair's record in the bucket
  st,        \* control plane: the database's status
  fences,    \* control plane: its fences, oldest first by ID
  ids,       \* control plane: how many fences it made (their IDs are never used again)
  seen,      \* control plane: what the record said of the other server when last reported
  up,        \* control plane: the standby was last reported running in recovery
  job,       \* the open standby task and how far the agent is with it
  held,      \* agent, on disk: fences it holds
  released,  \* agent, on disk: fences that never come back
  follows,   \* agent, on disk: its standby record's phase
  hb,        \* the heartbeat answer under way
  unsaid,    \* history: took writes, promoted or unfenced, and has not said so in the bucket
  gap,       \* history: the other server decided to take them in that time
  forced,    \* history: promoted without a stopped primary
  lossy,     \* history: promoted without the primary's last position, or unfenced a copy that is behind or a standby
  mistaken,  \* history: the control plane called a fenced copy the primary, and it was not
  asks, faults

postgres == <<pg, signal, clean, data>>
control == <<st, fences, ids, seen, up>>
kept == <<held, released, follows>>
history == <<unsaid, gap, forced, lossy, mistaken>>
vars == <<postgres, rec, control, job, kept, hb, history, asks, faults>>

NoRecord == [state |-> "none", by |-> "none", tl |-> 0, lsn |-> 0]
NoJob == [type |-> "none", step |-> "none", fence |-> 0, down |-> FALSE, wait |-> 0]
Idle == {0}    \* no answer under way: no fence has the ID 0

Promotions(d) == {i \in DOMAIN d : d[i] # "w"}
Timeline(s) == 1 + Cardinality(Promotions(data[s]))
Position(s) == Len(data[s])

Fences == [id : Nat, reason : {"switchover", "superseded"}, failed : BOOLEAN]

JobSteps == {"none", "queued", "stop", "record", "catch", "release", "start", "swap", "ok", "failed", "lost"}
Jobs == [type : {"none", "fence", "promote", "unfence", "rebuild", "remove"}, step : JobSteps,
         fence : Nat, down : BOOLEAN, wait : Nat]

PostgresOK ==
  /\ pg \in [Servers -> {"off", "ro", "rw"}]
  /\ signal \in [Servers -> BOOLEAN] /\ clean \in [Servers -> BOOLEAN]
  /\ data \in [Servers -> Seq(Servers \cup {"w"})]

RecordOK ==
  /\ rec \in [state : {"none", "stopped", "primary"}, by : Servers \cup {"none"}, tl : Nat, lsn : Nat]
  /\ rec.state # "none" => rec.by \in Servers

ControlOK ==
  /\ st \in [Servers -> Statuses] /\ up \in [Servers -> BOOLEAN]
  /\ fences \in [Servers -> SUBSET Fences] /\ ids \in [Servers -> Nat]
  /\ seen \in [Servers -> {"none", "stopped", "primary"}]

AgentOK ==
  /\ job \in [Servers -> Jobs]
  /\ held \in [Servers -> SUBSET Nat] /\ released \in [Servers -> SUBSET Nat]
  /\ follows \in [Servers -> {"none", "creating", "following"}]
  /\ hb \in [Servers -> SUBSET Nat]

HistoryOK ==
  /\ unsaid \in [Servers -> BOOLEAN]
  /\ gap \in BOOLEAN /\ forced \in BOOLEAN /\ lossy \in BOOLEAN /\ mistaken \in BOOLEAN

TypeOK ==
  /\ PostgresOK /\ RecordOK /\ ControlOK /\ AgentOK /\ HistoryOK
  /\ asks \in 0 .. MaxAsks /\ faults \in 0 .. MaxFaults

(* What a pair is like before anybody asks: the standby follows, the       *)
(* primary stopped for a switchover, or the standby took over from it.     *)
Following ==
  /\ pg = [a |-> "rw", b |-> "ro"]
  /\ signal = [a |-> FALSE, b |-> TRUE] /\ clean = [s \in Servers |-> FALSE]
  /\ data = [s \in Servers |-> <<"w">>]
  /\ rec = NoRecord
  /\ st = [a |-> "active", b |-> "standby"]
  /\ follows = [a |-> "none", b |-> "following"]

StoppedForIt ==
  /\ pg = [a |-> "off", b |-> "ro"]
  /\ signal = [s \in Servers |-> TRUE] /\ clean = [a |-> TRUE, b |-> FALSE]
  /\ \E n \in {0, 1} : data = [a |-> <<"w">>, b |-> SubSeq(<<"w">>, 1, n)]
  /\ rec = [state |-> "stopped", by |-> "a", tl |-> 1, lsn |-> 1]
  /\ st = [a |-> "fenced", b |-> "standby"]
  /\ follows = [a |-> "none", b |-> "following"]

SwitchedOver ==
  /\ pg = [a |-> "off", b |-> "rw"]
  /\ signal = [a |-> TRUE, b |-> FALSE] /\ clean = [a |-> TRUE, b |-> FALSE]
  /\ data = [a |-> <<"w">>, b |-> <<"w", "b">>]
  /\ rec = [state |-> "primary", by |-> "b", tl |-> 2, lsn |-> 1]
  /\ st = [a |-> "fenced", b |-> "active"]
  /\ follows = [s \in Servers |-> "none"]

Init ==
  /\ Following \/ StoppedForIt \/ SwitchedOver
  /\ \E failed \in BOOLEAN :    \* its agent may have died once it had stopped
       fences = [s \in Servers |-> IF st[s] = "fenced" THEN {[id |-> 1, reason |-> "switchover", failed |-> failed]} ELSE {}]
  /\ ids = [s \in Servers |-> IF st[s] = "fenced" THEN 1 ELSE 0]
  /\ held = [s \in Servers |-> IF st[s] = "fenced" THEN {1} ELSE {}] /\ released = [s \in Servers |-> {}]
  /\ seen = [s \in Servers |-> "none"]
  /\ up = [s \in Servers |-> st[s] = "standby"]
  /\ job = [s \in Servers |-> NoJob]
  /\ hb = [s \in Servers |-> Idle]
  /\ unsaid = [s \in Servers |-> FALSE]
  /\ gap = FALSE /\ forced = FALSE /\ lossy = FALSE /\ mistaken = FALSE
  /\ asks = 0 /\ faults = 0

Set(f, s, v) == [f EXCEPT ![s] = v]

(* One more thing goes wrong.                                              *)
Fault == faults < MaxFaults /\ faults' = faults + 1

-----------------------------------------------------------------------------
(* What people ask a control plane.  A server has one open standby task at *)
(* a time (enqueueStandby).                                                *)

Enqueue(s, type, id, down) ==
  /\ job[s] = NoJob /\ asks < MaxAsks
  /\ job' = Set(job, s, [type |-> type, step |-> "queued", fence |-> id, down |-> down, wait |-> 0])
  /\ asks' = asks + 1
  /\ UNCHANGED <<postgres, rec, kept, hb, history, faults>>

NewFence(s, why) == [id |-> ids[s] + 1, reason |-> why, failed |-> FALSE]

AskFence(s) ==
  /\ st[s] = "active"
  /\ Enqueue(s, "fence", ids[s] + 1, FALSE)
  /\ fences' = Set(fences, s, fences[s] \cup {NewFence(s, "switchover")})
  /\ ids' = Set(ids, s, ids[s] + 1)
  /\ st' = Set(st, s, "fenced")
  /\ UNCHANGED <<seen, up>>

(* fenceOf: the first of the database's fences.                            *)
IsFenceOf(s, f) == f \in fences[s] /\ \A g \in fences[s] : f.id <= g.id

(* The record, as last reported.                                           *)
PrimaryStopped(s) == seen[s] = "stopped"
PromotedElsewhere(s) == seen[s] = "primary"

(* Without a stopped primary a person confirms that it is down.            *)
AskPromote(s, down) ==
  /\ st[s] = "standby" /\ up[s]
  /\ PrimaryStopped(s) \/ down
  /\ Enqueue(s, "promote", 0, down)
  /\ UNCHANGED control

AskUnfence(s) ==
  /\ st[s] = "fenced" /\ ~PromotedElsewhere(s)
  /\ \E f \in fences[s] :
       IsFenceOf(s, f) /\ f.reason # "superseded" /\ Enqueue(s, "unfence", f.id, FALSE)
  /\ UNCHANGED control

AskRebuild(s) ==
  /\ st[s] = "fenced"
  /\ \E f \in fences[s] : IsFenceOf(s, f) /\ Enqueue(s, "rebuild", f.id, FALSE)
  /\ st' = Set(st, s, "standby")
  /\ up' = Set(up, s, FALSE)
  /\ UNCHANGED <<fences, ids, seen>>

AskRemove(s) ==
  /\ st[s] = "standby"
  /\ Enqueue(s, "remove", 0, FALSE)
  /\ UNCHANGED control

(* forget: the database leaves this server, and its fences with it.        *)
Forgotten(s) ==
  /\ st' = Set(st, s, "gone")
  /\ fences' = Set(fences, s, {})
  /\ seen' = Set(seen, s, "none")
  /\ up' = Set(up, s, FALSE)
  /\ UNCHANGED ids

AskForget(s) ==
  /\ st[s] = "fenced" /\ job[s] = NoJob
  /\ asks < MaxAsks /\ asks' = asks + 1
  /\ Forgotten(s)
  /\ UNCHANGED <<postgres, rec, job, kept, hb, history, faults>>

Ask(s) ==
  \/ AskFence(s)
  \/ \E down \in BOOLEAN : AskPromote(s, down)
  \/ AskUnfence(s)
  \/ AskRebuild(s)
  \/ AskRemove(s)
  \/ AskForget(s)

-----------------------------------------------------------------------------
(* The agent's tasks.                                                      *)

At(s, type, step) == job[s].type = type /\ job[s].step = step
Goto(s, step) == job' = [job EXCEPT ![s].step = step]

Hold(s, id) == held' = Set(held, s, (held[s] \cup {id}) \ released[s])
Release(s, id) ==
  /\ held' = Set(held, s, held[s] \ {id})
  /\ released' = Set(released, s, released[s] \cup {id})

Stopped(s) == pg' = Set(pg, s, "off") /\ clean' = Set(clean, s, IF pg[s] = "off" THEN clean[s] ELSE TRUE)

(* PostgreSQL started by whoever: read-only when standby.signal is there.  *)
Started(s) ==
  /\ pg' = Set(pg, s, IF signal[s] THEN "ro" ELSE "rw")
  /\ clean' = Set(clean, s, FALSE)

(* The bucket takes the record, or writing it fails.                       *)
Say(s, state, lsn) ==
  /\ rec' = [state |-> state, by |-> s, tl |-> Timeline(s), lsn |-> lsn]
  /\ unsaid' = Set(unsaid, s, FALSE)
  /\ UNCHANGED faults

(* As FenceHold, but standby.signal is not written.                        *)
FenceHold_unsigned(s) ==
  /\ At(s, "fence", "queued")
  /\ Hold(s, job[s].fence)
  /\ Goto(s, "stop")
  /\ UNCHANGED <<postgres, rec, control, released, follows, hb, history, asks, faults>>

(* addFence, then standby.signal: from here the agent holds the fence.     *)
FenceHold(s) ==
  /\ At(s, "fence", "queued")
  /\ Hold(s, job[s].fence)
  /\ signal' = Set(signal, s, TRUE)
  /\ Goto(s, "stop")
  /\ UNCHANGED <<pg, clean, data, rec, control, released, follows, hb, history, asks, faults>>

(* Stopping fails: a primary that still runs keeps running, the fence is   *)
(* undone; otherwise the fence stays.                                      *)
FenceStop(s) ==
  /\ At(s, "fence", "stop")
  /\ \/ /\ Stopped(s) /\ Goto(s, "record")
        /\ UNCHANGED <<signal, held, released, faults>>
     \/ /\ pg[s] = "rw" /\ Fault
        /\ signal' = Set(signal, s, FALSE)
        /\ Release(s, job[s].fence)
        /\ Goto(s, "failed")
        /\ UNCHANGED <<pg, clean>>
     \/ /\ pg[s] # "off" /\ Fault
        /\ Stopped(s) /\ Goto(s, "failed")    \* it stopped, after the wait
        /\ UNCHANGED <<signal, held, released>>
  /\ UNCHANGED <<data, rec, control, follows, hb, history, asks>>

(* The last position is known of a clean shutdown only (0: not known).     *)
FenceRecord(s) ==
  /\ At(s, "fence", "record")
  /\ \/ Say(s, "stopped", IF clean[s] THEN Position(s) ELSE 0)
     \/ Fault /\ UNCHANGED <<rec, unsaid>>
  /\ Goto(s, "ok")
  /\ UNCHANGED <<postgres, control, kept, hb, gap, forced, lossy, mistaken, asks>>

(* It is about to take writes, or took them and has not said so.           *)
Deciding(s) == unsaid[s] \/ job[s].step \in {"catch", "release"}

(* Going on with a promotion or an unfence, from what the record says.     *)
Decides(s) == gap' = (gap \/ Deciding(Other(s)))

(* It may be taking writes: it is the primary, or would start as one.      *)
MayWrite(s) == pg[s] = "rw" \/ ~signal[s]

StoppedElsewhere(s) == rec.state = "stopped" /\ rec.by # s

PromoteRefused(s) ==
  /\ \/ follows[s] # "following"
     \/ pg[s] = "off"
     \/ pg[s] = "ro" /\ ~StoppedElsewhere(s) /\ ~job[s].down
  /\ Goto(s, "failed")
  /\ UNCHANGED <<follows, gap, forced, lossy>>

(* The standby already takes writes (a task tried again).                  *)
PromoteAlready(s) ==
  /\ follows[s] = "following" /\ pg[s] = "rw"
  /\ follows' = Set(follows, s, "none")
  /\ Goto(s, "ok")
  /\ UNCHANGED <<gap, forced, lossy>>

PromoteGoesOn(s) ==
  /\ follows[s] = "following" /\ pg[s] = "ro"
  /\ StoppedElsewhere(s) \/ job[s].down
  /\ LET wait == IF StoppedElsewhere(s) THEN rec.lsn ELSE 0
     IN  /\ job' = [job EXCEPT ![s].step = "catch", ![s].wait = wait]
         /\ lossy' = (lossy \/ wait = 0)
  /\ forced' = (forced \/ ~StoppedElsewhere(s))
  /\ Decides(s)
  /\ UNCHANGED follows

PromoteCheck(s) ==
  /\ At(s, "promote", "queued")
  /\ PromoteRefused(s) \/ PromoteAlready(s) \/ PromoteGoesOn(s)
  /\ UNCHANGED <<postgres, rec, control, held, released, hb, unsaid, mistaken, asks, faults>>

(* As CaughtUp, but the last change may be missing.                        *)
CaughtUp_short(s) == Position(s) + 1 >= job[s].wait

(* Without a position to wait for, what was received is replayed.          *)
CaughtUp(s) == Position(s) >= job[s].wait

(* The position it had replayed is what the record will say (SwitchLSN).   *)
Promoted(s, step) ==
  /\ job' = [job EXCEPT ![s].step = step, ![s].wait = Position(s)]
  /\ pg' = Set(pg, s, "rw")
  /\ signal' = Set(signal, s, FALSE)
  /\ data' = Set(data, s, Append(data[s], s))
  /\ unsaid' = Set(unsaid, s, TRUE)

NotPromoted(s) == Goto(s, "failed") /\ UNCHANGED <<pg, signal, data, unsaid>>

PromoteTake(s) ==
  /\ At(s, "promote", "catch")
  /\ \/ pg[s] = "ro" /\ CaughtUp(s) /\ Promoted(s, "record") /\ UNCHANGED faults
     \/ pg[s] = "ro" /\ CaughtUp(s) /\ Fault /\ Promoted(s, "failed")
     \/ pg[s] = "ro" /\ CaughtUp(s) /\ Fault /\ NotPromoted(s)
     \/ /\ pg[s] = "off" \/ ~CaughtUp(s)    \* not answering, or the wait ran out
        /\ NotPromoted(s) /\ UNCHANGED faults
  /\ UNCHANGED <<clean, rec, control, kept, hb, gap, forced, lossy, mistaken, asks>>

PromoteRecord(s) ==
  /\ At(s, "promote", "record")
  /\ \/ Say(s, "primary", job[s].wait)
     \/ Fault /\ UNCHANGED <<rec, unsaid>>
  /\ follows' = Set(follows, s, "none")
  /\ Goto(s, "ok")
  /\ UNCHANGED <<postgres, control, held, released, hb, gap, forced, lossy, mistaken, asks>>

(* As UnfenceCheck, but the record is not read.                            *)
UnfenceCheck_blind(s) ==
  /\ At(s, "unfence", "queued")
  /\ IF job[s].fence \in held[s]
     THEN /\ Goto(s, "release") /\ Decides(s)
          /\ lossy' = (lossy \/ follows[s] = "following" \/ Timeline(s) < Timeline(Other(s)))
     ELSE Goto(s, "failed") /\ UNCHANGED <<gap, lossy>>
  /\ UNCHANGED <<postgres, rec, control, kept, hb, unsaid, forced, mistaken, asks, faults>>

(* Never again once another server was promoted: the record says which one *)
(* is the primary now.                                                     *)
UnfenceCheck(s) ==
  /\ At(s, "unfence", "queued")
  /\ IF job[s].fence \in held[s] /\ ~(rec.state = "primary" /\ rec.by # s)
     THEN /\ Goto(s, "release") /\ Decides(s)
          /\ lossy' = (lossy \/ follows[s] = "following" \/ Timeline(s) < Timeline(Other(s)))
     ELSE Goto(s, "failed") /\ UNCHANGED <<gap, lossy>>
  /\ UNCHANGED <<postgres, rec, control, kept, hb, unsaid, forced, mistaken, asks, faults>>

UnfenceRelease(s) ==
  /\ At(s, "unfence", "release")
  /\ Release(s, job[s].fence)
  /\ signal' = Set(signal, s, FALSE)
  /\ unsaid' = Set(unsaid, s, TRUE)
  /\ Goto(s, "start")
  /\ UNCHANGED <<pg, clean, data, rec, control, follows, hb, gap, forced, lossy, mistaken, asks, faults>>

UnfenceStart(s) ==
  /\ At(s, "unfence", "start")
  /\ \/ pg[s] = "off" /\ Started(s) /\ Goto(s, "record") /\ UNCHANGED faults
     \/ pg[s] # "off" /\ Goto(s, "record") /\ UNCHANGED <<pg, clean, faults>>
     \/ pg[s] = "off" /\ Fault /\ Goto(s, "failed") /\ UNCHANGED <<pg, clean>>
  /\ UNCHANGED <<signal, data, rec, control, kept, hb, history, asks>>

UnfenceRecord(s) ==
  /\ At(s, "unfence", "record")
  /\ \/ pg[s] # "off" /\ Say(s, "primary", 0)
     \/ pg[s] = "off" /\ UNCHANGED <<rec, unsaid, faults>>
     \/ Fault /\ UNCHANGED <<rec, unsaid>>
  /\ Goto(s, "ok")
  /\ UNCHANGED <<postgres, control, kept, hb, gap, forced, lossy, mistaken, asks>>

(* The old primary becomes a standby: its own data when it ended before    *)
(* the new primary took over, else a restore from the bucket.              *)
RebuildBegin(s) ==
  /\ At(s, "rebuild", "queued")
  /\ \/ /\ follows[s] = "following"    \* "already running here": the fence stays
        /\ Goto(s, "ok") /\ UNCHANGED <<follows, faults>>
     \/ /\ follows[s] # "following"
        /\ follows' = Set(follows, s, "creating") /\ Goto(s, "swap")
        /\ UNCHANGED faults
     \/ Fault /\ Goto(s, "failed") /\ UNCHANGED follows
  /\ UNCHANGED <<postgres, rec, control, held, released, hb, history, asks>>

CanReattach(s) ==
  /\ clean[s]
  /\ rec.state = "primary" /\ rec.by # s /\ Position(s) <= rec.lsn

Common == LongestCommonPrefix({data["a"], data["b"]})

Rebuilt(s) ==
  /\ signal' = Set(signal, s, TRUE)
  /\ pg' = Set(pg, s, "ro") /\ clean' = Set(clean, s, FALSE)
  /\ data' = Set(data, s, IF CanReattach(s) THEN data[s] ELSE Common)
  /\ follows' = Set(follows, s, "following")
  /\ Release(s, job[s].fence)
  /\ unsaid' = Set(unsaid, s, FALSE)

(* rollbackStandby: stopped as before, read-only if started.               *)
RolledBack(s) ==
  /\ signal' = Set(signal, s, TRUE)
  /\ Stopped(s)
  /\ follows' = Set(follows, s, "none")

RebuildSwap(s) ==
  /\ At(s, "rebuild", "swap")
  /\ \/ Rebuilt(s) /\ Goto(s, "ok") /\ UNCHANGED faults
     \/ /\ RolledBack(s) /\ Goto(s, "failed") /\ Fault
        /\ UNCHANGED <<data, held, released, unsaid>>
  /\ UNCHANGED <<rec, control, hb, gap, forced, lossy, mistaken, asks>>

(* A copy promoted meanwhile is left running.                              *)
RemoveStandby(s) ==
  /\ At(s, "remove", "queued")
  /\ IF follows[s] # "none" /\ pg[s] # "rw"
     THEN Stopped(s)
     ELSE UNCHANGED <<pg, clean>>
  /\ follows' = Set(follows, s, "none")
  /\ Goto(s, IF follows[s] # "none" /\ pg[s] = "rw" THEN "failed" ELSE "ok")
  /\ UNCHANGED <<signal, data, rec, control, held, released, hb, history, asks, faults>>

Work(s) ==
  \/ FenceHold(s) \/ FenceStop(s) \/ FenceRecord(s)
  \/ PromoteCheck(s) \/ PromoteTake(s) \/ PromoteRecord(s)
  \/ UnfenceCheck(s) \/ UnfenceRelease(s) \/ UnfenceStart(s) \/ UnfenceRecord(s)
  \/ RebuildBegin(s) \/ RebuildSwap(s)
  \/ RemoveStandby(s)

-----------------------------------------------------------------------------
(* The control plane hears of the outcome (afterStandby).                  *)

AfterFailed(s) ==
  /\ job[s].step = "failed"
  /\ fences' = IF job[s].type = "fence"
               THEN Set(fences, s, {[f EXCEPT !.failed = @ \/ f.id = job[s].fence] : f \in fences[s]})
               ELSE fences
  /\ st' = IF job[s].type = "rebuild" /\ fences[s] # {} THEN Set(st, s, "fenced") ELSE st
  /\ UNCHANGED <<ids, seen, up>>

(* The task's fence is over.                                               *)
DropFence(s) == fences' = Set(fences, s, {f \in fences[s] : f.id # job[s].fence})

AfterOk(s) ==
  /\ job[s].step = "ok"
  /\ \/ job[s].type = "fence" /\ UNCHANGED control
     \/ /\ job[s].type = "promote"
        /\ st' = Set(st, s, "active") /\ up' = Set(up, s, FALSE)
        /\ UNCHANGED <<fences, ids, seen>>
     \/ /\ job[s].type = "unfence"
        /\ st' = Set(st, s, "active") /\ DropFence(s)
        /\ UNCHANGED <<ids, seen, up>>
     \/ job[s].type = "rebuild" /\ DropFence(s) /\ UNCHANGED <<st, ids, seen, up>>
     \/ job[s].type = "remove" /\ Forgotten(s)

Report(s) ==
  /\ AfterFailed(s) \/ AfterOk(s)
  /\ job' = Set(job, s, NoJob)
  /\ UNCHANGED <<postgres, rec, kept, hb, history, asks, faults>>

(* reap: nothing follows a lost task.                                      *)
LeaseEnds(s) ==
  /\ job[s].step = "lost"
  /\ job' = Set(job, s, NoJob)
  /\ UNCHANGED <<postgres, rec, control, kept, hb, history, asks, faults>>

-----------------------------------------------------------------------------
(* standbyLoop: fences and the record.                                     *)

(* holdFence; a rebuild owns the cluster.                                  *)
HoldFence(s) ==
  /\ held[s] # {} /\ follows[s] = "none"
  /\ pg[s] # "off" \/ ~signal[s]
  /\ signal' = Set(signal, s, TRUE)
  /\ \/ Stopped(s) /\ UNCHANGED faults
     \/ pg[s] # "off" /\ Fault /\ UNCHANGED <<pg, clean>>
  /\ UNCHANGED <<data, rec, control, job, kept, hb, history, asks>>

Superseded(s) ==
  /\ rec.state = "primary" /\ rec.by # s
  /\ rec.tl > Timeline(s)

-----------------------------------------------------------------------------
(* Heartbeats.                                                             *)

(* checkRecords reads the record of a database the control plane watches.  *)
Elsewhere(s) ==
  CASE st[s] \notin {"active", "standby"} -> seen[s]
    [] rec.by = s -> "none"
    [] OTHER -> rec.state

(* Fences whose task failed and that the agent does not hold: "undone".    *)
Undone(s) == {f \in fences[s] : f.failed /\ f.id \notin held[s]}

(* They were: the agent gave them up while the copy was the primary, and   *)
(* no other fence of it stands.                                            *)
ReallyUndone(s) ==
  /\ \A f \in Undone(s) : f.id \in released[s]
  /\ Undone(s) = fences[s] /\ MayWrite(s)

(* The record says another server was promoted after this primary.         *)
TakenOver(s, left) == left = {} /\ st[s] = "active" /\ pg[s] = "rw" /\ Superseded(s)

(* A heartbeat reaches the control plane (recordStandby), which answers    *)
(* with the fences to hold (standbyInstructions).                          *)
Heartbeat(s) ==
  /\ hb[s] = Idle
  /\ LET called == st[s] = "fenced" /\ Undone(s) # {}    \* called active again
         left == fences[s] \ Undone(s)
         over == TakenOver(s, left)
         now == left \cup IF over THEN {NewFence(s, "superseded")} ELSE {}
     IN  /\ st' = Set(st, s, IF called THEN "active" ELSE IF over THEN "fenced" ELSE st[s])
         /\ fences' = Set(fences, s, now)
         /\ ids' = Set(ids, s, IF over THEN ids[s] + 1 ELSE ids[s])
         /\ hb' = Set(hb, s, {f.id : f \in now})
         /\ mistaken' = (mistaken \/ (called /\ ~ReallyUndone(s)))
  /\ seen' = Set(seen, s, Elsewhere(s))
  /\ up' = Set(up, s, st[s] = "standby" /\ follows[s] = "following" /\ pg[s] = "ro")
  /\ UNCHANGED <<postgres, rec, job, kept, unsaid, gap, forced, lossy, asks, faults>>

(* As Apply, but a fence the agent does not have yet is not added.         *)
Apply_drops(s) ==
  /\ hb[s] # Idle
  /\ held' = Set(held, s, held[s] \cap hb[s])
  /\ hb' = Set(hb, s, Idle)
  /\ UNCHANGED <<postgres, rec, control, job, released, follows, history, asks, faults>>

(* setFences.                                                              *)
Apply(s) ==
  /\ hb[s] # Idle
  /\ held' = Set(held, s, hb[s] \ released[s])
  /\ hb' = Set(hb, s, Idle)
  /\ UNCHANGED <<postgres, rec, control, job, released, follows, history, asks, faults>>

(* The task, from its claim to its end.                                    *)
TaskStep(s) == Work(s) \/ Report(s) \/ LeaseEnds(s)

(* heartbeatLoop is one loop: it takes an answer before it beats again.    *)
Beat(s) == Heartbeat(s) \/ Apply(s)

-----------------------------------------------------------------------------
(* The rest of the world.                                                  *)

(* The control plane handled a heartbeat and its answer is lost.           *)
AnswerLost(s) ==
  /\ hb[s] # Idle /\ Fault
  /\ hb' = Set(hb, s, Idle)
  /\ UNCHANGED <<postgres, rec, control, job, kept, history, asks>>

(* The agent dies and starts again: a task of the main loop is reported as *)
(* failed, one of the standby lane is lost; an interrupted rebuild is put  *)
(* back (recoverStandbys).                                                 *)
Die(s) ==
  /\ Fault
  /\ IF job[s].step \in {"none", "queued", "lost"}
     THEN UNCHANGED job
     ELSE \E end \in {"failed", "lost"} : Goto(s, end)
  /\ IF follows[s] = "creating" THEN RolledBack(s) ELSE UNCHANGED <<pg, signal, clean, follows>>
  /\ hb' = Set(hb, s, Idle)
  /\ UNCHANGED <<data, rec, control, held, released, history, asks>>

(* PostgreSQL dies, is stopped or is started by others.                    *)
StopsByItself(s) ==
  /\ pg[s] # "off" /\ Fault
  /\ pg' = Set(pg, s, "off")
  /\ \E how \in BOOLEAN : clean' = Set(clean, s, how)
  /\ UNCHANGED <<signal, data, rec, control, job, kept, hb, history, asks>>

StartByOther(s) ==
  /\ pg[s] = "off" /\ Fault
  /\ Started(s)
  /\ UNCHANGED <<signal, data, rec, control, job, kept, hb, history, asks>>

Write(s) ==
  /\ pg[s] = "rw" /\ Position(s) - Cardinality(Promotions(data[s])) < MaxWrites
  /\ data' = Set(data, s, Append(data[s], "w"))
  /\ UNCHANGED <<pg, signal, clean, rec, control, job, kept, hb, history, asks, faults>>

(* A server in recovery replays the next change of the other one, while it *)
(* runs, or of all of them once it shut down cleanly (its last WAL is sent *)
(* or pushed).                                                             *)
Replay(s) ==
  /\ pg[s] = "ro" /\ follows[s] = "following"
  /\ pg[Other(s)] = "rw" \/ clean[Other(s)]
  /\ IsStrictPrefix(data[s], data[Other(s)])
  /\ data' = Set(data, s, SubSeq(data[Other(s)], 1, Position(s) + 1))
  /\ UNCHANGED <<pg, signal, clean, rec, control, job, kept, hb, history, asks, faults>>

World(s) ==
  \/ AnswerLost(s) \/ Die(s) \/ StopsByItself(s) \/ StartByOther(s)
  \/ Write(s) \/ Replay(s)

Next == \E s \in Servers : Ask(s) \/ TaskStep(s) \/ HoldFence(s) \/ Beat(s) \/ World(s)

(* The agent's lanes, its standby loop and its heartbeats go on, the       *)
(* control plane answers and a lease ends.                                 *)
Fairness ==
  \A s \in Servers : WF_vars(TaskStep(s)) /\ WF_vars(HoldFence(s)) /\ WF_vars(Beat(s))

Spec == Init /\ [][Next]_vars /\ Fairness

-----------------------------------------------------------------------------
(* Two copies never take writes at once, unless a person confirmed that    *)
(* the primary is down (--primary-down), one server decided while the      *)
(* other's decision was not in the bucket yet, or the control plane called *)
(* a copy the primary that was not (mistaken).  standby_fence.go:17-35:    *)
(* the fence, standby.signal and the record keep a stopped primary from    *)
(* coming back beside a promoted standby.                                  *)
OneWriter == gap \/ forced \/ mistaken \/ \E s \in Servers : pg[s] # "rw"

(* The same without the last exception: "so two servers never both accept  *)
(* writes (split brain)" (standby_fence.go:17).                            *)
NeverBothWrite == gap \/ forced \/ \E s \in Servers : pg[s] # "rw"

(* While the bucket says that a server stopped for good, it takes no       *)
(* writes, whoever starts it, whatever old answer its agent applies and    *)
(* wherever the agent dies, unless it was unfenced and that could not be   *)
(* written (standby_fence.go:24-33).                                       *)
StoppedIsStopped ==
  \A s \in Servers :
    rec.state = "stopped" /\ rec.by = s /\ ~unsaid[s] => pg[s] # "rw"

(* "so nothing the old primary committed is lost" (standby_promote.go:18): *)
(* after switchovers that knew the last position, back and forth with      *)
(* rebuilds between them, the copy that takes writes has everything the    *)
(* other one has.                                                          *)
NothingLost ==
  gap \/ lossy \/ mistaken \/
  \A s \in Servers : pg[s] = "rw" => IsPrefix(data[Other(s)], data[s])

(* "never start it again once another server was promoted"                 *)
(* (standby_fence.go:254): an unfence goes on only with a copy no other    *)
(* server was promoted past, unless the other one decides at the same time.*)
NeverStartedBehind ==
  [][\A s \in Servers : job[s].step = "queued" /\ job'[s].step = "release"
                        => gap' \/ Timeline(s) >= Timeline(Other(s))]_vars

OldPrimary(s) == Superseded(s) /\ pg[s] = "rw" /\ st[s] = "active"

(* A person forgot the fence, or the agent undid a fence that its control  *)
(* plane still counts on (its task was lost).                              *)
LetGo(s) == st[s] = "gone" \/ \E f \in fences[s] : f.id \in released[s]

(* "when it comes back and can read the bucket, Rowsafe there stops        *)
(* PostgreSQL by itself" (localcp/standby.go:875): an old primary stops    *)
(* taking writes once the record says that another server was promoted.    *)
SupersededStops ==
  (\E s \in Servers : OldPrimary(s))
    ~> \A s \in Servers : ~(Superseded(s) /\ pg[s] = "rw") \/ LetGo(s)
=============================================================================
