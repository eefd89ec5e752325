# TLA+ specification of Rowsafe's agent and local control plane

Rowsafe protects databases: an agent on each server makes backups, proves
them by restoring ("Proof"), writes named restore points ("Marks"), rewinds,
upgrades and repairs. Everything the agent does is a *task* a control plane
hands out. Without an account the control plane runs inside the agent itself
(`internal/localcp`); with one it is a service that speaks the same protocol.
This directory specifies that task system (the queue, the agent's loops over
it, what the control plane queues when and why) and the five things the agent
does step by step that must survive being cut short: a rewind in place, its
own update, the update of its container, a switchover between a primary and
its standby, and the way of WAL files to the storages.

## Inventory

| Part | State it keeps | Operations | Talks to |
|---|---|---|---|
| Task queue (`localcp/tasks.go`, `state.go`) | `state.Tasks` in one JSON file, under one lock | `enqueue`, `claim`, `complete`, `reap`, `cancelQueued`, `prune` | every handler of the control plane; agent loops claim and complete |
| Agent task loops (`agent/agent.go`, lanes in `standby.go`, `files.go`) | task in memory per loop, `running-task.json`, the files lane's state file | `Run`, `fastLane`, `execute`, `report`, `reportInterrupted`, shutdown | the queue over HTTP, with retries |
| Control plane (`localcp/server.go`, `scheduler.go`) | databases and their status, backups, Proofs, Marks, schedules | `register`, `setupApply`, `createTask`, `createMark`, `heartbeat`, `Tick`, `afterTask` | the queue |
| Upgrades, reboots (`localcp/upgrade.go`) | none of its own: open tasks | `queueWithMark`, `refuseOpen`, `afterUpgrade` | the queue, Marks |
| Rewind in place, control plane side (`localcp/rewind_inplace.go`) | rewinds and the data they keep aside | `rewindInPlace`, `undoRewind`, `cleanupRewind`, `recordKept`, `afterInPlace` | the queue, Marks, backups |
| Rewind in place, server side (`agent/rewind_inplace.go`, `rewind_contents.go`, `rewind_state.go`) | `rewinds.json`, data directories | stop, move, restore, recover, start, undo, delete, roll back | PostgreSQL, pgBackRest, the root helper |
| Self-update (`agent/update.go`, `scripts/rowsafe-agent-guard`) | the managed symlink, `versions/`, `update/pending`, failures, the last report | stage, switch, probation, confirm, roll back; the guard's count of starts | release offers, systemd |
| Container update (`agent/container_update.go`, `dockerctl/agent_update.go`) | the mark in the state volume; the containers; the service's answer | ask, poll, switch, wait for the new agent, roll back, close the task | Docker, two agents, one control service |
| Standby pair (`agent/standby*.go`, `localcp/standby.go`) | fences on both sides, `standby.signal`, the pair's record in the bucket | fence, promote, unfence, rebuild, remove, forget | two servers through a bucket |
| WAL spool (`agent/spool.go`, `pgbackrest/spool.go`) | spooled WAL files, the last pushed one in memory | archive_command; push in order, remove, retry; report what is archived | PostgreSQL, pgBackRest, heartbeats |
| Second copy (`agent/secondcopy.go`) | a queue of WAL files, the gap file | hand over, push, note a gap, back up, clear the gap | the spool, a second storage |
| Guard copies, files, fork, migrate, poolers, engines, collectors, CLI | see `PROJECT.json` | | |

What is hard about it: several goroutines claim from one queue while people,
schedules and finished tasks add to it; answers get lost and are asked for
again; the agent is stopped, killed and updated between any two steps, also
while it renames data directories or replaces itself; leases run out while
outcomes are on their way; the history is cut off; tasks wait for tasks that
may never succeed; two servers that only share a bucket must not both take
writes. `PROJECT.json` lists each of these hazards at the line where it
bites, with the property that would catch it.

## Modules

| Module | Role |
|---|---|
| `TaskLifecycle` | What the queue promises of every task's status: the abstract specification |
| `TaskQueue` | The queue, one action per store update |
| `TaskQueueProofs` | Theorems about the queue |
| `AgentTasks` | The agent's loops composed with the queue (EXTENDS `TaskQueue`) |
| `AgentTasksProofs` | The composition implements the queue, reports the truth, begins no task twice and keeps apart what it executes |
| `ControlPlane` | Databases, schedules, Marks, upgrades and rewinds over the queue (EXTENDS `TaskQueue`) |
| `ControlPlaneProofs` | Theorems about the control plane |
| `RewindInPlace` | A rewind in place, its undo and the deletion of what they keep, on the server |
| `RewindInPlaceProofs` | Theorems about that rewind |
| `SelfUpdate` | The agent replaces itself; the guard before each start |
| `SelfUpdateProofs` | Theorems about the update |
| `ContainerUpdate` | The update of an agent that runs in Docker: two agents and the control service |
| `ContainerUpdateProofs` | Theorems about that update |
| `StandbyPair` | A primary and its standby: two control planes, two agents and a bucket |
| `StandbyPairProofs` | Theorems about the pair |
| `WalSpool` | WAL on its way to the first and the second storage, and what heartbeats say of it |
| `WalSpoolProofs` | Theorems about that way |
| `MCTaskQueue`, `MCAgentTasks`, `MCControlPlane`, `MCRewindInPlace`, `MCSelfUpdate`, `MCWalSpool` | Instances for TLC (the other two are instantiated by their `.cfg` alone) |

The modules share the task, not variables: `RewindInPlace`, `SelfUpdate`,
`ContainerUpdate` and `StandbyPair` open up what is one task (`Starts` to
`Ends`) or one restart of the process in `AgentTasks`. `WalSpool` runs beside
the tasks; the one task in it is a backup to the second copy.

### TaskQueue

`tasks` is `state.Tasks`, indexed by creation order (the order `claim` looks
in); a record holds the status, the type, the database, what `openKey` tells
apart (`arg`), `AfterTaskID` (`after`) and whether the lease has run out.
`"none"` is an id not used yet, `"forgotten"` one `prune` dropped.
`databases` is what `claim` needs of `state.Databases`.

Every handler runs inside `store.update`, which holds the lock, prunes and
saves, so a handler is one action. `claim(ts, dbs, types)` is the whole
function: it cancels orphans (one cancelled earlier in the loop takes a later
one along, written as a recursive function over the ids), cancels tasks of
removed databases it meets, and hands out the first task that is asked for
and not in conflict. `Enqueue` stands for every request and for what a
finished task sets off; `after` ranges over open tasks of the same database,
which is what the callers pass.

`lane`, `conflicts`, `openKey`, `sideLanes` and `stopsPostgres` are the
tables of the code, with the additions that the standby's and the security
checks' `init` make.

### AgentTasks

`slot` says what each goroutine is doing: the four claiming loops (main, fast
lane, standby lane, files lane) and the two goroutines the fast lane starts
(a side task, a pooling task). A slot goes from claimed through running and
reporting to delivered or undelivered. `disk` is `running-task.json` and the
files lane's record; the other lanes keep nothing. `ran` is a history
variable: what really happened to a task on the server.

`report` is split into its attempts: answered (2xx, or a 4xx that says the
task is closed), request lost, answer lost (the control plane recorded it),
refused with 400/413 (shortened, a success with a result becomes a failure),
refused again (taken as delivered). `Boot` is `Run` up to the start of the
loops with `reportInterrupted`; `Returns` is the end of `execute`, which
clears or keeps the record. `Crash` loses the process at any step.

The lost requests matter for the hosted control plane; the local one is in
the same process and speaks the same protocol over a socket.
The task `reboot`, whose outcome the next process works out by itself, is
left out; so is `agent_container_update`, which has a module of its own.

### ControlPlane

Adds to the queue the database's status (`pending_adopt`, `awaiting_restart`,
`verifying`, `active`), whether it has a backup, `marks`, and the data a
rewind keeps aside (`kept`). One action per request, one per kind of outcome
(`complete` followed by `afterTask`), `TickSchedules` for `Tick` and
`ArchiverOn`, `KeptGone` for what a heartbeat sets off. `proven` and `fresh`
are history variables used by properties only. Conditions of requests that
depend on data not modelled (permissions, confirmation texts, versions) are
left to the environment: a request may or may not be made. A *scenario*
(`Scenarios`) says which databases, requests and schedules one behaviour has
and how many tasks it may create, so that one run covers a setup, changes
side by side and a rewind without multiplying them. `prune`'s limit of 500
Marks (`state.go:215`) is left out; it matters to `MarksOfTasks` and
`MarkBeforeChange` only once 500 newer Marks have pushed one out whose task is
still open, or whose change is. A standby that is promoted is activated, with a
backup and a Proof, without a check (`standby.go:282`); that belongs to the
pair, and `BackupsNeedProof` does not speak of it.

### RewindInPlace

A data directory is a set of entries; there are two sets of data, `old` (what
ran before) and `new` (what is restored), and `at` says where each entry of
each is. On a native host a move is one rename; in Docker (`contents`) each
entry is moved by a rename of its own, and the move may be cut short between
any two. `rec` is the rewind's record with its phase, `pc` what the holder of
`inPlaceMu` does next, `tl` and `repo` the timelines of the data and of the
repository. Any step may fail, which starts the code's own rollback
(`rollbackRewind`, `rollbackUndo`), and the agent may die anywhere, after
which `recoverInPlace` decides by the record and the directories. Preflight
checks only refuse; other rewinds of the same database, failing saves of the
record and the host going down are left out.

### SelfUpdate

`link`, `installed`, `pend`, `mark`, `failed` and `report` are the files of
the on-host layout; `pend` is several files, written under a temporary name
and renamed, but removed one after another. `pc` follows the unit: the guard
(`ExecStartPre`), the start, `Startup`, the loop's `Tick`. A release is good,
crashes before it looks at the updater, or runs and reaches nobody. The
process dies between any two looks at the updater as often as it likes, and
once in the middle of a change of files (`Cut`). `offerFor` is the control
plane's side of a heartbeat.

### ContainerUpdate

Three processes: the agent in the old container, the agent in the new one,
and `runAgentUpdate` in `rowsafe-docker-control`. Docker's state is which
container exists, runs and carries the name. A Docker call works, fails, or
works and loses its answer; agents are killed (Docker starts their container
again); the control service may be killed, at work or afterwards, and nothing
takes its update up again or remembers how it ended. An agent that waits for
the verdict (`Learns`) gets it, or nothing by its deadline: because the service
was killed, or, at the price of a fault, because it could not be reached or its
Docker calls hung. The price is what the code's own times justify: seven
minutes (`containerOutcomeWait`) are the five the service waits for
`agent_ready` (`agentReadyTimeout`) and two for the calls that follow. The old
agent's wait may end at any time for free, since a download can take longer.
`gaps` records the five things nothing in the code makes up for, and the
properties name them as exceptions.

### StandbyPair

Each server has a PostgreSQL (`pg`, `signal`, `clean`, `data`), a control
plane (`st`, `fences`, `seen`, `up`) and an agent with what it keeps on disk
(`held`, `released`, `follows`); `rec` is the record in the bucket. `data` is
the WAL as a sequence of commits and promotions, so that timelines, positions
and "has everything the other one has" are all read off it. Requests
(`AskFence`, `AskPromote`, ...) queue a task, which the agent carries out in
the steps at which it touches PostgreSQL, the bucket or its own files. The
heartbeat's snapshot and the control plane's handling of it are one step, and
the answer is applied later, when it may be old. `holdFence` is one step.
Initial states are a pair that follows, one stopped for a switchover and one
switched over. The control plane may have several fences of a copy (a lost
rebuild leaves one behind); `fenceOf` takes the oldest. History variables
carry the properties' exceptions: `unsaid[s]` (server `s` took writes,
promoted or unfenced, and the bucket does not say so yet), `gap` (the other
server went on to take writes in that time, or while `s` was about to:
`Deciding`), `forced` (a person confirmed that the primary is down), `lossy`
(promoted without the primary's last position, or unfenced a copy that is
behind or that follows the other one, which `standbyUnfence` does not look at)
and `mistaken` (the control plane took a fence for undone that was not).

### WalSpool

WAL files are numbered in the order of their names; `dir` and `repo` hold the
files of the spool and the second copy's queue, and of the two storages.
Several actors work on them: archive_command (the shell line of
`SpoolArchiveCommand`, split at each command that changes the disk), the two
pushers (`pushStanza`: the list of a pass, and for each file push, hand-over,
removal), a full backup to the second copy with `clearGap`, and a heartbeat's
`archiverStats`, which reads three things one after another. Every push,
hand-over and removal may fail, a failed push may have stored the file, and
archive_command may be killed between any two commands. `added` and `removed`
are what no sync of the directory has made durable yet: a loss of power takes
away any part of the former and brings back any part of the latter. The
second copy's queue and gap file are never synced and may lose anything.
`hollow` and `slipped` are history variables for the properties' exceptions.
A backup is the WAL file it starts from and succeeds only when pgBackRest
finds the WAL it needs in the second storage. How long a pusher waits, what
counts as stalled, and several stanzas are left out.

## Runs

| Run | Shows | Bounds | Distinct states |
|---|---|---|---|
| `queue` | lanes, keys, dependencies; refinement of `TaskLifecycle`; every running task closes, every queued one moves | 1 database and the host, 3 tasks, a history of 1, three types on three lanes | 107k |
| `agent_report` | no task begun twice, no made-up success, kept outcomes delivered, the queue used as specified | 2 tasks, 2 losses, 1 refusal, 2 stops, 4 attempts | 276k |
| `agent_lanes` | what is executed side by side respects lanes | 3 types on 3 lanes, 2 tasks, 2 refusals, 1 stop | 1.2M |
| `agent_overwrite` (violation) | a kept outcome is overwritten | 2 tasks, 2 attempts, 2 losses | |
| `cp_safety` | backups only after archiving is proven; Mark before every change, one change of a server at a time, Marks by name; undo and cleanup, Proof after a rewind | setup: 7 tasks; two databases changed side by side: 5; rewind: 8; history of 2 | 301k |
| `rewind` | whole data served, old data kept, a true record, every interruption settles, the newest timeline | 3 entries; native and Docker: 3 faults, 2 undos; either with 1 fault and a deletion | 40k |
| `self_update` | the link is runnable, versions are proven before work, a confirmed one stays, a failed one waits, a broken one is left | 3 releases, the second broken in either way, 3 starts, one cut | 278k |
| `container_update` | the task's outcome is what runs, the old container is kept until the new agent is heard, a rollback is one, a handed-over task closes | 3 failing, hanging or lost calls, 2 agents killed, 1 kill of the service | 12k |
| `standby` | one writer, a stopped primary stays stopped, nothing committed is lost, a superseded primary stops | 2 requests on either side, 1 fault, 2 commits | 556k |
| `standby_behind` (violation) | an older copy is started as the primary again | 2 requests, no fault | |
| `standby_undone` (violation) | a fence taken for undone ends with two primaries | 3 requests, 1 fault | |
| `wal_spool` | nothing archived is lost and no gap is stored, a report is true, what the second copy lacks is known | 3 WAL files, a queue of 2, 1 fault; with a second copy or with heartbeats | 5.3M |

Why the bounds are enough: a conflict, a key or a dependency relates two
tasks, and a third one is enough to push a record out of a history of one; a
setup takes five tasks (plan, apply, check, backup, Proof) and two more let
one be repeated; a rewind with its undo takes Mark, rewind, backup, check,
undo, backup, check, with one more for the Proof. `KeepFinished` is small on
purpose, so that records are forgotten in the middle of what depends on them.
In `agent_report` two losses stay below four attempts, which separates what a
report that may still be answered guarantees from what happens when all
attempts are used up (`agent_overwrite`). In `rewind` three entries make a
first, a middle and a last rename; three faults let a rollback be interrupted
and its recovery be interrupted again, in Docker between any two renames. In
`self_update` the third release can arrive while the second is tried, given up
or waiting, and is what a version that was skipped would be pruned for. In
`standby` two requests are a switchover, or a fence and its undoing; the
initial states in the middle and at the end of a switchover give what follows
two more requests. The inductive invariants of its proofs were also checked
with three requests, one fault and two commits (5.3M states), too long for a
run kept here. In `wal_spool` a queue of two (the gap file counts as an entry)
is full with the second file, and the third one arrives while a backup waits
or the gap is being cleared. Heartbeats only read, so they are checked where
there is no second copy; the proofs have no such restriction.

`CHECK_DEADLOCK FALSE` where the bounds, or a finished update, let an instance
stop; the agent's runs and `self_update` check deadlock. Every module states
its type invariant; they were checked while the modules were written, and the
one the queue's proofs need is a theorem.

**Fairness.** `TaskQueue`: the scheduler goroutine ticks for ever (`run`),
time passes so leases end, and the main loop polls without a filter; nothing
is assumed of outcomes. `AgentTasks`: systemd starts the agent again, a task
ends (at the latest by `TaskTimeout`), a stopping agent exits, an attempt
that is repeated is answered at some point unless the losses take it; no
lease is assumed to end, because the point of `KeptTaskCloses` is that nobody
has to wait for one. `RewindInPlace`: the agent goes on with what it does and
systemd starts it again. `SelfUpdate`: the unit restarts for ever
(`StartLimitIntervalSec=0`, `Restart=always`), clocks advance, and a version
that is started again and again gets to look at its updater at some point
(strong fairness of `Startup`), unless it is of the kind that crashes before
it. `ContainerUpdate`: each of the three processes goes on. `StandbyPair`:
each agent goes on with its task, its loop over the fences and its heartbeats;
nothing is assumed of people.

## What the violations show

1. `agent_overwrite`: `execute` keeps an undelivered outcome in
   `running-task.json` for the next process, but after 20 failed attempts the
   same process goes on, and the next task's `saveRunning` overwrites the file.
2. `standby_behind`: `standbyUnfence` refuses while the bucket's record says
   that another server is the primary. Fencing that server overwrites the
   record with `stopped`, after which the older copy may be unfenced and
   started as the primary, behind on its timeline.
3. `standby_undone`: `recordStandby` takes a fence whose task failed and that
   the agent does not hold for undone, and calls the copy the primary again.
   The agent does not hold one either that a rebuild has released: when the
   agent dies between that and the rebuild's report, the new primary's standby
   is called active. Fencing it then overwrites the bucket's record, and
   unfencing it starts it beside the real primary.

## Limits met while modelling

Where a property states an exception, or a run a bound, it is for one of
these; each is what the code does.

* **Rewind in place.** "Any failure after the stop puts the original data
  directory back and starts it (the rollback also runs when the agent restarts
  in the middle)" (`rewind_inplace.go:50`) is not so when a rollback in Docker
  is itself interrupted while it moves entries back. The next rollback takes
  the entries that are back already for the restore, moves them to a directory
  for failed restores (`:510`) and cannot start what is left; after an undo it
  takes them for the data that goes back to the kept directory, and refuses to
  overwrite what is there. Either way it gives up at every start, with
  PostgreSQL down and all data still on the server (`OldDataKept`). The run
  reaches both, and `Settles` excepts exactly these states (`BeganBack`). A
  death between moving the data back and `newTimeline` (`:501`), and an undo
  that fails after its own `newTimeline` (`:850`), leave the data on an
  abandoned timeline; `OnNewestTimeline` says for which cases it holds. An
  undo of kept data whose deletion was cut short moves partly deleted data in
  (`:906`, and `validKeptDir` at `:734` looks only for the directory);
  `ServesWhole` excepts a database that had both an undo and a deletion.
  `expireRewinds` works on a list read earlier (`rewind_state.go:330`), and a
  rollback that gave up may be rolled back over a later rewind
  (`rewind_inplace.go:238`); both need a second rewind, which the module
  leaves out.
* **Self-update.** `update/pending` is removed file by file: a death in the
  middle of `confirm` leaves the guard something to count, and it later takes
  a confirmed version back (`update.go:299`). A death between the rollback's
  swap and `rememberFailure` (`:311`) lets the version be tried again at once.
  `Remembered` excludes these cuts from the two properties they break.
* **Container update.** "reports success when the control service is done"
  (`container_update.go:32`) is not all: the new agent takes nothing learnt in
  seven minutes for success as well (`wait` returns nil at `:293`, reported at
  `:344`). When the update is still going on then (its `agent_ready` was lost
  and the rollback's stop hangs), or ended badly and the service was restarted
  since, success is reported and the old container may be put back or run
  beside the new one; only the summary's last sentence hints at it.
  `OutcomeIsTrue` excepts a success that nobody confirmed (`verdict`), unless
  the update ends done after all. A new agent without a heartbeat that learns
  nothing either leaves the task to be closed by its lease (`:333`, `silent`).
  A kill of `rowsafe-docker-control` between stopping
  the old container and starting one leaves no agent running
  (`agent_update.go:339`). A rename whose answer is lost is not renamed back,
  and the rollback still says it went well (`:369`). An agent killed after
  removing the mark and before its report is delivered makes a successful
  update be reported as failed (`container_update.go:265`).
* **WAL spool.** archive_command killed between `mv` and the sync of the
  directory is repeated by PostgreSQL, and the repetition only compares the
  files and succeeds (`pgbackrest/spool.go:47`): the segment may be recycled
  while a loss of power still takes its entry away (`hollow`; the comment at
  `:32` says what the sync is for). A spool that cannot be read looks empty
  to `sidecarArchiverStats`, which then reports PostgreSQL's own count;
  `LastPushError` tells (`report.error`).
* **Second copy.** With unusable settings `queueForSecondCopy` returns at once
  (`secondcopy.go:476`), so a file leaves the spool neither queued nor
  recorded; the settings do not change in the model. The record of what is
  missing can be lost in three ways (`slipped`): `appendGap`'s own failure is
  ignored, `clearGap` removes what was added after it looked
  (`secondcopy.go:597`), and neither the queue nor the gap file is synced.
* **Proof after a rewind.** `afterInPlace` makes a Proof wait for the full
  backup of the new timeline only when it waited for nothing
  (`localcp/rewind_inplace.go:337`). A Proof of an upgrade waits for the
  upgrade's backup; when a rewind whose Mark was slow ends after that backup
  and before the Proof, the Proof is handed out before the new full backup,
  though "Proof waits for it" (`:30`). The attempt to prove `ProofWaits`
  found it, TLC confirmed it (upgrade and rewind of one database, nine tasks),
  and `ProofWaits` now excepts a Proof that waits for another backup.
* **Upgrades.** `afterUpgrade` queues no Proof when a full backup is already
  open (`upgrade.go:537`); `afterInPlace` handles the same case by going on
  with the open task.
* **Reboot.** `reboot` returns the context's error when it is shut down
  gracefully, so such a reboot is reported as failed (`updates.go:449`),
  though `protocol/upgrade.go:38` describes it as a success reported by the
  next process; its mark is removed before that report is delivered (`:461`).
  `reboot` is not in `stopsPostgres`, so Marks are handed out while the
  server goes down (`tasks.go:15`).
* **Standby pair.** An unfence and a promotion race through the bucket's
  record, and both may win (`gap`). A promotion or an unfence that ends
  without writing the record leaves the old one. Fencing a primary that does
  not know yet that it was superseded overwrites the promotion's record. A
  fence that was undone and whose failed task is then lost leaves the control
  plane counting on a fence its agent never takes up again (`LetGo`).
  `holdFence` may write `standby.signal` again after an unfence removed it. A
  lost rebuild leaves the database a standby with its fence, and a later fence
  stands beside it; `fenceOf` then means the old one. An old heartbeat answer
  can drop a fence that was just added, until the next one. A fence taken for
  undone (`mistaken`, the run `standby_undone`) makes a standby a primary to
  its control plane. `standbyUnfence` never looks at the standby's own record,
  so it starts a copy that follows the other one as well (`lossy`). The first
  attempt to prove `NothingLost` found that an unfence whose record could not
  be written was forgotten by a later fence and unfence of the same server;
  `unsaid` now stays until the bucket says so.

## Proofs

Proved by TLAPS for every value of the constants, from the named assumptions
only (`BoundsAssumption`, `ArgsAssumption`, `HostAssumption`; for the agent
also `AgentBoundsAssumption` and `FiltersAssumption`, which says that every
claim request of the loops is among `ClaimFilters`; for the control plane
`ScenariosAssumption`, `CPArgsAssumption`, `CPTypesAssumption` (the types it
queues are task types) and `ProofFiltersAssumption` (a loop that asks for
Proofs asks for backups: the main loop asks for everything, the others for
side lanes); `RewindAssumption` (a data directory has an entry, and the
directories of failed restores have names of their own);
`SelfUpdateAssumption`, `ContainerUpdateAssumption`, `WalSpoolAssumption` and
`StandbyPairAssumption` (the bounds of the pair are numbers);
TLC evaluates all of them):

* `TypeCorrect`, `OneOpenPerKeyAlways`, `LanesAlways`, `DependentsWaitAlways`.
  The inductive invariant is stated over the table (`KeysDistinct`,
  `RunningApart`, `DependentsOK`). `RunningApart` adds to `OnePerLane` and
  `NoFixBesideStop` that the pair relation is symmetric, which a claim needs
  because `conflicts` is asked of the running task and the queued one only.
  The argument: `StepShape` shows that every action is one of three updates
  followed by `prune`: *quiet* (tasks only close), an `enqueue`, or a `claim`;
  quiet updates narrow the open and running tasks, so anything said of all
  pairs survives; `EnqueueKeeps` and `ClaimKeeps` are the two real cases.
* `QueueImplementsLifecycle`: the refinement, by the same three shapes.
* `AgentUsesQueue`: every step of `AgentTasks` is a step of `TaskQueue` or
  leaves it unchanged. The invariant `SlotsOK` says that a loop that is not
  idle holds a task's id and an outcome the control plane accepts, which is
  what makes a report, also one made of a record on disk by a later process,
  a `Complete`. `AgentKeepsLanes` then follows from the queue's lemmas.
* `AgentTruthful` and `AgentBeginsOnce`: `TruthfulSuccess` and
  `NeverBegunTwice` under the agent. Neither is inductive: a report made by a
  later process is only as true as the record it is made of, and a task is
  begun once because it is handed out once (`QueueImplementsLifecycle`'s
  lemma) and one loop has it. `TruthInv` says so of the loops (`SlotTrue`,
  `OneLoopEach`), of the disk (`DiskTrue`) and of the tasks nobody was given
  yet; `TruthStep` keeps it action by action.
* `AgentExecutesApart`: `ExecutedApart` under the agent. The queue keeps
  *running* tasks apart; `HoldInv` connects that to what is *executed*: an
  executed task is running and its lease has not ended (`ExecutedHeld`), no
  other loop holds it, so no report closes it under the loop (`OneHolder`), a
  process executes nothing before it has reported what it found on disk
  (`NotYet`), and nothing in a loop or on disk can still be handed out
  (`ClaimedOnly`). The fact about the code it rests on is in
  `RunningLeaseEnds`: the lease is five minutes longer than the time after
  which the agent kills the task.
* `KeptOutcomeIsSent` (`KeptUntilSent`): what the main loop keeps on disk goes
  only once its task is closed, for any number of stops, tasks and loops, under
  the hypothesis `FewFaults`: fewer answers are lost or refused in all than one
  report has attempts (20 in the code), and at most one is refused. Without it
  the statement is false (`agent_overwrite`). `KeptInv` says who looks after a
  kept task that still runs: the main loop while it works on it, and the next
  process once a process that stops gave it up (`Attended`,
  `GivesUpStopping`); the counts show that no other process gives up
  (`Tallied`).
* `LinkAlwaysRunnable`, `WorkOnlyWhenProven`, `ConfirmedNeverTakenBack`,
  `TakenBackNotTriedAgain`: the four safety properties of `SelfUpdate`, for
  any number of releases of any kind. The invariant `UpdateInv` follows the
  link: it points at a proven version or at one whose pending update is
  complete on disk and says so (`Supervised`), the version to go back to is
  proven and installed (`WayBack`), a process runs what is linked until it
  moves the link itself (`Linked`, `Switching`), and without a cut in a
  removal no proven version is above the one before a pending update
  (`Upwards`). The fourth needs `TrailInv` besides: whatever was taken back is
  named by something that survives a death, first the pending update whose
  count of boots stays over the limit (`GuardOwes`), then the mark, then
  `update/failed` (`Noted`); and a mark is read before an offer can be taken
  (`MarkFirst`).
* `ArchiveHasNoGap`, `ReportsOnlyStored`, `SecondCopyGapIsKnown`: the three
  properties of `WalSpool`, for any number of files and faults and any limit
  of the queue. `NoGap` is not inductive because a pass works on an old list:
  `Ordered` says that before each file of the list comes another one of it, a
  stored or a lost one, `Passes` that a pushed file stays stored until its
  removal, `Durable` that an entry not yet synced belongs to a file PostgreSQL
  still keeps or to a hollow one. `Reported` says that a heartbeat's list has
  every file still in the spool that PostgreSQL had archived when the
  heartbeat asked; this is why `archiverStats` must ask PostgreSQL first and
  list afterwards. `Counted` says the same of a running backup as `GapKnown`
  of the newest one, with `touched` in place of the gap file, and what the
  first pusher knows between handing a file over and removing it.

* `BackupsWaitForProof`, `OneHostWideChange`, `MarksHaveTheirTasks`,
  `ChangesHaveTheirMark`, `UndoKeepsItsData`, `KeysStayDistinct`,
  `ProofsWaitForTheirBackup` (and the types, `ControlPlaneTyped`): what
  `cp_safety` checks, for any databases, scenarios, number of tasks and length
  of the history. A handler builds its table from enqueues, an outcome, a
  claim and `prune`; `Moves(a, b, new, done, run)` says once what each of them
  does (which tasks are new, which succeeded, which started), and is
  transitive. `CInv` adds to the properties what makes them inductive: a
  database is active only once proven, and so is one with an open task that a
  backup follows (`ActiveProven`); a change waits for its restore point, whose
  Mark is written once it succeeded, also when its record is forgotten
  (`ChangesWait`); ids are handed out in order (`Appended`), so that while the
  backup of a new timeline is open, a Proof that waits for nothing was queued
  after it (`FreshFirst`) and `claim`, which looks at older tasks first, hands
  the backup out before it.
* `WayBackKept`, `RollbackSaysTheTruth`, `OutcomeSaysTheTruth`: the three
  invariants of `ContainerUpdate`, for any number of failing calls, killed
  agents and kills of the service. `UpdateInv` says for each step of the
  switch and of the rollback which container has the name, which one runs
  and what the service has written down by then (`Forward`, `Back`, `Over`).
  `Winner` carries the outcome: a success that was not made up at a deadline
  is on its way only when the new container has won, and from the moment the
  new agent's word counts (`Won`), also past a kill of the service that had
  finished, only that agent can close the task, and only with a success.

* `OldDataSurvives`, `ServesOneWholeSet`, `RecordSaysTheTruth`,
  `StaysOnNewestTimeline`: the four invariants of `RewindInPlace`, for a data
  directory of any size, natively and in Docker, and for any number of failing
  steps and deaths of the agent (the last with the bounds it states). None is
  inductive: each speaks of a database that runs or of one nothing is being
  done to, and what is true then depends on where the two sets of data were at
  every step before. `RInv` says that. A rewind is always in one of five
  layouts: `Original`, `Parting` (in Docker, the original on its way out or
  back before any restore), `Restoring` (the original kept, whole), `Torn` and
  `Lost` (in Docker, the original spread over several directories after a
  rollback that was itself cut short); an undo in one of three (`Rewound`,
  `Returning`, `Leaving`). The label, the phase in the record and the move in
  progress say which. A death keeps the layout and forgets the label, so the
  layouts of `boot` are exactly what the rollbacks have to tell apart from the
  disk. A rollback starts PostgreSQL in `Original` or `Lost` only; since
  `PG_VERSION` is the first entry to be moved, in `Lost` it is in a directory
  of a failed restore and the start fails, which is why `ServesWhole` holds
  where `Settles` does not. `Once` guards it all: not both an undo and a
  deletion.
  `TInv` adds the timelines: as long as the phase says that the restore may
  have been promoted, a rollback still owes the original a newer timeline, and
  with at most one fault (`Spent`) nothing cuts it short.
* `TypesCorrect`, `StoppedStaysStopped`, `OneWriterAtATime`, `NothingIsLost`:
  the three invariants of `StandbyPair`, for any number of requests, faults and
  commits. A step is one server's: the other one's state stays and only the
  stepping server writes the record (`OneServer`), so each invariant is a
  conjunction per server plus what relates the two. `WriterInv` is about who
  may take writes. `StopAt` carries `StoppedIsStopped` back to the fence that
  is about to say so, and says that a promotion or an unfence past its point
  of no return is `unsaid`; `NamesAt` and `StatusAt` tie fences and jobs to
  what the control plane calls the copy; `Own` is the heart: a server that
  takes writes, would if it were started, is called active, or is being fenced
  is the one the record calls the primary, or the first primary before any
  record, or one that is `unsaid`, and a server that decides does so while the
  record does not name the other one. Two such servers exclude each other
  (`OneOwner`), which gives `OneWriter`. `Own` and `StatusAt` hold as long as
  nothing happened that `OneWriter` excuses (`Good`); the rest holds always.
  `DataInv` adds the copies, as long as nothing happened that `NothingLost`
  excuses (`Sane`): of the two, one has all of the other; the copy that takes
  writes has everything, and is on a later timeline than any copy its control
  plane could unfence (`Cand`); such a copy has everything or is behind, which
  is what the timeline tells `lossy`; and a promotion that waits for the
  record's position ends with nothing missing. Writing, replaying, promoting
  and rebuilding are the four steps that change the data (`DataWrite`,
  `DataReplay`, `DataPromoted`, `DataRebuilt`); what a restore finds in common
  (`LongestCommonPrefix`) is shown to be the shorter copy.

Only model-checked: liveness (fairness and ENABLED are outside the prover);
every safety property of a passing run is stated by a theorem.
No module has a RECURSIVE operator; the one recursion (`Orphans`) is a recursive
function, and the proofs use only that what it selects is queued and waits for
a task.

## Not modelled, and the plan

Later work, in this order:

1. The store: a saved and an in-memory state, failing saves and restarts of
   the control plane (`store.update`), under `TaskQueue`.
2. The reboot's mark and `afterReboot` in `AgentTasks`; `resumeUpgrade`.
3. The native archive_command with a second copy, setting a second copy up and
   switching it off; its schedules in the control plane.
4. The choice of a rewind's backup and timeline (`window.pick`) as a pure
   algorithm against a reference.

Left out for good, with reasons in `PROJECT.json`: views, alerts, metrics,
the command line, engine adapters around external dump tools, packaging.
Most of the repository's lines are these: adapters for other engines, the
command line and its screens, collectors and their tests, whose behaviour is
that of external programs or that change no state another part depends on.

## Running

    tlc -config TaskQueue.cfg MCTaskQueue
    tlc -config StandbyPair.cfg StandbyPair
    tlapm StandbyPairProofs.tla
