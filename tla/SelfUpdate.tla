----------------------------- MODULE SelfUpdate -----------------------------
(***************************************************************************)
(* The agent replaces itself (internal/agent/update.go): an offered release *)
(* is staged, the managed symlink is switched to it, and the new version   *)
(* is on probation until it has run for a while with a heartbeat.  It goes *)
(* back by itself when that doesn't happen in time; when it can't even     *)
(* start, the unit's ExecStartPre does it (scripts/rowsafe-agent-guard).   *)
(*                                                                         *)
(* The process may die between any two looks at the updater, as often as   *)
(* it likes (Dies), and once in the middle of a change of the files on     *)
(* disk (Cut).                                                             *)
(***************************************************************************)
EXTENDS Integers

CONSTANTS
  MaxVersion,   \* releases are 1..MaxVersion; 1 is installed
  Kinds,        \* what the releases may be like: a set of functions
  MaxBoots,     \* ROWSAFE_UPDATE_MAX_BOOTS
  CutAt         \* the changes of files of which one may be cut short

Versions == 1..MaxVersion
None == 0
Files == {"target", "previous", "switched_at"}

ASSUME SelfUpdateAssumption ==
  /\ MaxVersion \in Nat \ {0} /\ MaxBoots \in Nat \ {0}
  /\ Kinds \subseteq {k \in [Versions -> {"good", "crash", "mute"}] : k[1] = "good"}
  /\ CutAt \subseteq {"guard", "guard_rm", "apply", "confirm", "rollback"}

VARIABLES
  kind,       \* of each release: "crash" dies before it looks at the updater,
              \* "mute" runs and never gets a heartbeat through
  link,       \* the version /opt/rowsafe/rowsafe-agent points at
  installed,  \* versions/
  pend,       \* update/pending: the files there, and what they say
  mark,       \* update/guard-rollback: the version, or None
  failed,     \* update/failed: versions that failed lately
  report,     \* update/report.json
  pc,         \* what the unit, or the process it runs, does next
  run,        \* the version of that process
  prob,       \* on probation: the version before, or None
  hb,         \* a heartbeat was answered during the probation
  offer,      \* the release the control plane offered, or None
  staged,     \* the release apply works on, or None
  ripe,       \* the process has run for ProbationConfirmAfter
  overdue,    \* ProbationDeadline has passed since the switch
  cut,        \* the change that was cut short, or "none"
  proven,     \* history: versions that passed their probation
  cool        \* history: versions taken back less than a day ago

disk == <<kind, link, installed, pend, mark, failed, report>>
process == <<run, prob, hb, offer, staged, ripe>>
history == <<proven, cool>>
vars == <<kind, link, installed, pend, mark, failed, report, pc, run, prob, hb, offer, staged,
          ripe, overdue, cut, proven, cool>>

NoPending == [there |-> FALSE, files |-> {}, target |-> None, previous |-> None, boots |-> 0]
Report(state, v) == [state |-> state, version |-> v]

\* readPending: every file is needed.
Readable == pend.there /\ pend.files = Files

Init ==
  /\ kind \in Kinds
  /\ link = 1 /\ installed = {1} /\ pend = NoPending /\ mark = None /\ failed = {}
  /\ report = Report("none", None)
  /\ pc = "down" /\ run = 1 /\ prob = None /\ hb = FALSE /\ offer = None /\ staged = None
  /\ ripe = FALSE /\ overdue = FALSE /\ cut = "none"
  /\ proven = {1} /\ cool = {}

(***************************************************************************)
(* The guard, before every start                                           *)
(***************************************************************************)
\* Mutant: the count starts again at every start.
Counted_once == 1

Counted == IF pend.boots > MaxBoots THEN pend.boots ELSE pend.boots + 1

GuardCounts ==
  /\ pc = "down"
  /\ IF pend.there
     THEN /\ pend' = [pend EXCEPT !.boots = Counted]
          /\ pc' = IF Counted > MaxBoots /\ "previous" \in pend.files /\ pend.previous \in installed
                   THEN "g_swap" ELSE "boot"
     ELSE pend' = pend /\ pc' = "boot"
  /\ UNCHANGED <<kind, link, installed, mark, failed, report, process, overdue, cut, history>>

\* The version a link moves away from, backwards, has been taken back.
LinkBack(v) == link' = v /\ cool' = cool \cup (IF v < link THEN {link} ELSE {})

GuardSwaps ==
  /\ pc = "g_swap" /\ LinkBack(pend.previous) /\ pc' = "g_mark"
  /\ UNCHANGED <<kind, installed, pend, mark, failed, report, process, overdue, cut, proven>>

GuardMarks ==
  /\ pc = "g_mark"
  /\ mark' = IF "target" \in pend.files THEN pend.target ELSE MaxVersion + 1  \* "4", a count of boots
  /\ pc' = "g_rm"
  /\ UNCHANGED <<kind, link, installed, pend, failed, report, process, overdue, cut, history>>

GuardRemoves ==
  /\ pc = "g_rm" /\ pend' = NoPending /\ pc' = "boot"
  /\ UNCHANGED <<kind, link, installed, mark, failed, report, process, overdue, cut, history>>

guard == GuardCounts \/ GuardSwaps \/ GuardMarks \/ GuardRemoves

(***************************************************************************)
(* Starting                                                                *)
(***************************************************************************)
ExecStart ==
  /\ pc = "boot" /\ run' = link
  /\ pc' = IF kind[link] = "crash" THEN "down" ELSE "startup"
  /\ prob' = None /\ hb' = FALSE /\ offer' = None /\ staged' = None /\ ripe' = FALSE
  /\ UNCHANGED <<disk, overdue, cut, history>>

\* Mutant: the guard's rollback is reported but not remembered.
RememberGuarded_not(v) == failed

RememberGuarded(v) == failed \cup {v}

\* A rollback by the guard becomes a failure and a report.
StartupMark ==
  /\ pc = "startup" /\ mark # None
  /\ failed' = RememberGuarded(mark) \cap Versions
  /\ report' = Report("rolled_back", mark)
  /\ mark' = None
  /\ UNCHANGED <<kind, link, installed, pend, pc, process, overdue, cut, history>>

\* Mutant: a pending update is the business of the version before it.
OnProbation_never == FALSE

OnProbation == Readable /\ pend.target = run

\* A pending update that can't be read for want of a file is left there.
StartupPending ==
  /\ pc = "startup" /\ mark = None
  /\ prob' = IF OnProbation THEN pend.previous ELSE None
  /\ pend' = IF Readable /\ pend.target # run THEN NoPending ELSE pend
  /\ pc' = "loop"
  /\ UNCHANGED <<kind, link, installed, mark, failed, report, run, hb, offer, staged, ripe, overdue, cut, history>>

Startup == StartupMark \/ StartupPending

(***************************************************************************)
(* Heartbeats and time                                                     *)
(***************************************************************************)
\* The control plane's answer to a heartbeat offers a newer release, or none.
offerFor == {None} \cup {v \in Versions : v > run}

OnHeartbeat ==
  /\ pc \in {"loop", "staging"} /\ kind[run] # "mute"
  /\ hb' = (hb \/ prob # None)
  /\ offer' \in offerFor
  /\ UNCHANGED <<disk, pc, run, prob, staged, ripe, overdue, cut, proven, cool>>

ProbationTimePasses ==
  \/ pc = "loop" /\ ~ripe /\ ripe' = TRUE /\ UNCHANGED overdue
  \/ Readable /\ ~overdue /\ overdue' = TRUE /\ UNCHANGED ripe

TimePasses ==
  /\ ProbationTimePasses
  /\ UNCHANGED <<disk, pc, run, prob, hb, offer, staged, cut, history>>

\* retryAfterFailure and retryAfterTransient have passed for a version.
FailureAges ==
  /\ \E v \in failed \cup cool : failed' = failed \ {v} /\ cool' = cool \ {v}
  /\ UNCHANGED <<kind, link, installed, pend, mark, report, pc, process, overdue, cut, proven>>

(***************************************************************************)
(* Tick: confirm, roll back or apply                                       *)
(***************************************************************************)
Proves == hb /\ ripe

TickConfirms ==
  /\ pc = "loop" /\ prob # None /\ Proves
  /\ proven' = proven \cup {run}
  /\ pc' = "c_remove"
  /\ UNCHANGED <<disk, process, overdue, cut, cool>>

\* Mutant: the pending update stays after it was confirmed.
ConfirmRemoves_keeps ==
  /\ pc = "c_remove" /\ pc' = "c_report"
  /\ UNCHANGED <<disk, process, overdue, cut, history>>

ConfirmRemoves ==
  /\ pc = "c_remove" /\ pend' = NoPending /\ pc' = "c_report"
  /\ UNCHANGED <<kind, link, installed, mark, failed, report, process, overdue, cut, history>>

\* Mutant: only the version before is kept.
Kept_previous(previous) == {previous}

\* pruneVersions
Kept(previous) == {run, previous}

ConfirmReports ==
  /\ pc = "c_report"
  /\ prob' = None /\ report' = Report("confirmed", run)
  /\ installed' = installed \cap Kept(prob)
  /\ pc' = "loop"
  /\ UNCHANGED <<kind, link, pend, mark, failed, run, hb, offer, staged, ripe, overdue, cut, history>>

TickRollsBack ==
  /\ pc = "loop" /\ prob # None /\ ~Proves /\ overdue /\ pc' = "rb_swap"
  /\ UNCHANGED <<disk, process, overdue, cut, history>>

\* A link that can't be swapped ends the process; the guard counts on.
RollbackSwaps ==
  /\ pc = "rb_swap"
  /\ IF prob \in installed
     THEN LinkBack(prob) /\ pc' = "rb_note"
     ELSE UNCHANGED <<link, cool>> /\ pc' = "down"
  /\ UNCHANGED <<kind, installed, pend, mark, failed, report, process, overdue, cut, proven>>

RollbackNotes ==
  /\ pc = "rb_note"
  /\ failed' = failed \cup {run} /\ report' = Report("rolled_back", run)
  /\ pc' = "rb_remove"
  /\ UNCHANGED <<kind, link, installed, pend, mark, process, overdue, cut, history>>

RollbackRemoves ==
  /\ pc = "rb_remove" /\ pend' = NoPending /\ pc' = "down"
  /\ UNCHANGED <<kind, link, installed, mark, failed, report, process, overdue, cut, history>>

\* The offer is taken; one that failed lately is dropped.
TickApplies ==
  /\ pc = "loop" /\ prob = None /\ offer # None /\ offer' = None
  /\ IF offer \in failed THEN UNCHANGED staged /\ pc' = "loop"
                         ELSE staged' = offer /\ pc' = "staging"
  /\ UNCHANGED <<disk, run, prob, hb, ripe, overdue, cut, history>>

\* Downloading, verifying and self-testing go on without the lock.
StageFails ==
  /\ pc = "staging"
  /\ failed' = failed \cup {staged} /\ report' = Report("failed", staged)
  /\ installed' \in {installed, installed \cup {staged}}
  /\ staged' = None /\ pc' = "loop"
  /\ UNCHANGED <<kind, link, pend, mark, run, prob, hb, offer, ripe, overdue, cut, history>>

StageSucceeds ==
  /\ pc = "staging" /\ installed' = installed \cup {staged} /\ pc' = "a_pend"
  /\ UNCHANGED <<kind, link, pend, mark, failed, report, process, overdue, cut, history>>

Pending(v) == [there |-> TRUE, files |-> Files, target |-> v, previous |-> link, boots |-> 0]

\* A complete directory is renamed into place.
WritePending ==
  /\ pc = "a_pend" /\ pend' = Pending(staged) /\ overdue' = FALSE /\ pc' = "a_swap"
  /\ UNCHANGED <<kind, link, installed, mark, failed, report, process, cut, history>>

ApplySwaps ==
  /\ pc = "a_swap"
  /\ \/ link' = staged /\ pc' = "a_report" /\ UNCHANGED pend
     \/ UNCHANGED link /\ pend' = NoPending /\ pc' = "down"     \* it couldn't: Run ends
  /\ UNCHANGED <<kind, installed, mark, failed, report, process, overdue, cut, history>>

ApplyReports ==
  /\ pc = "a_report" /\ report' = Report("switched", staged) /\ pc' = "down"
  /\ UNCHANGED <<kind, link, installed, pend, mark, failed, process, overdue, cut, history>>

Tick == \/ TickConfirms \/ ConfirmRemoves \/ ConfirmReports
        \/ TickRollsBack \/ RollbackSwaps \/ RollbackNotes \/ RollbackRemoves
        \/ TickApplies \/ StageFails \/ StageSucceeds \/ WritePending \/ ApplySwaps \/ ApplyReports

(***************************************************************************)
(* Dying                                                                   *)
(***************************************************************************)
Dies ==
  /\ pc \in {"startup", "loop", "staging"} /\ pc' = "down"
  /\ UNCHANGED <<disk, process, overdue, cut, history>>

CutPoints == [guard |-> {"g_swap", "g_mark"}, guard_rm |-> {"g_rm"}, apply |-> {"a_pend", "a_swap", "a_report"},
              confirm |-> {"c_remove", "c_report"}, rollback |-> {"rb_swap", "rb_note", "rb_remove"}]

\* A removal that is cut short leaves any of the files.
Cut ==
  /\ cut = "none" /\ \E c \in CutAt : pc \in CutPoints[c] /\ cut' = c
  /\ pc' = "down"
  /\ IF pc \in {"c_remove", "rb_remove", "g_rm"}
     THEN \E left \in SUBSET pend.files : pend' = [pend EXCEPT !.files = left]
     ELSE UNCHANGED pend
  /\ UNCHANGED <<kind, link, installed, mark, failed, report, process, overdue, history>>

Steps == guard \/ ExecStart \/ Startup \/ Tick

Next == Steps \/ OnHeartbeat \/ TimePasses \/ FailureAges \/ Dies \/ Cut

(***************************************************************************)
(* The unit restarts for ever (Restart=always, StartLimitIntervalSec=0),   *)
(* time passes, and an agent that is started again and again gets through  *)
(* its start now and then, if it can.                                      *)
(***************************************************************************)
Fairness == WF_vars(Steps) /\ WF_vars(TimePasses) /\ SF_vars(Startup)

Spec == Init /\ [][Next]_vars /\ Fairness

(***************************************************************************)
(* Properties                                                              *)
(***************************************************************************)
TypeOK ==
  /\ link \in Versions /\ installed \subseteq Versions
  /\ pend \in [there : BOOLEAN, files : SUBSET Files, target : {None} \cup Versions,
               previous : {None} \cup Versions, boots : 0..(MaxBoots + 1)]
  /\ mark \in {None} \cup Versions \cup {MaxVersion + 1} /\ failed \subseteq Versions
  /\ run \in Versions /\ {prob, offer, staged} \subseteq {None} \cup Versions
  /\ hb \in BOOLEAN /\ ripe \in BOOLEAN /\ overdue \in BOOLEAN /\ cut \in CutAt \cup {"none"}

(* What systemd runs is there, and so is what a rollback would go back to, *)
(* whichever versions were pruned and wherever an update was cut short     *)
(* (pruneVersions, swapLink, the guard's check of previous).               *)
LinkRunnable == link \in installed /\ (Readable => pend.previous \in installed)

(* "A new version proves itself before it takes on work": whatever runs    *)
(* without probation has run for a minute with a heartbeat once (Startup,  *)
(* InProbation).                                                           *)
ProvenBeforeWork == (pc = "loop" /\ prob = None) => run \in proven

(* Nothing died while it removed update/pending, or between a rollback and *)
(* the note of it: those leave the updater without the memory that the     *)
(* next two properties rest on.                                          *)
Remembered == cut \in {"none", "guard", "apply"}

(* A version that was confirmed is never taken back, neither by its own    *)
(* deadline nor by the guard's count of later starts (confirm).            *)
ConfirmedStays == [][link' < link /\ Remembered => link \notin proven]_vars

(* A version that was taken back is not switched to again before its wait  *)
(* is over (rememberFailure, recentlyFailed).                              *)
NotTriedAgain == [][link' > link /\ Remembered => link' \notin cool]_vars

(* A release that crashes at every start, or runs and reaches nobody, is   *)
(* always left again, wherever one of the changes on the way was cut short *)
(* (rollback, rowsafe-agent-guard).                                        *)
BrokenGoesBack == \A v \in Versions \ {1} : link = v /\ kind[v] # "good" ~> link # v
=============================================================================
