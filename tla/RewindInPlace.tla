--------------------------- MODULE RewindInPlace ---------------------------
(***************************************************************************)
(* A rewind of the whole database in place, its undo and the deletion of   *)
(* what they keep aside, on the server (internal/agent/rewind_inplace.go,  *)
(* rewind_contents.go, rewind_state.go).  Between any two steps a step may *)
(* fail, which rolls back, or the agent may die, and the next process      *)
(* rolls back by what the record and the directories tell.                 *)
(*                                                                         *)
(* There are two sets of data: "old", what ran before the rewind, and      *)
(* "new", what the rewind restores.  A directory is a set of entries; the  *)
(* first in name order is one PostgreSQL can't start without (PG_VERSION). *)
(* On a native host the directory is renamed; in Docker (Contents) each    *)
(* entry is moved by a rename of its own.                                  *)
(*                                                                         *)
(* Left out: other rewinds of the same database, failing saves of the      *)
(* record, the host going down (PostgreSQL's unit would start by itself).  *)
(***************************************************************************)
EXTENDS Naturals

CONSTANTS
  Entries,      \* entries of a data directory
  FailedDirs,   \* bound: names of directories for failed restores
  Setups        \* the layouts and bounds to look at, one per behaviour

\* contents: the Docker layout (contentsLayout).  The bounds are on failing
\* steps and deaths of the agent, on undos asked for, and on deletions begun
\* (a task's, or kept data that expired).
Setup == [contents : BOOLEAN, faults : Nat, undos : Nat, cleanups : Nat]

ASSUME RewindAssumption ==
  /\ Entries \in Nat \ {0} /\ Setups \subseteq Setup
  /\ FailedDirs \cap {"data", "kept", "aside", "staging", "none", "gone"} = {}

VARIABLES
  at,        \* where each entry of each set of data is
  dirs,      \* the directories that exist
  pg,        \* PostgreSQL: "up" (its unit), "private" (a recovery), "down"
  signal,    \* the data in which newTimeline left a recovery.signal
  tl,        \* the timeline each set of data is on
  repo,      \* the newest timeline whose history is in the repository
  rec,       \* the rewind's record in rewinds.json
  pc,        \* what the holder of inPlaceMu does next
  mv,        \* the move of entries it is in the middle of
  cause,     \* why the last step that failed did: "fault" or "layout"
  warned,    \* history: a rollback said that a full backup is needed
  setup,     \* the setup of this behaviour; never changes
  faults, undos, cleanups

Contents == setup.contents
files == <<at, dirs>>
server == <<pg, signal, tl, repo>>
counts == <<undos, cleanups>>
vars == <<at, dirs, pg, signal, tl, repo, rec, pc, mv, cause, warned, setup, faults, undos, cleanups>>

Names == 1..Entries
Versions == {"old", "new"}
Places == {"data", "kept", "aside", "staging"} \cup FailedDirs
Phases == <<"preflight", "stopped", "moved", "restored", "recovering", "started", "done">>

NoRec == [status |-> "none", phase |-> "done", undo |-> FALSE, kept |-> "kept", failed |-> "none"]
NoMove == [src |-> "data", dst |-> "data", then |-> "idle", bad |-> "idle", todo |-> {}]

Held(p) == {n \in Names : \E v \in Versions : at[v][n] = p}
Whole(v) == \A n \in Names : at[v][n] = "data"
InPlace == {v \in Versions : at[v][1] = "data"}    \* at most one
Current == CHOOSE v \in InPlace : TRUE
Startable == InPlace # {}
Complete == Held("data") = Names

dataPresent == IF Contents THEN Held("data") # {} ELSE "data" \in dirs

phaseBefore(p, ref) ==
  (CHOOSE i \in DOMAIN Phases : Phases[i] = p) < (CHOOSE i \in DOMAIN Phases : Phases[i] = ref)

Init ==
  /\ setup \in Setups
  /\ at = [v \in Versions |-> [n \in Names |-> IF v = "old" THEN "data" ELSE "gone"]]
  /\ dirs = {"data"}
  /\ pg = "up" /\ signal = {} /\ tl = [v \in Versions |-> IF v = "old" THEN 1 ELSE 0] /\ repo = 1
  /\ rec = NoRec /\ pc = "idle" /\ mv = NoMove
  /\ cause = "fault" /\ warned = FALSE
  /\ faults = 0 /\ undos = 0 /\ cleanups = 0

(***************************************************************************)
(* How a step ends                                                         *)
(***************************************************************************)
Goes(l) == pc' = l /\ UNCHANGED <<cause, faults>>
\* Something outside went wrong: the helper, the disk, PostgreSQL.
Fails(l) == pc' = l /\ cause' = "fault" /\ faults < setup.faults /\ faults' = faults + 1
\* What is on disk doesn't let it.
Refuses(l) == pc' = l /\ cause' = "layout" /\ UNCHANGED faults

(***************************************************************************)
(* moveData: a rename, or entry by entry in name order                     *)
(***************************************************************************)
Move(src, dst, then, bad) == [src |-> src, dst |-> dst, then |-> then, bad |-> bad, todo |-> Held(src)]

Moved(n, src, dst) ==
  [v \in Versions |-> [at[v] EXCEPT ![n] = IF @ = src THEN dst ELSE @]]

Renames(m) ==
  /\ ~Contents /\ m.src \in dirs /\ Held(m.dst) = {}
  /\ at' = [v \in Versions |-> [n \in Names |-> IF at[v][n] = m.src THEN m.dst ELSE at[v][n]]]
  /\ dirs' = (dirs \ {m.src}) \cup {m.dst}
  /\ Goes(m.then)

\* rename(2) onto a directory that isn't empty fails.
RenameRefused(m) ==
  /\ ~Contents /\ (m.src \notin dirs \/ Held(m.dst) # {})
  /\ Refuses(m.bad) /\ UNCHANGED files

BeginsMoving(m) ==
  /\ Contents
  /\ IF m.src \in dirs
     THEN dirs' = dirs \cup {m.dst} /\ Goes("moving") /\ UNCHANGED at
     ELSE Refuses(m.bad) /\ UNCHANGED files

moveData(m) ==
  /\ mv' = m
  /\ \/ Renames(m) \/ RenameRefused(m) \/ BeginsMoving(m)
     \/ Fails(m.bad) /\ UNCHANGED files
  /\ UNCHANGED <<server, rec, warned, counts>>

\* An entry present on both sides is never overwritten.
MoveEntry ==
  /\ pc = "moving" /\ mv.todo # {}
  /\ LET n == CHOOSE n \in mv.todo : \A m \in mv.todo : n <= m
     IN IF n \in Held(mv.dst)
        THEN Refuses(mv.bad) /\ UNCHANGED <<at, mv>>
        ELSE /\ at' = Moved(n, mv.src, mv.dst)
             /\ mv' = [mv EXCEPT !.todo = @ \ {n}]
             /\ Goes("moving")
  /\ UNCHANGED <<dirs, server, rec, warned, counts>>

MoveFails ==
  /\ pc = "moving" /\ Fails(mv.bad)
  /\ UNCHANGED <<files, server, rec, mv, warned, counts>>

MoveEnds ==
  /\ pc = "moving" /\ mv.todo = {}
  /\ dirs' = IF mv.src = "data" THEN dirs ELSE dirs \ {mv.src}
  /\ Goes(mv.then)
  /\ UNCHANGED <<at, server, rec, mv, warned, counts>>

(***************************************************************************)
(* Recording a phase (st.update) and going on                              *)
(***************************************************************************)
PhaseSteps ==
  [r_stopped |-> <<"stopped", "r_aside">>,       r_moved |-> <<"moved", "r_ours">>,
   r_ours |-> <<"restored", "r_mkdir">>,         r_replay |-> <<"recovering", "r_recover">>,
   r_starting |-> <<"started", "r_start">>,
   u_stopped |-> <<"stopped", "u_aside">>,       u_moved |-> <<"moved", "u_back">>,
   u_restored |-> <<"restored", "nt_signal">>,   u_starting |-> <<"started", "u_start">>]

RecordPhase ==
  /\ pc \in DOMAIN PhaseSteps
  /\ rec' = [rec EXCEPT !.phase = PhaseSteps[pc][1]]
  /\ Goes(PhaseSteps[pc][2])
  /\ UNCHANGED <<files, server, mv, warned, counts>>

(***************************************************************************)
(* Stopping, starting and private recoveries                               *)
(***************************************************************************)
\* Mutant: what the helper answers is taken for stopped, with no look.
HelperStops_unchecked(l, next, bad) ==
  /\ pc = l /\ pg' \in {"up", "down"} /\ Goes(next)
  /\ UNCHANGED <<files, signal, tl, repo, rec, mv, warned, counts>>

\* The helper's stop of a rewind or an undo; it may stop and still fail.
HelperStops(l, next, bad) ==
  /\ pc = l
  /\ \/ pg' = "down" /\ Goes(next)
     \/ pg' \in {"up", "down"} /\ Fails(bad)
  /\ UNCHANGED <<files, signal, tl, repo, rec, mv, warned, counts>>

\* An older helper that can't stop: the record goes, nothing has changed.
OldHelper ==
  /\ pc = "r_stop" /\ Fails("idle") /\ rec' = NoRec
  /\ UNCHANGED <<files, server, mv, warned, counts>>

\* Through the helper, then with pg_ctl.
ensureStopped(l, next) ==
  /\ pc = l
  /\ \/ pg' = "down" /\ Goes(next)
     \/ pg # "down" /\ UNCHANGED pg /\ Fails("stuck")
  /\ UNCHANGED <<files, signal, tl, repo, rec, mv, warned, counts>>

Promotes(v) == /\ tl' = [tl EXCEPT ![v] = repo + 1] /\ repo' = repo + 1
               /\ signal' = signal \ {v}

\* PostgreSQL starts on what is in the data directory; with a
\* recovery.signal there it first recovers to a new timeline.
ComesUp ==
  /\ Startable /\ pg' = "up"
  /\ IF Current \in signal THEN Promotes(Current) ELSE UNCHANGED <<signal, tl, repo>>

HelperStarts(next, bad) ==
  /\ \/ ComesUp /\ Goes(next)
     \/ ComesUp /\ Fails(bad)
     \/ UNCHANGED server /\ Fails(bad)
     \/ ~Complete /\ UNCHANGED server /\ Refuses(bad)
  /\ UNCHANGED <<files, rec, mv, warned, counts>>

\* waitReady: only PostgreSQL's own socket answers.
WaitReady(l, next, bad) ==
  /\ pc = l
  /\ \/ pg = "up" /\ Goes(next)
     \/ pg = "up" /\ Fails(bad)
     \/ pg # "up" /\ pc' = bad /\ UNCHANGED <<cause, faults>>
  /\ UNCHANGED <<files, server, rec, mv, warned, counts>>

\* A recovery that failed may have been left running; newTimeline takes its
\* recovery.signal away again, and a rollback goes on without it.
RecoveryFails(bad, stays) ==
  /\ pg' \in stays
  /\ signal' = signal \ InPlace
  /\ warned' = (warned \/ (bad = "rb_start"))
  /\ (Fails(bad) \/ (~Complete /\ Refuses(bad)))
  /\ UNCHANGED <<tl, repo>>

RecoverStarts(l, next, bad) ==
  /\ pc = l
  /\ \/ Startable /\ pg' = "private" /\ Goes(next) /\ UNCHANGED <<signal, tl, repo, warned>>
     \/ RecoveryFails(bad, {"down"})
  /\ UNCHANGED <<files, rec, mv, counts>>

RecoverPromotes(l, next, bad) ==
  /\ pc = l
  /\ \/ Promotes(Current) /\ Goes(next) /\ UNCHANGED <<pg, warned>>
     \/ RecoveryFails(bad, {"down", "private"})
  /\ UNCHANGED <<files, rec, mv, counts>>

RecoverStops(l, next, bad) ==
  /\ pc = l
  /\ \/ pg' = "down" /\ Goes(next) /\ signal' = signal \ InPlace /\ UNCHANGED <<tl, repo, warned>>
     \/ RecoveryFails(bad, {"down", "private"})
  /\ UNCHANGED <<files, rec, mv, counts>>

(***************************************************************************)
(* newTimeline, for an undo and for some rollbacks                         *)
(***************************************************************************)
newTimelineThen == IF rec.undo THEN "u_starting" ELSE "rb_start"
newTimelineBad == IF rec.undo THEN "ub" ELSE "rb_start"

newTimeline ==
  \/ /\ pc = "nt_signal"
     /\ signal' = signal \cup InPlace
     /\ Goes("nt_recover")
     /\ UNCHANGED <<files, pg, tl, repo, rec, mv, warned, counts>>
  \/ RecoverStarts("nt_recover", "nt_promote", newTimelineBad)
  \/ RecoverPromotes("nt_promote", "nt_quit", newTimelineBad)
  \/ RecoverStops("nt_quit", newTimelineThen, newTimelineBad)

(***************************************************************************)
(* rewindInPlace                                                           *)
(***************************************************************************)
\* Asked for again only after a rewind that was rolled back (bound).
StartRewind ==
  /\ pc = "idle" /\ rec.status = "none" /\ pg = "up" /\ undos = 0 /\ cleanups = 0
  /\ at' = [at EXCEPT !.new = [n \in Names |-> "gone"]]
  /\ rec' = [NoRec EXCEPT !.status = "in_progress", !.phase = "preflight"]
  /\ Goes("r_stop")
  /\ UNCHANGED <<dirs, server, mv, warned, counts>>

restoreDir == IF Contents THEN "staging" ELSE "data"

MakeRestoreDir ==
  /\ pc = "r_mkdir"
  /\ \/ dirs' = dirs \cup {restoreDir} /\ Goes("r_restore")
     \/ UNCHANGED dirs /\ Fails("rb")
  /\ UNCHANGED <<at, server, rec, mv, warned, counts>>

\* pgBackRest writes what PostgreSQL can't start without last.
RestoreEntry ==
  /\ pc = "r_restore"
  /\ \/ \E n \in Names : /\ at.new[n] = "gone" /\ \A m \in Names : m > n => at.new[m] # "gone"
                         /\ at' = [at EXCEPT !.new[n] = restoreDir]
                         /\ Goes(IF n > 1 THEN "r_restore" ELSE IF Contents THEN "r_place" ELSE "r_config")
     \/ UNCHANGED at /\ Fails("rb")
  /\ UNCHANGED <<dirs, server, rec, mv, warned, counts>>

\* retargetRestore and keepConfig change only configuration.
KeepConfig ==
  /\ pc = "r_config" /\ (Goes("r_replay") \/ Fails("rb"))
  /\ UNCHANGED <<files, server, rec, mv, warned, counts>>

RecordRewound ==
  /\ pc = "r_done"
  /\ rec' = [rec EXCEPT !.status = "kept_before", !.phase = "done"]
  /\ Goes("idle") /\ mv' = NoMove
  /\ UNCHANGED <<files, server, warned, counts>>

rewindInPlace ==
  \/ HelperStops("r_stop", "r_stopped", "rb") \/ OldHelper
  \/ pc = "r_aside" /\ moveData(Move("data", "kept", "r_moved", "rb"))
  \/ MakeRestoreDir \/ RestoreEntry
  \/ pc = "r_place" /\ moveData(Move("staging", "data", "r_config", "rb"))
  \/ KeepConfig
  \/ RecoverStarts("r_recover", "r_promote", "rb")
  \/ RecoverPromotes("r_promote", "r_quit", "rb")
  \/ RecoverStops("r_quit", "r_starting", "rb")
  \/ pc = "r_start" /\ HelperStarts("r_ready", "rb")
  \/ WaitReady("r_ready", "r_done", "rb")
  \/ RecordRewound

(***************************************************************************)
(* rollbackRewind: goes by what is on disk                                 *)
(***************************************************************************)
RollbackBegins ==
  /\ pc = "rb" /\ Goes(IF rec.kept \in dirs THEN "rb_stop" ELSE "rb_start")
  /\ UNCHANGED <<files, server, rec, mv, warned, counts>>

\* Mutant: whatever is in the data directory is taken for the restore.
IsRestore_always == dataPresent

\* Before phaseRestored, a Docker data directory still holds the original.
IsRestore == dataPresent /\ ~(Contents /\ phaseBefore(rec.phase, "restored"))

MoveRestoreAside ==
  /\ pc = "rb_clear"
  /\ IF IsRestore
     THEN /\ FailedDirs \ dirs # {}
          /\ moveData(Move("data", CHOOSE f \in FailedDirs \ dirs : TRUE, "rb_note", "stuck"))
     ELSE Goes("rb_back") /\ UNCHANGED <<files, server, rec, mv, warned, counts>>

NoteFailedDir ==
  /\ pc = "rb_note" /\ rec' = [rec EXCEPT !.failed = mv.dst] /\ Goes("rb_back")
  /\ UNCHANGED <<files, server, mv, warned, counts>>

\* Mutant: only a restore that was started counts as promoted.
MayHavePromoted_late == rec.phase = "started"

MayHavePromoted == rec.phase \in {"recovering", "started"}

NewTimelineNeeded ==
  /\ pc = "rb_timeline" /\ Goes(IF MayHavePromoted THEN "nt_signal" ELSE "rb_start")
  /\ UNCHANGED <<files, server, rec, mv, warned, counts>>

RollbackStarts ==
  /\ pc = "rb_start"
  /\ CASE pg # "down" -> Goes("rb_ready") /\ UNCHANGED <<files, server, rec, mv, warned, counts>>
       [] pg = "down" /\ dataPresent -> HelperStarts("rb_ready", "stuck")
       [] OTHER -> Refuses("stuck") /\ UNCHANGED <<files, server, rec, mv, warned, counts>>

\* os.RemoveAll of the partial restore (isAsidePath: only a directory of that
\* name) and of the staging directory.
RemoveRestore ==
  /\ pc = "rb_clean"
  /\ LET rm == ({rec.failed} \cap FailedDirs) \cup (IF Contents THEN {"staging"} ELSE {})
     IN /\ at' = [v \in Versions |-> [n \in Names |-> IF at[v][n] \in rm THEN "gone" ELSE at[v][n]]]
        /\ dirs' = dirs \ rm
  /\ Goes("rb_forget")
  /\ UNCHANGED <<server, rec, mv, warned, counts>>

ForgetRewind ==
  /\ pc = "rb_forget" /\ rec' = NoRec /\ Goes("idle") /\ mv' = NoMove
  /\ UNCHANGED <<files, server, warned, counts>>

rollbackRewind ==
  \/ RollbackBegins \/ ensureStopped("rb_stop", "rb_clear") \/ MoveRestoreAside \/ NoteFailedDir
  \/ pc = "rb_back" /\ moveData(Move("kept", "data", "rb_timeline", "stuck"))
  \/ NewTimelineNeeded \/ RollbackStarts
  \/ WaitReady("rb_ready", "rb_clean", "stuck")
  \/ RemoveRestore \/ ForgetRewind

(***************************************************************************)
(* rewindUndo and rollbackUndo                                             *)
(***************************************************************************)
StartUndo ==
  /\ pc = "idle" /\ rec.status = "kept_before" /\ pg = "up" /\ undos < setup.undos
  /\ rec.kept \in dirs /\ "aside" \notin dirs
  /\ rec' = [rec EXCEPT !.status = "in_progress", !.undo = TRUE, !.phase = "preflight"]
  /\ undos' = undos + 1
  /\ Goes("u_stop")
  /\ UNCHANGED <<files, server, mv, warned, cleanups>>

\* Mutant: the record goes on naming the directory that was moved back.
RecordUndone_kept ==
  /\ pc = "u_done"
  /\ rec' = [rec EXCEPT !.status = "kept_after_undo", !.phase = "done"]
  /\ Goes("idle") /\ mv' = NoMove
  /\ UNCHANGED <<files, server, warned, counts>>

RecordUndone ==
  /\ pc = "u_done"
  /\ rec' = [rec EXCEPT !.status = "kept_after_undo", !.kept = "aside", !.phase = "done"]
  /\ Goes("idle") /\ mv' = NoMove
  /\ UNCHANGED <<files, server, warned, counts>>

rewindUndo ==
  \/ HelperStops("u_stop", "u_stopped", "ub")
  \/ pc = "u_aside" /\ moveData(Move("data", "aside", "u_moved", "ub"))
  \/ pc = "u_back" /\ moveData(Move("kept", "data", "u_restored", "ub"))
  \/ pc = "u_start" /\ HelperStarts("u_ready", "ub")
  \/ WaitReady("u_ready", "u_done", "ub")
  \/ RecordUndone

UndoRollbackBegins ==
  /\ pc = "ub" /\ Goes(IF "aside" \in dirs THEN "ub_stop" ELSE "ub_start")
  /\ UNCHANGED <<files, server, rec, mv, warned, counts>>

\* Mutant: what is in the data directory always goes back to the kept data.
StillRewound_never == FALSE

\* Docker: the rewound data was being set aside entry by entry.
StillRewound == Contents /\ phaseBefore(rec.phase, "moved")

PutOldAside ==
  /\ pc = "ub_clear"
  /\ CASE StillRewound \/ ~dataPresent -> Goes("ub_back") /\ UNCHANGED <<files, server, rec, mv, warned, counts>>
       [] ~StillRewound /\ dataPresent /\ rec.kept \in dirs /\ ~Contents ->
            Refuses("stuck") /\ UNCHANGED <<files, server, rec, mv, warned, counts>>
       [] OTHER -> moveData(Move("data", "kept", "ub_back", "stuck"))

UndoRollbackStarts ==
  /\ pc = "ub_start"
  /\ IF pg # "down" THEN Goes("ub_ready") /\ UNCHANGED <<files, server, rec, mv, warned, counts>>
                    ELSE HelperStarts("ub_ready", "stuck")

RecordUndoRolledBack ==
  /\ pc = "ub_done"
  /\ rec' = [rec EXCEPT !.status = "kept_before", !.undo = FALSE, !.phase = "done"]
  /\ Goes("idle") /\ mv' = NoMove
  /\ UNCHANGED <<files, server, warned, counts>>

rollbackUndo ==
  \/ UndoRollbackBegins \/ ensureStopped("ub_stop", "ub_clear") \/ PutOldAside
  \/ pc = "ub_back" /\ moveData(Move("aside", "data", "ub_start", "stuck"))
  \/ UndoRollbackStarts \/ WaitReady("ub_ready", "ub_done", "stuck") \/ RecordUndoRolledBack

(***************************************************************************)
(* removeKept, for the cleanup task and for kept data that expired         *)
(***************************************************************************)
StartCleanup ==
  /\ pc = "idle" /\ rec.status \in {"kept_before", "kept_after_undo"} /\ cleanups < setup.cleanups
  /\ cleanups' = cleanups + 1
  /\ Goes(IF rec.kept \in dirs THEN "c_remove" ELSE "c_forget")
  /\ UNCHANGED <<files, server, rec, mv, warned, undos>>

\* os.RemoveAll, in the order the filesystem lists the entries.
RemoveKeptEntry ==
  /\ pc = "c_remove"
  /\ \/ \E n \in Held(rec.kept) : at' = Moved(n, rec.kept, "gone") /\ Goes("c_remove") /\ UNCHANGED dirs
     \/ Held(rec.kept) = {} /\ dirs' = dirs \ {rec.kept} /\ Goes("c_forget") /\ UNCHANGED at
     \/ Fails("idle") /\ UNCHANGED files
  /\ UNCHANGED <<server, rec, mv, warned, counts>>

ForgetKept ==
  /\ pc = "c_forget" /\ rec' = NoRec /\ Goes("idle")
  /\ UNCHANGED <<files, server, mv, warned, counts>>

removeKept == RemoveKeptEntry \/ ForgetKept

(***************************************************************************)
(* Dying and starting again                                                *)
(***************************************************************************)
\* The unit's control group takes a private recovery down with the agent.
Crash ==
  /\ pc \notin {"idle", "boot", "stuck"} /\ faults < setup.faults /\ faults' = faults + 1
  /\ pc' = "boot" /\ mv' = NoMove
  /\ pg' = IF pg = "private" THEN "down" ELSE pg
  /\ UNCHANGED <<files, signal, tl, repo, rec, cause, warned, counts>>

\* A rollback that gave up is tried again when the agent restarts.
Restart ==
  /\ pc = "stuck" /\ pc' = "boot" /\ mv' = NoMove
  /\ pg' = IF pg = "private" THEN "down" ELSE pg
  /\ UNCHANGED <<files, signal, tl, repo, rec, cause, warned, faults, counts>>

recoverInPlace ==
  /\ pc = "boot"
  /\ Goes(IF rec.status # "in_progress" THEN "idle" ELSE IF rec.undo THEN "ub" ELSE "rb")
  /\ UNCHANGED <<files, server, rec, mv, warned, counts>>

Steps == \/ RecordPhase \/ MoveEntry \/ MoveFails \/ MoveEnds \/ newTimeline
         \/ rewindInPlace \/ rollbackRewind \/ rewindUndo \/ rollbackUndo \/ removeKept
         \/ recoverInPlace

Next ==
  /\ \/ Steps \/ StartRewind \/ StartUndo \/ StartCleanup \/ Crash \/ Restart
  /\ UNCHANGED setup

Spec == Init /\ [][Next]_vars /\ WF_vars(Steps /\ UNCHANGED setup)

(***************************************************************************)
(* Properties                                                              *)
(***************************************************************************)
TypeOK ==
  /\ at \in [Versions -> [Names -> Places \cup {"gone"}]]
  /\ dirs \subseteq Places /\ pg \in {"up", "private", "down"} /\ signal \subseteq Versions
  /\ tl \in [Versions -> Nat] /\ repo \in Nat
  /\ rec \in [status : {"none", "in_progress", "kept_before", "kept_after_undo"},
              phase : {Phases[i] : i \in DOMAIN Phases}, undo : BOOLEAN,
              kept : {"kept", "aside"}, failed : Places \cup {"none"}]
  /\ cause \in {"fault", "layout"} /\ warned \in BOOLEAN
  /\ faults \in 0..setup.faults /\ undos \in 0..setup.undos /\ cleanups \in 0..setup.cleanups

(* PostgreSQL's own unit only ever runs on one complete set of data,       *)
(* wherever a rewind, an undo or their rollbacks were cut short            *)
(* (rollbackRewind, rollbackUndo, ensureStopped).  Excepted is an undo of  *)
(* kept data whose deletion was cut short: removeKept leaves a part of it, *)
(* and validKeptDir asks only whether the directory is there.              *)
ServesWhole ==
  (pg = "up" /\ (undos = 0 \/ cleanups = 0)) =>
    \E v \in Versions : /\ Whole(v)
                        /\ \A w \in Versions \ {v}, n \in Names : at[w][n] # "data"

(* "No data was deleted": until somebody deletes the kept data, every      *)
(* entry of the data from before the rewind is still on the server         *)
(* (rewindInPlace's fail, rollbackRewind's RemoveAll).                     *)
OldDataKept == cleanups = 0 => \A n \in Names : at.old[n] # "gone"

(* Once nothing is in progress the record is true: without one the         *)
(* original runs, with one the data it says is kept is there, complete,    *)
(* and the other set is the database (rewindInPlace, rewindUndo).          *)
RecordTrue ==
  (pc = "idle" /\ cleanups = 0) =>
    CASE rec.status = "none" -> Whole("old")
      [] rec.status = "kept_before" -> Whole("new") /\ \A n \in Names : at.old[n] = rec.kept
      [] rec.status = "kept_after_undo" -> Whole("old") /\ \A n \in Names : at.new[n] = rec.kept
      [] OTHER -> FALSE

(* Docker: all of the original data (an undo: of the rewound data) was set *)
(* aside, and a rollback has begun to move it back, entry by entry.        *)
BeganBack ==
  /\ Contents
  /\ IF rec.undo THEN ~phaseBefore(rec.phase, "moved") /\ \E n \in Names : at.new[n] # "aside"
                 ELSE ~phaseBefore(rec.phase, "restored") /\ \E n \in Names : at.old[n] # "kept"

(* An interrupted rewind or undo settles: it ends, or a rollback that met  *)
(* a failure of the server gave up and waits for the agent's next start    *)
(* (recoverRewinds).  What is on disk stops it in one case only: a Docker  *)
(* rollback that was itself interrupted between two renames.  The next one *)
(* takes the entries that are back already for the restore (or for the     *)
(* data an undo puts aside), moves them away or refuses to, and gives up,  *)
(* at every start; the data is all there (OldDataKept) but PostgreSQL      *)
(* stays down.  rewindInPlace's comment promises it back and started.      *)
Settles ==
  rec.status = "in_progress" ~>
    (rec.status # "in_progress" \/ (pc = "stuck" /\ (cause = "fault" \/ BeganBack)))

(* "continue the original on a newer timeline, or backups and restores     *)
(* would follow the abandoned one": a database that nothing is being done  *)
(* to runs on the newest timeline the repository knows, or the rollback    *)
(* said that it doesn't (newTimeline).  Stated for one failure or death in *)
(* a rewind that nobody undoes: a death in the rollback itself, and an     *)
(* undo that fails after its own newTimeline, do leave the data behind.    *)
OnNewestTimeline ==
  (setup.faults <= 1 /\ setup.undos = 0
   /\ pc = "idle" /\ rec.status # "in_progress" /\ pg = "up" /\ ~warned) =>
    \E v \in InPlace : tl[v] = repo

=============================================================================
