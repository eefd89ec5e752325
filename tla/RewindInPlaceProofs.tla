------------------------ MODULE RewindInPlaceProofs ------------------------
(***************************************************************************)
(* A rewind in place, its undo and their rollbacks, for any directory, any *)
(* number of failing steps and deaths of the agent, undos and deletions,   *)
(* on a native host and in Docker.                                         *)
(*                                                                         *)
(* What the properties say of a database nothing is being done to follows  *)
(* from where the two sets of data are at every step in between.  A rewind *)
(* is always in one of five layouts (Original, Parting, Restoring, Torn,   *)
(* Lost) and an undo in one of three (Rewound, Returning, Leaving);  the   *)
(* label, the phase in the record and the move in progress say which.  The *)
(* layouts a death can leave behind are exactly those the rollbacks have   *)
(* to tell apart by what is on disk.  Torn and Lost are the price of two   *)
(* deaths in Docker: a rollback cut short while it moved the original back *)
(* takes part of it for the restore and moves that aside.  No entry is     *)
(* deleted, and PostgreSQL does not come up on what is left.               *)
(*                                                                         *)
(* All of it is claimed as long as not both an undo and a deletion were    *)
(* asked for (Once): a deletion that is cut short leaves kept data that is *)
(* not whole any more, and an undo takes it for the database.              *)
(***************************************************************************)
EXTENDS RewindInPlace, TLAPS

Where == Places \cup {"gone"}
PhaseNames == {"preflight", "stopped", "moved", "restored", "recovering", "started", "done"}
\* Phases in which a Docker data directory still holds the original, and those
\* in which it still holds the rewound data.
Early == {"preflight", "stopped", "moved"}
First == {"preflight", "stopped"}
\* Where a restore is out of the way.
Off == {"staging", "gone"} \cup FailedDirs

Records == [status : {"none", "in_progress", "kept_before", "kept_after_undo"},
            phase : PhaseNames, undo : BOOLEAN, kept : {"kept", "aside"},
            failed : Places \cup {"none"}]

\* What may follow a move, done or not.
Ends == {"idle", "r_moved", "r_config", "rb_note", "rb_timeline", "u_moved", "u_restored",
         "ub_back", "ub_start", "rb", "ub", "stuck"}
MoveRecords == [src : Places, dst : Places, then : Ends, bad : Ends, todo : SUBSET Names]

Typed ==
  /\ at \in [Versions -> [Names -> Where]] /\ dirs \subseteq Places
  /\ pg \in {"up", "private", "down"}
  /\ rec \in Records /\ mv \in MoveRecords
  /\ setup \in Setup /\ undos \in Nat /\ cleanups \in Nat

All(v, p) == \A n \in Names : at[v][n] = p
In(v, S) == \A n \in Names : at[v][n] \in S

\* What is somewhere is in a directory that exists.
Placed == \A v \in Versions, n \in Names : at[v][n] # "gone" => at[v][n] \in dirs

(***************************************************************************)
(* A rewind                                                                *)
(***************************************************************************)
\* The original is the database, or it was put back.
Original == "kept" \notin dirs /\ All("old", "data") /\ In("new", Off)
\* The original is kept aside, whole.
Aside == "kept" \in dirs /\ All("old", "kept")
\* Docker: the original is on its way out, or on its way back before any restore.
Parting == /\ Contents /\ rec.phase \in Early /\ pg = "down" /\ "kept" \in dirs
           /\ In("old", {"data", "kept"}) /\ In("new", Off)
\* A restore is in the data directory, or on its way there or out of it.
Restoring == /\ Aside /\ In("new", Off \cup {"data"}) /\ (Contents => rec.phase \notin Early)
             /\ (pg = "up" => All("new", "data"))
\* Docker: the original was on its way back over a restore when the rollback was
\* cut short; the next one moves what was back aside, PG_VERSION first.
Torn == /\ Contents /\ rec.phase \notin Early /\ pg = "down" /\ "kept" \in dirs
        /\ In("old", {"data", "kept"} \cup FailedDirs) /\ In("new", Off)
        /\ (at["old"][1] = "kept" => All("old", "kept"))
        /\ (at["old"][1] \notin FailedDirs => In("old", {"data", "kept"}))
\* Docker: that came to an end with entries in directories of failed restores.
Lost == /\ Contents /\ pg = "down" /\ "kept" \notin dirs
        /\ In("old", {"data"} \cup FailedDirs) /\ In("new", Off) /\ at["old"][1] \in FailedDirs

Cleared == \A v \in Versions, n \in Names : at[v][n] # "data"

\* Before the restore begins.
SettingAside ==
  /\ pc \in {"r_stop", "r_stopped", "r_aside"} => Original /\ In("new", {"gone"})
  /\ pc = "r_stop" => pg = "up" /\ rec.phase = "preflight"
  /\ pc = "r_stopped" => pg = "down" /\ rec.phase = "preflight"
  /\ pc = "r_aside" => pg = "down" /\ rec.phase = "stopped"
  /\ pc \in {"r_moved", "r_ours", "r_mkdir"} => Aside /\ pg = "down" /\ In("new", {"gone"})
  /\ pc = "r_moved" => rec.phase = "stopped"
  /\ pc = "r_ours" => rec.phase = "moved"
  /\ pc = "r_mkdir" => rec.phase = "restored"

\* The restore, its recovery and its start.
Renewing ==
  /\ pc = "r_restore" => /\ restoreDir \in dirs /\ Aside /\ pg = "down"
                         /\ In("new", {"gone", restoreDir}) /\ rec.phase = "restored"
  /\ pc = "r_place" => Aside /\ pg = "down" /\ All("new", "staging") /\ rec.phase = "restored" /\ Contents
  /\ pc \in {"r_config", "r_replay", "r_recover", "r_promote", "r_quit", "r_starting", "r_start",
             "r_ready", "r_done"} => Aside /\ All("new", "data") /\ rec.phase \notin Early
  /\ pc \in {"r_config", "r_replay", "r_recover", "r_starting", "r_start"} => pg = "down"
  /\ pc \in {"r_promote", "r_quit"} => pg = "private"
  /\ pc \in {"r_ready", "r_done"} => pg = "up"

\* rollbackRewind, and what it finds when the agent comes back.
RollingBack ==
  /\ pc \in {"boot", "stuck", "rb"} => Original \/ Parting \/ Restoring \/ Torn \/ Lost
  /\ pc \in {"rb_stop", "rb_clear"} => Parting \/ Restoring \/ Torn
  /\ pc \in {"rb_clear", "rb_note", "rb_back"} => pg = "down"
  /\ pc = "rb_note" => (Restoring \/ Torn) /\ Cleared /\ mv.dst \in FailedDirs
  /\ pc = "rb_back" => Parting \/ ((Restoring \/ Torn) /\ Cleared)
  /\ pc \in {"rb_timeline", "rb_start", "rb_ready", "nt_signal", "nt_recover"} => Original \/ Lost
  /\ pc \in {"nt_promote", "nt_quit", "rb_clean", "rb_forget"} => Original
  /\ pc \in {"rb_clean", "rb_forget"} => pg = "up"

\* A rewind or its rollback in the middle of a move.
RewindMoves ==
  pc = "moving" =>
    \/ mv.then = "r_moved" /\ rec.phase = "stopped" /\ Parting /\ In("new", {"gone"})
    \/ mv.then = "r_config" /\ Aside /\ In("new", {"staging", "data"}) /\ rec.phase = "restored"
    \/ mv.then = "rb_note" /\ (Restoring \/ Torn)
    \/ mv.then = "rb_timeline" /\ (Parting \/ Torn)

RewindPcs ==
  {"r_stop", "r_stopped", "r_aside", "r_moved", "r_ours", "r_mkdir", "r_restore", "r_place",
   "r_config", "r_replay", "r_recover", "r_promote", "r_quit", "r_starting", "r_start", "r_ready",
   "r_done", "rb", "rb_stop", "rb_clear", "rb_note", "rb_back", "rb_timeline", "rb_start",
   "rb_ready", "rb_clean", "rb_forget",
   "nt_signal", "nt_recover", "nt_promote", "nt_quit", "moving", "boot", "stuck"}

Rewinding ==
  (rec.status = "in_progress" /\ ~rec.undo) =>
    /\ pc \in RewindPcs /\ rec.kept = "kept" /\ undos = 0 /\ cleanups = 0
    /\ rec.failed \in FailedDirs \cup {"none"}
    /\ SettingAside /\ Renewing /\ RollingBack /\ RewindMoves

(***************************************************************************)
(* An undo                                                                 *)
(***************************************************************************)
\* The restore is the database and the original is kept.
Rewound == "aside" \notin dirs /\ All("new", "data") /\ All("old", "kept")
\* The restore was set aside, whole.
Swapped == "aside" \in dirs /\ All("new", "aside")
\* The original is on its way back or, after a failure, out again.
Returning == /\ Swapped /\ In("old", {"kept", "data"})
             /\ (pg # "down" => All("old", "data"))
             /\ (~Contents => All("old", "kept") \/ All("old", "data"))
             /\ (rec.phase \in First => All("old", "kept"))
\* Docker: the restore is on its way out or back in; once the original may be in
\* the data directory (phaseMoved), PG_VERSION tells which.
Leaving == /\ Contents /\ pg = "down" /\ "aside" \in dirs /\ All("old", "kept")
           /\ In("new", {"data", "aside"})
           /\ ((rec.phase \notin First /\ at["new"][1] = "aside") => All("new", "aside"))
\* The original is the database again.
Undone == Swapped /\ All("old", "data") /\ rec.phase \notin First

\* rewindUndo and its newTimeline.
BringingBack ==
  /\ pc \in {"u_stop", "u_stopped", "u_aside"} => Rewound
  /\ pc = "u_stop" => pg = "up" /\ rec.phase = "preflight"
  /\ pc = "u_stopped" => pg = "down" /\ rec.phase = "preflight"
  /\ pc = "u_aside" => pg = "down" /\ rec.phase = "stopped"
  /\ pc \in {"u_moved", "u_back"} => Swapped /\ All("old", "kept") /\ pg = "down"
  /\ pc = "u_moved" => rec.phase = "stopped"
  /\ pc = "u_back" => rec.phase = "moved"
  /\ pc \in {"u_restored", "u_starting", "u_start", "u_ready", "u_done",
             "nt_signal", "nt_recover", "nt_promote", "nt_quit"} => Undone
  /\ pc \in {"u_restored", "nt_signal", "nt_recover", "u_starting", "u_start"} => pg = "down"
  /\ pc \in {"nt_promote", "nt_quit"} => pg = "private"
  /\ pc \in {"u_ready", "u_done"} => pg = "up"

\* rollbackUndo, and what it finds when the agent comes back.
UndoRollingBack ==
  /\ pc \in {"boot", "stuck", "ub"} => Rewound \/ Returning \/ Leaving
  /\ pc \in {"ub_stop", "ub_clear"} => Returning \/ Leaving
  /\ pc \in {"ub_clear", "ub_back"} => pg = "down"
  /\ pc = "ub_back" => (Swapped /\ All("old", "kept")) \/ (Leaving /\ rec.phase \in First)
  /\ pc \in {"ub_start", "ub_ready", "ub_done"} => Rewound
  /\ pc = "ub_done" => pg = "up"

\* An undo or its rollback in the middle of a move.
UndoMoves ==
  pc = "moving" =>
    \/ mv.then = "u_moved" /\ Leaving /\ rec.phase = "stopped"
    \/ mv.then = "u_restored" /\ Returning /\ rec.phase \notin First
    \/ mv.then = "ub_back" /\ rec.phase \notin First /\ (Returning \/ (Leaving /\ at["new"][1] = "data"))
    \/ mv.then = "ub_start" /\ Leaving

UndoPcs ==
  {"u_stop", "u_stopped", "u_aside", "u_moved", "u_back", "u_restored", "u_starting", "u_start",
   "u_ready", "u_done", "ub", "ub_stop", "ub_clear", "ub_back", "ub_start", "ub_ready", "ub_done",
   "nt_signal", "nt_recover", "nt_promote", "nt_quit", "moving", "boot", "stuck"}

Undoing ==
  (rec.status = "in_progress" /\ rec.undo) =>
    /\ pc \in UndoPcs /\ rec.kept = "kept" /\ undos > 0
    /\ BringingBack /\ UndoRollingBack /\ UndoMoves

(***************************************************************************)
(* Nothing in progress                                                     *)
(***************************************************************************)
\* PostgreSQL runs, and the record says what is kept where.
Settled ==
  rec.status # "in_progress" =>
    /\ pc \in {"idle", "boot", "c_remove", "c_forget"} /\ pg = "up"
    /\ pc \in {"c_remove", "c_forget"} => cleanups > 0 /\ rec.status # "none"
    /\ (rec.status = "none" /\ cleanups = 0) => undos = 0 /\ Original
    /\ (rec.status = "none" /\ cleanups > 0) =>
         undos = 0 /\ All("new", "data") /\ In("old", {"kept", "gone"})
    /\ rec.status = "kept_before" =>
         /\ rec.kept = "kept" /\ All("new", "data") /\ In("old", {"kept", "gone"})
         /\ cleanups = 0 => All("old", "kept")
    /\ rec.status = "kept_after_undo" =>
         undos > 0 /\ rec.kept = "aside" /\ All("old", "data") /\ All("new", "aside")

\* The move in progress, entry by entry.
Moves ==
  pc = "moving" =>
    /\ Contents /\ pg = "down" /\ mv.todo = Held(mv.src)
    /\ mv.src \in dirs /\ mv.dst \in dirs
    /\ \/ mv.src = "data" /\ mv.dst = "kept" /\ mv.then = "r_moved" /\ mv.bad = "rb"
       \/ mv.src = "staging" /\ mv.dst = "data" /\ mv.then = "r_config" /\ mv.bad = "rb"
       \/ mv.src = "data" /\ mv.dst \in FailedDirs /\ mv.then = "rb_note" /\ mv.bad = "stuck"
       \/ mv.src = "kept" /\ mv.dst = "data" /\ mv.then = "rb_timeline" /\ mv.bad = "stuck"
       \/ mv.src = "data" /\ mv.dst = "aside" /\ mv.then = "u_moved" /\ mv.bad = "ub"
       \/ mv.src = "kept" /\ mv.dst = "data" /\ mv.then = "u_restored" /\ mv.bad = "ub"
       \/ mv.src = "data" /\ mv.dst = "kept" /\ mv.then = "ub_back" /\ mv.bad = "stuck"
       \/ mv.src = "aside" /\ mv.dst = "data" /\ mv.then = "ub_start" /\ mv.bad = "stuck"

Once == undos = 0 \/ cleanups = 0
Safe == Placed /\ Moves /\ Rewinding /\ Undoing /\ Settled
RInv == Typed /\ (Once => Safe)

(***************************************************************************)
(* Names, phases, lookups and moves                                        *)
(***************************************************************************)
\* The directories have different names, and PG_VERSION is an entry.
LEMMA DirNames ==
  /\ \A f \in FailedDirs : f \notin {"data", "kept", "aside", "staging", "none", "gone"}
  /\ Entries \in Nat /\ 1 \in Names /\ Names \subseteq Nat
BY RewindAssumption DEF Names

\* phaseBefore, for the two phases the rollbacks compare with.
LEMMA PhaseOrder ==
  ASSUME NEW p \in PhaseNames
  PROVE  /\ phaseBefore(p, "restored") <=> p \in Early
         /\ phaseBefore(p, "moved") <=> p \in First
<1> DEFINE N(q) == CHOOSE i \in DOMAIN Phases : Phases[i] = q
<1>1. DOMAIN Phases = 1..7
  BY DEF Phases
<1>2. N("preflight") = 1 /\ N("stopped") = 2 /\ N("moved") = 3 /\ N("restored") = 4
      /\ N("recovering") = 5 /\ N("started") = 6 /\ N("done") = 7
  BY <1>1 DEF Phases
<1> HIDE DEF N
<1>3. \A q \in {"moved", "restored"} : (N(p) < N(q)) <=> p \in (IF q = "moved" THEN First ELSE Early)
  BY <1>2 DEF PhaseNames, First, Early
<1>4. QED
  BY <1>3 DEF phaseBefore, N

\* The empty record and the empty move have their types.
LEMMA NothingTyped == NoRec \in Records /\ NoMove \in MoveRecords
<1>1. NoRec \in Records
  BY DEF NoRec, Records, PhaseNames
<1>2. NoMove \in MoveRecords
  BY DEF NoMove, MoveRecords, Places, Ends
<1>3. QED
  BY <1>1, <1>2

\* A database that was never rewound.
LEMMA InitSafe == Init => RInv
<1> SUFFICES ASSUME Init PROVE RInv
  OBVIOUS
<1>1. /\ at \in [Versions -> [Names -> Where]] /\ dirs \subseteq Places
      /\ All("old", "data") /\ All("new", "gone")
  BY DEF Init, Versions, Where, Places, All
<1>2. rec = NoRec /\ mv = NoMove /\ setup \in Setup /\ undos = 0 /\ cleanups = 0
  BY RewindAssumption DEF Init
<1>3. Typed
  BY <1>1, <1>2, NothingTyped DEF Typed, Init
<1>4. Safe
  BY <1>1, <1>2, DirNames
     DEF Init, Safe, Placed, Moves, Rewinding, Undoing, Settled, Original, All, In, NoRec, Off, Versions
<1>5. QED
  BY <1>3, <1>4 DEF RInv

\* What the entries of a place are, and what PostgreSQL can start on.
LEMMA Lookups ==
  /\ \A p, n : n \in Held(p) <=> (n \in Names /\ (at["old"][n] = p \/ at["new"][n] = p))
  /\ Startable <=> (at["old"][1] = "data" \/ at["new"][1] = "data")
BY DEF Held, Startable, InPlace, Versions

\* What moveData does: a rename, a refusal or a failure that leaves the files
\* alone, or the beginning of a move entry by entry.
MoveEffect(src, dst, then, bad) ==
  /\ mv' \in MoveRecords /\ mv'.src = src /\ mv'.dst = dst /\ mv'.then = then /\ mv'.bad = bad
  /\ mv'.todo = Held(src)
  /\ at' \in [Versions -> [Names -> Where]] /\ dirs' \subseteq Places
  /\ UNCHANGED <<pg, rec, undos, cleanups>>
  /\ \/ /\ ~Contents /\ src \in dirs /\ pc' = then /\ dirs' = (dirs \ {src}) \cup {dst}
        /\ \A v \in Versions, n \in Names :
             at[v][n] # dst /\ at'[v][n] = IF at[v][n] = src THEN dst ELSE at[v][n]
     \/ pc' = bad /\ UNCHANGED <<at, dirs>>
     \/ /\ Contents /\ src \in dirs /\ pc' = "moving" /\ dirs' = dirs \cup {dst} /\ at' = at
        /\ Held(src)' = Held(src)

\* Every move of the model does that.
LEMMA MoveDataEffect ==
  ASSUME Typed, NEW src \in Places, NEW dst \in Places, NEW then \in Ends, NEW bad \in Ends,
         moveData(Move(src, dst, then, bad))
  PROVE  MoveEffect(src, dst, then, bad)
<1> DEFINE m == Move(src, dst, then, bad)
<1>1. /\ m.src = src /\ m.dst = dst /\ m.then = then /\ m.bad = bad /\ m.todo = Held(src)
      /\ m \in MoveRecords
  <2>1. Held(src) \subseteq Names
    BY DEF Held
  <2>2. QED
    BY <2>1 DEF Move, MoveRecords
<1>2. mv' = m /\ UNCHANGED <<pg, rec, undos, cleanups>>
  BY DEF moveData, server, counts
<1> HIDE DEF m
<1>3. CASE Renames(m)
  <2>1. \A v \in Versions, n \in Names : at[v][n] # dst
    BY <1>1, <1>3 DEF Renames, Held
  <2>2. at' = [v \in Versions |-> [n \in Names |-> IF at[v][n] = src THEN dst ELSE at[v][n]]]
    BY <1>1, <1>3 DEF Renames
  <2>3. at' \in [Versions -> [Names -> Where]]
    BY <2>2 DEF Typed, Where
  <2>4. \A v \in Versions, n \in Names : at'[v][n] = IF at[v][n] = src THEN dst ELSE at[v][n]
    BY <2>2
  <2>5. ~Contents /\ src \in dirs /\ pc' = then /\ dirs' = (dirs \ {src}) \cup {dst} /\ dirs' \subseteq Places
    BY <1>1, <1>3 DEF Renames, Goes, Typed
  <2>6. QED
    BY <1>1, <1>2, <2>1, <2>3, <2>4, <2>5 DEF MoveEffect
<1>4. CASE RenameRefused(m) \/ (Fails(m.bad) /\ UNCHANGED files)
  BY <1>1, <1>2, <1>4 DEF RenameRefused, Refuses, Fails, files, Typed, MoveEffect
<1>5. CASE BeginsMoving(m)
  <2>1. at' = at
    BY <1>5 DEF BeginsMoving, files
  <2>2. Held(src)' = Held(src)
    BY <2>1 DEF Held
  <2>3. QED
    BY <1>1, <1>2, <1>5, <2>1, <2>2 DEF BeginsMoving, Goes, Refuses, files, Typed, MoveEffect
<1>6. QED
  BY <1>3, <1>4, <1>5 DEF moveData, m

\* The types, without the rest of the invariant.
LEMMA RIsTyped == RInv => Typed
BY DEF RInv

(***************************************************************************)
(* Steps.  The configurations are expanded from here on.                   *)
(***************************************************************************)
USE DEF Placed, Moves, Rewinding, Undoing, Settled,
        SettingAside, Renewing, RollingBack, RewindMoves, BringingBack, UndoRollingBack, UndoMoves,
        Original, Aside, Parting, Restoring, Torn, Lost, Cleared, Rewound, Swapped, Returning, Leaving,
        Undone, All, In, Early, First, Off, PhaseNames, RewindPcs, UndoPcs, Contents, files, counts, server,
        Goes, Fails, Refuses

\* rewindInPlace sets the original aside.
LEMMA SetsOldAside ==
  ASSUME RInv, UNCHANGED setup, pc = "r_aside",
         moveData(Move("data", "kept", "r_moved", "rb"))
  PROVE  RInv'
<1>1. MoveEffect("data", "kept", "r_moved", "rb")
  BY MoveDataEffect DEF RInv, Places, Ends
<1>2. Typed'
  BY <1>1 DEF RInv, Typed, MoveEffect
<1>3. Safe /\ Once => Safe'
  BY <1>1, DirNames, RIsTyped DEF Typed, Records, Versions, MoveEffect, Safe, Once
<1>4. QED
  BY <1>1, <1>2, <1>3 DEF RInv, Once, MoveEffect

\* Docker: the restore goes from its staging directory to the data directory.
LEMMA PlacesRestore ==
  ASSUME RInv, UNCHANGED setup, pc = "r_place",
         moveData(Move("staging", "data", "r_config", "rb"))
  PROVE  RInv'
<1>1. MoveEffect("staging", "data", "r_config", "rb")
  BY MoveDataEffect DEF RInv, Places, Ends
<1>2. Typed'
  BY <1>1 DEF RInv, Typed, MoveEffect
<1>3. Safe /\ Once => Safe'
  BY <1>1, DirNames, RIsTyped DEF Typed, Records, Versions, MoveEffect, Safe, Once
<1>4. QED
  BY <1>1, <1>2, <1>3 DEF RInv, Once, MoveEffect

\* rollbackRewind puts the original back, once the data directory is clear.
LEMMA PutsOldBack ==
  ASSUME RInv, UNCHANGED setup, pc = "rb_back",
         moveData(Move("kept", "data", "rb_timeline", "stuck"))
  PROVE  RInv'
<1>1. MoveEffect("kept", "data", "rb_timeline", "stuck")
  BY MoveDataEffect DEF RInv, Places, Ends
<1>2. Typed'
  BY <1>1 DEF RInv, Typed, MoveEffect
<1>3. Safe /\ Once => Safe'
  BY <1>1, DirNames, RIsTyped DEF Typed, Records, Versions, MoveEffect, Safe, Once
<1>4. QED
  BY <1>1, <1>2, <1>3 DEF RInv, Once, MoveEffect

\* rewindUndo sets the restore aside.
LEMMA SetsNewAside ==
  ASSUME RInv, UNCHANGED setup, pc = "u_aside",
         moveData(Move("data", "aside", "u_moved", "ub"))
  PROVE  RInv'
<1>1. MoveEffect("data", "aside", "u_moved", "ub")
  BY MoveDataEffect DEF RInv, Places, Ends
<1>2. Typed'
  BY <1>1 DEF RInv, Typed, MoveEffect
<1>3. Safe /\ Once => Safe'
  BY <1>1, DirNames, RIsTyped DEF Typed, Records, Versions, MoveEffect, Safe, Once
<1>4. QED
  BY <1>1, <1>2, <1>3 DEF RInv, Once, MoveEffect

\* rewindUndo puts the original back.
LEMMA BringsOldBack ==
  ASSUME RInv, UNCHANGED setup, pc = "u_back",
         moveData(Move("kept", "data", "u_restored", "ub"))
  PROVE  RInv'
<1>1. MoveEffect("kept", "data", "u_restored", "ub")
  BY MoveDataEffect DEF RInv, Places, Ends
<1>2. Typed'
  BY <1>1 DEF RInv, Typed, MoveEffect
<1>3. Safe /\ Once => Safe'
  BY <1>1, DirNames, RIsTyped DEF Typed, Records, Versions, MoveEffect, Safe, Once
<1>4. QED
  BY <1>1, <1>2, <1>3 DEF RInv, Once, MoveEffect

\* rollbackUndo puts the restore back.
LEMMA PutsNewBack ==
  ASSUME RInv, UNCHANGED setup, pc = "ub_back",
         moveData(Move("aside", "data", "ub_start", "stuck"))
  PROVE  RInv'
<1>1. MoveEffect("aside", "data", "ub_start", "stuck")
  BY MoveDataEffect DEF RInv, Places, Ends
<1>2. Typed'
  BY <1>1 DEF RInv, Typed, MoveEffect
<1>3. Safe /\ Once => Safe'
  BY <1>1, DirNames, RIsTyped DEF Typed, Records, Versions, MoveEffect, Safe, Once
<1>4. QED
  BY <1>1, <1>2, <1>3 DEF RInv, Once, MoveEffect

\* A rollback moves a restore aside, and never takes the original for one before
\* phaseRestored.
LEMMA MovesRestoreAside ==
  ASSUME RInv, UNCHANGED setup, MoveRestoreAside
  PROVE  RInv'
<1> USE DEF MoveRestoreAside
<1>0. rec.phase \in PhaseNames
  BY DEF RInv, Typed, Records
<1>1. IsRestore <=> (dataPresent /\ ~(Contents /\ rec.phase \in Early))
  BY <1>0, PhaseOrder DEF IsRestore
<1>2. CASE ~IsRestore
  <2>1. UNCHANGED <<at, dirs, pg, rec, mv, undos, cleanups>> /\ pc' = "rb_back" /\ pc = "rb_clear"
    BY <1>2
  <2>2. Typed'
    BY <2>1 DEF RInv, Typed
  <2>3. Placed => ((Contents /\ rec.phase \in Early) \/ Cleared)
    BY <1>1, <1>2, Lookups DEF dataPresent, Versions
  <2>4. Safe /\ Once => Safe'
    BY <2>1, <2>3, DirNames, RIsTyped DEF Typed, Records, Versions, Safe, Once
  <2>5. QED
    BY <2>1, <2>2, <2>4 DEF RInv, Once
<1>3. CASE IsRestore
  <2>1. PICK f \in FailedDirs \ dirs : moveData(Move("data", f, "rb_note", "stuck"))
    BY <1>3
  <2>2. MoveEffect("data", f, "rb_note", "stuck")
    BY <2>1, MoveDataEffect DEF RInv, Places, Ends
  <2>3. Typed'
    BY <2>2 DEF RInv, Typed, MoveEffect
  <2>4. Safe /\ Once => Safe'
    BY <1>1, <1>3, <2>2, DirNames, RIsTyped DEF Typed, Records, Versions, MoveEffect, Safe, Once
  <2>5. QED
    BY <2>2, <2>3, <2>4 DEF RInv, Once, MoveEffect
<1>4. QED
  BY <1>2, <1>3

\* rollbackUndo moves the original back to where it was kept, and never takes the
\* rewound data for it before phaseMoved.
LEMMA PutsOldAside ==
  ASSUME RInv, UNCHANGED setup, PutOldAside
  PROVE  RInv'
<1>0. rec.phase \in PhaseNames
  BY DEF RInv, Typed, Records
<1>1. StillRewound <=> (Contents /\ rec.phase \in First)
  BY <1>0, PhaseOrder DEF StillRewound
<1>2. CASE StillRewound \/ ~dataPresent
  <2>1. UNCHANGED <<at, dirs, pg, rec, mv, undos, cleanups>> /\ pc' = "ub_back" /\ pc = "ub_clear"
    BY <1>2 DEF PutOldAside
  <2>2. Typed'
    BY <2>1 DEF RInv, Typed
  <2>3. Placed => ((Contents /\ rec.phase \in First) \/ Cleared)
    BY <1>1, <1>2, Lookups DEF dataPresent, Versions
  <2>4. Safe /\ Once => Safe'
    BY <2>1, <2>3, DirNames, RIsTyped DEF Typed, Records, Versions, Safe, Once
  <2>5. QED
    BY <2>1, <2>2, <2>4 DEF RInv, Once
<1>3. CASE ~StillRewound /\ dataPresent /\ rec.kept \in dirs /\ ~Contents
  <2>1. UNCHANGED <<at, dirs, pg, rec, mv, undos, cleanups>> /\ pc' = "stuck" /\ pc = "ub_clear"
    BY <1>3 DEF PutOldAside
  <2>2. Typed'
    BY <2>1 DEF RInv, Typed
  <2>4. Safe /\ Once => Safe'
    BY <2>1, DirNames, RIsTyped DEF Typed, Records, Versions, Safe, Once
  <2>5. QED
    BY <2>1, <2>2, <2>4 DEF RInv, Once
<1>4. CASE ~StillRewound /\ dataPresent /\ (rec.kept \notin dirs \/ Contents)
  <2>1. moveData(Move("data", "kept", "ub_back", "stuck")) /\ pc = "ub_clear"
    BY <1>4 DEF PutOldAside
  <2>2. MoveEffect("data", "kept", "ub_back", "stuck")
    BY <2>1, MoveDataEffect DEF RInv, Places, Ends
  <2>3. Typed'
    BY <2>2 DEF RInv, Typed, MoveEffect
  <2>4. Contents => \E n \in Names : at["old"][n] = "data" \/ at["new"][n] = "data"
    BY <1>4, Lookups DEF dataPresent
  <2>5. Safe /\ Once => Safe'
    BY <1>1, <1>4, <2>1, <2>2, <2>4, DirNames, RIsTyped DEF Typed, Records, Versions, MoveEffect, Safe, Once
  <2>6. QED
    BY <2>2, <2>3, <2>5 DEF RInv, Once, MoveEffect
<1>5. QED
  BY <1>2, <1>3, <1>4

\* One entry moves; PG_VERSION is the first to go.
LEMMA MovesEntry ==
  ASSUME RInv, UNCHANGED setup, MoveEntry
  PROVE  RInv'
<1> DEFINE first == CHOOSE k \in mv.todo : \A m \in mv.todo : k <= m
<1> SUFFICES ASSUME NEW n, n = first, NEW src, src = mv.src, NEW dst, dst = mv.dst
             PROVE  RInv'
  OBVIOUS
<1>1. mv.todo \subseteq Names /\ src \in Places /\ dst \in Places
  BY DEF RInv, Typed, MoveRecords
<1>2. 1 \in mv.todo => n = 1
  <2>1. ASSUME 1 \in mv.todo PROVE n \in mv.todo /\ n <= 1
    <3>1. \A m \in mv.todo : 1 <= m
      BY <1>1 DEF Names
    <3>2. QED
      BY <2>1, <3>1
  <2> HIDE DEF first
  <2>2. QED
    BY <1>1, <2>1, DirNames DEF Names
<1>3. CASE n \in Held(dst)
  <2>1. UNCHANGED <<at, dirs, pg, rec, mv, undos, cleanups>> /\ pc' = mv.bad /\ pc = "moving"
    BY <1>3 DEF MoveEntry
  <2> HIDE DEF first
  <2>2. Typed'
    BY <2>1 DEF RInv, Typed
  <2>3. Safe /\ Once => Safe'
    BY <2>1, DirNames, RIsTyped DEF Typed, Records, Versions, Safe, Once
  <2>4. QED
    BY <2>1, <2>2, <2>3 DEF RInv, Once
<1>4. CASE n \notin Held(dst)
  <2>1. /\ UNCHANGED <<dirs, pg, rec, undos, cleanups>> /\ pc' = "moving" /\ pc = "moving"
        /\ at' = Moved(n, src, dst) /\ mv' = [mv EXCEPT !.todo = @ \ {n}]
    BY <1>4 DEF MoveEntry
  <2> HIDE DEF first
  <2>2. /\ at' \in [Versions -> [Names -> Where]]
        /\ \A v \in Versions, k \in Names :
             at'[v][k] = IF k = n /\ at[v][k] = src THEN dst ELSE at[v][k]
    BY <1>1, <2>1 DEF Moved, RInv, Typed, Where
  <2>3. /\ mv' \in MoveRecords /\ mv'.src = src /\ mv'.dst = dst /\ mv'.then = mv.then /\ mv'.bad = mv.bad
        /\ mv'.todo = mv.todo \ {n}
    BY <2>1 DEF RInv, Typed, MoveRecords
  <2>4. Typed'
    BY <2>1, <2>2, <2>3 DEF RInv, Typed
  <2>5. ASSUME Safe, Once PROVE /\ mv.todo = Held(src) /\ src # dst /\ dst \in dirs
                                /\ \A v \in Versions : at[v][1] = src => n = 1
    <3>1. mv.todo = Held(src) /\ src # dst /\ dst \in dirs
      BY <2>1, <2>5, DirNames DEF Safe
    <3>2. QED
      BY <1>2, <3>1, DirNames DEF Held
  <2>6. ASSUME Safe, Once PROVE (mv.todo = Held(mv.src))'
    <3>1. \A k : k \in Held(src)' <=> (k \in Held(src) /\ k # n)
      BY <2>2, <2>5, <2>6 DEF Held
    <3>2. Held(src)' = Held(src) \ {n}
      BY <3>1
    <3>3. QED
      BY <2>3, <2>5, <2>6, <3>2 DEF Held
  <2>7. Safe /\ Once => Placed' /\ Moves'
    BY <2>1, <2>2, <2>3, <2>5, <2>6 DEF Safe
  <2>8. ASSUME Safe, Once, rec.status = "in_progress", ~rec.undo PROVE RewindMoves'
    <3> HIDE DEF Placed, Undoing, Settled, SettingAside, Renewing, RollingBack
    <3>0. RewindMoves /\ Moves
      BY <2>1, <2>8 DEF Safe
    <3>1. CASE mv.then = "r_moved"
      BY <2>1, <2>2, <2>3, <3>0, <3>1, DirNames DEF Versions
    <3>2. CASE mv.then = "r_config"
      BY <2>1, <2>2, <2>3, <3>0, <3>2, DirNames DEF Versions
    <3>3. CASE mv.then = "rb_note"
      <4>1. src = "data" /\ dst \in FailedDirs /\ pg = "down"
        BY <2>1, <3>0, <3>3
      <4>2. Restoring => Restoring'
        BY <2>1, <2>2, <4>1, DirNames DEF Versions
      <4>3. Torn => Torn'
        BY <2>1, <2>2, <2>5, <2>8, <4>1, DirNames DEF Versions
      <4>4. QED
        BY <2>1, <2>3, <3>0, <3>3, <4>2, <4>3
    <3>4. CASE mv.then = "rb_timeline"
      <4>1. src = "kept" /\ dst = "data"
        BY <2>1, <3>0, <3>4
      <4>2. Parting => Parting'
        BY <2>1, <2>2, <4>1, DirNames DEF Versions
      <4>3. Torn => Torn'
        BY <2>1, <2>2, <2>5, <2>8, <4>1, DirNames DEF Versions
      <4>4. QED
        BY <2>1, <2>3, <3>0, <3>4, <4>2, <4>3
    <3>5. QED
      BY <2>1, <3>0, <3>1, <3>2, <3>3, <3>4
  <2>9. ASSUME Safe, Once, rec.status = "in_progress", rec.undo PROVE UndoMoves'
    <3> HIDE DEF Placed, Rewinding, Settled, BringingBack, UndoRollingBack
    <3>0. UndoMoves /\ Moves
      BY <2>1, <2>9 DEF Safe
    <3>1. CASE mv.then = "u_moved"
      BY <2>1, <2>2, <2>3, <3>0, <3>1, DirNames DEF Versions
    <3>2. CASE mv.then = "u_restored"
      BY <2>1, <2>2, <2>3, <3>0, <3>2, DirNames DEF Versions
    <3>3. CASE mv.then = "ub_back"
      <4>1. src = "data" /\ dst = "kept" /\ pg = "down" /\ rec.phase \notin First /\ Contents
        BY <2>1, <3>0, <3>3
      <4>2. Returning => Returning'
        BY <2>1, <2>2, <4>1, DirNames DEF Versions
      <4>3. ~(Leaving /\ at["new"][1] = "data")
        BY <1>4, <2>5, <2>9, <4>1, DirNames, Lookups DEF Versions
      <4>4. QED
        BY <2>1, <2>3, <3>0, <3>3, <4>2, <4>3
    <3>4. CASE mv.then = "ub_start"
      <4>1. src = "aside" /\ dst = "data" /\ Leaving
        BY <2>1, <3>0, <3>4
      <4>2. Leaving'
        BY <2>1, <2>2, <2>5, <2>9, <4>1, DirNames DEF Versions
      <4>3. QED
        BY <2>1, <2>3, <3>0, <3>4, <4>2
    <3>5. QED
      BY <2>1, <3>0, <3>1, <3>2, <3>3, <3>4
  <2>10. Safe /\ Once => Rewinding' /\ Undoing' /\ Settled'
    <3> HIDE DEF RewindMoves, UndoMoves, Moves, Placed
    <3>1. QED
      BY <2>1, <2>8, <2>9 DEF Safe
  <2>11. QED
    BY <2>1, <2>4, <2>7, <2>10 DEF RInv, Once, Safe
<1>5. QED
  BY <1>3, <1>4

\* With nothing left to move, the layout is the one the next step expects.
LEMMA EndsMove ==
  ASSUME RInv, UNCHANGED setup, MoveEnds
  PROVE  RInv'
<1>1. /\ UNCHANGED <<at, pg, rec, mv, undos, cleanups>> /\ pc' = mv.then /\ pc = "moving" /\ mv.todo = {}
      /\ dirs' = IF mv.src = "data" THEN dirs ELSE dirs \ {mv.src}
  BY DEF MoveEnds
<1>2. Typed'
  BY <1>1 DEF RInv, Typed
<1>3. ASSUME Safe, Once PROVE \A v \in Versions, n \in Names : at[v][n] # mv.src
  BY <1>1, <1>3, Lookups DEF Safe, Versions
<1>4. Safe /\ Once => Safe'
  BY <1>1, <1>3, DirNames, RIsTyped DEF Typed, Records, Versions, Safe, Once
<1>5. QED
  BY <1>1, <1>2, <1>4 DEF RInv, Once

\* A rewind starts from the original.
LEMMA StartsRewind ==
  ASSUME RInv, UNCHANGED setup, StartRewind
  PROVE  RInv'
<1>1. /\ UNCHANGED <<dirs, pg, mv, undos, cleanups>> /\ pc' = "r_stop" /\ pc = "idle" /\ pg = "up"
      /\ rec.status = "none" /\ undos = 0 /\ cleanups = 0
  BY DEF StartRewind
<1>2. /\ at' \in [Versions -> [Names -> Where]]
      /\ at'["old"] = at["old"] /\ \A n \in Names : at'["new"][n] = "gone"
  BY DEF StartRewind, RInv, Typed, Versions, Where
<1>3. /\ rec' \in Records /\ rec'.status = "in_progress" /\ ~rec'.undo /\ rec'.phase = "preflight"
      /\ rec'.kept = "kept" /\ rec'.failed = "none"
  BY DEF StartRewind, NoRec, Records
<1>4. Typed'
  BY <1>1, <1>2, <1>3 DEF RInv, Typed
<1>5. Safe /\ Once => Safe'
  BY <1>1, <1>2, <1>3, DirNames, RIsTyped DEF Typed, Versions, Safe, Once
<1>6. QED
  BY <1>1, <1>4, <1>5 DEF RInv, Once

\* The directory for the restore.
LEMMA MakesRestoreDir ==
  ASSUME RInv, UNCHANGED setup, MakeRestoreDir
  PROVE  RInv'
<1> USE DEF MakeRestoreDir, restoreDir
<1>1. Typed'
  BY DEF RInv, Typed, Places
<1>2. Safe /\ Once => Safe'
  BY DirNames, RIsTyped DEF Typed, Records, Safe, Once
<1>3. QED
  BY <1>1, <1>2 DEF RInv, Once

\* One entry is restored; PG_VERSION is the last.
LEMMA RestoresEntry ==
  ASSUME RInv, UNCHANGED setup, RestoreEntry
  PROVE  RInv'
<1>1. UNCHANGED <<dirs, pg, rec, mv, undos, cleanups>> /\ pc = "r_restore"
  BY DEF RestoreEntry
<1>2. CASE UNCHANGED at /\ pc' = "rb"
  <2>1. Typed'
    BY <1>1, <1>2 DEF RInv, Typed
  <2>2. Safe /\ Once => Safe'
    BY <1>1, <1>2, DirNames, RIsTyped DEF Typed, Records, Versions, Safe, Once, restoreDir
  <2>3. QED
    BY <1>1, <2>1, <2>2 DEF RInv, Once
<1>3. ASSUME NEW n \in Names, at.new[n] = "gone", \A m \in Names : m > n => at.new[m] # "gone",
             at' = [at EXCEPT !.new[n] = restoreDir],
             pc' = IF n > 1 THEN "r_restore" ELSE IF Contents THEN "r_place" ELSE "r_config"
      PROVE  RInv'
  <2>1. /\ at' \in [Versions -> [Names -> Where]]
        /\ at'["old"] = at["old"]
        /\ \A m \in Names : at'["new"][m] = IF m = n THEN restoreDir ELSE at["new"][m]
    BY <1>3 DEF RInv, Typed, Versions, Where, restoreDir, Places
  <2>2. Typed'
    BY <1>1, <2>1 DEF RInv, Typed
  <2>3. n = 1 => \A m \in Names : m = n \/ at["new"][m] # "gone"
    BY <1>3 DEF Names
  <2>4. n > 1 \/ n = 1
    BY DirNames DEF Names
  <2>5. Safe /\ Once => Safe'
    BY <1>1, <1>3, <2>1, <2>3, <2>4, DirNames, RIsTyped DEF Typed, Records, Versions, Safe, Once, restoreDir
  <2>6. QED
    BY <1>1, <2>2, <2>5 DEF RInv, Once
<1>4. QED
  BY <1>2, <1>3 DEF RestoreEntry

\* What a rollback deletes is never the original.
LEMMA RemovesRestore ==
  ASSUME RInv, UNCHANGED setup, RemoveRestore
  PROVE  RInv'
<1> DEFINE rm == ({rec.failed} \cap FailedDirs) \cup (IF Contents THEN {"staging"} ELSE {})
<1>1. /\ UNCHANGED <<pg, rec, mv, undos, cleanups>> /\ pc' = "rb_forget" /\ pc = "rb_clean"
      /\ dirs' = dirs \ rm
      /\ at' = [v \in Versions |-> [n \in Names |-> IF at[v][n] \in rm THEN "gone" ELSE at[v][n]]]
  BY DEF RemoveRestore
<1>2. \A p \in rm : p \in FailedDirs \cup {"staging"}
  OBVIOUS
<1> HIDE DEF rm
<1>3. /\ at' \in [Versions -> [Names -> Where]]
      /\ \A v \in Versions, n \in Names : at'[v][n] = IF at[v][n] \in rm THEN "gone" ELSE at[v][n]
  BY <1>1 DEF RInv, Typed, Where
<1>4. Typed'
  BY <1>1, <1>3 DEF RInv, Typed
<1>5. Safe /\ Once => Safe'
  BY <1>1, <1>2, <1>3, DirNames, RIsTyped DEF Typed, Records, Versions, Safe, Once
<1>6. QED
  BY <1>1, <1>4, <1>5 DEF RInv, Once

\* A deletion takes kept data only.
LEMMA RemovesKeptEntry ==
  ASSUME RInv, UNCHANGED setup, RemoveKeptEntry
  PROVE  RInv'
<1>1. UNCHANGED <<pg, rec, mv, undos, cleanups>> /\ pc = "c_remove"
  BY DEF RemoveKeptEntry
<1>2. CASE UNCHANGED <<at, dirs>> /\ pc' = "idle"
  <2>1. Typed'
    BY <1>1, <1>2 DEF RInv, Typed
  <2>2. Safe /\ Once => Safe'
    BY <1>1, <1>2, DirNames, RIsTyped DEF Typed, Records, Versions, Safe, Once
  <2>3. QED
    BY <1>1, <2>1, <2>2 DEF RInv, Once
<1>3. CASE at' = at /\ Held(rec.kept) = {} /\ dirs' = dirs \ {rec.kept} /\ pc' = "c_forget"
  <2>1. Typed'
    BY <1>1, <1>3 DEF RInv, Typed
  <2>2. \A v \in Versions, n \in Names : at[v][n] # rec.kept
    BY <1>3 DEF Held
  <2>3. Safe /\ Once => Safe'
    BY <1>1, <1>3, <2>2, DirNames, RIsTyped DEF Typed, Records, Versions, Safe, Once
  <2>4. QED
    BY <1>1, <2>1, <2>3 DEF RInv, Once
<1>4. ASSUME NEW k \in Held(rec.kept), at' = Moved(k, rec.kept, "gone"), dirs' = dirs, pc' = "c_remove"
      PROVE  RInv'
  <2>1. /\ at' \in [Versions -> [Names -> Where]]
        /\ \A v \in Versions, n \in Names :
             at'[v][n] = IF n = k /\ at[v][n] = rec.kept THEN "gone" ELSE at[v][n]
    BY <1>4 DEF Moved, RInv, Typed, Where
  <2>2. Typed'
    BY <1>1, <1>4, <2>1 DEF RInv, Typed
  <2>3. Safe /\ Once => Safe'
    BY <1>1, <1>4, <2>1, DirNames, RIsTyped DEF Typed, Records, Versions, Safe, Once
  <2>4. QED
    BY <1>1, <2>2, <2>3 DEF RInv, Once
<1>5. QED
  BY <1>2, <1>3, <1>4 DEF RemoveKeptEntry

\* The steps that change neither the files nor the record: they stop PostgreSQL
\* or start it, wait for it, or only decide what comes next.
QuietStep ==
  \/ HelperStops("r_stop", "r_stopped", "rb")
  \/ HelperStops("u_stop", "u_stopped", "ub")
  \/ ensureStopped("rb_stop", "rb_clear")
  \/ ensureStopped("ub_stop", "ub_clear")
  \/ WaitReady("r_ready", "r_done", "rb")
  \/ WaitReady("rb_ready", "rb_clean", "stuck")
  \/ WaitReady("u_ready", "u_done", "ub")
  \/ WaitReady("ub_ready", "ub_done", "stuck")
  \/ KeepConfig
  \/ RollbackBegins
  \/ UndoRollbackBegins
  \/ NewTimelineNeeded
  \/ recoverInPlace
  \/ MoveFails
  \/ pc = "r_start" /\ HelperStarts("r_ready", "rb")
  \/ pc = "u_start" /\ HelperStarts("u_ready", "ub")
  \/ RollbackStarts
  \/ UndoRollbackStarts

\* PostgreSQL is started, or what was found to run goes on, only where one set
\* of data is complete.
LEMMA QuietSteps ==
  ASSUME RInv, UNCHANGED setup, QuietStep
  PROVE  RInv'
<1>1. UNCHANGED <<at, dirs, rec, mv, undos, cleanups>> /\ pg' \in {"up", "private", "down"}
  BY DEF QuietStep, HelperStops, ensureStopped, WaitReady, KeepConfig, RollbackBegins, UndoRollbackBegins,
         NewTimelineNeeded, recoverInPlace, MoveFails, HelperStarts, ComesUp, RollbackStarts,
         UndoRollbackStarts, RInv, Typed
<1>2. Typed'
  BY <1>1 DEF RInv, Typed
<1>3. ASSUME Safe, Once PROVE Safe'
  <2> USE <1>3, DirNames, RIsTyped DEF Typed, Records, Safe, Once
  <2>1. CASE HelperStops("r_stop", "r_stopped", "rb")
    BY <2>1 DEF HelperStops
  <2>2. CASE HelperStops("u_stop", "u_stopped", "ub")
    BY <2>2 DEF HelperStops
  <2>3. CASE ensureStopped("rb_stop", "rb_clear")
    BY <2>3 DEF ensureStopped
  <2>4. CASE ensureStopped("ub_stop", "ub_clear")
    BY <2>4 DEF ensureStopped
  <2>5. CASE WaitReady("r_ready", "r_done", "rb")
    BY <2>5 DEF WaitReady
  <2>6. CASE WaitReady("rb_ready", "rb_clean", "stuck")
    BY <2>6 DEF WaitReady
  <2>7. CASE WaitReady("u_ready", "u_done", "ub")
    BY <2>7 DEF WaitReady
  <2>8. CASE WaitReady("ub_ready", "ub_done", "stuck")
    BY <2>8 DEF WaitReady
  <2>9. CASE KeepConfig
    BY <2>9 DEF KeepConfig
  <2>10. CASE RollbackBegins
    BY <2>10 DEF RollbackBegins
  <2>11. CASE UndoRollbackBegins
    BY <2>11 DEF UndoRollbackBegins
  <2>12. CASE NewTimelineNeeded
    BY <2>12 DEF NewTimelineNeeded
  <2>13. CASE recoverInPlace
    BY <2>13 DEF recoverInPlace
  <2>14. CASE MoveFails
    BY <2>14 DEF MoveFails
  <2>15. CASE pc = "r_start" /\ HelperStarts("r_ready", "rb")
    BY <2>15, Lookups DEF HelperStarts, ComesUp
  <2>16. CASE pc = "u_start" /\ HelperStarts("u_ready", "ub")
    BY <2>16, Lookups DEF HelperStarts, ComesUp
  <2>17. CASE RollbackStarts
    BY <2>17, Lookups DEF RollbackStarts, HelperStarts, ComesUp
  <2>18. CASE UndoRollbackStarts
    BY <2>18, Lookups DEF UndoRollbackStarts, HelperStarts, ComesUp
  <2>19. QED
    BY <2>1, <2>2, <2>3, <2>4, <2>5, <2>6, <2>7, <2>8, <2>9, <2>10, <2>11, <2>12, <2>13, <2>14, <2>15,
       <2>16, <2>17, <2>18 DEF QuietStep
<1>4. QED
  BY <1>1, <1>2, <1>3 DEF RInv, Once

\* An older helper that can't stop PostgreSQL ends the rewind before it began.
LEMMA OldHelperStops ==
  ASSUME RInv, UNCHANGED setup, OldHelper
  PROVE  RInv'
<1> USE DEF OldHelper
<1>1. rec' \in Records
  BY NothingTyped DEF RInv, Typed
<1>2. Typed'
  BY <1>1 DEF RInv, Typed
<1>3. Safe /\ Once => Safe'
  BY DirNames, RIsTyped DEF Typed, Records, Safe, Once, NoRec
<1>4. QED
  BY <1>2, <1>3 DEF RInv, Once

\* A phase is recorded where the layout already allows for it.
LEMMA RecordsPhase ==
  ASSUME RInv, UNCHANGED setup, RecordPhase
  PROVE  RInv'
<1> USE DEF RecordPhase, PhaseSteps
<1>1. rec' \in Records
  BY DEF RInv, Typed, Records, MoveRecords
<1>2. Typed'
  BY <1>1 DEF RInv, Typed
<1>3. Safe /\ Once => Safe'
  BY DirNames, RIsTyped DEF Typed, Records, Safe, Once
<1>4. QED
  BY <1>2, <1>3 DEF RInv, Once

\* The rewind is done: the record says what is kept.
LEMMA RecordsRewound ==
  ASSUME RInv, UNCHANGED setup, RecordRewound
  PROVE  RInv'
<1> USE DEF RecordRewound
<1>1. rec' \in Records
  BY DEF RInv, Typed, Records, MoveRecords
<1>2. mv' \in MoveRecords
  BY NothingTyped DEF RInv, Typed
<1>3. Typed'
  BY <1>1, <1>2 DEF RInv, Typed
<1>4. Safe /\ Once /\ Once' => Placed' /\ Moves'
  BY DirNames, RIsTyped DEF Typed, Records, Safe, Once
<1>5. Safe /\ Once /\ Once' => Rewinding'
  BY DirNames, RIsTyped DEF Typed, Records, Safe, Once
<1>6. Safe /\ Once /\ Once' => Undoing'
  BY DirNames, RIsTyped DEF Typed, Records, Safe, Once
<1>7. Safe /\ Once /\ Once' => Settled'
  BY DirNames, RIsTyped DEF Typed, Records, Safe, Once
<1>8. QED
  BY <1>3, <1>4, <1>5, <1>6, <1>7 DEF RInv, Once, Safe, Typed

\* The directory of the failed restore is noted, to be deleted later.
LEMMA NotesFailedDir ==
  ASSUME RInv, UNCHANGED setup, NoteFailedDir
  PROVE  RInv'
<1> USE DEF NoteFailedDir
<1>1. rec' \in Records
  BY DEF RInv, Typed, Records, MoveRecords
<1>2. Typed'
  BY <1>1 DEF RInv, Typed
<1>3. Safe /\ Once => Safe'
  BY DirNames, RIsTyped DEF Typed, Records, Safe, Once
<1>4. QED
  BY <1>2, <1>3 DEF RInv, Once

\* A rolled back rewind leaves no record.
LEMMA ForgetsRewind ==
  ASSUME RInv, UNCHANGED setup, ForgetRewind
  PROVE  RInv'
<1> USE DEF ForgetRewind
<1>1. rec' \in Records
  BY NothingTyped DEF RInv, Typed
<1>2. mv' \in MoveRecords
  BY NothingTyped DEF RInv, Typed
<1>3. Typed'
  BY <1>1, <1>2 DEF RInv, Typed
<1>4. Safe /\ Once => Safe'
  BY DirNames, RIsTyped DEF Typed, Records, Safe, Once, NoRec
<1>5. QED
  BY <1>3, <1>4 DEF RInv, Once

\* Nor does one whose kept data was deleted.
LEMMA ForgetsKept ==
  ASSUME RInv, UNCHANGED setup, ForgetKept
  PROVE  RInv'
<1> USE DEF ForgetKept
<1>1. rec' \in Records
  BY NothingTyped DEF RInv, Typed
<1>2. Typed'
  BY <1>1 DEF RInv, Typed
<1>3. Safe /\ Once => Safe'
  BY DirNames, RIsTyped DEF Typed, Records, Safe, Once, NoRec
<1>4. QED
  BY <1>2, <1>3 DEF RInv, Once

\* An undo starts with all of the original kept.
LEMMA StartsUndo ==
  ASSUME RInv, UNCHANGED setup, StartUndo
  PROVE  RInv'
<1> USE DEF StartUndo
<1>1. rec' \in Records
  BY DEF RInv, Typed, Records, MoveRecords
<1>2. Typed'
  BY <1>1 DEF RInv, Typed
<1>3. Safe /\ Once /\ Once' => Placed' /\ Moves'
  BY DirNames, RIsTyped DEF Typed, Records, Safe, Once
<1>4. Safe /\ Once /\ Once' => Rewinding'
  BY DirNames, RIsTyped DEF Typed, Records, Safe, Once
<1>5. Safe /\ Once /\ Once' => Undoing'
  BY DirNames, RIsTyped DEF Typed, Records, Safe, Once
<1>6. Safe /\ Once /\ Once' => Settled'
  BY DirNames, RIsTyped DEF Typed, Records, Safe, Once
<1>7. QED
  BY <1>2, <1>3, <1>4, <1>5, <1>6 DEF RInv, Once, Safe, Typed

\* The undo is done: the record names what is kept now.
LEMMA RecordsUndone ==
  ASSUME RInv, UNCHANGED setup, RecordUndone
  PROVE  RInv'
<1> USE DEF RecordUndone
<1>1. rec' \in Records
  BY DEF RInv, Typed, Records, MoveRecords
<1>2. mv' \in MoveRecords
  BY NothingTyped DEF RInv, Typed
<1>3. Typed'
  BY <1>1, <1>2 DEF RInv, Typed
<1>4. Safe /\ Once /\ Once' => Placed' /\ Moves'
  BY DirNames, RIsTyped DEF Typed, Records, Safe, Once
<1>5. Safe /\ Once /\ Once' => Rewinding'
  BY DirNames, RIsTyped DEF Typed, Records, Safe, Once
<1>6. Safe /\ Once /\ Once' => Undoing'
  BY DirNames, RIsTyped DEF Typed, Records, Safe, Once
<1>7. Safe /\ Once /\ Once' => Settled'
  BY DirNames, RIsTyped DEF Typed, Records, Safe, Once
<1>8. QED
  BY <1>3, <1>4, <1>5, <1>6, <1>7 DEF RInv, Once, Safe, Typed

\* A rolled back undo leaves the rewind as it was.
LEMMA RecordsUndoRolledBack ==
  ASSUME RInv, UNCHANGED setup, RecordUndoRolledBack
  PROVE  RInv'
<1> USE DEF RecordUndoRolledBack
<1>1. rec' \in Records
  BY DEF RInv, Typed, Records, MoveRecords
<1>2. mv' \in MoveRecords
  BY NothingTyped DEF RInv, Typed
<1>3. Typed'
  BY <1>1, <1>2 DEF RInv, Typed
<1>4. Safe /\ Once /\ Once' => Placed' /\ Moves'
  BY DirNames, RIsTyped DEF Typed, Records, Safe, Once
<1>5. Safe /\ Once /\ Once' => Rewinding'
  BY DirNames, RIsTyped DEF Typed, Records, Safe, Once
<1>6. Safe /\ Once /\ Once' => Undoing'
  BY DirNames, RIsTyped DEF Typed, Records, Safe, Once
<1>7. Safe /\ Once /\ Once' => Settled'
  BY DirNames, RIsTyped DEF Typed, Records, Safe, Once
<1>8. QED
  BY <1>3, <1>4, <1>5, <1>6, <1>7 DEF RInv, Once, Safe, Typed

\* A deletion of kept data begins.
LEMMA StartsCleanup ==
  ASSUME RInv, UNCHANGED setup, StartCleanup
  PROVE  RInv'
<1> USE DEF StartCleanup
<1>1. Typed'
  BY DEF RInv, Typed
<1>2. Safe /\ Once /\ Once' => Placed' /\ Moves'
  BY DirNames, RIsTyped DEF Typed, Records, Safe, Once
<1>3. Safe /\ Once /\ Once' => Rewinding'
  BY DirNames, RIsTyped DEF Typed, Records, Safe, Once
<1>4. Safe /\ Once /\ Once' => Undoing'
  BY DirNames, RIsTyped DEF Typed, Records, Safe, Once
<1>5. Safe /\ Once /\ Once' => Settled'
  <2> HIDE DEF Placed, Moves, Rewinding, Undoing
  <2>1. QED
    BY RIsTyped DEF Typed, Records, Safe, Once
<1>6. Once' => Once
  BY DEF RInv, Typed, Once
<1> HIDE DEF Placed, Moves, Rewinding, Undoing, Settled, StartCleanup
<1>7. QED
  BY <1>1, <1>2, <1>3, <1>4, <1>5, <1>6 DEF RInv, Safe

\* The private recovery of the restore.
LEMMA RecoversRestore ==
  ASSUME RInv, UNCHANGED setup,
         \/ RecoverStarts("r_recover", "r_promote", "rb")
         \/ RecoverPromotes("r_promote", "r_quit", "rb")
         \/ RecoverStops("r_quit", "r_starting", "rb")
  PROVE  RInv'
<1>1. /\ UNCHANGED <<at, dirs, rec, mv, undos, cleanups>>
      /\ \/ pc = "r_recover" /\ pc' = "r_promote" /\ pg' = "private"
         \/ pc = "r_promote" /\ pc' = "r_quit" /\ pg' = pg
         \/ pc = "r_quit" /\ pc' = "r_starting" /\ pg' = "down"
         \/ pc \in {"r_recover", "r_promote", "r_quit"} /\ pc' = "rb" /\ pg' \in {"down", "private"}
  BY DEF RecoverStarts, RecoverPromotes, RecoverStops, RecoveryFails
<1>2. Typed'
  BY <1>1 DEF RInv, Typed
<1>3. Safe /\ Once => Safe'
  BY <1>1, DirNames, RIsTyped DEF Typed, Records, Safe, Once
<1>4. QED
  BY <1>1, <1>2, <1>3 DEF RInv, Once

\* newTimeline only runs on a complete original.
LEMMA NewTimelines ==
  ASSUME RInv, UNCHANGED setup, newTimeline
  PROVE  RInv'
<1>1. /\ UNCHANGED <<at, dirs, rec, mv, undos, cleanups>>
      /\ \/ pc = "nt_signal" /\ pc' = "nt_recover" /\ pg' = pg
         \/ pc = "nt_recover" /\ pc' = "nt_promote" /\ pg' = "private" /\ Startable
         \/ pc = "nt_promote" /\ pc' = "nt_quit" /\ pg' = pg
         \/ pc = "nt_quit" /\ pc' = newTimelineThen /\ pg' = "down"
         \/ pc = "nt_recover" /\ pc' = newTimelineBad /\ pg' = "down"
         \/ pc \in {"nt_promote", "nt_quit"} /\ pc' = newTimelineBad /\ pg' \in {"down", "private"}
  BY DEF newTimeline, RecoverStarts, RecoverPromotes, RecoverStops, RecoveryFails
<1>2. Typed'
  BY <1>1 DEF RInv, Typed
<1>3. Safe /\ Once => Safe'
  BY <1>1, DirNames, Lookups, RIsTyped DEF Typed, Records, Safe, Once, newTimelineThen, newTimelineBad
<1>4. QED
  BY <1>1, <1>2, <1>3 DEF RInv, Once

\* Wherever a rewind or an undo is, it is in one of a few configurations.
LEMMA RewindLayouts ==
  ASSUME Typed, Safe, rec.status = "in_progress", ~rec.undo
  PROVE  Original \/ Parting \/ Restoring \/ Torn \/ Lost
<1> USE DEF Typed, Records, Safe, Versions
<1> HIDE DEF Undoing, Settled
<1>1. CASE pc \in {"r_stop", "r_stopped", "r_aside", "r_moved", "r_ours", "r_mkdir"}
  BY <1>1, DirNames
<1>2. CASE pc \in {"r_restore", "r_place", "r_config", "r_replay", "r_recover", "r_promote", "r_quit",
                   "r_starting", "r_start", "r_ready", "r_done"}
  BY <1>2, DirNames DEF restoreDir
<1>3. CASE pc \in {"rb", "boot", "stuck", "rb_stop", "rb_clear", "rb_note", "rb_back"}
  BY <1>3, DirNames
<1>4. CASE pc \in {"rb_timeline", "rb_start", "rb_ready", "rb_clean", "rb_forget",
                   "nt_signal", "nt_recover", "nt_promote", "nt_quit"}
  BY <1>4, DirNames
<1>5. CASE pc = "moving"
  BY <1>5, DirNames
<1>6. QED
  BY <1>1, <1>2, <1>3, <1>4, <1>5

\* The same for an undo.
LEMMA UndoLayouts ==
  ASSUME Typed, Safe, rec.status = "in_progress", rec.undo
  PROVE  Rewound \/ Returning \/ Leaving
BY DirNames DEF Typed, Records, Safe

\* The agent dies or is restarted anywhere.
LEMMA Dies ==
  ASSUME RInv, UNCHANGED setup, Crash \/ Restart
  PROVE  RInv'
<1>1. /\ UNCHANGED <<at, dirs, rec, undos, cleanups>> /\ mv' = NoMove /\ pc' = "boot"
      /\ pc \notin {"idle", "boot"} /\ pg' = IF pg = "private" THEN "down" ELSE pg
  BY DEF Crash, Restart
<1>2. Typed'
  BY <1>1, NothingTyped DEF RInv, Typed
<1>3. Safe => Placed' /\ Moves' /\ Settled'
  BY <1>1 DEF Safe
<1>4. Safe => Undoing'
  <2>1. ASSUME Safe, rec.status = "in_progress", rec.undo PROVE Rewound' \/ Returning' \/ Leaving'
    BY <1>1, <2>1, UndoLayouts DEF RInv
  <2>2. QED
    BY <1>1, <2>1 DEF Safe
<1>5. Safe => Rewinding'
  <2>1. ASSUME Safe, rec.status = "in_progress", ~rec.undo
        PROVE  Original' \/ Parting' \/ Restoring' \/ Torn' \/ Lost'
    BY <1>1, <2>1, RewindLayouts DEF RInv
  <2> HIDE DEF Original, Parting, Restoring, Torn, Lost
  <2>2. QED
    BY <1>1, <2>1 DEF Safe
<1>6. QED
  BY <1>1, <1>2, <1>3, <1>4, <1>5 DEF RInv, Once, Safe

HIDE DEF Placed, Moves, Rewinding, Undoing, Settled,
         SettingAside, Renewing, RollingBack, RewindMoves, BringingBack, UndoRollingBack, UndoMoves,
         Goes, Fails, Refuses, files, counts, server

(***************************************************************************)
(* The theorems                                                            *)
(***************************************************************************)
\* No step breaks the invariant.
LEMMA StepSafe == RInv /\ [Next]_vars => RInv'
<1> SUFFICES ASSUME RInv, [Next]_vars PROVE RInv'
  OBVIOUS
<1>1. CASE UNCHANGED vars
  <2>1. (Placed' <=> Placed) /\ (Moves' <=> Moves) /\ (Settled' <=> Settled)
    BY <1>1 DEF vars, Placed, Moves, Held, Settled
  <2>2. Rewinding' <=> Rewinding
    BY <1>1 DEF vars, Rewinding, SettingAside, Renewing, RollingBack, RewindMoves, restoreDir
  <2>3. Undoing' <=> Undoing
    BY <1>1 DEF vars, Undoing, BringingBack, UndoRollingBack, UndoMoves
  <2>4. QED
    BY <1>1, <2>1, <2>2, <2>3 DEF vars, RInv, Typed, Safe, Once
<1>2. CASE Next
  <2>0. UNCHANGED setup
    BY <1>2 DEF Next
  <2>1. QuietStep => RInv'
    BY <2>0, QuietSteps
  <2>2. CASE RecordPhase \/ MoveEntry \/ MoveFails \/ MoveEnds \/ newTimeline \/ recoverInPlace
    BY <2>0, <2>1, <2>2, RecordsPhase, MovesEntry, EndsMove, NewTimelines DEF QuietStep
  <2>3. CASE rewindInPlace
    BY <2>0, <2>1, <2>3, OldHelperStops, SetsOldAside, MakesRestoreDir, RestoresEntry, PlacesRestore,
       RecoversRestore, RecordsRewound DEF rewindInPlace, QuietStep
  <2>4. CASE rollbackRewind
    BY <2>0, <2>1, <2>4, MovesRestoreAside, NotesFailedDir, PutsOldBack, RemovesRestore, ForgetsRewind
       DEF rollbackRewind, QuietStep
  <2>5. CASE rewindUndo
    BY <2>0, <2>1, <2>5, SetsNewAside, BringsOldBack, RecordsUndone DEF rewindUndo, QuietStep
  <2>6. CASE rollbackUndo
    BY <2>0, <2>1, <2>6, PutsOldAside, PutsNewBack, RecordsUndoRolledBack DEF rollbackUndo, QuietStep
  <2>7. CASE removeKept
    BY <2>0, <2>7, RemovesKeptEntry, ForgetsKept DEF removeKept
  <2>8. CASE StartRewind \/ StartUndo \/ StartCleanup \/ Crash \/ Restart
    BY <2>0, <2>8, StartsRewind, StartsUndo, StartsCleanup, Dies
  <2>9. QED
    BY <1>2, <2>2, <2>3, <2>4, <2>5, <2>6, <2>7, <2>8 DEF Next, Steps
<1>3. QED
  BY <1>1, <1>2

(* Where the two sets of data are, what the record says and whether         *)
(* PostgreSQL runs always agree (rewindInPlace, rewindUndo, rollbackRewind, *)
(* rollbackUndo, removeKept, recoverRewinds).                              *)
THEOREM RewindSafe == Spec => []RInv
BY InitSafe, StepSafe, PTL DEF Spec

(* "No data was deleted": as long as nobody deletes the kept data, every   *)
(* entry of the original is on the server, however often steps fail and    *)
(* the agent dies (rewindInPlace's fail, rollbackRewind's RemoveAll).      *)
THEOREM OldDataSurvives == Spec => []OldDataKept
<1>1. RInv => OldDataKept
  <2> SUFFICES ASSUME RInv, cleanups = 0, NEW n \in Names PROVE at["old"][n] # "gone"
    BY DEF OldDataKept
  <2>1. Typed /\ Safe
    BY DEF RInv, Once
  <2>2. CASE rec.status = "in_progress" /\ ~rec.undo
    BY <2>1, <2>2, RewindLayouts, DirNames
  <2>3. CASE rec.status = "in_progress" /\ rec.undo
    BY <2>1, <2>3, UndoLayouts
  <2>4. CASE rec.status # "in_progress"
    BY <2>1, <2>4, DirNames DEF Typed, Records, Safe, Settled
  <2>5. QED
    BY <2>2, <2>3, <2>4
<1>2. QED
  BY <1>1, RewindSafe, PTL

(* PostgreSQL's unit runs on one complete set of data only, wherever a     *)
(* rewind, an undo or a deletion was cut short (rollbackRewind,            *)
(* rollbackUndo, ensureStopped).                                           *)
THEOREM ServesOneWholeSet == Spec => []ServesWhole
<1>1. RInv => ServesWhole
  <2> SUFFICES ASSUME RInv, pg = "up", Once
               PROVE  \/ All("old", "data") /\ \A n \in Names : at["new"][n] # "data"
                      \/ All("new", "data") /\ \A n \in Names : at["old"][n] # "data"
    BY DEF ServesWhole, Once, Whole, Versions
  <2>1. Typed /\ Safe
    BY DEF RInv
  <2>2. CASE rec.status = "in_progress" /\ ~rec.undo
    BY <2>1, <2>2, RewindLayouts, DirNames
  <2>3. CASE rec.status = "in_progress" /\ rec.undo
    BY <2>1, <2>3, UndoLayouts
  <2>4. CASE rec.status # "in_progress"
    BY <2>1, <2>4, DirNames DEF Typed, Records, Safe, Settled
  <2>5. QED
    BY <2>2, <2>3, <2>4
<1>2. QED
  BY <1>1, RewindSafe, PTL

(* Once nothing is in progress, the record says what is kept, and that is  *)
(* there, complete (rewindInPlace, rewindUndo, rollbackUndo).              *)
THEOREM RecordSaysTheTruth == Spec => []RecordTrue
<1>1. RInv => RecordTrue
  <2> SUFFICES ASSUME RInv, pc = "idle", cleanups = 0
               PROVE  /\ rec.status = "none" => All("old", "data")
                      /\ rec.status = "kept_before" => All("new", "data") /\ All("old", rec.kept)
                      /\ rec.status = "kept_after_undo" => All("old", "data") /\ All("new", rec.kept)
                      /\ rec.status \in {"none", "kept_before", "kept_after_undo"}
    BY DEF RecordTrue, Whole
  <2>1. Typed /\ Safe
    BY DEF RInv, Once
  <2>2. rec.status # "in_progress"
    BY <2>1 DEF Typed, Records, Safe, Rewinding, Undoing
  <2>3. QED
    BY <2>1, <2>2 DEF Typed, Records, Safe, Settled
<1>2. QED
  BY <1>1, RewindSafe, PTL

(***************************************************************************)
(* Timelines.  From the promotion of the restore on, the original is behind*)
(* the repository until newTimeline promotes it.  A rollback owes it that  *)
(* as long as the phase says that the restore may have been promoted; that *)
(* is forgotten when the original is back in place, so a second failure    *)
(* then would leave it behind: one is all there may be (Spent).            *)
(***************************************************************************)
Spent == faults >= setup.faults
Promoted == rec.phase \in {"recovering", "started"}
OnNewest(v) == tl[v] = repo
Unbroken == setup.faults <= 1 /\ setup.undos = 0 /\ ~warned

\* rewindInPlace.
TimelineForward ==
  /\ pc \in {"r_stop", "r_stopped", "r_aside", "r_moved", "r_ours", "r_mkdir", "r_restore", "r_place",
             "r_config", "r_replay", "r_recover", "r_promote"} => OnNewest("old")
  /\ (pc = "moving" /\ mv.then \in {"r_moved", "r_config"}) => OnNewest("old")
  /\ pc \in {"r_quit", "r_starting", "r_start", "r_ready", "r_done"} => OnNewest("new")
  /\ pc \in {"r_recover", "r_promote", "r_quit", "r_starting", "r_start", "r_ready", "r_done"} => Promoted

\* rollbackRewind.
TimelineBack ==
  /\ pc \in {"boot", "stuck", "rb", "rb_stop", "rb_clear", "rb_note", "rb_back", "moving"} =>
       OnNewest("old") \/ Lost \/ ("kept" \in dirs /\ Promoted /\ Spent)
  /\ pc = "rb_timeline" => OnNewest("old") \/ Lost \/ (Promoted /\ Spent)
  /\ pc \in {"nt_signal", "nt_recover", "nt_promote"} => OnNewest("old") \/ Lost \/ Spent
  /\ pc \in {"nt_quit", "rb_start", "rb_ready", "rb_clean", "rb_forget"} => OnNewest("old") \/ Lost

TimelineTyped == tl \in [Versions -> Nat] /\ repo \in Nat /\ faults \in Nat /\ warned \in BOOLEAN

Newest ==
  /\ undos = 0
  /\ rec.status # "in_progress" => \A v \in Versions : at[v][1] = "data" => OnNewest(v)
  /\ rec.status = "in_progress" => TimelineForward /\ TimelineBack
TInv == TimelineTyped /\ (Unbroken => Newest)

\* Before any rewind the original is on the only timeline.
LEMMA InitNewest == Init => TInv
<1>1. Init => TimelineTyped
  <2>1. Init => tl \in [Versions -> Nat] /\ repo \in Nat /\ faults \in Nat
    BY DEF Init
  <2>2. Init => warned \in BOOLEAN
    BY DEF Init
  <2>3. QED
    BY <2>1, <2>2 DEF TimelineTyped
<1>2. Init => Newest
  BY DirNames DEF Init, Newest, NoRec, OnNewest, Versions
<1>3. QED
  BY <1>1, <1>2 DEF TInv

\* The set of data whose PG_VERSION is in place is the current one.
LEMMA CurrentIs ==
  ASSUME NEW v \in Versions, at[v][1] = "data", \A w \in Versions : w # v => at[w][1] # "data"
  PROVE  Current = v
BY DEF Current, InPlace

\* Faults are counted.
Counted == faults' = faults \/ (faults < setup.faults /\ faults' = faults + 1)

\* The rewind that is in progress, when nobody undoes one.
LEMMA Ongoing ==
  ASSUME RInv, TInv, Unbroken
  PROVE  /\ Safe /\ Newest /\ undos = 0 /\ setup.faults \in Nat /\ faults \in Nat /\ setup.faults <= 1
         /\ setup.undos = 0
         /\ rec.status = "in_progress" => ~rec.undo /\ pc \in RewindPcs
         /\ rec.status # "in_progress" => pc \in {"idle", "boot", "c_remove", "c_forget"}
<1>1. Newest /\ undos = 0
  BY DEF TInv, Newest
<1>2. Safe
  BY <1>1 DEF RInv, Once
<1>3. setup.faults \in Nat /\ faults \in Nat /\ setup.faults <= 1 /\ setup.undos = 0
  BY DEF RInv, Typed, Setup, TInv, TimelineTyped, Unbroken
<1>4. rec.status = "in_progress" => ~rec.undo /\ pc \in RewindPcs
  BY <1>1, <1>2 DEF Safe, Undoing, Rewinding
<1>5. QED
  BY <1>1, <1>2, <1>3, <1>4 DEF Safe, Settled

\* The steps that change no timeline and move no entry.
NoPromotion ==
  \/ HelperStops("r_stop", "r_stopped", "rb") \/ OldHelper
  \/ RecordPhase
  \/ MoveFails
  \/ MakeRestoreDir
  \/ KeepConfig
  \/ WaitReady("r_ready", "r_done", "rb")
  \/ RecordRewound
  \/ RollbackBegins
  \/ ensureStopped("rb_stop", "rb_clear")
  \/ NoteFailedDir
  \/ NewTimelineNeeded
  \/ WaitReady("rb_ready", "rb_clean", "stuck")
  \/ ForgetRewind
  \/ ForgetKept
  \/ StartUndo \/ StartCleanup
  \/ recoverInPlace
  \/ Crash \/ Restart

\* None of them leaves a rollback without the timeline it owes.
LEMMA NewestWithoutPromotion ==
  ASSUME RInv, TInv, Unbroken, UNCHANGED setup, NoPromotion
  PROVE  Newest'
<1> USE Ongoing, DirNames DEF Goes, Fails, Refuses, files, counts, server, Newest, TimelineForward,
        TimelineBack, OnNewest, Promoted, Spent
<1>1. CASE HelperStops("r_stop", "r_stopped", "rb") \/ OldHelper
  BY <1>1
     DEF HelperStops, OldHelper, NoRec, RInv, Typed, Records, Versions, Safe, Rewinding, SettingAside,
         Renewing, RollingBack, RewindMoves
<1>2. CASE RecordPhase
  BY <1>2
     DEF RecordPhase, PhaseSteps, RInv, Typed, Records
<1>3. CASE MoveFails
  BY <1>3
     DEF MoveFails, Moves, Safe, Rewinding, SettingAside,
         Renewing, RollingBack, RewindMoves
<1>4. CASE MakeRestoreDir
  BY <1>4
     DEF MakeRestoreDir
<1>5. CASE KeepConfig
  BY <1>5
     DEF KeepConfig
<1>6. CASE WaitReady("r_ready", "r_done", "rb")
  BY <1>6
     DEF WaitReady, Safe, Rewinding, SettingAside,
         Renewing, RollingBack, RewindMoves
<1>7. CASE RecordRewound
  BY <1>7
     DEF RecordRewound, RInv, Typed, Records, Versions, Safe, Rewinding, SettingAside,
         Renewing, RollingBack, RewindMoves
<1>8. CASE RollbackBegins
  BY <1>8
     DEF RollbackBegins, RInv, Typed, Records, Safe, Rewinding, SettingAside,
         Renewing, RollingBack, RewindMoves
<1>9. CASE ensureStopped("rb_stop", "rb_clear")
  BY <1>9
     DEF ensureStopped, Safe, Rewinding, SettingAside,
         Renewing, RollingBack, RewindMoves
<1>10. CASE NoteFailedDir
  BY <1>10
     DEF NoteFailedDir, RInv, Typed, Records
<1>11. CASE NewTimelineNeeded
  BY <1>11
     DEF NewTimelineNeeded, MayHavePromoted
<1>12. CASE WaitReady("rb_ready", "rb_clean", "stuck")
  BY <1>12
     DEF WaitReady
<1>13. CASE ForgetRewind
  BY <1>13
     DEF ForgetRewind, NoRec, RInv, Typed, Records, Versions, Safe, Rewinding, SettingAside,
         Renewing, RollingBack, RewindMoves
<1>14. CASE ForgetKept
  BY <1>14
     DEF ForgetKept, NoRec, RInv, Typed, Records, Versions, Safe, Rewinding, SettingAside,
         Renewing, RollingBack, RewindMoves
<1>15. CASE StartUndo \/ StartCleanup
  BY <1>15
     DEF StartUndo, StartCleanup, RInv, Typed
<1>16. CASE recoverInPlace
  BY <1>16
     DEF recoverInPlace
<1>17. CASE Crash \/ Restart
  BY <1>17
     DEF Crash, Restart, Safe, Rewinding, SettingAside,
         Renewing, RollingBack, RewindMoves
<1>18. QED
  BY <1>1, <1>2, <1>3, <1>4, <1>5, <1>6, <1>7, <1>8, <1>9, <1>10, <1>11, <1>12, <1>13, <1>14, <1>15,
     <1>16, <1>17 DEF NoPromotion

\* The moves leave the timelines alone; a failed one is counted.
LEMMA NewestAfterSettingAside ==
  ASSUME RInv, TInv, Unbroken, UNCHANGED setup, pc = "r_aside",
         moveData(Move("data", "kept", "r_moved", "rb"))
  PROVE  Newest'
<1>1. MoveEffect("data", "kept", "r_moved", "rb")
  BY MoveDataEffect DEF RInv, Places, Ends
<1>2. UNCHANGED <<tl, repo, undos>> /\ Counted
  BY DEF moveData, Renames, RenameRefused, BeginsMoving, Goes, Fails, Refuses, server, counts, Counted
<1>3. QED
  BY <1>1, <1>2, Ongoing, DirNames
     DEF MoveEffect, Counted, Newest, TimelineForward, TimelineBack, OnNewest, Promoted, Spent, Safe,
        Rewinding, SettingAside, Renewing, RollingBack, RewindMoves

\* The restore is put in place before it is promoted.
LEMMA NewestAfterPlacingRestore ==
  ASSUME RInv, TInv, Unbroken, UNCHANGED setup, pc = "r_place",
         moveData(Move("staging", "data", "r_config", "rb"))
  PROVE  Newest'
<1>1. MoveEffect("staging", "data", "r_config", "rb")
  BY MoveDataEffect DEF RInv, Places, Ends
<1>2. UNCHANGED <<tl, repo, undos>> /\ Counted
  BY DEF moveData, Renames, RenameRefused, BeginsMoving, Goes, Fails, Refuses, server, counts, Counted
<1>3. QED
  BY <1>1, <1>2, Ongoing, DirNames
     DEF MoveEffect, Counted, Newest, TimelineForward, TimelineBack, OnNewest, Promoted, Spent, Safe,
        Rewinding, SettingAside, Renewing, RollingBack, RewindMoves

\* The original is put back and the phase still says what it needs.
LEMMA NewestAfterPuttingBack ==
  ASSUME RInv, TInv, Unbroken, UNCHANGED setup, pc = "rb_back",
         moveData(Move("kept", "data", "rb_timeline", "stuck"))
  PROVE  Newest'
<1>1. MoveEffect("kept", "data", "rb_timeline", "stuck")
  BY MoveDataEffect DEF RInv, Places, Ends
<1>2. UNCHANGED <<tl, repo, undos>> /\ Counted
  BY DEF moveData, Renames, RenameRefused, BeginsMoving, Goes, Fails, Refuses, server, counts, Counted
<1>3. QED
  BY <1>1, <1>2, Ongoing, DirNames
     DEF MoveEffect, Counted, Newest, TimelineForward, TimelineBack, OnNewest, Promoted, Spent, Safe,
        Rewinding, SettingAside, Renewing, RollingBack, RewindMoves

\* So it does while the restore is moved aside.
LEMMA NewestAfterMoveRestoreAside ==
  ASSUME RInv, TInv, Unbroken, UNCHANGED setup, MoveRestoreAside
  PROVE  Newest'
<1>1. CASE ~IsRestore
  BY <1>1, Ongoing, DirNames
     DEF MoveRestoreAside, Goes, files, counts, server, Newest, TimelineForward, TimelineBack, OnNewest,
        Promoted, Spent, Safe, Rewinding, SettingAside, Renewing, RollingBack, RewindMoves
<1>2. CASE IsRestore
  <2>1. PICK f \in FailedDirs \ dirs : moveData(Move("data", f, "rb_note", "stuck")) /\ pc = "rb_clear"
    BY <1>2 DEF MoveRestoreAside
  <2>2. MoveEffect("data", f, "rb_note", "stuck")
    BY <2>1, MoveDataEffect DEF RInv, Places, Ends
  <2>3. UNCHANGED <<tl, repo, undos>> /\ Counted
    BY <2>1 DEF moveData, Renames, RenameRefused, BeginsMoving, Goes, Fails, Refuses, server, counts,
       Counted
  <2>4. QED
    BY <2>1, <2>2, <2>3, Ongoing, DirNames
       DEF MoveEffect, Counted, Newest, TimelineForward, TimelineBack, OnNewest, Promoted, Spent, Safe,
          Rewinding, SettingAside, Renewing, RollingBack, RewindMoves
<1>3. QED
  BY <1>1, <1>2

\* One entry moves.
LEMMA NewestAfterMoveEntry ==
  ASSUME RInv, TInv, Unbroken, UNCHANGED setup, MoveEntry
  PROVE  Newest'
<1>1. /\ UNCHANGED <<dirs, pg, rec, undos, tl, repo, faults>> /\ pc = "moving"
      /\ (pc' = mv.bad /\ UNCHANGED <<at, mv>>) \/ (pc' = "moving" /\ mv'.then = mv.then)
  <2>1. mv \in MoveRecords
    BY DEF RInv, Typed
  <2>2. QED
    BY <2>1 DEF MoveEntry, Goes, Refuses, server, counts, MoveRecords
<1>2. rec.status = "in_progress" /\ "kept" \in dirs
  BY <1>1, Ongoing DEF Safe, Rewinding, RewindMoves
<1>3. mv.bad \in {"rb", "stuck"} /\ (mv.bad = "rb" => mv.then \in {"r_moved", "r_config"})
  BY <1>1, <1>2, Ongoing DEF Safe, Moves, Rewinding, RewindMoves
<1>4. QED
  BY <1>1, <1>2, <1>3, Ongoing, DirNames DEF Newest, TimelineForward, TimelineBack, OnNewest, Promoted,
     Spent

\* A move ends.
LEMMA NewestAfterMoveEnds ==
  ASSUME RInv, TInv, Unbroken, UNCHANGED setup, MoveEnds
  PROVE  Newest'
<1>1. /\ UNCHANGED <<at, pg, rec, mv, undos, tl, repo, faults>> /\ pc' = mv.then /\ pc = "moving"
      /\ dirs' = IF mv.src = "data" THEN dirs ELSE dirs \ {mv.src}
  BY DEF MoveEnds, Goes, server, counts
<1>2. QED
  BY <1>1, Ongoing, DirNames DEF Newest, TimelineForward, TimelineBack, OnNewest, Promoted, Spent, Moves,
     Safe, Rewinding, SettingAside, Renewing, RollingBack, RewindMoves

\* A rewind starts on the newest timeline.
LEMMA NewestAfterStartRewind ==
  ASSUME RInv, TInv, Unbroken, UNCHANGED setup, StartRewind
  PROVE  Newest'
<1>1. /\ UNCHANGED <<undos, tl, repo>> /\ pc' = "r_stop" /\ rec.status = "none" /\ cleanups = 0
      /\ rec'.status = "in_progress"
  BY DEF StartRewind, Goes, server, counts, NoRec
<1>2. at["old"][1] = "data"
  BY <1>1, Ongoing, DirNames DEF Safe, Settled
<1>3. QED
  BY <1>1, <1>2, Ongoing DEF Newest, TimelineForward, TimelineBack, OnNewest, Promoted, Spent, Versions

\* One entry is restored.
LEMMA NewestAfterRestoreEntry ==
  ASSUME RInv, TInv, Unbroken, UNCHANGED setup, RestoreEntry
  PROVE  Newest'
<1>1. /\ UNCHANGED <<dirs, pg, rec, mv, undos, tl, repo>> /\ pc = "r_restore"
      /\ pc' \in {"r_restore", "r_place", "r_config", "rb"}
  BY DEF RestoreEntry, Goes, Fails, server, counts
<1>2. QED
  BY <1>1, Ongoing DEF Newest, TimelineForward, TimelineBack, OnNewest, Promoted, Spent

\* The failed restore is deleted.
LEMMA NewestAfterRemoveRestore ==
  ASSUME RInv, TInv, Unbroken, UNCHANGED setup, RemoveRestore
  PROVE  Newest'
<1>1. UNCHANGED <<pg, rec, mv, undos, tl, repo, faults>> /\ pc = "rb_clean" /\ pc' = "rb_forget"
  BY DEF RemoveRestore, Goes, server, counts
<1>2. rec.status = "in_progress" /\ ~Lost
  BY <1>1, Ongoing, DirNames DEF Safe, Rewinding, RollingBack
<1>3. QED
  BY <1>1, <1>2, Ongoing DEF Newest, TimelineForward, TimelineBack, OnNewest, Promoted, Spent

\* Kept data is deleted: the database stays.
LEMMA NewestAfterRemoveKeptEntry ==
  ASSUME RInv, TInv, Unbroken, UNCHANGED setup, RemoveKeptEntry
  PROVE  Newest'
<1>1. UNCHANGED <<rec, undos, tl, repo>> /\ pc = "c_remove"
  BY DEF RemoveKeptEntry, server, counts
<1>2. rec.status # "in_progress" /\ rec.kept # "data"
  BY <1>1, Ongoing DEF RInv, Typed, Records
<1>3. \A v \in Versions : at'[v][1] = "data" => at[v][1] = "data"
  <2>1. CASE UNCHANGED at
    BY <2>1
  <2>2. ASSUME NEW k \in Held(rec.kept), at' = Moved(k, rec.kept, "gone")
        PROVE  \A v \in Versions : at'[v][1] = "data" => at[v][1] = "data"
    BY <2>2, DirNames DEF Moved, RInv, Typed
  <2>3. QED
    BY <2>1, <2>2 DEF RemoveKeptEntry, files
<1>4. QED
  BY <1>1, <1>2, <1>3, Ongoing DEF Newest, OnNewest

\* PostgreSQL starts on the restore once it is in place.
LEMMA RestoreIsCurrent ==
  ASSUME Typed, Aside, All("new", "data")
  PROVE  Current = "new" /\ Complete /\ Startable
<1>1. Current = "new"
  <2>1. "new" \in Versions /\ at["new"][1] = "data" /\ at["old"][1] # "data"
    BY DirNames DEF Versions
  <2>2. QED
    BY <2>1, CurrentIs DEF Versions
<1>2. Complete
  BY Lookups DEF Complete, Held, Versions
<1>3. Startable
  BY Lookups, DirNames
<1>4. QED
  BY <1>1, <1>2, <1>3

\* And on the original once that is back.
LEMMA OriginalIsCurrent ==
  ASSUME Typed, Original
  PROVE  Current = "old" /\ Complete /\ Startable /\ ~Lost
<1>1. Current = "old"
  <2>1. "old" \in Versions /\ at["old"][1] = "data" /\ at["new"][1] # "data"
    BY DirNames DEF Versions
  <2>2. QED
    BY <2>1, CurrentIs DEF Versions
<1>2. Complete
  BY DEF Complete, Held, Versions
<1>3. Startable /\ ~Lost
  BY Lookups, DirNames
<1>4. QED
  BY <1>1, <1>2, <1>3

\* A promotion puts what it promotes on the newest timeline.
LEMMA PromotesToNewest ==
  ASSUME TimelineTyped, NEW v \in Versions, Promotes(v)
  PROVE  tl'[v] = repo'
BY DEF Promotes, TimelineTyped

\* The recovery of the restore: from its promotion on, the phase says so.
LEMMA NewestAfterRecovery ==
  ASSUME RInv, TInv, Unbroken, UNCHANGED setup,
         \/ RecoverStarts("r_recover", "r_promote", "rb")
         \/ RecoverPromotes("r_promote", "r_quit", "rb")
         \/ RecoverStops("r_quit", "r_starting", "rb")
  PROVE  Newest'
<1>1. UNCHANGED <<at, dirs, rec, mv, undos>> /\ pc \in {"r_recover", "r_promote", "r_quit"}
  BY DEF RecoverStarts, RecoverPromotes, RecoverStops, files, counts
<1>2. /\ rec.status = "in_progress" /\ Promoted /\ "kept" \in dirs
      /\ Current = "new" /\ Complete
  <2>1. rec.status = "in_progress" /\ Aside /\ All("new", "data") /\ Typed
    BY <1>1, Ongoing DEF Safe, Rewinding, Renewing, RInv
  <2>2. QED
    BY <1>1, <2>1, RestoreIsCurrent, Ongoing DEF Newest, TimelineForward
<1>3. \/ pc = "r_recover" /\ pc' = "r_promote" /\ UNCHANGED <<tl, repo>>
      \/ pc = "r_promote" /\ pc' = "r_quit" /\ tl'["new"] = repo'
      \/ pc = "r_quit" /\ pc' = "r_starting" /\ UNCHANGED <<tl, repo>>
      \/ pc' = "rb" /\ faults < setup.faults /\ faults' = faults + 1 /\ UNCHANGED <<tl, repo>>
  BY <1>2, PromotesToNewest DEF RecoverStarts, RecoverPromotes, RecoverStops, RecoveryFails, Goes, Fails,
     Refuses, Versions, TInv
<1>4. QED
  BY <1>1, <1>2, <1>3, Ongoing DEF Newest, TimelineForward, TimelineBack, OnNewest, Promoted, Spent

\* The start of the restore.
LEMMA NewestAfterStart ==
  ASSUME RInv, TInv, Unbroken, UNCHANGED setup, pc = "r_start", HelperStarts("r_ready", "rb")
  PROVE  Newest'
<1>1. UNCHANGED <<at, dirs, rec, mv, undos>>
  BY DEF HelperStarts, files, counts
<1>2. /\ rec.status = "in_progress" /\ Promoted /\ "kept" \in dirs /\ tl["new"] = repo
      /\ Current = "new" /\ Complete
  <2>1. rec.status = "in_progress" /\ Aside /\ All("new", "data") /\ Typed
    BY <1>1, Ongoing DEF Safe, Rewinding, Renewing, RInv
  <2>2. QED
    BY <1>1, <2>1, RestoreIsCurrent, Ongoing DEF Newest, TimelineForward, OnNewest
<1>3. /\ tl'["new"] = repo'
      /\ pc' = "r_ready" \/ (pc' = "rb" /\ faults < setup.faults /\ faults' = faults + 1)
  BY <1>2, PromotesToNewest DEF HelperStarts, ComesUp, Goes, Fails, Refuses, Versions, TInv, server
<1>4. QED
  BY <1>1, <1>2, <1>3, Ongoing DEF Newest, TimelineForward, TimelineBack, OnNewest, Promoted, Spent

\* newTimeline promotes the original, or the rollback warns.
LEMMA NewestAfterNewTimeline ==
  ASSUME RInv, TInv, Unbroken, Unbroken', UNCHANGED setup, newTimeline
  PROVE  Newest'
<1>1. UNCHANGED <<at, dirs, rec, mv, undos>> /\ pc \in {"nt_signal", "nt_recover", "nt_promote", "nt_quit"}
  BY DEF newTimeline, RecoverStarts, RecoverPromotes, RecoverStops, files, counts
<1>2. /\ rec.status = "in_progress" /\ Typed /\ newTimelineThen = "rb_start" /\ newTimelineBad = "rb_start"
      /\ Original \/ Lost
      /\ pc \in {"nt_promote", "nt_quit"} => Original
  BY <1>1, Ongoing DEF RInv, Safe, Rewinding, RollingBack, newTimelineThen, newTimelineBad
<1>3. ~warned'
  BY DEF Unbroken
<1>4. CASE Lost
  <2>1. ~Startable /\ ~Original
    BY <1>4, Lookups, DirNames
  <2>2. pc = "nt_signal" /\ pc' = "nt_recover" /\ pg' = pg
    BY <1>1, <1>2, <1>3, <2>1 DEF newTimeline, RecoverStarts, RecoverPromotes, RecoverStops,
       RecoveryFails, Goes
  <2>3. Lost'
    BY <1>1, <1>4, <2>2
  <2>4. QED
    BY <1>1, <1>2, <2>2, <2>3, Ongoing DEF Newest, TimelineForward, TimelineBack, OnNewest, Promoted, Spent
<1>5. CASE Original
  <2>1. Current = "old" /\ ~Lost
    BY <1>2, <1>5, OriginalIsCurrent
  <2>2. \/ pc = "nt_signal" /\ pc' = "nt_recover" /\ UNCHANGED <<tl, repo, faults>>
        \/ pc = "nt_recover" /\ pc' = "nt_promote" /\ UNCHANGED <<tl, repo, faults>>
        \/ pc = "nt_promote" /\ pc' = "nt_quit" /\ tl'["old"] = repo'
        \/ pc = "nt_quit" /\ pc' = "rb_start" /\ UNCHANGED <<tl, repo>>
    BY <1>1, <1>2, <1>3, <2>1, PromotesToNewest
       DEF newTimeline, RecoverStarts, RecoverPromotes, RecoverStops, RecoveryFails, Goes, Versions, TInv
  <2>3. QED
    BY <1>1, <1>2, <2>1, <2>2, Ongoing DEF Newest, TimelineForward, TimelineBack, OnNewest, Promoted, Spent
<1>6. QED
  BY <1>2, <1>4, <1>5

\* The original is started on the newest timeline.
LEMMA NewestAfterRollbackStarts ==
  ASSUME RInv, TInv, Unbroken, UNCHANGED setup, RollbackStarts
  PROVE  Newest'
<1>1. UNCHANGED <<at, dirs, rec, mv, undos>> /\ pc = "rb_start" /\ pc' \in {"rb_ready", "stuck"}
  BY DEF RollbackStarts, HelperStarts, files, counts, Goes, Fails, Refuses
<1>2. rec.status = "in_progress" /\ Typed /\ (Original \/ Lost)
  BY <1>1, Ongoing DEF RInv, Safe, Rewinding, RollingBack
<1>3. UNCHANGED server \/ (ComesUp /\ Startable)
  BY DEF RollbackStarts, HelperStarts, ComesUp, server
<1>4. CASE Lost
  <2>1. ~Startable
    BY <1>4, Lookups, DirNames
  <2>2. Lost'
    BY <1>1, <1>3, <1>4, <2>1 DEF server
  <2>3. QED
    BY <1>1, <1>2, <2>2, Ongoing DEF Newest, TimelineForward, TimelineBack, OnNewest, Promoted, Spent
<1>5. CASE Original
  <2>1. Current = "old" /\ ~Lost
    BY <1>2, <1>5, OriginalIsCurrent
  <2>2. tl["old"] = repo
    BY <1>1, <1>2, <2>1, Ongoing DEF Newest, TimelineBack, OnNewest
  <2>3. tl'["old"] = repo'
    BY <1>3, <2>1, <2>2, PromotesToNewest DEF ComesUp, Versions, TInv, server
  <2>4. QED
    BY <1>1, <1>2, <2>3, Ongoing DEF Newest, TimelineForward, TimelineBack, OnNewest, Promoted, Spent
<1>6. QED
  BY <1>2, <1>4, <1>5

\* Where no undo may be asked for, none runs.
LEMMA NoUndoRuns ==
  ASSUME RInv, TInv, Unbroken
  PROVE  ~rewindUndo /\ ~rollbackUndo
<1>1. pc \notin {"u_stop", "u_aside", "u_back", "u_start", "u_ready", "u_done", "ub", "ub_stop", "ub_clear",
                "ub_back", "ub_start", "ub_ready", "ub_done"}
  BY Ongoing
<1>2. QED
  BY <1>1 DEF rewindUndo, rollbackUndo, HelperStops, WaitReady, RecordUndone, UndoRollbackBegins,
              ensureStopped, PutOldAside, UndoRollbackStarts, RecordUndoRolledBack

\* What any step does to the counters and the timelines.
TimelineStep ==
  /\ faults' = faults \/ faults' = faults + 1
  /\ UNCHANGED <<tl, repo>> \/ \E v : Promotes(v)
  /\ warned' = warned \/ \E b \in {"rb", "ub", "rb_start"} : warned' = (warned \/ (b = "rb_start"))

\* Every step is of that shape.
LEMMA StepShape ==
  ASSUME Next
  PROVE  TimelineStep
<1> USE DEF TimelineStep, Goes, Fails, Refuses, server, counts, files
<1>1. ASSUME NEW m, moveData(m) PROVE TimelineStep
  BY <1>1 DEF moveData, Renames, RenameRefused, BeginsMoving
<1>2. ASSUME NEW next, NEW bad, HelperStarts(next, bad) PROVE TimelineStep
  BY <1>2 DEF HelperStarts, ComesUp
<1>3. ASSUME NEW l, NEW next, NEW bad \in {"rb", "ub", "rb_start"},
             RecoverStarts(l, next, bad) \/ RecoverPromotes(l, next, bad) \/ RecoverStops(l, next, bad)
      PROVE  TimelineStep
  BY <1>3 DEF RecoverStarts, RecoverPromotes, RecoverStops, RecoveryFails
<1>4. ASSUME NEW l, NEW next, NEW bad,
             HelperStops(l, next, bad) \/ ensureStopped(l, next) \/ WaitReady(l, next, bad)
      PROVE  TimelineStep
  BY <1>4 DEF HelperStops, ensureStopped, WaitReady
<1>5. CASE RecordPhase \/ MoveEntry \/ MoveFails \/ MoveEnds \/ recoverInPlace
  BY <1>5 DEF RecordPhase, MoveEntry, MoveFails, MoveEnds, recoverInPlace
<1>6. CASE newTimeline
  <2>1. newTimelineBad \in {"rb", "ub", "rb_start"}
    BY DEF newTimelineBad
  <2>2. QED
    BY <1>3, <1>6, <2>1 DEF newTimeline
<1>7. CASE rewindInPlace
  BY <1>1, <1>2, <1>3, <1>4, <1>7
     DEF rewindInPlace, OldHelper, MakeRestoreDir, RestoreEntry, KeepConfig, RecordRewound
<1>8. CASE rollbackRewind
  BY <1>1, <1>2, <1>4, <1>8
     DEF rollbackRewind, RollbackBegins, MoveRestoreAside, NoteFailedDir, NewTimelineNeeded, RollbackStarts,
         RemoveRestore, ForgetRewind
<1>9. CASE rewindUndo
  BY <1>1, <1>2, <1>4, <1>9 DEF rewindUndo, RecordUndone
<1>10. CASE rollbackUndo
  BY <1>1, <1>2, <1>4, <1>10
     DEF rollbackUndo, UndoRollbackBegins, PutOldAside, UndoRollbackStarts, RecordUndoRolledBack
<1>11. CASE removeKept
  BY <1>11 DEF removeKept, RemoveKeptEntry, ForgetKept
<1>12. CASE StartRewind \/ StartUndo \/ StartCleanup \/ Crash \/ Restart
  BY <1>12 DEF StartRewind, StartUndo, StartCleanup, Crash, Restart
<1>13. QED
  BY <1>5, <1>6, <1>7, <1>8, <1>9, <1>10, <1>11, <1>12 DEF Next, Steps

\* No step breaks the timelines' invariant.
LEMMA StepNewest == RInv /\ TInv /\ [Next]_vars => TInv'
<1> SUFFICES ASSUME RInv, TInv, [Next]_vars PROVE TInv'
  OBVIOUS
<1>1. CASE UNCHANGED vars
  <2>1. TimelineTyped'
    BY <1>1 DEF vars, TInv, TimelineTyped
  <2>2. Unbroken' => Newest'
    BY <1>1 DEF vars, TInv, Unbroken, Newest, TimelineForward, TimelineBack, OnNewest, Promoted, Spent
  <2>3. QED
    BY <2>1, <2>2 DEF TInv
<1>2. CASE Next
  <2>0. UNCHANGED setup /\ TimelineStep
    BY <1>2, StepShape DEF Next
  <2>1. TimelineTyped'
    <3>1. tl' \in [Versions -> Nat] /\ repo' \in Nat
      BY <2>0 DEF TInv, TimelineTyped, TimelineStep, Promotes
    <3>2. faults' \in Nat
      BY <2>0 DEF TInv, TimelineTyped, TimelineStep
    <3>3. warned' \in BOOLEAN
      BY <2>0 DEF TInv, TimelineTyped, TimelineStep
    <3>4. QED
      BY <3>1, <3>2, <3>3 DEF TimelineTyped
  <2>2. ASSUME Unbroken' PROVE Newest'
    <3>0. Unbroken
      BY <2>0, <2>2 DEF Unbroken, TimelineStep, TInv, TimelineTyped
    <3>1. NoPromotion => Newest'
      BY <2>0, <3>0, NewestWithoutPromotion
    <3>2. CASE RecordPhase \/ MoveEntry \/ MoveFails \/ MoveEnds \/ newTimeline \/ recoverInPlace
      BY <2>0, <2>2, <3>0, <3>1, <3>2, NewestAfterMoveEntry, NewestAfterMoveEnds, NewestAfterNewTimeline
         DEF NoPromotion
    <3>3. CASE rewindInPlace
      BY <2>0, <3>0, <3>1, <3>3, NewestAfterSettingAside, NewestAfterRestoreEntry,
         NewestAfterPlacingRestore,
         NewestAfterRecovery, NewestAfterStart DEF rewindInPlace, NoPromotion
    <3>4. CASE rollbackRewind
      BY <2>0, <3>0, <3>1, <3>4, NewestAfterMoveRestoreAside, NewestAfterPuttingBack,
         NewestAfterRollbackStarts,
         NewestAfterRemoveRestore DEF rollbackRewind, NoPromotion
    <3>5. ~rewindUndo /\ ~rollbackUndo
      BY <3>0, NoUndoRuns
    <3>6. CASE removeKept
      BY <2>0, <3>0, <3>1, <3>6, NewestAfterRemoveKeptEntry DEF removeKept, NoPromotion
    <3>7. CASE StartRewind \/ StartUndo \/ StartCleanup \/ Crash \/ Restart
      BY <2>0, <3>0, <3>1, <3>7, NewestAfterStartRewind DEF NoPromotion
    <3>8. QED
      BY <1>2, <3>2, <3>3, <3>4, <3>5, <3>6, <3>7 DEF Next, Steps
  <2>3. QED
    BY <2>1, <2>2 DEF TInv
<1>3. QED
  BY <1>1, <1>2

(* After one failure or death at most, and with no undo, a database that   *)
(* nothing is being done to is on the newest timeline, or the rollback     *)
(* said that it isn't (newTimeline).                                       *)
THEOREM StaysOnNewestTimeline == Spec => []OnNewestTimeline
<1>1. RInv /\ TInv => OnNewestTimeline
  <2> SUFFICES ASSUME RInv, TInv, Unbroken, rec.status # "in_progress"
               PROVE  \E v \in InPlace : tl[v] = repo
    BY DEF OnNewestTimeline, Unbroken
  <2>1. at["old"][1] = "data" \/ at["new"][1] = "data"
    BY Ongoing, DirNames DEF RInv, Typed, Records, Safe, Settled
  <2>2. QED
    BY <2>1, Ongoing DEF Newest, OnNewest, InPlace, Versions
<1>2. QED
  BY <1>1, InitNewest, StepNewest, InitSafe, StepSafe, PTL DEF Spec

=============================================================================
