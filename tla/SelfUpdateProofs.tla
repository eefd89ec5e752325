------------------------- MODULE SelfUpdateProofs -------------------------
(***************************************************************************)
(* The agent's update of itself, for any number of releases, whatever they *)
(* are like, any limit of the guard and wherever one change of the files   *)
(* is cut short: the link and the way back can be run, nothing works that  *)
(* was not proven, a confirmed version stays, and one that was taken back  *)
(* is not switched to again before its wait is over.                       *)
(*                                                                         *)
(* None of the four is inductive.  The invariant follows the link: it     *)
(* points at a proven version, or at one whose pending update is complete  *)
(* on disk and says so (Supervised); the version to go back to is proven   *)
(* and installed (WayBack); a process runs what is linked until it moves   *)
(* the link itself (Linked, Switching); and, as long as no removal was cut *)
(* short, every proven version is at most the one before a pending update  *)
(* (Upwards).  The last one needs the trail of a rollback on disk besides: *)
(* from the swap of the link to the note in update/failed there is always  *)
(* something that still says which version was taken back (Noted).         *)
(***************************************************************************)
EXTENDS SelfUpdate, TLAPS

PendRec == [there : BOOLEAN, files : SUBSET Files, target : Versions \cup {None},
            previous : Versions \cup {None}, boots : Int]

Typed ==
  /\ link \in Versions /\ run \in Versions /\ proven \subseteq Versions
  /\ prob \in Versions \cup {None} /\ pend \in PendRec
  /\ offer \in {None} \cup {v \in Versions : v > run}
  /\ staged \in {None} \cup {v \in Versions : v > run}

\* The process still is what the link points at.
Loaded == {"startup", "loop", "staging", "c_remove", "c_report", "rb_swap", "a_pend", "a_swap"}

Linked == link \in installed /\ (pc \in Loaded => run = link)

WayBack ==
  /\ pend.there => pend.previous \in installed /\ pend.previous \in proven
  /\ prob # None => prob \in proven
  /\ pc = "g_swap" => pend.there
  /\ pc = "c_report" => ~pend.there

Switching ==
  /\ pc \in {"staging", "a_pend", "a_swap"} => prob = None /\ staged # None
  /\ pc \in {"c_remove", "c_report", "rb_swap"} => prob # None
  /\ pc \in {"a_pend", "a_swap"} => staged \in installed
  /\ pc = "a_swap" => Readable /\ pend.target = staged /\ pend.previous = link

Supervised ==
  /\ link \notin proven => Readable /\ pend.target = link
  /\ pc \in {"loop", "staging", "a_pend", "a_swap"} /\ prob = None => run \in proven
  /\ pc \in {"c_remove", "c_report"} => run \in proven
  /\ pc \in {"rb_note", "rb_remove", "g_mark", "g_rm"} => link \in proven
  /\ pc \in {"loop", "rb_swap"} /\ prob # None =>
       pend.there /\ pend.previous = prob /\ pend.target = run

Upwards ==
  Remembered =>
    /\ \A v \in proven : v <= link
    /\ pend.there /\ pc # "c_remove" =>
         /\ link \in {pend.previous, pend.target} /\ pend.previous < pend.target
         /\ \A v \in proven : v <= pend.previous

UpdateInv == Typed /\ Linked /\ WayBack /\ Switching /\ Supervised /\ Upwards

-----------------------------------------------------------------------------
\* A fresh installation runs its one proven version, with nothing pending.
LEMMA InitSafe == Init => UpdateInv
  BY SelfUpdateAssumption DEF Init, UpdateInv, Typed, PendRec, Loaded, Linked, WayBack, Switching,
     Supervised, Upwards, NoPending, Versions, None, Files, Readable, Remembered

\* Every step of the guard, of Startup and of Tick keeps the link supervised,
\* and so does a death between any two of them.
LEMMA NextSafe == UpdateInv /\ [Next]_vars => UpdateInv'
  <1> SUFFICES ASSUME UpdateInv, [Next]_vars PROVE UpdateInv'
    OBVIOUS
  <1> USE SelfUpdateAssumption DEF UpdateInv, Typed, PendRec, Loaded, Linked, WayBack, Switching,
          Supervised, Upwards, Versions, None, Files, Readable, Remembered, disk, process, history
  <1>1. CASE GuardCounts
    <2>1. CASE ~pend.there
      BY <1>1, <2>1 DEF GuardCounts
    <2>2. CASE pend.there
      <3>1. Counted \in Int
        BY DEF Counted
      <3>2. pend' = [pend EXCEPT !.boots = Counted]
        BY <1>1, <2>2 DEF GuardCounts
      <3>3. Typed' /\ pend'.there = pend.there /\ pend'.files = pend.files
            /\ pend'.target = pend.target /\ pend'.previous = pend.previous
        BY <1>1, <3>1, <3>2 DEF GuardCounts
      <3> QED
        BY <1>1, <2>2, <3>3 DEF GuardCounts
    <2> QED
      BY <2>1, <2>2
  <1>2. CASE GuardSwaps
    BY <1>2 DEF GuardSwaps, LinkBack
  <1>3. CASE GuardMarks
    BY <1>3 DEF GuardMarks
  <1>4. CASE GuardRemoves
    BY <1>4 DEF GuardRemoves, NoPending
  <1>5. CASE ExecStart
    BY <1>5 DEF ExecStart
  <1>6. CASE StartupMark
    BY <1>6 DEF StartupMark
  <1>7. CASE StartupPending
    BY <1>7 DEF StartupPending, OnProbation, NoPending
  <1>8. CASE OnHeartbeat
    BY <1>8 DEF OnHeartbeat, offerFor
  <1>9. CASE TimePasses
    BY <1>9 DEF TimePasses, ProbationTimePasses
  <1>10. CASE FailureAges
    BY <1>10 DEF FailureAges
  <1>11. CASE TickConfirms
    BY <1>11 DEF TickConfirms
  <1>12. CASE ConfirmRemoves
    BY <1>12 DEF ConfirmRemoves, NoPending
  <1>13. CASE ConfirmReports
    BY <1>13 DEF ConfirmReports, Kept
  <1>14. CASE TickRollsBack
    BY <1>14 DEF TickRollsBack
  <1>15. CASE RollbackSwaps
    BY <1>15 DEF RollbackSwaps, LinkBack
  <1>16. CASE RollbackNotes
    BY <1>16 DEF RollbackNotes
  <1>17. CASE RollbackRemoves
    BY <1>17 DEF RollbackRemoves, NoPending
  <1>18. CASE TickApplies
    BY <1>18 DEF TickApplies
  <1>19. CASE StageFails
    BY <1>19 DEF StageFails
  <1>20. CASE StageSucceeds
    BY <1>20 DEF StageSucceeds
  <1>21. CASE WritePending
    BY <1>21 DEF WritePending, Pending
  <1>22. CASE ApplySwaps
    <2>1. CASE link' = staged /\ pc' = "a_report" /\ UNCHANGED pend
      <3>1. staged \in Versions /\ staged > link /\ staged \in installed
        BY <1>22 DEF ApplySwaps
      <3> QED
        BY <1>22, <2>1, <3>1 DEF ApplySwaps
    <2>2. CASE UNCHANGED link /\ pend' = NoPending /\ pc' = "down"
      BY <1>22, <2>2 DEF ApplySwaps, NoPending
    <2> QED
      BY <1>22, <2>1, <2>2 DEF ApplySwaps
  <1>23. CASE ApplyReports
    BY <1>23 DEF ApplyReports
  <1>24. CASE Dies
    BY <1>24 DEF Dies
  <1>25. CASE Cut
    BY <1>25 DEF Cut, CutPoints
  <1>26. CASE UNCHANGED vars
    BY <1>26 DEF vars
  <1> QED
    BY <1>1, <1>2, <1>3, <1>4, <1>5, <1>6, <1>7, <1>8, <1>9, <1>10, <1>11, <1>12, <1>13, <1>14,
       <1>15, <1>16, <1>17, <1>18, <1>19, <1>20, <1>21, <1>22, <1>23, <1>24, <1>25, <1>26
       DEF Next, Steps, guard, Startup, Tick

-----------------------------------------------------------------------------
\* The link is supervised in every state.
LEMMA Safe == Spec => []UpdateInv
  BY InitSafe, NextSafe, PTL DEF Spec

(***************************************************************************)
(* systemd always finds the version the link points at, and a rollback of  *)
(* the version that is pending finds the one before it: pruneVersions      *)
(* never removes either and swapLink never leaves the link at another.     *)
(***************************************************************************)
THEOREM LinkAlwaysRunnable == Spec => []LinkRunnable
  <1>1. UpdateInv => LinkRunnable
    BY DEF UpdateInv, Linked, WayBack, LinkRunnable, Readable
  <1> QED
    BY <1>1, Safe, PTL

(***************************************************************************)
(* "A new version proves itself before it takes on work": wherever an      *)
(* update or its rollback is cut short, a process that works without       *)
(* probation (InProbation) is of a version that was confirmed.             *)
(***************************************************************************)
THEOREM WorkOnlyWhenProven == Spec => []ProvenBeforeWork
  <1>1. UpdateInv => ProvenBeforeWork
    BY DEF UpdateInv, Supervised, ProvenBeforeWork
  <1> QED
    BY <1>1, Safe, PTL

(***************************************************************************)
(* Neither the guard's count nor the deadline of the probation moves the   *)
(* link away from a version that was confirmed, as long as no removal of   *)
(* the pending update was cut short.  Only GuardSwaps and RollbackSwaps    *)
(* move it backwards, and both from a version above every confirmed one.   *)
(***************************************************************************)
THEOREM ConfirmedNeverTakenBack == Spec => ConfirmedStays
  <1>1. UpdateInv /\ [Next]_vars => [link' < link /\ Remembered => link \notin proven]_vars
    <2> SUFFICES ASSUME UpdateInv, Next, link' < link, Remembered PROVE link \notin proven
      OBVIOUS
    <2> USE DEF UpdateInv, Typed, PendRec, Versions, None
    <2>1. CASE GuardSwaps
      BY <2>1, SelfUpdateAssumption DEF GuardSwaps, LinkBack, WayBack, Upwards
    <2>2. CASE RollbackSwaps
      BY <2>2, SelfUpdateAssumption DEF RollbackSwaps, LinkBack, Supervised, Switching, Upwards
    <2>3. CASE ApplySwaps
      <3>1. link' \in {link, staged} /\ run = link /\ staged # None
        BY <2>3 DEF ApplySwaps, Switching, Linked, Loaded
      <3>2. staged > link
        BY <3>1
      <3> QED
        BY <3>1, <3>2, SelfUpdateAssumption
    <2>4. CASE link' = link
      BY <2>4, SelfUpdateAssumption
    <2> QED
      BY <2>1, <2>2, <2>3, <2>4
      DEF Next, Steps, guard, Startup, Tick, disk, GuardCounts, GuardMarks, GuardRemoves, ExecStart,
          StartupMark, StartupPending, OnHeartbeat, TimePasses, FailureAges, TickConfirms,
          ConfirmRemoves, ConfirmReports, TickRollsBack, RollbackNotes, RollbackRemoves, TickApplies,
          StageFails, StageSucceeds, WritePending, ApplyReports, Dies, Cut
  <1> QED
    BY <1>1, Safe, PTL DEF Spec, ConfirmedStays

-----------------------------------------------------------------------------
\* The guard took v back and has not written its mark: the count of boots
\* is still over the limit, so every later start comes this way again.
GuardOwes(v) ==
  /\ pc \in {"down", "g_swap", "g_mark"}
  /\ Readable /\ pend.target = v /\ pend.previous = link /\ pend.boots > MaxBoots

\* What says that v was taken back.
Noted(v) == v \in failed \/ mark = v \/ (pc = "rb_note" /\ run = v) \/ GuardOwes(v)

\* A mark is read before anything else happens to the updater.
MarkFirst ==
  /\ pc \in {"loop", "staging", "a_pend", "a_swap", "c_remove", "c_report", "rb_swap", "rb_note"} => mark = None
  /\ pc = "g_swap" => pend.boots > MaxBoots
  /\ pc = "g_mark" => pend.there /\ pend.boots > MaxBoots /\ pend.previous = link
  /\ Remembered => /\ pend.there => pend.files = Files
                   /\ pend.there /\ mark # None => pc = "g_rm" /\ mark = pend.target

TakenBackNoted ==
  /\ cool \subseteq Versions
  /\ Remembered => /\ \A v \in cool : Noted(v)
                   /\ pc \in {"staging", "a_pend", "a_swap"} => staged \notin cool

TrailInv == UpdateInv /\ MarkFirst /\ TakenBackNoted

\* Nothing was taken back yet, so nothing needs a note.
LEMMA InitTrail == Init => TrailInv
  BY InitSafe, SelfUpdateAssumption DEF Init, TrailInv, MarkFirst, TakenBackNoted, NoPending, Remembered, None

\* Every step passes the trail of a rollback on: the guard from its count to
\* its mark, Startup from the mark to update/failed, rollback to its own note.
LEMMA NextTrail == TrailInv /\ [Next]_vars => TrailInv'
  <1> SUFFICES ASSUME TrailInv, [Next]_vars PROVE MarkFirst' /\ TakenBackNoted'
    BY NextSafe DEF TrailInv
  <1> USE SelfUpdateAssumption DEF TrailInv, MarkFirst, TakenBackNoted, Noted, GuardOwes,
          UpdateInv, Typed, PendRec, Versions, None, Readable, Remembered, disk, process, history
  <1>1. CASE GuardCounts
    <2>1. CASE ~pend.there
      BY <1>1, <2>1 DEF GuardCounts
    <2>2. CASE pend.there
      <3>1. Counted \in Int /\ (pend.boots > MaxBoots => Counted = pend.boots)
        BY DEF Counted
      <3>2. pend'.there = pend.there /\ pend'.files = pend.files /\ pend'.target = pend.target
            /\ pend'.previous = pend.previous /\ pend'.boots = Counted
        BY <1>1, <2>2 DEF GuardCounts
      <3>3. pend.previous \in installed /\ (pend.files = Files => "previous" \in pend.files)
        BY <2>2 DEF WayBack, Files
      <3> QED
        BY <1>1, <2>2, <3>1, <3>2, <3>3 DEF GuardCounts
    <2> QED
      BY <2>1, <2>2
  <1>2. CASE GuardSwaps
    BY <1>2 DEF GuardSwaps, LinkBack, WayBack, Upwards
  <1>3. CASE GuardMarks
    BY <1>3 DEF GuardMarks, Files
  <1>4. CASE GuardRemoves
    BY <1>4 DEF GuardRemoves, NoPending
  <1>5. CASE ExecStart
    BY <1>5 DEF ExecStart
  <1>6. CASE StartupMark
    BY <1>6 DEF StartupMark, RememberGuarded
  <1>7. CASE StartupPending
    BY <1>7 DEF StartupPending, OnProbation, NoPending
  <1>8. CASE OnHeartbeat
    BY <1>8 DEF OnHeartbeat
  <1>9. CASE TimePasses
    BY <1>9 DEF TimePasses, ProbationTimePasses
  <1>10. CASE FailureAges
    BY <1>10 DEF FailureAges
  <1>11. CASE TickConfirms
    BY <1>11 DEF TickConfirms
  <1>12. CASE ConfirmRemoves
    BY <1>12 DEF ConfirmRemoves, NoPending
  <1>13. CASE ConfirmReports
    BY <1>13 DEF ConfirmReports
  <1>14. CASE TickRollsBack
    BY <1>14 DEF TickRollsBack
  <1>15. CASE RollbackSwaps
    BY <1>15 DEF RollbackSwaps, LinkBack, Linked, Loaded, Supervised
  <1>16. CASE RollbackNotes
    BY <1>16 DEF RollbackNotes
  <1>17. CASE RollbackRemoves
    BY <1>17 DEF RollbackRemoves, NoPending
  <1>18. CASE TickApplies
    BY <1>18 DEF TickApplies
  <1>19. CASE StageFails
    BY <1>19 DEF StageFails
  <1>20. CASE StageSucceeds
    BY <1>20 DEF StageSucceeds
  <1>21. CASE WritePending
    BY <1>21 DEF WritePending, Pending, Linked
  <1>22. CASE ApplySwaps
    BY <1>22 DEF ApplySwaps, NoPending
  <1>23. CASE ApplyReports
    BY <1>23 DEF ApplyReports
  <1>24. CASE Dies
    BY <1>24 DEF Dies
  <1>25. CASE Cut
    BY <1>25 DEF Cut, CutPoints, Files
  <1>26. CASE UNCHANGED vars
    BY <1>26 DEF vars
  <1> QED
    BY <1>1, <1>2, <1>3, <1>4, <1>5, <1>6, <1>7, <1>8, <1>9, <1>10, <1>11, <1>12, <1>13, <1>14,
       <1>15, <1>16, <1>17, <1>18, <1>19, <1>20, <1>21, <1>22, <1>23, <1>24, <1>25, <1>26
       DEF Next, Steps, guard, Startup, Tick

(***************************************************************************)
(* A version that was taken back, by the guard or by its own deadline, is  *)
(* not switched to again before its wait is over, as long as no removal of *)
(* the pending update and no rollback was cut short (rememberFailure,      *)
(* recentlyFailed, the guard's mark).  Only ApplySwaps moves the link      *)
(* forwards, to a version that was in neither update/failed nor the mark   *)
(* when its offer was taken, and nothing is taken back while it is staged. *)
(***************************************************************************)
THEOREM TakenBackNotTriedAgain == Spec => NotTriedAgain
  <1>1. TrailInv /\ [Next]_vars => [link' > link /\ Remembered => link' \notin cool]_vars
    <2> SUFFICES ASSUME TrailInv, Next, link' > link, Remembered PROVE link' \notin cool
      OBVIOUS
    <2> USE DEF TrailInv, UpdateInv, Typed, PendRec, Versions, None
    <2>1. CASE GuardSwaps
      BY <2>1, SelfUpdateAssumption DEF GuardSwaps, LinkBack, WayBack, Upwards
    <2>2. CASE RollbackSwaps
      BY <2>2, SelfUpdateAssumption DEF RollbackSwaps, LinkBack, Supervised, Switching, Upwards
    <2>3. CASE ApplySwaps
      BY <2>3, SelfUpdateAssumption DEF ApplySwaps, TakenBackNoted
    <2>4. CASE link' = link
      BY <2>4, SelfUpdateAssumption
    <2> QED
      BY <2>1, <2>2, <2>3, <2>4
      DEF Next, Steps, guard, Startup, Tick, disk, GuardCounts, GuardMarks, GuardRemoves, ExecStart,
          StartupMark, StartupPending, OnHeartbeat, TimePasses, FailureAges, TickConfirms,
          ConfirmRemoves, ConfirmReports, TickRollsBack, RollbackNotes, RollbackRemoves, TickApplies,
          StageFails, StageSucceeds, WritePending, ApplyReports, Dies, Cut
  <1> QED
    BY <1>1, InitTrail, NextTrail, PTL DEF Spec, NotTriedAgain
=============================================================================
