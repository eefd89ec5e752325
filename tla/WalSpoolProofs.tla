--------------------------- MODULE WalSpoolProofs ---------------------------
(***************************************************************************)
(* The way of WAL to the storages, for any number of files, any limit of   *)
(* the second copy's queue and any number of deaths and losses of power.   *)
(*                                                                         *)
(* None of the three properties is inductive.  What carries NoGap is what  *)
(* a pass knows from the list it began with: before each file of the list  *)
(* comes another one of the list, or one that is stored (Ordered), and a   *)
(* pushed file is stored until its removal (Passes).  A file of which only *)
(* a retry said that it is archived is hollow as long as its entry is not  *)
(* durable (Durable), and a report trusts a list that has every file       *)
(* archived before it was made (Reported).  For the second copy, what a    *)
(* backup counts on is all there as long as nothing was left out since it  *)
(* began (Counted).                                                        *)
(***************************************************************************)
EXTENDS WalSpool, WellFoundedInduction, TLAPS

Spool == dir["spool"]
Stored == repo["spool"]

Typed ==
  /\ made \in Nat /\ done \in Nat /\ done <= made
  /\ dir \in [Pushers -> SUBSET Nat] /\ repo \in [Pushers -> SUBSET Nat]
  /\ names \in [Pushers -> SUBSET Nat]
  /\ ppc \in [Pushers -> {"idle", "push", "hand", "link", "skip", "remove"}]
  /\ added \subseteq Nat /\ removed \subseteq Nat /\ hollow \subseteq Nat
  /\ last \in Nat /\ seen \in Nat /\ from \in Nat /\ base \in Nat \ {0}
  /\ bpc = "running" => from # 0
  /\ report.to \in Nat

\* Archived, and gone before it was stored.
Lost == hollow \ Spool

Bounded ==
  /\ \A f \in Spool \cup Stored : f >= 1 /\ f <= done + 1
  /\ \A f \in hollow : f >= 1 /\ f <= done
  /\ apc # "idle" => done < made
  /\ \A f \in Spool \cup Stored : f <= made

Durable ==
  /\ \A f \in added : f > done \/ f \in hollow
  /\ removed \subseteq Stored

Passes ==
  \A p \in Pushers :
    /\ names[p] \subseteq dir[p]
    /\ ppc[p] # "idle" => names[p] # {}
    /\ ppc[p] \notin {"idle", "push"} => First(p) \in repo[p]

Ordered ==
  /\ \A f \in Nat : f >= 1 /\ f <= done => f \in Stored \cup Spool \cup hollow
  /\ apc = "moved" => done + 1 \in Stored \cup Spool
  /\ \A f \in Stored, e \in Nat : e >= 1 /\ e < f => e \in Stored \cup Lost
  /\ \A f \in names["spool"], e \in Nat : e >= 1 /\ e < f => e \in names["spool"] \cup Stored \cup Lost

Reported ==
  /\ seen <= done /\ last \in Stored \cup {None}
  /\ hpc = "count" => \A f \in Spool : f <= seen => f \in listed
  /\ report.error \/ \A f \in Nat : f >= 1 /\ f <= report.to => f \in Stored \cup Lost

\* Where a file may be that the second storage has or still gets ...
OnTheWay == Spool \cup dir["queue"] \cup repo["queue"] \cup hollow
\* ... and that has been in the spool.
Arrived(f) == f <= done \/ (apc = "moved" /\ f = done + 1)
AllFrom(b) == \A f \in Nat : f >= b /\ Arrived(f) => f \in OnTheWay

Counted ==
  "second copy" \in setup =>
    /\ bpc \in {"saved", "clear"} => base = from
    /\ slipped \/ gap \/ AllFrom(base)
    /\ bpc \in {"running", "saved", "clear"} => slipped \/ touched \/ AllFrom(from)
    /\ touched => gap
    /\ ppc["spool"] = "remove" =>
         \/ slipped \/ gap \/ First("spool") < base
         \/ First("spool") \in dir["queue"] \cup repo["queue"]
    /\ ppc["spool"] = "remove" /\ bpc \in {"running", "saved", "clear"} =>
         \/ slipped \/ touched \/ First("spool") < from
         \/ First("spool") \in dir["queue"] \cup repo["queue"]

SpoolInv == Typed /\ Bounded /\ Durable /\ Passes /\ Ordered /\ Reported
WalInv == SpoolInv /\ Counted

-----------------------------------------------------------------------------
\* What a pass pushes next is one of its names, and none comes before it.
LEMMA MinIsLeast ==
  ASSUME NEW S, S \subseteq Nat, S # {}
  PROVE  Min(S) \in S /\ \A y \in S : Min(S) <= y
  <1> DEFINE R == {ss \in Nat \X Nat : ss[1] < ss[2]}
  <1>1. PICK x \in S : \A y \in S : ~(<<y, x>> \in R)
    <2> HIDE DEF R
    <2> IsWellFoundedOn(R, Nat)
      BY NatLessThanWellFounded DEF R, OpToRel
    <2> QED
      BY WFMin
  <1>2. \A y \in S : x <= y
    <2> TAKE y \in S
    <2>1. x \in Nat /\ y \in Nat
      OBVIOUS
    <2>2. ~(y < x)
      BY <1>1, <2>1
    <2> QED
      BY <2>1, <2>2
  <1> QED
    BY <1>2 DEF Min

\* The same for the names of a pass.
LEMMA FirstIsLeast ==
  ASSUME Typed, NEW p \in Pushers, names[p] # {}
  PROVE  First(p) \in names[p] /\ \A y \in names[p] : First(p) <= y
  <1>1. names[p] \subseteq Nat
    BY DEF Typed
  <1> QED
    BY <1>1, MinIsLeast DEF First

\* The newer one of what PostgreSQL and what the pusher says.
LEMMA MaxOfTwo ==
  ASSUME NEW m \in Nat, NEW n \in Nat
  PROVE  Max({m, n}) = IF m >= n THEN m ELSE n
  BY DEF Max

\* Nothing is archived, stored or counted on at first.
LEMMA InitWal == Init => WalInv
  <1> USE DEF Init, Pushers, None
  <1>1. Init => Typed
    BY DEF Typed
  <1>2. Init => SpoolInv
    BY <1>1 DEF SpoolInv, Bounded, Durable, Passes, Ordered, Reported, Spool, Stored, Lost
  <1>3. Init => AllFrom(base)
    BY DEF AllFrom, Arrived
  <1>4. Init => Counted
    BY <1>3 DEF Counted
  <1> QED
    BY <1>2, <1>4 DEF WalInv

\* No step of archive_command, a pusher, a backup or a report breaks what holds of
\* the first storage, nor does a fault.
LEMMA NextSpool == SpoolInv /\ [Next]_vars => SpoolInv'
  <1> SUFFICES ASSUME SpoolInv, [Next]_vars PROVE SpoolInv'
    OBVIOUS
  <1> USE DEF SpoolInv, Typed, Pushers, None, postgres, pusher, backup, heart
  <1>1. CASE CompletesWal
    BY <1>1 DEF CompletesWal,
       Bounded, Durable, Passes, Ordered, Reported, Spool, Stored, Lost, First
  <1>2. CASE ArchiveFinds
    <2> USE <1>2 DEF ArchiveFinds, Archiving, InSpool
    <2>1. Typed'
      BY DEF Bounded, Spool
    <2>2. Bounded'
      BY DEF Bounded, Passes, Spool, Stored
    <2>3. Durable'
      BY DEF Durable, Bounded, Passes, Spool, Stored
    <2>4. Passes'
      BY DEF Passes, First
    <2>5. Ordered'
      BY DEF Ordered, Bounded, Passes, Durable, Spool, Stored, Lost
    <2>6. Reported'
      BY DEF Reported, Ordered, Bounded, Passes, Spool, Stored, Lost
    <2> QED
      BY <2>1, <2>2, <2>3, <2>4, <2>5, <2>6
  <1>3. CASE ArchiveCopies
    BY <1>3 DEF ArchiveCopies, Archiving,
       Bounded, Durable, Passes, Ordered, Reported, Spool, Stored, Lost, First
  <1>4. CASE ArchiveMoves
    <2> USE <1>4 DEF ArchiveMoves
    <2>1. Typed'
      BY DEF Bounded, Spool
    <2>2. Bounded'
      BY DEF Bounded, Passes, Spool, Stored
    <2>3. Durable'
      BY DEF Durable, Bounded, Passes, Spool, Stored
    <2>4. Passes'
      BY DEF Passes, First
    <2>5. Ordered'
      BY DEF Ordered, Bounded, Passes, Durable, Spool, Stored, Lost
    <2>6. Reported'
      BY DEF Reported, Ordered, Bounded, Passes, Spool, Stored, Lost
    <2> QED
      BY <2>1, <2>2, <2>3, <2>4, <2>5, <2>6
  <1>5. CASE ArchiveSyncs
    <2> USE <1>5 DEF ArchiveSyncs
    <2>0. done + 1 <= made /\ done + 1 \in Nat
      BY DEF Bounded
    <2>1. Typed'
      BY <2>0 DEF Bounded, Spool
    <2>2. Bounded'
      BY <2>0 DEF Bounded, Passes, Spool, Stored
    <2>3. Durable'
      BY <2>0 DEF Durable, Bounded, Passes, Spool, Stored
    <2>4. Passes'
      BY <2>0 DEF Passes, First
    <2>5. Ordered'
      BY <2>0 DEF Ordered, Bounded, Passes, Durable, Spool, Stored, Lost
    <2>6. Reported'
      BY <2>0 DEF Reported, Ordered, Bounded, Passes, Spool, Stored, Lost
    <2> QED
      BY <2>1, <2>2, <2>3, <2>4, <2>5, <2>6
  <1>6. CASE ArchiveFails
    BY <1>6 DEF ArchiveFails,
       Bounded, Durable, Passes, Ordered, Reported, Spool, Stored, Lost, First
  <1>7. ASSUME NEW p \in Pushers, PassBegins(p) PROVE SpoolInv'
    <2> USE <1>7 DEF PassBegins
    <2>1. Typed'
      BY DEF Bounded, Spool
    <2>2. Bounded'
      BY DEF Bounded, Passes, Spool, Stored
    <2>3. Durable'
      BY DEF Durable, Bounded, Passes, Spool, Stored
    <2>4. Passes'
      BY DEF Passes, First
    <2>5. Ordered'
      BY DEF Ordered, Bounded, Passes, Durable, Spool, Stored, Lost
    <2>6. Reported'
      BY DEF Reported, Ordered, Bounded, Passes, Spool, Stored, Lost
    <2> QED
      BY <2>1, <2>2, <2>3, <2>4, <2>5, <2>6
  <1>8. ASSUME NEW p \in Pushers, PushSucceeds(p) PROVE SpoolInv'
    <2> USE <1>8 DEF PushSucceeds, AfterPush
    <2>0. First(p) \in names[p] /\ \A y \in names[p] : First(p) <= y
      BY FirstIsLeast DEF Passes
    <2>1. Typed'
      BY <2>0 DEF Bounded, Spool
    <2>2. Bounded'
      BY <2>0 DEF Bounded, Passes, Spool, Stored
    <2>3. Durable'
      BY <2>0 DEF Durable, Bounded, Passes, Spool, Stored
    <2>4. Passes'
      BY <2>0 DEF Passes, First
    <2>5. Ordered'
      <3>1. CASE p = "queue"
        BY <3>1 DEF Ordered, Bounded, Passes, Durable, Spool, Stored, Lost
      <3>2. CASE p = "spool"
        <4>1. Stored' = Stored \cup {First(p)} /\ Spool' = Spool /\ Lost' = Lost
          BY <3>2 DEF Stored, Spool, Lost
        <4>2. ASSUME NEW e \in Nat, e >= 1, e < First(p) PROVE e \in Stored \cup Lost
          <5>1. First(p) \in names["spool"] /\ names["spool"] \subseteq Nat
                /\ \A y \in names["spool"] : First(p) <= y
            BY <2>0, <3>2
          <5>2. e \notin names["spool"]
            <6> HIDE <1>8
            <6> QED
              BY <4>2, <5>1
          <5> QED
            BY <4>2, <5>1, <5>2 DEF Ordered
        <4> QED
          BY <3>2, <4>1, <4>2 DEF Ordered
      <3> QED
        BY <3>1, <3>2
    <2>6. Reported'
      BY <2>0 DEF Reported, Ordered, Bounded, Passes, Spool, Stored, Lost
    <2> QED
      BY <2>1, <2>2, <2>3, <2>4, <2>5, <2>6
  <1>9. ASSUME NEW p \in Pushers, PushFails(p) PROVE SpoolInv'
    <2> USE <1>9 DEF PushFails
    <2>0. First(p) \in names[p] /\ \A y \in names[p] : First(p) <= y
      BY FirstIsLeast DEF Passes
    <2>1. Typed'
      BY <2>0 DEF Bounded, Spool
    <2>2. Bounded'
      BY <2>0 DEF Bounded, Passes, Spool, Stored
    <2>3. Durable'
      BY <2>0 DEF Durable, Bounded, Passes, Spool, Stored
    <2>4. Passes'
      BY <2>0 DEF Passes, First
    <2>5. Ordered'
      BY <2>0 DEF Ordered, Bounded, Passes, Durable, Spool, Stored, Lost
    <2>6. Reported'
      BY <2>0 DEF Reported, Ordered, Bounded, Passes, Spool, Stored, Lost
    <2> QED
      BY <2>1, <2>2, <2>3, <2>4, <2>5, <2>6
  <1>10. ASSUME NEW p \in Pushers, RemovesPushed(p) PROVE SpoolInv'
    <2> USE <1>10 DEF RemovesPushed
    <2>0. First(p) \in names[p] /\ \A y \in names[p] : First(p) <= y
      BY FirstIsLeast DEF Passes
    <2>1. Typed'
      BY <2>0 DEF Bounded, Spool
    <2>2. Bounded'
      BY <2>0 DEF Bounded, Passes, Spool, Stored
    <2>3. Durable'
      BY <2>0 DEF Durable, Bounded, Passes, Spool, Stored
    <2>4. Passes'
      BY <2>0 DEF Passes, First
    <2>5. Ordered'
      BY <2>0 DEF Ordered, Bounded, Passes, Durable, Spool, Stored, Lost
    <2>6. Reported'
      BY <2>0 DEF Reported, Ordered, Bounded, Passes, Spool, Stored, Lost
    <2> QED
      BY <2>1, <2>2, <2>3, <2>4, <2>5, <2>6
  <1>11. ASSUME NEW p \in Pushers, RemoveFails(p) PROVE SpoolInv'
    BY <1>11 DEF RemoveFails,
       Bounded, Durable, Passes, Ordered, Reported, Spool, Stored, Lost, First
  <1>12. CASE HandOverLooks
    BY <1>12 DEF HandOverLooks,
       Bounded, Durable, Passes, Ordered, Reported, Spool, Stored, Lost, First
  <1>13. CASE HandOverQueues
    <2> USE <1>13 DEF HandOverQueues
    <2>0. First("spool") \in names["spool"] /\ \A y \in names["spool"] : First("spool") <= y
      BY FirstIsLeast DEF Passes
    <2>1. Typed'
      BY <2>0 DEF Bounded, Spool
    <2>2. Bounded'
      BY <2>0 DEF Bounded, Passes, Spool, Stored
    <2>3. Durable'
      BY <2>0 DEF Durable, Bounded, Passes, Spool, Stored
    <2>4. Passes'
      BY <2>0 DEF Passes, First
    <2>5. Ordered'
      BY <2>0 DEF Ordered, Bounded, Passes, Durable, Spool, Stored, Lost
    <2>6. Reported'
      BY <2>0 DEF Reported, Ordered, Bounded, Passes, Spool, Stored, Lost
    <2> QED
      BY <2>1, <2>2, <2>3, <2>4, <2>5, <2>6
  <1>14. CASE HandOverSkips
    BY <1>14 DEF HandOverSkips,
       Bounded, Durable, Passes, Ordered, Reported, Spool, Stored, Lost, First
  <1>15. CASE secondCopyBackup
    <2>1. CASE BackupBegins
      <3>0. made + 1 \in Nat /\ made + 1 # 0
        OBVIOUS
      <3>1. Typed'
        BY <2>1, <3>0 DEF BackupBegins
      <3> QED
        BY <2>1, <3>1 DEF BackupBegins, Bounded, Durable, Passes, Ordered, Reported,
           Spool, Stored, Lost, First
    <2>2. CASE BackupSucceeds
      BY <2>2 DEF BackupSucceeds, BackupOver,
         Bounded, Durable, Passes, Ordered, Reported, Spool, Stored, Lost, First
    <2>3. CASE BackupFails
      BY <2>3 DEF BackupFails, BackupOver,
         Bounded, Durable, Passes, Ordered, Reported, Spool, Stored, Lost, First
    <2>4. CASE ClearGapLooks
      BY <2>4 DEF ClearGapLooks, BackupOver,
         Bounded, Durable, Passes, Ordered, Reported, Spool, Stored, Lost, First
    <2>5. CASE ClearGapRemoves
      BY <2>5 DEF ClearGapRemoves, BackupOver,
         Bounded, Durable, Passes, Ordered, Reported, Spool, Stored, Lost, First
    <2> QED
      BY <1>15, <2>1, <2>2, <2>3, <2>4, <2>5 DEF secondCopyBackup
  <1>16. CASE ReadsArchiver
    BY <1>16 DEF ReadsArchiver,
       Bounded, Durable, Passes, Ordered, Reported, Spool, Stored, Lost, First
  <1>17. CASE ScanLists
    BY <1>17 DEF ScanLists,
       Bounded, Durable, Passes, Ordered, Reported, Spool, Stored, Lost, First
  <1>18. CASE ScanCounts
    <2> USE <1>18 DEF ScanCounts, LastArchived
    <2>0. Max({seen, last}) = IF seen >= last THEN seen ELSE last
      BY MaxOfTwo
    <2>1. Typed'
      BY <2>0 DEF Bounded, Spool
    <2>2. Bounded'
      BY <2>0 DEF Bounded, Passes, Spool, Stored
    <2>3. Durable'
      BY <2>0 DEF Durable, Bounded, Passes, Spool, Stored
    <2>4. Passes'
      BY <2>0 DEF Passes, First
    <2>5. Ordered'
      BY <2>0 DEF Ordered, Bounded, Passes, Durable, Spool, Stored, Lost
    <2>6. Reported'
      BY <2>0 DEF Reported, Ordered, Bounded, Passes, Spool, Stored, Lost
    <2> QED
      BY <2>1, <2>2, <2>3, <2>4, <2>5, <2>6
  <1>19. CASE ScanFails
    <2> USE <1>19 DEF ScanFails, LastArchived
    <2>0. Max({seen, last}) = IF seen >= last THEN seen ELSE last
      BY MaxOfTwo
    <2>1. Typed'
      BY <2>0 DEF Bounded, Spool
    <2>2. Bounded'
      BY <2>0 DEF Bounded, Passes, Spool, Stored
    <2>3. Durable'
      BY <2>0 DEF Durable, Bounded, Passes, Spool, Stored
    <2>4. Passes'
      BY <2>0 DEF Passes, First
    <2>5. Ordered'
      BY <2>0 DEF Ordered, Bounded, Passes, Durable, Spool, Stored, Lost
    <2>6. Reported'
      BY <2>0 DEF Reported, Ordered, Bounded, Passes, Spool, Stored, Lost
    <2> QED
      BY <2>1, <2>2, <2>3, <2>4, <2>5, <2>6
  <1>20. CASE AgentDies
    BY <1>20 DEF AgentDies, AgentGone, BackupOver,
       Bounded, Durable, Passes, Ordered, Reported, Spool, Stored, Lost, First
  <1>21. CASE LosesPower
    <2> USE <1>21 DEF LosesPower, AgentGone, BackupOver
    <2>0. PICK gone \in SUBSET added, back \in SUBSET removed, queued \in SUBSET dir["queue"] :
            dir' = [dir EXCEPT !["spool"] = (@ \ gone) \cup back, !["queue"] = queued]
      OBVIOUS
    <2>a. /\ dir' \in [Pushers -> SUBSET Nat] /\ Stored' = Stored
          /\ Spool' = (Spool \ gone) \cup back /\ dir'["queue"] = queued /\ hollow' = hollow \ Spool'
      BY <2>0 DEF Spool, Stored
    <2>1. Typed'
      BY <2>0, <2>a DEF Bounded, Spool
    <2>2. Bounded'
      BY <2>0, <2>a, <2>1 DEF Bounded, Durable
    <2>3. Durable'
      BY <2>0, <2>a, <2>1 DEF Durable, Bounded, Passes
    <2>4. Passes'
      BY <2>0, <2>a, <2>1 DEF Passes, First
    <2>5. Ordered'
      BY <2>0, <2>a, <2>1 DEF Ordered, Bounded, Passes, Durable, Lost
    <2>6. Reported'
      BY <2>0, <2>a, <2>1 DEF Reported, Durable, Lost
    <2> QED
      BY <2>1, <2>2, <2>3, <2>4, <2>5, <2>6
  <1>22. CASE UNCHANGED vars
    BY <1>22 DEF vars,
       Bounded, Durable, Passes, Ordered, Reported, Spool, Stored, Lost, First
  <1> QED
    BY <1>1, <1>2, <1>3, <1>4, <1>5, <1>6, <1>7, <1>8, <1>9, <1>10, <1>11, <1>12, <1>13,
       <1>14, <1>15, <1>16, <1>17, <1>18, <1>19, <1>20, <1>21, <1>22
       DEF Next, archive_command, pushStanza, queueForSecondCopy, archiverStats

\* Arithmetic the steps below need, on its own.
LEMMA UpToNext ==
  ASSUME NEW m \in Nat, NEW n \in Nat
  PROVE  /\ m <= n + 1 <=> m <= n \/ m = n + 1
         /\ m <= n <=> m < n + 1
         /\ m < n + 1 <=> ~(m >= n + 1)
         /\ m <= n <=> ~(m > n)
  OBVIOUS

\* The members of an interval, likewise.
LEMMA InInterval ==
  ASSUME NEW m \in Nat, NEW n \in Nat, NEW k \in m..n
  PROVE  k \in Nat /\ k >= m /\ k <= n
  OBVIOUS

\* What has been in the spool was completed: a backup that begins now needs none of it.
LEMMA ArrivedIsMade ==
  ASSUME Typed, Bounded, NEW f \in Nat, Arrived(f)
  PROVE  f < made + 1
  <1>1. made \in Nat /\ done \in Nat /\ done <= made /\ (apc = "moved" => done < made)
    BY DEF Typed, Bounded
  <1> QED
    BY <1>1 DEF Arrived

\* Nor does one break what the second copy's backups count on.
LEMMA NextCounted == WalInv /\ [Next]_vars => Counted'
  <1> SUFFICES ASSUME SpoolInv, Counted, [Next]_vars, "second copy" \in setup PROVE Counted'
    <2>1. ASSUME [Next]_vars PROVE setup' = setup
      BY <2>1 DEF Next, CompletesWal, archive_command, ArchiveFinds, ArchiveCopies, ArchiveMoves,
         ArchiveSyncs, ArchiveFails, pushStanza, PassBegins, PushSucceeds, PushFails, RemovesPushed,
         RemoveFails, queueForSecondCopy, HandOverLooks, HandOverQueues, HandOverSkips,
         secondCopyBackup, BackupBegins, BackupSucceeds, BackupFails, ClearGapLooks, ClearGapRemoves,
         archiverStats, ReadsArchiver, ScanLists, ScanCounts, ScanFails, AgentDies, LosesPower,
         AgentGone, postgres, vars
    <2> QED
      BY <2>1 DEF WalInv, Counted
  <1> USE DEF SpoolInv, Typed, Pushers, None, postgres, pusher, backup, heart
  <1>1. CASE CompletesWal
    BY <1>1 DEF CompletesWal, Counted, AllFrom, Arrived, OnTheWay, Spool, First
  <1>2. CASE ArchiveFinds
    <2>1. ASSUME NEW f \in Nat, Arrived(f)' PROVE Arrived(f) \/ f \in OnTheWay'
      <3>1. f <= done + 1 /\ done \in Nat
        BY <1>2, <2>1 DEF ArchiveFinds, Arrived
      <3>2. CASE f = done + 1
        BY <1>2, <3>2 DEF ArchiveFinds, InSpool, OnTheWay, Spool
      <3>3. CASE f <= done
        BY <3>3 DEF Arrived
      <3> QED
        BY <3>1, <3>2, <3>3, UpToNext, Zenon
    <2>2. OnTheWay \subseteq OnTheWay'
      BY <1>2 DEF ArchiveFinds, OnTheWay, Spool
    <2> QED
      BY <1>2, <2>1, <2>2 DEF ArchiveFinds, Counted, AllFrom, First
  <1>3. CASE ArchiveCopies
    BY <1>3 DEF ArchiveCopies, Counted, AllFrom, Arrived, OnTheWay, Spool, First
  <1>4. CASE ArchiveMoves
    <2>1. \A f \in Nat : Arrived(f)' => Arrived(f) \/ f \in OnTheWay'
      BY <1>4 DEF ArchiveMoves, Arrived, OnTheWay, Spool
    <2>2. OnTheWay \subseteq OnTheWay' /\ dir'["queue"] = dir["queue"]
      BY <1>4 DEF ArchiveMoves, OnTheWay, Spool
    <2> QED
      BY <1>4, <2>1, <2>2 DEF ArchiveMoves, Counted, AllFrom, First
  <1>5. CASE ArchiveSyncs
    <2>1. \A f \in Nat : Arrived(f)' => Arrived(f)
      <3>1. \A f \in Nat : f <= done + 1 => f <= done \/ f = done + 1
        <4>1. done \in Nat
          OBVIOUS
        <4> QED
          BY <4>1, UpToNext, Zenon
      <3> QED
        BY <1>5, <3>1 DEF ArchiveSyncs, Arrived
    <2>2. OnTheWay \subseteq OnTheWay'
      BY <1>5 DEF ArchiveSyncs, OnTheWay, Spool
    <2> QED
      BY <1>5, <2>1, <2>2 DEF ArchiveSyncs, Counted, AllFrom, First
  <1>6. CASE ArchiveFails
    BY <1>6 DEF ArchiveFails, Counted, AllFrom, Arrived, OnTheWay, Spool, First
  <1>7. ASSUME NEW p \in Pushers, PassBegins(p) PROVE Counted'
    BY <1>7 DEF PassBegins, Counted, AllFrom, Arrived, OnTheWay, Spool, First
  <1>8. ASSUME NEW p \in Pushers, PushSucceeds(p) PROVE Counted'
    BY <1>8 DEF PushSucceeds, AfterPush, Counted, AllFrom, Arrived, OnTheWay, Spool, First
  <1>9. ASSUME NEW p \in Pushers, PushFails(p) PROVE Counted'
    <2>1. \A f \in Nat : Arrived(f)' <=> Arrived(f)
      BY <1>9 DEF PushFails, Arrived
    <2>2. OnTheWay \subseteq OnTheWay' /\ repo["queue"] \subseteq repo'["queue"]
      BY <1>9 DEF PushFails, OnTheWay, Spool
    <2> QED
      BY <1>9, <2>1, <2>2 DEF PushFails, Counted, AllFrom, First
  <1>10. ASSUME NEW p \in Pushers, RemovesPushed(p) PROVE Counted'
    <2>1. \A f \in Nat : Arrived(f)' <=> Arrived(f)
      BY <1>10 DEF RemovesPushed, Arrived
    <2>2. CASE p = "spool"
      <3>1. OnTheWay \subseteq OnTheWay' \cup {First("spool")} /\ dir'["queue"] = dir["queue"]
        BY <1>10, <2>2 DEF RemovesPushed, OnTheWay, Spool
      <3>2. First("spool") \in Nat
        BY <1>10, <2>2, FirstIsLeast DEF RemovesPushed, Passes
      <3>3. dir'["queue"] \cup repo'["queue"] \subseteq OnTheWay'
        BY DEF OnTheWay
      <3>4. /\ slipped' = slipped /\ gap' = gap /\ touched' = touched /\ setup' = setup /\ bpc' = bpc
            /\ from' = from /\ base' = base /\ repo' = repo /\ ppc["spool"] = "remove"
            /\ ppc'["spool"] # "remove"
        BY <1>10, <2>2 DEF RemovesPushed
      <3>5. ASSUME NEW b \in Nat, AllFrom(b),
                   First("spool") < b \/ First("spool") \in dir["queue"] \cup repo["queue"]
            PROVE  \A f \in Nat : f >= b /\ Arrived(f)' => f \in OnTheWay'
        <4> SUFFICES ASSUME NEW f \in Nat, f >= b, Arrived(f) PROVE f \in OnTheWay'
          BY <2>1, Zenon
        <4>1. f \in OnTheWay
          BY <3>5, Zenon DEF AllFrom
        <4>2. CASE f # First("spool")
          BY <3>1, <4>1, <4>2
        <4>3. CASE f = First("spool")
          <5>1. ~(First("spool") < b)
            <6>1. b <= f <=> ~(b > f)
              BY UpToNext, Zenon
            <6> QED
              BY <3>2, <4>3, <6>1
          <5> QED
            BY <3>1, <3>3, <3>4, <3>5, <4>3, <5>1, Zenon
        <4> QED
          BY <4>2, <4>3
      <3>6. slipped \/ gap \/ AllFrom(base)'
        BY <3>4, <3>5 DEF Counted, AllFrom
      <3>7. bpc \in {"running", "saved", "clear"} => slipped \/ touched \/ AllFrom(from)'
        BY <3>4, <3>5 DEF Counted, AllFrom
      <3> QED
        BY <3>4, <3>6, <3>7 DEF Counted
    <2>3. CASE p = "queue"
      <3>1. First("queue") \in repo["queue"]
        BY <1>10, <2>3 DEF RemovesPushed, Passes
      <3>2. /\ OnTheWay \subseteq OnTheWay'
            /\ dir["queue"] \cup repo["queue"] \subseteq dir'["queue"] \cup repo'["queue"]
        BY <1>10, <2>3, <3>1 DEF RemovesPushed, OnTheWay, Spool
      <3> QED
        BY <1>10, <2>1, <2>3, <3>2 DEF RemovesPushed, Counted, AllFrom, First
    <2> QED
      BY <2>2, <2>3
  <1>11. ASSUME NEW p \in Pushers, RemoveFails(p) PROVE Counted'
    BY <1>11 DEF RemoveFails, Counted, AllFrom, Arrived, OnTheWay, Spool, First
  <1>12. CASE HandOverLooks
    BY <1>12 DEF HandOverLooks, Counted, AllFrom, Arrived, OnTheWay, Spool, First
  <1>13. CASE HandOverQueues
    <2>1. \A f \in Nat : Arrived(f)' <=> Arrived(f)
      BY <1>13 DEF HandOverQueues, Arrived
    <2>2. OnTheWay \subseteq OnTheWay' /\ dir["queue"] \subseteq dir'["queue"]
      <3>1. CASE dir' = dir
        BY <1>13, <3>1 DEF HandOverQueues, OnTheWay, Spool
      <3>2. CASE dir' = [dir EXCEPT !["queue"] = @ \cup {First("spool")}]
        BY <1>13, <3>2 DEF HandOverQueues, OnTheWay, Spool
      <3> QED
        BY <1>13, <3>1, <3>2 DEF HandOverQueues
    <2> QED
      BY <1>13, <2>1, <2>2 DEF HandOverQueues, Counted, AllFrom, First
  <1>14. CASE HandOverSkips
    BY <1>14 DEF HandOverSkips, Counted, AllFrom, Arrived, OnTheWay, Spool, First
  <1>15. CASE BackupBegins
    <2>1. ASSUME ppc["spool"] = "remove" PROVE First("spool") < made + 1
      <3>1. First("spool") \in Spool
        BY <2>1, FirstIsLeast DEF Passes, Spool
      <3>2. First("spool") \in Nat /\ First("spool") <= made
        BY <3>1 DEF Bounded, Spool
      <3>3. made \in Nat
        OBVIOUS
      <3> QED
        BY <3>2, <3>3, UpToNext, Zenon
    <2>2. ASSUME NEW f \in Nat, Arrived(f) PROVE ~(f >= made + 1)
      <3>1. made \in Nat
        OBVIOUS
      <3> QED
        BY <2>2, <3>1, ArrivedIsMade, UpToNext, Zenon
    <2>3. /\ slipped' = slipped /\ gap' = gap /\ touched' = touched /\ setup' = setup /\ bpc' = "running"
          /\ from' = made + 1 /\ base' = base /\ repo' = repo /\ dir' = dir /\ ppc' = ppc
          /\ names' = names /\ done' = done /\ apc' = apc /\ hollow' = hollow
      BY <1>15 DEF BackupBegins
    <2>4. AllFrom(from)'
      BY <2>2, <2>3 DEF AllFrom, Arrived
    <2>5. AllFrom(base)' <=> AllFrom(base)
      BY <2>3 DEF AllFrom, Arrived, OnTheWay, Spool
    <2> QED
      BY <2>1, <2>3, <2>4, <2>5 DEF Counted, First
  <1>16. CASE BackupSucceeds
    BY <1>16 DEF BackupSucceeds, Counted, AllFrom, Arrived, OnTheWay, Spool, First
  <1>17. CASE BackupFails
    BY <1>17 DEF BackupFails, BackupOver, Counted, AllFrom, Arrived, OnTheWay, Spool, First
  <1>18. CASE ClearGapLooks
    BY <1>18 DEF ClearGapLooks, GapIsOlder, BackupOver, Counted, AllFrom, Arrived, OnTheWay,
       Spool, First
  <1>19. CASE ClearGapRemoves
    BY <1>19 DEF ClearGapRemoves, BackupOver, Counted, AllFrom, Arrived, OnTheWay, Spool, First
  <1>20. CASE archiverStats
    BY <1>20 DEF archiverStats, ReadsArchiver, ScanLists, ScanCounts, ScanFails, Counted,
       AllFrom, Arrived, OnTheWay, Spool, First
  <1>21. CASE AgentDies
    BY <1>21 DEF AgentDies, AgentGone, BackupOver, Counted, AllFrom, Arrived, OnTheWay, Spool, First
  <1>22. CASE LosesPower
    <2>1. CASE slipped'
      BY <1>22, <2>1 DEF LosesPower, AgentGone, BackupOver, Counted
    <2>2. CASE ~slipped'
      <3>1. ~slipped /\ dir'["queue"] = dir["queue"] /\ gap' = gap
        BY <1>22, <2>2 DEF LosesPower
      <3>2. \A f \in Nat : Arrived(f)' => Arrived(f) /\ f <= done
        BY <1>22 DEF LosesPower, AgentGone, Arrived
      <3>3. ASSUME NEW f \in Nat, f <= done, f \in OnTheWay PROVE f \in OnTheWay'
        <4>1. repo' = repo /\ hollow' = hollow \ Spool'
          BY <1>22 DEF LosesPower, AgentGone, Spool
        <4>2. Spool \ Spool' \subseteq added
          BY <1>22 DEF LosesPower, Spool
        <4>3. done \in Nat /\ (f \in added => f > done \/ f \in hollow)
          BY DEF Durable
        <4>4. f \in added => f \in hollow
          BY <3>3, <4>3, UpToNext, Zenon
        <4> QED
          BY <3>1, <3>3, <4>1, <4>2, <4>4 DEF OnTheWay
      <3> QED
        BY <1>22, <3>1, <3>2, <3>3 DEF LosesPower, AgentGone, BackupOver, Counted, AllFrom
    <2> QED
      BY <2>1, <2>2
  <1>23. CASE UNCHANGED vars
    BY <1>23 DEF vars, Counted, AllFrom, Arrived, OnTheWay, Spool, First
  <1> QED
    BY <1>1, <1>2, <1>3, <1>4, <1>5, <1>6, <1>7, <1>8, <1>9, <1>10, <1>11, <1>12, <1>13,
       <1>14, <1>15, <1>16, <1>17, <1>18, <1>19, <1>20, <1>21, <1>22, <1>23
       DEF Next, archive_command, pushStanza, queueForSecondCopy, secondCopyBackup

\* The invariant holds throughout.
LEMMA AlwaysWal == Spec => []WalInv
  <1>1. WalInv /\ [Next]_vars => WalInv'
    BY NextSpool, NextCounted DEF WalInv
  <1> QED
    BY <1>1, InitWal, PTL DEF Spec

-----------------------------------------------------------------------------
(* However many WAL files archive_command puts into the spool, wherever it *)
(* or a pass of spoolPusher stops and however often the agent dies or the  *)
(* power fails: what PostgreSQL may recycle is stored or in the spool, and *)
(* what is stored has no gap, but for the files that a retry of            *)
(* archive_command took for archived before their entry was durable.       *)
THEOREM ArchiveHasNoGap == Spec => []NoGap
  <1>1. WalInv => NoGap
    <2> SUFFICES ASSUME WalInv PROVE NoGap
      OBVIOUS
    <2>1. 1..done \subseteq repo["spool"] \cup dir["spool"] \cup hollow
      BY DEF WalInv, SpoolInv, Typed, Ordered, Stored, Spool
    <2>2. ASSUME NEW f \in Stored, NEW e \in 1..f PROVE e \in Stored \cup hollow
      <3>1. f \in Nat
        BY DEF WalInv, SpoolInv, Typed, Stored, Pushers
      <3>2. e \in Nat /\ e >= 1 /\ (e < f \/ e = f)
        BY <3>1
      <3> QED
        BY <3>2 DEF WalInv, SpoolInv, Ordered, Lost
    <2> QED
      BY <2>1, <2>2 DEF NoGap, Stored
  <1> QED
    BY <1>1, AlwaysWal, PTL

(* sidecarArchiverStats, put together from pg_stat_archiver and a scan of  *)
(* the spool while both go on, never reports a WAL file as archived that   *)
(* the first storage does not have, with the same exception; a report that *)
(* carries the error of the scan says nothing.                             *)
THEOREM ReportsOnlyStored == Spec => []ReportTrue
  <1>1. WalInv => ReportTrue
    BY DEF WalInv, SpoolInv, Typed, Reported, Stored, Lost, ReportTrue
  <1> QED
    BY <1>1, AlwaysWal, PTL

(* Whatever the limit of the second copy's queue, and however full backups *)
(* to it, clearGap and queueForSecondCopy interleave: as long as the gap   *)
(* file itself was not lost in one of the ways slipped records, a WAL file *)
(* the newest full backup of the second copy needs is on its way there or  *)
(* the gap file says that something is missing.                            *)
THEOREM SecondCopyGapIsKnown == Spec => []GapKnown
  <1>1. WalInv => GapKnown
    <2> SUFFICES ASSUME WalInv, "second copy" \in setup, ~slipped, ~gap, NEW f \in base..done
                 PROVE  f \in dir["spool"] \cup dir["queue"] \cup repo["queue"] \cup hollow
      BY DEF GapKnown
    <2>0. base \in Nat /\ done \in Nat
      BY DEF WalInv, SpoolInv, Typed
    <2>1. f \in Nat /\ f >= base /\ f <= done
      BY <2>0, InInterval, Zenon
    <2>2. f \in OnTheWay
      BY <2>1 DEF WalInv, Counted, AllFrom, Arrived
    <2> QED
      BY <2>2 DEF OnTheWay, Spool
  <1> QED
    BY <1>1, AlwaysWal, PTL
=============================================================================
