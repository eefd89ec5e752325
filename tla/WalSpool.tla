------------------------------ MODULE WalSpool ------------------------------
(***************************************************************************)
(* WAL on its way to the storages in Docker sidecar mode.  archive_command *)
(* (pgbackrest/spool.go) only moves a file into the spool; a spoolPusher   *)
(* (agent/spool.go) sends it to the first storage, hands it on to the      *)
(* second copy's queue and removes it; another spoolPusher sends the queue *)
(* to the second storage (agent/secondcopy.go).  What does not fit there   *)
(* is noted in a gap file, until a full backup to the second copy makes it *)
(* superfluous.  Heartbeats report what has been archived meanwhile.       *)
(*                                                                         *)
(* WAL files are numbered in the order of their names.  Pushing the same   *)
(* file again succeeds, as pgBackRest answers for an identical one.  How   *)
(* long a pusher waits after a failure is left open.                       *)
(***************************************************************************)
EXTENDS Integers, FiniteSets, FiniteSetsExt

CONSTANTS
  Setups,        \* what is going on: subsets of {"second copy", "heartbeats"}
  MaxWal,        \* WAL files PostgreSQL completes
  QueueMax,      \* SecondCopyQueueMaxFiles
  MaxFaults      \* how often the agent dies or the machine loses power

ASSUME WalSpoolAssumption ==
  /\ Setups \subseteq SUBSET {"second copy", "heartbeats"}
  /\ MaxWal \in Nat /\ QueueMax \in Nat /\ MaxFaults \in Nat

Wal == 1..MaxWal
None == 0
Pushers == {"spool", "queue"}   \* by the directory they empty

VARIABLES
  setup,     \* one of Setups
  made,      \* WAL files completed so far
  done,      \* WAL files archive_command succeeded for: they may be recycled
  apc,       \* archive_command: "idle", "copied" to .tmp, "moved" into place
  dir,       \* the files in the spool and in the second copy's queue
  repo,      \* the files in the first and in the second storage
  added,     \* entries of the spool that a loss of power may take away ...
  removed,   \* ... and removals that it may undo
  ppc,       \* what each pusher does next
  names,     \* what each pusher still has to push in this pass
  last,      \* lastPushed of the first pusher
  gap,       \* the gap file is there
  touched,   \* it was written to after the backup began, or after clearGap looked
  bpc,       \* a full backup to the second copy
  from,      \* the first WAL file that backup needs
  base,      \* the first WAL file the newest full backup there needs
  hpc,       \* archiverStats, for a heartbeat
  seen,      \* pg_stat_archiver, as it read it
  listed,    \* the spool, as scan listed it
  report,    \* the newest report: archived up to a file, and whether scan failed
  faults,
  hollow,    \* history: archived on the word of a retry, with an entry not yet durable
  slipped    \* history: the record of what is missing in the second copy went missing

postgres == <<setup, made, done, apc>>
pusher == <<ppc, names, last>>
backup == <<bpc, from, base>>
heart == <<hpc, seen, listed, report>>
vars == <<setup, made, done, apc, dir, repo, added, removed, ppc, names, last, gap, touched, bpc, from,
          base, hpc, seen, listed, report, faults, hollow, slipped>>

Init ==
  /\ setup \in Setups
  /\ made = 0 /\ done = 0 /\ apc = "idle"
  /\ dir = [p \in Pushers |-> {}] /\ repo = [p \in Pushers |-> {}] /\ added = {} /\ removed = {}
  /\ ppc = [p \in Pushers |-> "idle"] /\ names = [p \in Pushers |-> {}] /\ last = None
  /\ gap = FALSE /\ touched = FALSE /\ bpc = "idle" /\ from = None /\ base = 1
  /\ hpc = "idle" /\ seen = None /\ listed = {} /\ report = [to |-> None, error |-> FALSE]
  /\ faults = 0 /\ hollow = {} /\ slipped = FALSE

(***************************************************************************)
(* PostgreSQL and its archive_command                                      *)
(***************************************************************************)
CompletesWal ==
  /\ made < MaxWal /\ made' = made + 1
  /\ UNCHANGED <<setup, done, apc, dir, repo, added, removed, pusher, gap, touched, backup, heart, faults,
                 hollow, slipped>>

Archiving == done < made
InSpool == done + 1 \in dir["spool"]

\* A retry finds the file in the spool: cmp -s is all it does.
ArchiveFinds ==
  /\ apc = "idle" /\ Archiving /\ InSpool
  /\ done' = done + 1
  /\ hollow' = hollow \cup ({done + 1} \cap added)
  /\ UNCHANGED <<setup, made, apc, dir, repo, added, removed, pusher, gap, touched, backup, heart, faults, slipped>>

\* cp and sync of the .tmp file
ArchiveCopies ==
  /\ apc = "idle" /\ Archiving /\ ~InSpool /\ apc' = "copied"
  /\ UNCHANGED <<setup, made, done, dir, repo, added, removed, pusher, gap, touched, backup, heart, faults,
                 hollow, slipped>>

ArchiveMoves ==
  /\ apc = "copied" /\ apc' = "moved"
  /\ dir' = [dir EXCEPT !["spool"] = @ \cup {done + 1}]
  /\ added' = added \cup {done + 1} /\ removed' = removed \ {done + 1}
  /\ UNCHANGED <<setup, made, done, repo, pusher, gap, touched, backup, heart, faults, hollow, slipped>>

\* sync of the directory; PostgreSQL hears of the success
ArchiveSyncs ==
  /\ apc = "moved" /\ apc' = "idle" /\ done' = done + 1
  /\ added' = {} /\ removed' = {} /\ hollow' = hollow \ dir["spool"]
  /\ UNCHANGED <<setup, made, dir, repo, pusher, gap, touched, backup, heart, faults, slipped>>

\* It fails or is killed (pending may take a .tmp file that got old from
\* under it); PostgreSQL tries the same file again.
ArchiveFails ==
  /\ apc # "idle" /\ apc' = "idle"
  /\ UNCHANGED <<setup, made, done, dir, repo, added, removed, pusher, gap, touched, backup, heart, faults,
                 hollow, slipped>>

archive_command ==
  ArchiveFinds \/ ArchiveCopies \/ ArchiveMoves \/ ArchiveSyncs \/ ArchiveFails

(***************************************************************************)
(* pushStanza                                                              *)
(***************************************************************************)
\* pending: what is there now is pushed in this pass.  A pass that can't
\* list, has no configuration or can't prepare the second storage does nothing.
PassBegins(p) ==
  /\ ppc[p] = "idle" /\ dir[p] # {}
  /\ names' = [names EXCEPT ![p] = dir[p]] /\ ppc' = [ppc EXCEPT ![p] = "push"]
  /\ UNCHANGED <<postgres, dir, repo, added, removed, last, gap, touched, backup, heart, faults,
                 hollow, slipped>>

First(p) == Min(names[p])

\* afterPush is the first pusher's, where a second copy is set up.
AfterPush(p) == IF p = "spool" /\ "second copy" \in setup THEN "hand" ELSE "remove"

PushSucceeds(p) ==
  /\ ppc[p] = "push" /\ repo' = [repo EXCEPT ![p] = @ \cup {First(p)}]
  /\ ppc' = [ppc EXCEPT ![p] = AfterPush(p)]
  /\ UNCHANGED <<postgres, dir, added, removed, names, last, gap, touched, backup, heart, faults,
                 hollow, slipped>>

\* Mutant: a file that can't be pushed is left for the next pass, the
\* others are pushed.
PushFails_goes_on(p) ==
  /\ ppc[p] = "push" /\ repo' = repo
  /\ names' = [names EXCEPT ![p] = @ \ {First(p)}]
  /\ ppc' = [ppc EXCEPT ![p] = IF names[p] = {First(p)} THEN "idle" ELSE "push"]
  /\ UNCHANGED <<postgres, dir, added, removed, last, gap, touched, backup, heart, faults,
                 hollow, slipped>>

\* It may have been stored all the same (a timeout).  The pass ends.
PushFails(p) ==
  /\ ppc[p] = "push"
  /\ \/ repo' = repo
     \/ repo' = [repo EXCEPT ![p] = @ \cup {First(p)}]
  /\ ppc' = [ppc EXCEPT ![p] = "idle"] /\ names' = [names EXCEPT ![p] = {}]
  /\ UNCHANGED <<postgres, dir, added, removed, last, gap, touched, backup, heart, faults,
                 hollow, slipped>>

\* The file leaves the directory; the pass goes on or is over.
RemovesPushed(p) ==
  /\ ppc[p] = "remove"
  /\ dir' = [dir EXCEPT ![p] = @ \ {First(p)}]
  /\ IF p = "spool" THEN /\ added' = added \ {First(p)} /\ removed' = removed \cup {First(p)}
                         /\ last' = First(p)
                    ELSE UNCHANGED <<added, removed, last>>
  /\ names' = [names EXCEPT ![p] = @ \ {First(p)}]
  /\ ppc' = [ppc EXCEPT ![p] = IF names[p] = {First(p)} THEN "idle" ELSE "push"]
  /\ UNCHANGED <<postgres, repo, gap, touched, backup, heart, faults, hollow, slipped>>

RemoveFails(p) ==
  /\ ppc[p] = "remove"
  /\ ppc' = [ppc EXCEPT ![p] = "idle"] /\ names' = [names EXCEPT ![p] = {}]
  /\ UNCHANGED <<postgres, dir, repo, added, removed, last, gap, touched, backup, heart, faults,
                 hollow, slipped>>

pushStanza(p) ==
  PassBegins(p) \/ PushSucceeds(p) \/ PushFails(p) \/ RemovesPushed(p) \/ RemoveFails(p)

(***************************************************************************)
(* queueForSecondCopy                                                      *)
(***************************************************************************)
\* The gap file is an entry too.
QueueFull == Cardinality(dir["queue"]) + (IF gap THEN 1 ELSE 0) >= QueueMax

\* The settings of the second copy are usable (SecondCopyError is empty).
HandOverLooks ==
  /\ ppc["spool"] = "hand"
  /\ ppc' = [ppc EXCEPT !["spool"] =
       IF First("spool") \in dir["queue"] THEN "remove"
       ELSE IF QueueFull THEN "skip" ELSE "link"]
  /\ UNCHANGED <<postgres, dir, repo, added, removed, names, last, gap, touched, backup, heart,
                 faults, hollow, slipped>>

HandOverQueues ==
  /\ ppc["spool"] = "link"
  /\ \/ /\ dir' = [dir EXCEPT !["queue"] = @ \cup {First("spool")}]
        /\ ppc' = [ppc EXCEPT !["spool"] = "remove"]
     \/ /\ dir' = dir
        /\ ppc' = [ppc EXCEPT !["spool"] = "skip"]       \* neither a link nor a copy
  /\ UNCHANGED <<postgres, repo, added, removed, names, last, gap, touched, backup, heart, faults,
                 hollow, slipped>>

\* appendGap, whose own failure nobody hears of
HandOverSkips ==
  /\ ppc["spool"] = "skip" /\ ppc' = [ppc EXCEPT !["spool"] = "remove"]
  /\ \/ gap' = TRUE /\ touched' = (bpc # "idle") /\ UNCHANGED slipped
     \/ slipped' = TRUE /\ UNCHANGED <<gap, touched>>
  /\ UNCHANGED <<postgres, dir, repo, added, removed, names, last, backup, heart, faults, hollow>>

queueForSecondCopy == HandOverLooks \/ HandOverQueues \/ HandOverSkips

(***************************************************************************)
(* secondCopyBackup of the type full, and clearGap                         *)
(***************************************************************************)
BackupOver == bpc' = "idle" /\ from' = None /\ touched' = FALSE

\* It waits for the queue to empty, but not for ever.
BackupBegins ==
  /\ "second copy" \in setup /\ bpc = "idle" /\ bpc' = "running" /\ from' = made + 1
  /\ UNCHANGED <<postgres, dir, repo, added, removed, pusher, gap, touched, base, heart, faults, hollow, slipped>>

\* pgBackRest waits for the WAL of the backup in the second storage.
BackupSucceeds ==
  /\ bpc = "running" /\ \E to \in from..made : from..to \subseteq repo["queue"]
  /\ base' = from /\ bpc' = "saved"
  /\ UNCHANGED <<postgres, dir, repo, added, removed, pusher, gap, touched, from, heart, faults,
                 hollow, slipped>>

BackupFails ==
  /\ bpc = "running" /\ BackupOver
  /\ UNCHANGED <<postgres, dir, repo, added, removed, pusher, gap, base, heart, faults, hollow, slipped>>

\* Mutant: the backup closes any gap.
GapIsOlder_always == gap

GapIsOlder == gap /\ ~touched

\* clearGap looks at the time of the file ...
ClearGapLooks ==
  /\ bpc = "saved"
  /\ IF GapIsOlder THEN bpc' = "clear" /\ touched' = FALSE /\ UNCHANGED from ELSE BackupOver
  /\ UNCHANGED <<postgres, dir, repo, added, removed, pusher, gap, base, heart, faults, hollow, slipped>>

\* ... and removes it, with what was added to it since it looked.
ClearGapRemoves ==
  /\ bpc = "clear" /\ BackupOver /\ gap' = FALSE
  /\ slipped' = (slipped \/ touched)
  /\ UNCHANGED <<postgres, dir, repo, added, removed, pusher, base, heart, faults, hollow>>

secondCopyBackup == BackupBegins \/ BackupSucceeds \/ BackupFails \/ ClearGapLooks \/ ClearGapRemoves

(***************************************************************************)
(* archiverStats: pg_stat_archiver first, then Report and its scan         *)
(***************************************************************************)
ReadsArchiver ==
  /\ "heartbeats" \in setup /\ hpc = "idle" /\ hpc' = "scan" /\ seen' = done
  /\ UNCHANGED <<postgres, dir, repo, added, removed, pusher, gap, touched, backup, listed, report,
                 faults, hollow, slipped>>

ScanLists ==
  /\ hpc = "scan" /\ hpc' = "count" /\ listed' = dir["spool"]
  /\ UNCHANGED <<postgres, dir, repo, added, removed, pusher, gap, touched, backup, seen, report,
                 faults, hollow, slipped>>

\* Mutant: what PostgreSQL archived counts, whatever waits in the spool.
LastArchived_spooled(waiting) == Max({seen, last})

\* sidecarArchiverStats
LastArchived(waiting) == IF waiting = {} THEN Max({seen, last}) ELSE last

\* Files that were pushed meanwhile don't count.  (Report scans twice: once
\* for stalls, then in Status for what it returns.)
ScanCounts ==
  /\ hpc = "count" /\ hpc' = "idle"
  /\ report' = [to |-> LastArchived(listed \cap dir["spool"]), error |-> FALSE]
  /\ seen' = None /\ listed' = {}
  /\ UNCHANGED <<postgres, dir, repo, added, removed, pusher, gap, touched, backup, faults, hollow, slipped>>

\* A spool that can't be read looks empty; LastPushError says why.
ScanFails ==
  /\ hpc = "scan" /\ hpc' = "idle"
  /\ report' = [to |-> LastArchived({}), error |-> TRUE]
  /\ seen' = None
  /\ UNCHANGED <<postgres, dir, repo, added, removed, pusher, gap, touched, backup, listed, faults,
                 hollow, slipped>>

archiverStats == ReadsArchiver \/ ScanLists \/ ScanCounts \/ ScanFails

(***************************************************************************)
(* The agent stops or dies; the machine loses power                        *)
(***************************************************************************)
AgentGone ==
  /\ faults < MaxFaults /\ faults' = faults + 1
  /\ ppc' = [p \in Pushers |-> "idle"] /\ names' = [p \in Pushers |-> {}] /\ last' = None
  /\ BackupOver /\ hpc' = "idle" /\ seen' = None /\ listed' = {}
  /\ UNCHANGED <<setup, made, done, repo, base, report>>

AgentDies ==
  /\ AgentGone
  /\ UNCHANGED <<apc, dir, added, removed, gap, hollow, slipped>>

\* Nothing synced the second copy's queue or the gap file.
LosesPower ==
  /\ AgentGone /\ apc' = "idle"
  /\ \E gone \in SUBSET added, back \in SUBSET removed, queued \in SUBSET dir["queue"] :
       dir' = [dir EXCEPT !["spool"] = (@ \ gone) \cup back, !["queue"] = queued]
  /\ gap' \in {gap, FALSE}
  /\ slipped' = (slipped \/ dir'["queue"] # dir["queue"] \/ gap' # gap)
  /\ added' = {} /\ removed' = {} /\ hollow' = hollow \ dir'["spool"]

Next ==
  \/ CompletesWal \/ archive_command
  \/ \E p \in Pushers : pushStanza(p)
  \/ queueForSecondCopy \/ secondCopyBackup \/ archiverStats
  \/ AgentDies \/ LosesPower

Spec == Init /\ [][Next]_vars

(***************************************************************************)
(* Properties                                                              *)
(***************************************************************************)
TypeOK ==
  /\ made \in 0..MaxWal /\ done \in 0..made /\ apc \in {"idle", "copied", "moved"}
  /\ dir \in [Pushers -> SUBSET Wal] /\ repo \in [Pushers -> SUBSET Wal]
  /\ added \subseteq dir["spool"] /\ removed \cap dir["spool"] = {} /\ removed \subseteq Wal
  /\ ppc \in [Pushers -> {"idle", "push", "hand", "link", "skip", "remove"}]
  /\ names \in [Pushers -> SUBSET Wal] /\ last \in 0..MaxWal
  /\ bpc \in {"idle", "running", "saved", "clear"} /\ from \in 0..(MaxWal + 1) /\ base \in 1..(MaxWal + 1)
  /\ gap \in BOOLEAN /\ touched \in BOOLEAN /\ slipped \in BOOLEAN /\ hollow \subseteq Wal
  /\ hpc \in {"idle", "scan", "count"} /\ seen \in 0..MaxWal /\ listed \subseteq Wal
  /\ report \in [to : 0..MaxWal, error : BOOLEAN]

(* What PostgreSQL may recycle is in the storage or in the spool, and "the *)
(* repository never has a gap followed by later WAL" (spool.go:31),        *)
(* wherever archive_command, a pass or the machine stops.  One way is      *)
(* known to lose a file: archive_command is killed between mv and the sync *)
(* of the directory, its retry takes the file in the spool for archived,   *)
(* and the power fails (hollow).                                           *)
NoGap ==
  /\ 1..done \subseteq repo["spool"] \cup dir["spool"] \cup hollow
  /\ \A f \in repo["spool"] : 1..f \subseteq repo["spool"] \cup hollow

(* "LastArchivedTime is the last successful push (or, with an empty spool, *)
(* PostgreSQL's last archive, which is then in the repository too)"        *)
(* (spool.go:367): what a heartbeat reports as archived is stored, though  *)
(* the pusher and archive_command go on while the report is put together.  *)
ReportTrue == report.error \/ 1..report.to \subseteq repo["spool"] \cup hollow

(* "what doesn't fit is recorded as a gap, which the next full backup to   *)
(* the second copy closes" (secondcopy.go:31): a file that left the spool  *)
(* and that the newest full backup there leads to is queued for the second *)
(* storage, stored in it or missing on record.  slipped has the three ways *)
(* to lose that record: appendGap fails, it runs while clearGap is between *)
(* looking and removing, the power fails.  The settings of the second copy *)
(* are usable throughout: with unusable ones queueForSecondCopy returns at *)
(* once (secondcopy.go:476), and a file leaves the spool unrecorded.       *)
GapKnown ==
  "second copy" \in setup =>
  slipped \/ gap
  \/ \A f \in base..done : f \in dir["spool"] \cup dir["queue"] \cup repo["queue"] \cup hollow
=============================================================================
