--------------------------- MODULE RetentionCleanup ---------------------------
(***************************************************************************)
(* cleanupStorage (apps/api/src/server.ts): the retention of audit jobs and*)
(* of the snapshots they refer to.  A run lists the job files, reads each  *)
(* of them, deletes the expired ones, and then deletes the expired         *)
(* snapshots that no job it kept refers to.  Runs of several API processes *)
(* and sync requests that store a snapshot and finalize their job          *)
(* interleave with it.                                                     *)
(*                                                                         *)
(* Each request stores one snapshot, which carries the name of its job.    *)
(* The deletion of one job is a single step: module JobStore shows what its*)
(* claim is worth.  A job file may become unreadable at any time, also     *)
(* after a run has read it (missedBy): the properties say what holds of the*)
(* others.                                                                 *)
(***************************************************************************)
EXTENDS FiniteSets

CONSTANTS
  Job,              \* the sync requests
  Cleaner,          \* the runs of cleanupStorage
  JobRetention,     \* is WATCHBRIDGE_JOB_RETENTION_DAYS set?
  BackupRetention   \* is WATCHBRIDGE_BACKUP_RETENTION_DAYS set?

ASSUME RetentionAssumption == {JobRetention, BackupRetention} \subseteq BOOLEAN

VARIABLES
  handler,     \* handler[j]: how far the handler of j is
  status,      \* status[j]: the status in the job file, "none" without one
  refers,      \* refers[j]: does the job file name the snapshot?
  readable,    \* readable[j]: does the job file decode and validate here?
  missedBy,    \* history, missedBy[j]: the runs past their look at j when it became unreadable
  expired,     \* expired[j]: updatedAt lies before the cutoff
  backup,      \* backup[j]: the snapshot file
  runAt,       \* runAt[k]: where run k is
  dryRun,      \* dryRun[k]: does run k only report?
  unscanned,   \* unscanned[k]: the listed job files that run k has not read yet
  deciding,    \* deciding[k]: the job that run k is deleting
  referenced,  \* referenced[k]: the snapshots of the jobs that run k retains
  blocked,     \* blocked[k]: run k met a job it could not read
  candidates   \* candidates[k]: the listed snapshot files that run k has not looked at yet

jobVars == <<handler, status, refers, readable, missedBy, expired>>
runVars == <<runAt, dryRun, unscanned, deciding, referenced, blocked, candidates>>
cleanupVars == <<jobVars, backup, runVars>>

Stored == {j \in Job : status[j] # "none"}

CleanupInit ==
  /\ handler = [j \in Job |-> "idle"]
  /\ status = [j \in Job |-> "none"]
  /\ refers = [j \in Job |-> FALSE]
  /\ readable = [j \in Job |-> TRUE]
  /\ missedBy = [j \in Job |-> {}]
  /\ expired = [j \in Job |-> FALSE]
  /\ backup = [j \in Job |-> "none"]
  /\ runAt = [k \in Cleaner |-> "idle"]
  /\ dryRun = [k \in Cleaner |-> FALSE]
  /\ unscanned = [k \in Cleaner |-> {}]
  /\ deciding = [k \in Cleaner |-> {}]
  /\ referenced = [k \in Cleaner |-> {}]
  /\ blocked = [k \in Cleaner |-> FALSE]
  /\ candidates = [k \in Cleaner |-> {}]

-----------------------------------------------------------------------------
(* The requests *)

Create(j) ==
  /\ handler[j] = "idle"
  /\ handler' = [handler EXCEPT ![j] = "created"]
  /\ status' = [status EXCEPT ![j] = "pending"]
  /\ UNCHANGED <<refers, readable, missedBy, expired, backup, runVars>>

StoreBackup(j) ==
  /\ handler[j] = "created"
  /\ handler' = [handler EXCEPT ![j] = "saved"]
  /\ backup' = [backup EXCEPT ![j] = "fresh"]
  /\ UNCHANGED <<status, refers, readable, missedBy, expired, runVars>>

\* completeSyncJob, or failSyncJob with the artifacts of a structured error; a plain
\* error leaves the snapshot out.
EndJob(j) ==
  /\ handler[j] \in {"created", "saved"} /\ status[j] = "pending"
  /\ handler' = [handler EXCEPT ![j] = "ended"]
  /\ status' = [status EXCEPT ![j] = "terminal"]
  /\ \E named \in BOOLEAN :
       /\ named => handler[j] = "saved"
       /\ refers' = [refers EXCEPT ![j] = named]
  /\ expired' = [expired EXCEPT ![j] = FALSE]
  /\ UNCHANGED <<readable, missedBy, backup, runVars>>

\* The process stops and leaves a pending job.
Stop(j) ==
  /\ handler[j] \in {"created", "saved"}
  /\ handler' = [handler EXCEPT ![j] = "ended"]
  /\ UNCHANGED <<status, refers, readable, missedBy, expired, backup, runVars>>

Running(k) == runAt[k] \notin {"idle", "done"}

\* The job file is damaged, or re-encrypted by another process with a key that is not
\* configured here.
Damage(j) ==
  /\ handler[j] = "ended" /\ j \in Stored /\ readable[j]
  /\ readable' = [readable EXCEPT ![j] = FALSE]
  /\ missedBy' = [missedBy EXCEPT ![j] = {k \in Cleaner : Running(k) /\ j \notin unscanned[k]}]
  /\ UNCHANGED <<handler, status, refers, expired, backup, runVars>>

\* Retention counts days up to the start of a run; requests and runs end within a day.
ADayPasses == \A k \in Cleaner : ~Running(k)

ExpireJob(j) ==
  /\ ADayPasses
  /\ j \in Stored /\ ~expired[j]
  /\ handler[j] = "ended"
  /\ expired' = [expired EXCEPT ![j] = TRUE]
  /\ UNCHANGED <<handler, status, refers, readable, missedBy, backup, runVars>>

ExpireBackup(j) ==
  /\ ADayPasses
  /\ backup[j] = "fresh"
  /\ handler[j] = "ended"
  /\ backup' = [backup EXCEPT ![j] = "expired"]
  /\ UNCHANGED <<jobVars, runVars>>

-----------------------------------------------------------------------------
(* A run of cleanupStorage: the jobs *)

Proceed(k, place) == runAt' = [runAt EXCEPT ![k] = place]
Retain(k, j) ==
  referenced' = IF refers[j] THEN [referenced EXCEPT ![k] = @ \cup {j}] ELSE referenced

\* storedRecordIds(jobDirectory()); a directory that cannot be read blocks the run.
Start(k) ==
  /\ runAt[k] = "idle"
  /\ \E preview \in BOOLEAN : dryRun' = [dryRun EXCEPT ![k] = preview]
  /\ \/ unscanned' = [unscanned EXCEPT ![k] = Stored] /\ UNCHANGED blocked
     \/ blocked' = [blocked EXCEPT ![k] = TRUE] /\ UNCHANGED unscanned
  /\ Proceed(k, "jobs")
  /\ UNCHANGED <<jobVars, backup, deciding, referenced, candidates>>

ReadJob(k, j) ==
  /\ runAt[k] = "jobs" /\ j \in unscanned[k]
  /\ unscanned' = [unscanned EXCEPT ![k] = @ \ {j}]

\* A plausible bug: a job that cannot be read is passed over.
PassOverInvalid(k, j) ==
  /\ ReadJob(k, j)
  /\ ~(j \in Stored /\ readable[j])
  /\ UNCHANGED <<jobVars, backup, runAt, dryRun, deciding, referenced, blocked, candidates>>

\* The file is gone by now, or it cannot be decoded and validated.
FindInvalid(k, j) ==
  /\ ReadJob(k, j)
  /\ ~(j \in Stored /\ readable[j])
  /\ blocked' = [blocked EXCEPT ![k] = TRUE]
  /\ UNCHANGED <<jobVars, backup, runAt, dryRun, deciding, referenced, candidates>>

JobExpired(j) == JobRetention /\ status[j] = "terminal" /\ expired[j]

FindRetained(k, j) ==
  /\ ReadJob(k, j)
  /\ j \in Stored /\ readable[j] /\ ~JobExpired(j)
  /\ Retain(k, j)
  /\ UNCHANGED <<jobVars, backup, runAt, dryRun, deciding, blocked, candidates>>

\* A preview counts the job and forgets it.
FindEligible(k, j) ==
  /\ ReadJob(k, j)
  /\ j \in Stored /\ readable[j] /\ JobExpired(j)
  /\ IF dryRun[k]
     THEN UNCHANGED <<runAt, deciding>>
     ELSE deciding' = [deciding EXCEPT ![k] = {j}] /\ Proceed(k, "removing")
  /\ UNCHANGED <<jobVars, backup, dryRun, referenced, blocked, candidates>>

\* removeEligibleSyncJob reads the job again under its claim.
RemoveJob(k, j) ==
  /\ runAt[k] = "removing" /\ j \in deciding[k]
  /\ \/ /\ j \in Stored /\ readable[j] /\ JobExpired(j)
        /\ status' = [status EXCEPT ![j] = "none"]
        /\ refers' = [refers EXCEPT ![j] = FALSE]
        /\ expired' = [expired EXCEPT ![j] = FALSE]
        /\ deciding' = [deciding EXCEPT ![k] = {}]
        /\ Proceed(k, "jobs")
     \/ /\ ~(j \in Stored /\ readable[j] /\ JobExpired(j))
        /\ Proceed(k, "refreshing")
        /\ UNCHANGED <<status, refers, expired, deciding>>
  /\ UNCHANGED <<handler, readable, missedBy, backup, dryRun, unscanned, referenced, blocked, candidates>>

\* The claim timed out or the unlink failed: the job is retained as it was read.
RemovalFails(k, j) ==
  /\ runAt[k] = "removing" /\ j \in deciding[k]
  /\ Retain(k, j)
  /\ deciding' = [deciding EXCEPT ![k] = {}]
  /\ Proceed(k, "jobs")
  /\ UNCHANGED <<jobVars, backup, dryRun, unscanned, blocked, candidates>>

\* A job that was not deleted is read once more; one that cannot be read is only counted
\* as an error.
Refresh(k, j) ==
  /\ runAt[k] = "refreshing" /\ j \in deciding[k]
  /\ IF j \in Stored /\ readable[j] THEN Retain(k, j) ELSE UNCHANGED referenced
  /\ deciding' = [deciding EXCEPT ![k] = {}]
  /\ Proceed(k, "jobs")
  /\ UNCHANGED <<jobVars, backup, dryRun, unscanned, blocked, candidates>>

-----------------------------------------------------------------------------
(* A run of cleanupStorage: the snapshots *)

\* storedRecordIds(backupDirectory())
ListBackups(k) ==
  /\ runAt[k] = "jobs" /\ unscanned[k] = {}
  /\ candidates' = [candidates EXCEPT ![k] = {j \in Job : backup[j] # "none"}]
  /\ Proceed(k, "backups")
  /\ UNCHANGED <<jobVars, backup, dryRun, unscanned, deciding, referenced, blocked>>

\* A plausible bug: the references of the retained jobs are not looked up.
RemovableIfOld(k, j) == BackupRetention /\ ~blocked[k] /\ backup[j] = "expired"

Removable(k, j) ==
  BackupRetention /\ ~blocked[k] /\ j \notin referenced[k] /\ backup[j] = "expired"

\* An unlink may fail; the run goes on.
VisitBackup(k, j) ==
  /\ runAt[k] = "backups" /\ j \in candidates[k]
  /\ candidates' = [candidates EXCEPT ![k] = @ \ {j}]
  /\ \/ UNCHANGED backup
     \/ Removable(k, j) /\ ~dryRun[k] /\ backup' = [backup EXCEPT ![j] = "none"]
  /\ UNCHANGED <<jobVars, runAt, dryRun, unscanned, deciding, referenced, blocked>>

Report(k) ==
  /\ runAt[k] = "backups" /\ candidates[k] = {}
  /\ Proceed(k, "done")
  /\ UNCHANGED <<jobVars, backup, dryRun, unscanned, deciding, referenced, blocked, candidates>>

-----------------------------------------------------------------------------

RequestStep(j) ==
  Create(j) \/ StoreBackup(j) \/ EndJob(j) \/ Stop(j)

RunStep(k, j) ==
  \/ FindInvalid(k, j) \/ FindRetained(k, j) \/ FindEligible(k, j)
  \/ RemoveJob(k, j) \/ RemovalFails(k, j) \/ Refresh(k, j) \/ VisitBackup(k, j)

CleanupNext ==
  \/ \E j \in Job : RequestStep(j) \/ Damage(j) \/ ExpireJob(j) \/ ExpireBackup(j)
  \/ \E k \in Cleaner : Start(k) \/ ListBackups(k) \/ Report(k)
  \/ \E k \in Cleaner, j \in Job : RunStep(k, j)

CleanupSpec == CleanupInit /\ [][CleanupNext]_cleanupVars

-----------------------------------------------------------------------------
(* Properties *)

\* The files, the requests and the memory of the runs are well typed.
RetentionTypeOK ==
  /\ handler \in [Job -> {"idle", "created", "saved", "ended"}]
  /\ status \in [Job -> {"none", "pending", "terminal"}]
  /\ refers \in [Job -> BOOLEAN]
  /\ readable \in [Job -> BOOLEAN]
  /\ missedBy \in [Job -> SUBSET Cleaner]
  /\ expired \in [Job -> BOOLEAN]
  /\ backup \in [Job -> {"none", "fresh", "expired"}]
  /\ runAt \in [Cleaner -> {"idle", "jobs", "removing", "refreshing", "backups", "done"}]
  /\ dryRun \in [Cleaner -> BOOLEAN]
  /\ unscanned \in [Cleaner -> SUBSET Job]
  /\ deciding \in [Cleaner -> SUBSET Job]
  /\ referenced \in [Cleaner -> SUBSET Job]
  /\ blocked \in [Cleaner -> BOOLEAN]
  /\ candidates \in [Cleaner -> SUBSET Job]

(***************************************************************************)
(* What docs/DEPLOYMENT.md 103 says: any backup referenced by a retained   *)
(* job is preserved.  A job that becomes unreadable between the look of    *)
(* cleanupStorage and its second look loses it.                            *)
(***************************************************************************)
RetainedJobsKeepBackups ==
  \A j \in Stored : refers[j] => backup[j] # "none"

(***************************************************************************)
(* That is the only way: the snapshot that a stored job names is on disk,  *)
(* however many runs delete at a time and whether or not the job can be    *)
(* read, unless it became unreadable after a run had looked at it.         *)
(***************************************************************************)
ReferencedBackupsStay ==
  \A j \in Stored : refers[j] /\ missedBy[j] = {} => backup[j] # "none"

Damaged == {j \in Stored : ~readable[j]}

\* Run k visits a snapshot and the file is gone.
Deletes(k) ==
  \E j \in candidates[k] \ candidates'[k] : backup[j] # "none" /\ backup'[j] = "none"

(***************************************************************************)
(* Deletion of snapshots fails closed (docs/DEPLOYMENT.md 103): a run      *)
(* deletes none unless every stored job that cannot be decoded and         *)
(* validated became so after the run had looked at it.                     *)
(***************************************************************************)
DamageBlocksDeletion ==
  [][ \A k \in Cleaner : Deletes(k) => \A j \in Damaged : k \in missedBy[j] ]_cleanupVars

\* Only a finalized job names a snapshot, and a request at work has a fresh one.
RequestsAndFiles ==
  \A j \in Job :
    /\ handler[j] = "idle" => status[j] = "none" /\ readable[j]
    /\ refers[j] => status[j] = "terminal"
    /\ missedBy[j] # {} => ~readable[j]
    /\ handler[j] = "saved" => backup[j] = "fresh"

\* A run that was not blocked has in hand, or has yet to read, every job that names an
\* expired snapshot and did not become unreadable behind its back.
RunKnowsReferences ==
  \A k \in Cleaner, j \in Stored :
    Running(k) /\ ~dryRun[k] /\ ~blocked[k] /\ refers[j] /\ backup[j] = "expired"
      /\ k \notin missedBy[j] => j \in unscanned[k] \cup deciding[k] \cup referenced[k]

RunPhases ==
  \A k \in Cleaner :
    /\ runAt[k] \in {"idle", "jobs", "backups", "done"} => deciding[k] = {}
    /\ runAt[k] = "backups" => unscanned[k] = {}
    /\ \A i, j \in deciding[k] : i = j
    /\ deciding[k] \cap unscanned[k] = {}
    /\ \A j \in deciding[k] \cap Damaged : k \in missedBy[j]
    /\ Running(k) /\ ~blocked[k] =>
         \A j \in Damaged : k \in missedBy[j] \/ j \in unscanned[k]

(***************************************************************************)
(* The invariant behind both: what a run holds in memory accounts for every*)
(* stored job, although requests and other runs change the files meanwhile.*)
(***************************************************************************)
RetentionInvariant ==
  /\ RetentionTypeOK
  /\ RequestsAndFiles
  /\ RunKnowsReferences
  /\ RunPhases
  /\ ReferencedBackupsStay

=============================================================================
