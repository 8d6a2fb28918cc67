------------------------------ MODULE AuditJob ------------------------------
(***************************************************************************)
(* The durable audit record of one sync, backup-sync or restore request,   *)
(* and the answer its handler gives the caller: what completeSyncJob and   *)
(* failSyncJob (apps/api/src/server.ts) write and return.  The handlers of *)
(* the three confirmed operations share these definitions.                 *)
(*                                                                         *)
(* A record keeps what recovery decisions are made from: the status, the   *)
(* writeMayBePartial flag, which batches were executed and which snapshots *)
(* are referenced.  Labels, timestamps and conflict evidence are left out. *)
(***************************************************************************)
CONSTANTS
  Slot,      \* the batches a request can have: one per feature and direction
  Side       \* the accounts of a request: {"source", "target"}

JobStatus == {"absent", "pending", "succeeded", "failed"}

SyncJobRecord ==
  [status : JobStatus, partial : BOOLEAN, executed : SUBSET Slot, artifacts : SUBSET Side]

Answers ==
  [kind : {"none", "ok", "error", "not-started"}, retrySafe : BOOLEAN, warning : BOOLEAN,
   executed : SUBSET Slot, artifacts : SUBSET Side]

NoJob == [status |-> "absent", partial |-> FALSE, executed |-> {}, artifacts |-> {}]

PendingJob == [NoJob EXCEPT !.status = "pending"]

NoAnswer == [kind |-> "none", retrySafe |-> FALSE, warning |-> FALSE,
             executed |-> {}, artifacts |-> {}]

\* The 500 answer when the pending record could not be created.
NotStarted == [NoAnswer EXCEPT !.kind = "not-started"]

(***************************************************************************)
(* What an execution error carries.  "generic" errors carry nothing;       *)
(* structured ones (SyncExecutionError, BackupRestoreError) come from the  *)
(* preflight loop or from the write loop and carry the actions so far and  *)
(* the artifacts.                                                          *)
(***************************************************************************)
Failure == {"none", "generic", "preflight", "write"}

Structured(failure) == failure \in {"preflight", "write"}

WriteMayBePartial(failure) == failure = "write"

Terminal(job) == job.status \in {"succeeded", "failed"}

SucceededJob(executed, artifacts) ==
  [status |-> "succeeded", partial |-> FALSE, executed |-> executed, artifacts |-> artifacts]

FailedJob(failure, executed, artifacts) ==
  [status    |-> "failed",
   partial   |-> WriteMayBePartial(failure),
   executed  |-> IF Structured(failure) THEN executed ELSE {},
   artifacts |-> IF Structured(failure) THEN artifacts ELSE {}]

(***************************************************************************)
(* completeSyncJob and failSyncJob: "warned" says that updateSyncJob threw *)
(* and the answer carries the auditWarning.                                *)
(***************************************************************************)
CompletionAnswer(dryRun, warned, executed, artifacts) ==
  [kind |-> "ok", retrySafe |-> warned /\ dryRun, warning |-> warned,
   executed |-> executed, artifacts |-> artifacts]

FailureAnswer(failure, warned, executed, artifacts) ==
  [kind      |-> "error",
   retrySafe |-> ~warned /\ ~WriteMayBePartial(failure),
   warning   |-> warned,
   executed  |-> IF Structured(failure) THEN executed ELSE {},
   artifacts |-> IF Structured(failure) THEN artifacts ELSE {}]

(***************************************************************************)
(* The caller is told that the accounts were not touched: by an answer that*)
(* is retry-safe or says that nothing started, or by a stored failure      *)
(* whose writeMayBePartial is false.                                       *)
(***************************************************************************)
AnswerSaysUntouched(answer) ==
  \/ answer.kind = "not-started"
  \/ answer.kind = "error" /\ answer.retrySafe

JobSaysUntouched(job) == job.status = "failed" /\ ~job.partial

=============================================================================
