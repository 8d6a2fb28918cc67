---------------------------- MODULE BackupRestore ----------------------------
(***************************************************************************)
(* Restores of stored backups into the account they were taken from: the   *)
(* handler of POST /v1/backups/:id/restore (apps/api/src/server.ts) around *)
(* restoreBackup (packages/connectors/src/backupRestore.ts).               *)
(*                                                                         *)
(* Several restores may run at once over the same account, any provider    *)
(* call may fail after part of a batch reached the account, and the process*)
(* may stop at any step.  An account and a backup are sets of records, an  *)
(* item and its value; a feature is a set of items that one importer       *)
(* writes, in the order of Features.                                       *)
(***************************************************************************)
EXTENDS Naturals, Sequences

CONSTANTS
  Attempt,       \* the restore requests
  Item,          \* a record is <<item, value>>
  Values,        \* Values[i]: the values a record of item i can have
  Features,      \* the features, each a set of items, in the restore's order
  Importable,    \* the features the target connector imports (never followers)
  MaxEdits       \* bound on the changes that other programs make

ASSUME RestoreAssumption ==
  /\ Features \in Seq(SUBSET Item)
  /\ Importable \subseteq 1 .. Len(Features)
  /\ MaxEdits \in Nat

Side == {"target"}
Slot == 1 .. Len(Features)
RestoreRecord == UNION {{i} \X Values[i] : i \in Item}

INSTANCE AuditJob

VARIABLES
  account,     \* the records of the target account
  stored,      \* the backups in the backup directory
  phase,       \* phase[a]: where the handler of request a is
  request,     \* request[a]: the backup read, and the flags of the request
  snapshot,    \* snapshot[a]: the target as exported before anything else
  kept,        \* kept[a]: the snapshot has an identifier that the executor holds
  preflighted, \* preflighted[a]: the features whose importer passed its dry run
  begun,       \* begun[a]: the features whose importer was called to write
  restored,    \* restored[a]: the features recorded as restored
  written,     \* written[a]: the records this request has put on the account
  failure,     \* failure[a]: the error being handled
  jobs,        \* jobs[a]: the durable audit record
  answer,      \* answer[a]: the handler's answer
  edits        \* changes other programs made

vars == <<account, stored, phase, request, snapshot, kept, preflighted, begun,
          restored, written, failure, jobs, answer, edits>>

Phase == {"idle", "creating", "validating", "exporting", "persisting",
          "preflight", "writing", "importing", "completing", "failing", "done", "crashed"}

Request == [backup : SUBSET RestoreRecord, dryRun : BOOLEAN, confirmWrite : BOOLEAN]

OfFeature(records, n) == {r \in records : r[1] \in Features[n]}

\* A service keeps one value of an item.
Upserted(records, r) == {q \in records : q[1] # r[1]} \cup {r}

\* prepare: the features with records and an importer; the others are skipped.
Prepared(a) == {n \in Importable : OfFeature(request[a].backup, n) # {}}

InOrder(todo, n) == n \in todo /\ \A m \in todo : n <= m

Goto(a, p) == phase' = [phase EXCEPT ![a] = p]
Throw(a, error) == Goto(a, "failing") /\ failure' = [failure EXCEPT ![a] = error]

progress == <<preflighted, begun, restored, written>>
verdicts == <<failure, jobs, answer>>

Account == {records \in SUBSET RestoreRecord :
              \A q, r \in records : q[1] = r[1] => q = r}

NoRequest == [backup |-> {}, dryRun |-> TRUE, confirmWrite |-> FALSE]

Init ==
  /\ account \in Account
  /\ stored \in {{b} : b \in Account}
  /\ phase = [a \in Attempt |-> "idle"]
  /\ request = [a \in Attempt |-> NoRequest]
  /\ snapshot = [a \in Attempt |-> {}]
  /\ kept = [a \in Attempt |-> FALSE]
  /\ preflighted = [a \in Attempt |-> {}]
  /\ begun = [a \in Attempt |-> {}]
  /\ restored = [a \in Attempt |-> {}]
  /\ written = [a \in Attempt |-> {}]
  /\ failure = [a \in Attempt |-> "none"]
  /\ jobs = [a \in Attempt |-> NoJob]
  /\ answer = [a \in Attempt |-> NoAnswer]
  /\ edits = 0

\* readBackup and the checks of the body, which answer without a job.
Submit(a) ==
  /\ phase[a] = "idle"
  /\ \E b \in stored, d, w \in BOOLEAN :
       request' = [request EXCEPT ![a] = [backup |-> b, dryRun |-> d, confirmWrite |-> w]]
  /\ Goto(a, "creating")
  /\ UNCHANGED <<account, stored, snapshot, kept, progress, verdicts, edits>>

CreateJob(a) ==
  /\ phase[a] = "creating"
  /\ jobs' = [jobs EXCEPT ![a] = PendingJob]
  /\ Goto(a, "validating")
  /\ UNCHANGED <<account, stored, request, snapshot, kept, progress, failure, answer, edits>>

\* The record may have reached the disk before its write threw.
CreateJobFails(a) ==
  /\ phase[a] = "creating"
  /\ \E job \in {NoJob, PendingJob} : jobs' = [jobs EXCEPT ![a] = job]
  /\ answer' = [answer EXCEPT ![a] = NotStarted]
  /\ Goto(a, "done")
  /\ UNCHANGED <<account, stored, request, snapshot, kept, progress, failure, edits>>

Validate(a) ==
  /\ phase[a] = "validating"
  /\ IF request[a].dryRun \/ request[a].confirmWrite
     THEN Goto(a, "exporting") /\ UNCHANGED failure
     ELSE Throw(a, "generic")
  /\ UNCHANGED <<account, stored, request, snapshot, kept, progress, jobs, answer, edits>>

Export(a) ==
  /\ phase[a] = "exporting"
  /\ snapshot' = [snapshot EXCEPT ![a] = account]
  /\ Goto(a, IF request[a].dryRun THEN "preflight" ELSE "persisting")
  /\ UNCHANGED <<account, stored, request, kept, progress, verdicts, edits>>

ExportFails(a) ==
  /\ phase[a] = "exporting"
  /\ Throw(a, "generic")
  /\ UNCHANGED <<account, stored, request, snapshot, kept, progress, jobs, answer, edits>>

\* A plausible bug: the backup being restored is stored instead of the target.
PersistBackup(a) ==
  /\ phase[a] = "persisting"
  /\ stored' = stored \cup {request[a].backup}
  /\ kept' = [kept EXCEPT ![a] = TRUE]
  /\ Goto(a, "preflight")
  /\ UNCHANGED <<account, request, snapshot, progress, verdicts, edits>>

Persist(a) ==
  /\ phase[a] = "persisting"
  /\ stored' = stored \cup {snapshot[a]}
  /\ kept' = [kept EXCEPT ![a] = TRUE]
  /\ Goto(a, "preflight")
  /\ UNCHANGED <<account, request, snapshot, progress, verdicts, edits>>

\* The file may exist although the write threw; its identifier is lost.
PersistFails(a) ==
  /\ phase[a] = "persisting"
  /\ stored' \in {stored, stored \cup {snapshot[a]}}
  /\ Throw(a, "generic")
  /\ UNCHANGED <<account, request, snapshot, kept, progress, jobs, answer, edits>>

Preflight(a, n) ==
  /\ phase[a] = "preflight"
  /\ InOrder(Prepared(a) \ preflighted[a], n)
  /\ preflighted' = [preflighted EXCEPT ![a] = @ \cup {n}]
  /\ UNCHANGED <<account, stored, phase, request, snapshot, kept, begun, restored,
                 written, verdicts, edits>>

PreflightFails(a, n) ==
  /\ phase[a] = "preflight"
  /\ InOrder(Prepared(a) \ preflighted[a], n)
  /\ Throw(a, "preflight")
  /\ UNCHANGED <<account, stored, request, snapshot, kept, progress, jobs, answer, edits>>

\* A plausible bug: a feature is written as soon as its own preflight passed.
PreflightDoneEarly(a) ==
  /\ phase[a] = "preflight"
  /\ preflighted[a] # {} \/ Prepared(a) = {}
  /\ Goto(a, IF request[a].dryRun THEN "completing" ELSE "writing")
  /\ UNCHANGED <<account, stored, request, snapshot, kept, progress, verdicts, edits>>

PreflightDone(a) ==
  /\ phase[a] = "preflight"
  /\ Prepared(a) \subseteq preflighted[a]
  /\ Goto(a, IF request[a].dryRun THEN "completing" ELSE "writing")
  /\ UNCHANGED <<account, stored, request, snapshot, kept, progress, verdicts, edits>>

BeginImport(a, n) ==
  /\ phase[a] = "writing"
  /\ InOrder(Prepared(a) \ restored[a], n)
  /\ begun' = [begun EXCEPT ![a] = @ \cup {n}]
  /\ Goto(a, "importing")
  /\ UNCHANGED <<account, stored, request, snapshot, kept, preflighted, restored,
                 written, verdicts, edits>>

\* What the importer that is running still has to send.
Unsent(a) == (UNION {OfFeature(request[a].backup, n) : n \in begun[a]}) \ written[a]

\* One record of the batch reaches the account.
Import(a) ==
  /\ phase[a] = "importing"
  /\ \E r \in Unsent(a) :
       /\ account' = Upserted(account, r)
       /\ written' = [written EXCEPT ![a] = @ \cup {r}]
  /\ UNCHANGED <<stored, phase, request, snapshot, kept, preflighted, begun, restored,
                 verdicts, edits>>

\* A plausible bug: the importer's promise is not awaited.
EndImportUnawaited(a) ==
  /\ phase[a] = "importing"
  /\ restored' = [restored EXCEPT ![a] = begun[a]]
  /\ Goto(a, "writing")
  /\ UNCHANGED <<account, stored, request, snapshot, kept, preflighted, begun, written,
                 verdicts, edits>>

EndImport(a) ==
  /\ phase[a] = "importing"
  /\ Unsent(a) = {}
  /\ restored' = [restored EXCEPT ![a] = begun[a]]
  /\ Goto(a, "writing")
  /\ UNCHANGED <<account, stored, request, snapshot, kept, preflighted, begun, written,
                 verdicts, edits>>

ImportFails(a) ==
  /\ phase[a] = "importing"
  /\ Throw(a, "write")
  /\ UNCHANGED <<account, stored, request, snapshot, kept, progress, jobs, answer, edits>>

ImportsDone(a) ==
  /\ phase[a] = "writing"
  /\ Prepared(a) \subseteq restored[a]
  /\ Goto(a, "completing")
  /\ UNCHANGED <<account, stored, request, snapshot, kept, progress, verdicts, edits>>

Artifacts(a) == IF kept[a] THEN Side ELSE {}

\* updateSyncJob returns, or throws before or after the record is on disk; a
\* record that is not pending any more stays as it is.
Finalize(a, record, plain, warning) ==
  /\ \E outcome \in {"stored", "threw", "landed-but-threw"} :
       /\ jobs' = IF outcome = "threw" \/ jobs[a].status # "pending" THEN jobs
                  ELSE [jobs EXCEPT ![a] = record]
       /\ answer' = [answer EXCEPT ![a] = IF outcome = "stored" THEN plain ELSE warning]
  /\ Goto(a, "done")
  /\ UNCHANGED <<account, stored, request, snapshot, kept, progress, failure, edits>>

CompleteJob(a) ==
  /\ phase[a] = "completing"
  /\ Finalize(a, SucceededJob(restored[a], Artifacts(a)),
       CompletionAnswer(request[a].dryRun, FALSE, restored[a], Artifacts(a)),
       CompletionAnswer(request[a].dryRun, TRUE, restored[a], Artifacts(a)))

FailJob(a) ==
  /\ phase[a] = "failing"
  /\ Finalize(a, FailedJob(failure[a], restored[a], Artifacts(a)),
       FailureAnswer(failure[a], FALSE, restored[a], Artifacts(a)),
       FailureAnswer(failure[a], TRUE, restored[a], Artifacts(a)))

Crash ==
  /\ \E a \in Attempt : phase[a] \notin {"idle", "done", "crashed"}
  /\ phase' = [a \in Attempt |->
                 IF phase[a] \in {"idle", "done"} THEN phase[a] ELSE "crashed"]
  /\ UNCHANGED <<account, stored, request, snapshot, kept, progress, verdicts, edits>>

\* Another program, or the user, changes the account.
Edit ==
  /\ edits < MaxEdits
  /\ edits' = edits + 1
  /\ \E r \in RestoreRecord : account' = Upserted(account, r)
  /\ UNCHANGED <<stored, phase, request, snapshot, kept, progress, verdicts>>

Handle(a) ==
  \/ CreateJob(a) \/ CreateJobFails(a) \/ Validate(a)
  \/ Export(a) \/ ExportFails(a) \/ Persist(a) \/ PersistFails(a)
  \/ \E n \in Slot : Preflight(a, n) \/ PreflightFails(a, n) \/ BeginImport(a, n)
  \/ PreflightDone(a) \/ Import(a) \/ EndImport(a) \/ ImportFails(a) \/ ImportsDone(a)
  \/ CompleteJob(a) \/ FailJob(a)

Next ==
  \/ \E a \in Attempt : Submit(a) \/ Handle(a)
  \/ Crash
  \/ Edit

Spec == Init /\ [][Next]_vars
-----------------------------------------------------------------------------

RestoreTypeOK ==
  /\ account \subseteq RestoreRecord
  /\ stored \subseteq SUBSET RestoreRecord
  /\ phase \in [Attempt -> Phase]
  /\ request \in [Attempt -> Request]
  /\ snapshot \in [Attempt -> SUBSET RestoreRecord]
  /\ kept \in [Attempt -> BOOLEAN]
  /\ preflighted \in [Attempt -> SUBSET Slot]
  /\ begun \in [Attempt -> SUBSET Slot]
  /\ restored \in [Attempt -> SUBSET Slot]
  /\ written \in [Attempt -> SUBSET RestoreRecord]
  /\ failure \in [Attempt -> Failure]
  /\ jobs \in [Attempt -> SyncJobRecord]
  /\ answer \in [Attempt -> Answers]
  /\ edits \in 0 .. MaxEdits

\* Every record any backup holds.
Archived == UNION stored

\* Once a request stored its snapshot, whatever the account holds is archived,
\* also what another request has put there since; before that, the rest is in
\* the snapshot the request is about to store.
AccountIsCovered ==
  \A a \in Attempt :
    /\ phase[a] = "persisting" => account \subseteq snapshot[a] \cup Archived
    /\ phase[a] \in {"writing", "importing"} => account \subseteq Archived
    /\ phase[a] = "preflight" /\ ~request[a].dryRun => account \subseteq Archived

\* restoreBackup: a record that a restore replaces on the account is in a stored
\* backup at that moment, also while another restore of the same account runs;
\* nothing a restore does is beyond undoing, unless another program changed the
\* account, which no snapshot can know.
ReplacedRecordsAreArchived == [][edits' = 0 => account \ account' \subseteq Archived']_vars

\* A restore writes when it was confirmed, its snapshot is stored under an
\* identifier and every importer accepted its whole batch; it never begins a
\* feature without an importer, and what it has put on the account are records
\* of the backup it was asked to restore, in features it began.
RestoreIsProtected ==
  /\ RestoreTypeOK
  /\ \A a \in Attempt :
       /\ begun[a] # {} =>
            /\ request[a].confirmWrite /\ ~request[a].dryRun
            /\ jobs[a].status # "absent"
            /\ kept[a] /\ snapshot[a] \in stored
            /\ Prepared(a) \subseteq preflighted[a]
       /\ begun[a] \subseteq Importable
       /\ written[a] \subseteq UNION {OfFeature(request[a].backup, n) : n \in begun[a]}

\* completeSyncJob, failSyncJob: a terminal audit record tells which features
\* are completely back, and a failure that put records on the account says
\* that the write may be partial and names the snapshot to return to.
RestoreRecordsTellTheTruth ==
  \A a \in Attempt : Terminal(jobs[a]) =>
    /\ \A n \in jobs[a].executed : OfFeature(request[a].backup, n) \subseteq written[a]
    /\ jobs[a].status = "succeeded" /\ ~request[a].dryRun => jobs[a].executed = Prepared(a)
    /\ jobs[a].status = "failed" /\ written[a] # {} =>
         jobs[a].partial /\ jobs[a].artifacts = Side
=============================================================================
