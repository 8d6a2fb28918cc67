---------------------------- MODULE SyncExecution ----------------------------
(***************************************************************************)
(* A sync request from the caller to its durable verdict: the handlers of  *)
(* POST /v1/sync/execute and POST /v1/sync/from-backup                     *)
(* (apps/api/src/server.ts) around executeSync                             *)
(* (packages/connectors/src/syncExecutor.ts), the process that may stop at *)
(* any step, and a caller that may lose the answer and submits again only  *)
(* when it was told that nothing was written.                              *)
(*                                                                         *)
(* A batch is one feature in one direction.  What the batches contain is   *)
(* the subject of module Reconciliation; here the plan is any subset of    *)
(* the batches the connectors can write.  A sync from a stored archive is  *)
(* a one-way request whose source is not read from an account.             *)
(***************************************************************************)
EXTENDS Naturals, Sequences, FiniteSets

CONSTANTS
  MaxAttempts,   \* bound on the attempts of the caller
  Features,      \* the features, in the executor's fixed order
  Requests,      \* the requests the caller chooses from
  Importers      \* Importers[s]: the features the connector of side s imports

ASSUME ConstantsAssumption ==
  /\ MaxAttempts \in Nat \ {0}
  /\ Features \in Seq(STRING) \ {<<>>}
  /\ Importers \in [{"source", "target"} -> SUBSET STRING]

Attempt == 1..MaxAttempts
Side == {"source", "target"}
Slot == 1..(2 * Len(Features))

INSTANCE AuditJob

\* Batches are numbered in the order in which executeSync visits them.
FeatureOf(i) == Features[(i + 1) \div 2]
Destination(i) == IF i % 2 = 1 THEN "target" ELSE "source"

Mode == {"one-way", "two-way"}

Request == [mode : Mode, dryRun : BOOLEAN, confirmWrite : BOOLEAN,
            selection : SUBSET {Features[n] : n \in 1..Len(Features)}]

ASSUME RequestsAssumption == Requests \subseteq Request

PC == {"idle", "creating", "validating", "reading", "persist-source",
       "persist-target", "planning", "preflight", "writing", "importing",
       "completing", "failing", "answering", "done", "crashed"}

Caller == {"idle", "waiting", "answered", "lost"}

VARIABLES
  pc,            \* pc[a]: where the handler of attempt a is
  request,       \* request[a]: what attempt a asks for
  prepared,      \* prepared[a]: the batches planned for writing
  preflighted,   \* preflighted[a]: the batches whose importer passed its dry run
  begun,         \* begun[a]: the batches whose importer was called to write
  applied,       \* applied[a]: the batches whose importer returned
  saved,         \* saved[a]: the sides whose snapshot is a file in the backup directory
  artifacts,     \* artifacts[a]: the sides whose snapshot identifier the executor holds
  failure,       \* failure[a]: the error being handled
  jobs,          \* jobs[a]: the durable audit record
  answer,        \* answer[a]: the handler's answer
  caller         \* caller[a]: what the caller knows of attempt a

vars == <<pc, request, prepared, preflighted, begun, applied, saved, artifacts,
          failure, jobs, answer, caller>>

accounts == <<begun, applied>>
plans == <<prepared, preflighted>>
snapshots == <<saved, artifacts>>

Idle == [mode |-> "one-way", dryRun |-> TRUE, confirmWrite |-> FALSE, selection |-> {}]

Init ==
  /\ pc = [a \in Attempt |-> "idle"]
  /\ request = [a \in Attempt |-> Idle]
  /\ prepared = [a \in Attempt |-> {}]
  /\ preflighted = [a \in Attempt |-> {}]
  /\ begun = [a \in Attempt |-> {}]
  /\ applied = [a \in Attempt |-> {}]
  /\ saved = [a \in Attempt |-> {}]
  /\ artifacts = [a \in Attempt |-> {}]
  /\ failure = [a \in Attempt |-> "none"]
  /\ jobs = [a \in Attempt |-> NoJob]
  /\ answer = [a \in Attempt |-> NoAnswer]
  /\ caller = [a \in Attempt |-> "idle"]

-----------------------------------------------------------------------------
(* Helpers *)

Goto(a, label) == pc' = [pc EXCEPT ![a] = label]

Throw(a, error) ==
  /\ Goto(a, "failing")
  /\ failure' = [failure EXCEPT ![a] = error]

\* A two-way feature needs an importer on both sides (planSync's blocked operations).
Blocked(r) ==
  r.mode = "two-way" /\ \E f \in r.selection : \E s \in Side : f \notin Importers[s]

\* executeSync refuses before it touches the network.
Refused(r) == (~r.dryRun /\ ~r.confirmWrite) \/ Blocked(r)

\* The batches of a request that have an importer at their destination.
Writable(r) ==
  {i \in Slot : /\ FeatureOf(i) \in r.selection
                /\ r.mode = "two-way" \/ Destination(i) = "target"
                /\ FeatureOf(i) \in Importers[Destination(i)]}

\* The first batch of todo in the executor's order.
First(todo, i) == i \in todo /\ \A j \in todo : i <= j

(***************************************************************************)
(* The caller may follow attempt a with another one: a was a preview that  *)
(* succeeded, or the answer or the stored record says it wrote nothing.    *)
(***************************************************************************)
SaysUntouched(a) == AnswerSaysUntouched(answer[a]) \/ JobSaysUntouched(jobs[a])

MayFollow(a) ==
  /\ caller[a] \in {"answered", "lost"}
  /\ \/ caller[a] = "answered" /\ AnswerSaysUntouched(answer[a])
     \/ caller[a] = "answered" /\ answer[a].kind = "ok" /\ request[a].dryRun
     \/ JobSaysUntouched(jobs[a])
     \/ jobs[a].status = "succeeded" /\ request[a].dryRun

-----------------------------------------------------------------------------
(* The caller *)

Submit(a) ==
  /\ caller[a] = "idle"
  /\ a = 1 \/ (a > 1 /\ MayFollow(a - 1))
  /\ \E r \in Requests : request' = [request EXCEPT ![a] = r]
  /\ caller' = [caller EXCEPT ![a] = "waiting"]
  /\ Goto(a, "creating")
  /\ UNCHANGED <<plans, accounts, snapshots, failure, jobs, answer>>

\* The connection drops or a proxy gives up; the handler runs on.
LoseConnection(a) ==
  /\ caller[a] = "waiting"
  /\ caller' = [caller EXCEPT ![a] = "lost"]
  /\ UNCHANGED <<pc, request, plans, accounts, snapshots, failure, jobs, answer>>

-----------------------------------------------------------------------------
(* The handler: createSyncJob *)

CreateJob(a) ==
  /\ pc[a] = "creating"
  /\ jobs' = [jobs EXCEPT ![a] = PendingJob]
  /\ Goto(a, "validating")
  /\ UNCHANGED <<request, plans, accounts, snapshots, failure, answer, caller>>

\* The write may have reached the disk before it threw.
CreateJobFails(a) ==
  /\ pc[a] = "creating"
  /\ \E job \in {NoJob, PendingJob} : jobs' = [jobs EXCEPT ![a] = job]
  /\ answer' = [answer EXCEPT ![a] = NotStarted]
  /\ Goto(a, "answering")
  /\ UNCHANGED <<request, plans, accounts, snapshots, failure, caller>>

-----------------------------------------------------------------------------
(* executeSync *)

Validate(a) ==
  /\ pc[a] = "validating"
  /\ IF Refused(request[a])
     THEN Throw(a, "generic")
     ELSE Goto(a, "reading") /\ UNCHANGED failure
  /\ UNCHANGED <<request, plans, accounts, snapshots, jobs, answer, caller>>

\* A plausible bug: only the target of a two-way request is snapshotted.
ReadAccountsForTarget(a) ==
  /\ pc[a] = "reading"
  /\ \/ Throw(a, "generic")
     \/ /\ Goto(a, IF request[a].dryRun THEN "planning" ELSE "persist-target")
        /\ UNCHANGED failure
  /\ UNCHANGED <<request, plans, accounts, snapshots, jobs, answer, caller>>

(***************************************************************************)
(* Connect and export both sides and validate both archives.  Nothing is   *)
(* changed and every failure is the same generic error, so the steps are   *)
(* one.                                                                    *)
(***************************************************************************)
ReadAccounts(a) ==
  /\ pc[a] = "reading"
  /\ \/ Throw(a, "generic")
     \/ /\ Goto(a, IF request[a].dryRun THEN "planning"
                   ELSE IF request[a].mode = "two-way" THEN "persist-source"
                   ELSE "persist-target")
        /\ UNCHANGED failure
  /\ UNCHANGED <<request, plans, accounts, snapshots, jobs, answer, caller>>

PersistSnapshot(a, s) ==
  /\ saved' = [saved EXCEPT ![a] = @ \cup {s}]
  /\ artifacts' = [artifacts EXCEPT ![a] = @ \cup {s}]
  /\ UNCHANGED failure

\* The file may exist although the write threw: its identifier is lost.
PersistSnapshotFails(a, s) ==
  /\ Throw(a, "generic")
  /\ saved' \in {saved, [saved EXCEPT ![a] = @ \cup {s}]}
  /\ UNCHANGED artifacts

PersistSource(a) ==
  /\ pc[a] = "persist-source"
  /\ \/ PersistSnapshot(a, "source") /\ Goto(a, "persist-target")
     \/ PersistSnapshotFails(a, "source")
  /\ UNCHANGED <<request, plans, accounts, jobs, answer, caller>>

PersistTarget(a) ==
  /\ pc[a] = "persist-target"
  /\ \/ PersistSnapshot(a, "target") /\ Goto(a, "planning")
     \/ PersistSnapshotFails(a, "target")
  /\ UNCHANGED <<request, plans, accounts, jobs, answer, caller>>

(***************************************************************************)
(* Reconcile the two snapshots into batches.  An unused or malformed       *)
(* per-record resolution or identity override is a generic error here,     *)
(* after the snapshots were stored.                                        *)
(***************************************************************************)
Plan(a) ==
  /\ pc[a] = "planning"
  /\ \/ Throw(a, "generic") /\ UNCHANGED prepared
     \/ /\ \E batches \in SUBSET Writable(request[a]) :
             prepared' = [prepared EXCEPT ![a] = batches]
        /\ Goto(a, "preflight")
        /\ UNCHANGED failure
  /\ UNCHANGED <<request, preflighted, accounts, snapshots, jobs, answer, caller>>

Preflight(a) ==
  /\ pc[a] = "preflight"
  /\ \E i \in Slot :
       /\ First(prepared[a] \ preflighted[a], i)
       /\ \/ /\ preflighted' = [preflighted EXCEPT ![a] = @ \cup {i}]
             /\ UNCHANGED <<pc, failure>>
          \/ Throw(a, "preflight") /\ UNCHANGED preflighted
  /\ UNCHANGED <<request, prepared, accounts, snapshots, jobs, answer, caller>>

PreflightDone(a) ==
  /\ pc[a] = "preflight"
  /\ prepared[a] \subseteq preflighted[a]
  /\ Goto(a, IF request[a].dryRun THEN "completing" ELSE "writing")
  /\ UNCHANGED <<request, plans, accounts, snapshots, failure, jobs, answer, caller>>

\* A plausible bug: the write loop never advances past its first batch.
BeginWriteAgain(a) ==
  /\ pc[a] = "writing"
  /\ \E i \in Slot :
       /\ First(prepared[a], i)
       /\ begun' = [begun EXCEPT ![a] = @ \cup {i}]
  /\ Goto(a, "importing")
  /\ UNCHANGED <<request, plans, applied, snapshots, failure, jobs, answer, caller>>

BeginWrite(a) ==
  /\ pc[a] = "writing"
  /\ \E i \in Slot :
       /\ First(prepared[a] \ applied[a], i)
       /\ begun' = [begun EXCEPT ![a] = @ \cup {i}]
  /\ Goto(a, "importing")
  /\ UNCHANGED <<request, plans, applied, snapshots, failure, jobs, answer, caller>>

\* A plausible bug: a provider error during a write is not wrapped in a SyncExecutionError.
EndWriteUnwrapped(a) ==
  /\ pc[a] = "importing"
  /\ \/ applied' = [applied EXCEPT ![a] = begun[a]] /\ Goto(a, "writing") /\ UNCHANGED failure
     \/ Throw(a, "generic") /\ UNCHANGED applied
  /\ UNCHANGED <<request, plans, begun, snapshots, jobs, answer, caller>>

\* A plausible bug: the action is recorded as executed before its importer returns.
EndWriteRecordedFirst(a) ==
  /\ pc[a] = "importing"
  /\ applied' = [applied EXCEPT ![a] = begun[a]]
  /\ \/ Goto(a, "writing") /\ UNCHANGED failure
     \/ Throw(a, "write")
  /\ UNCHANGED <<request, plans, begun, snapshots, jobs, answer, caller>>

EndWrite(a) ==
  /\ pc[a] = "importing"
  /\ \/ applied' = [applied EXCEPT ![a] = begun[a]] /\ Goto(a, "writing") /\ UNCHANGED failure
     \/ Throw(a, "write") /\ UNCHANGED applied
  /\ UNCHANGED <<request, plans, begun, snapshots, jobs, answer, caller>>

WriteDone(a) ==
  /\ pc[a] = "writing"
  /\ prepared[a] \subseteq applied[a]
  /\ Goto(a, "completing")
  /\ UNCHANGED <<request, plans, accounts, snapshots, failure, jobs, answer, caller>>

-----------------------------------------------------------------------------
(* The handler: completeSyncJob, failSyncJob, the answer *)

\* A plausible bug: the error of updateSyncJob is swallowed.
FinalizeSilently(a, record, plain, warning) ==
  /\ \E landed \in BOOLEAN :
       jobs' = IF landed THEN [jobs EXCEPT ![a] = record] ELSE jobs
  /\ answer' = [answer EXCEPT ![a] = plain]
  /\ Goto(a, "answering")
  /\ UNCHANGED <<request, plans, accounts, snapshots, failure, caller>>

\* A plausible bug: after the verdict the handler goes on with the batches that are left.
FinalizeAndResume(a, record, plain, warning) ==
  /\ jobs' = [jobs EXCEPT ![a] = record]
  /\ answer' = [answer EXCEPT ![a] = plain]
  /\ Goto(a, IF failure[a] = "write" THEN "writing" ELSE "answering")
  /\ UNCHANGED <<request, plans, accounts, snapshots, failure, caller>>

(***************************************************************************)
(* updateSyncJob either returns, or throws before or after the record      *)
(* reached the disk; a record that is not pending any more stays as it is. *)
(***************************************************************************)
Finalize(a, record, plain, warning) ==
  /\ \E landed, threw \in BOOLEAN :
       /\ landed \/ threw
       /\ jobs' = IF landed /\ jobs[a].status = "pending" THEN [jobs EXCEPT ![a] = record]
                  ELSE jobs
       /\ answer' = [answer EXCEPT ![a] = IF threw THEN warning ELSE plain]
  /\ Goto(a, "answering")
  /\ UNCHANGED <<request, plans, accounts, snapshots, failure, caller>>

CompleteJob(a) ==
  /\ pc[a] = "completing"
  /\ Finalize(a, SucceededJob(applied[a], artifacts[a]),
       CompletionAnswer(request[a].dryRun, FALSE, applied[a], artifacts[a]),
       CompletionAnswer(request[a].dryRun, TRUE, applied[a], artifacts[a]))

FailJob(a) ==
  /\ pc[a] = "failing"
  /\ Finalize(a, FailedJob(failure[a], applied[a], artifacts[a]),
       FailureAnswer(failure[a], FALSE, applied[a], artifacts[a]),
       FailureAnswer(failure[a], TRUE, applied[a], artifacts[a]))

Respond(a) ==
  /\ pc[a] = "answering"
  /\ caller' = [caller EXCEPT ![a] = IF @ = "waiting" THEN "answered" ELSE @]
  /\ Goto(a, "done")
  /\ UNCHANGED <<request, plans, accounts, snapshots, failure, jobs, answer>>

(***************************************************************************)
(* The process stops: every handler is gone, its answer is never sent, the *)
(* files stay.  A new process serves the attempts that follow.             *)
(***************************************************************************)
Active(a) == pc[a] \notin {"idle", "done", "crashed"}

Crash ==
  /\ \E a \in Attempt : Active(a)
  /\ pc' = [a \in Attempt |-> IF Active(a) THEN "crashed" ELSE pc[a]]
  /\ caller' = [a \in Attempt |-> IF Active(a) /\ caller[a] = "waiting" THEN "lost" ELSE caller[a]]
  /\ UNCHANGED <<request, plans, accounts, snapshots, failure, jobs, answer>>

Handle(a) ==
  \/ CreateJob(a) \/ CreateJobFails(a)
  \/ Validate(a) \/ ReadAccounts(a) \/ PersistSource(a) \/ PersistTarget(a)
  \/ Plan(a) \/ Preflight(a) \/ PreflightDone(a)
  \/ BeginWrite(a) \/ EndWrite(a) \/ WriteDone(a)
  \/ CompleteJob(a) \/ FailJob(a) \/ Respond(a)

Next ==
  \/ \E a \in Attempt : Submit(a) \/ LoseConnection(a) \/ Handle(a)
  \/ Crash

Spec == Init /\ [][Next]_vars

\* The event loop runs a handler that can go on, and every provider call is bounded by a timeout.
FairSpec == Spec /\ \A a \in Attempt : WF_vars(Handle(a))

-----------------------------------------------------------------------------
(* Properties *)

TypeOK ==
  /\ pc \in [Attempt -> PC]
  /\ request \in [Attempt -> Request]
  /\ prepared \in [Attempt -> SUBSET Slot]
  /\ preflighted \in [Attempt -> SUBSET Slot]
  /\ begun \in [Attempt -> SUBSET Slot]
  /\ applied \in [Attempt -> SUBSET Slot]
  /\ saved \in [Attempt -> SUBSET Side]
  /\ artifacts \in [Attempt -> SUBSET Side]
  /\ failure \in [Attempt -> Failure]
  /\ jobs \in [Attempt -> SyncJobRecord]
  /\ answer \in [Attempt -> Answers]
  /\ caller \in [Attempt -> Caller]

(***************************************************************************)
(* No account is written before the request was confirmed, its audit record*)
(* stored, the snapshot of every account it will write kept under a known  *)
(* identifier, and every batch of the plan accepted by its importer's dry  *)
(* run (the header comment of executeSync; docs/SYNC_EXECUTION.md 51-56).  *)
(***************************************************************************)
WritesAreProtected ==
  \A a \in Attempt : begun[a] # {} =>
    /\ request[a].confirmWrite /\ ~request[a].dryRun
    /\ jobs[a].status # "absent"
    /\ {Destination(i) : i \in prepared[a]} \subseteq saved[a] \cap artifacts[a]
    /\ begun[a] \subseteq prepared[a]
    /\ prepared[a] \subseteq preflighted[a]

(***************************************************************************)
(* The answer's retrySafe, the "did not start" answer and a stored failure *)
(* whose writeMayBePartial is false are never given for an attempt that    *)
(* called an importer to write (failSyncJob's comment: generic failures    *)
(* occur before the executor's first remote write).                        *)
(***************************************************************************)
AdviceIsSound ==
  \A a \in Attempt : SaysUntouched(a) => begun[a] = {}

(***************************************************************************)
(* A caller that submits again only after a preview or after a report of an*)
(* untouched account, through lost answers and crashes, has its accounts   *)
(* written by one attempt at most.                                         *)
(***************************************************************************)
OneAttemptWrites ==
  \A a, b \in Attempt : begun[a] # {} /\ begun[b] # {} => a = b

(***************************************************************************)
(* A terminal record tells what happened: its executed batches are the ones*)
(* applied, a success applied the whole plan, and a failure that began a   *)
(* batch is marked partial, misses at most that batch and names a snapshot *)
(* of every account it wrote.                                              *)
(***************************************************************************)
RecordsTellTheTruth ==
  \A a \in Attempt : Terminal(jobs[a]) =>
    /\ jobs[a].executed = applied[a]
    /\ jobs[a].status = "succeeded" /\ ~request[a].dryRun => applied[a] = prepared[a]
    /\ jobs[a].status = "failed" /\ begun[a] # {} =>
         /\ jobs[a].partial
         /\ Cardinality(begun[a] \ applied[a]) = 1
         /\ {Destination(i) : i \in begun[a]} \subseteq jobs[a].artifacts

(***************************************************************************)
(* A finished handler either left the durable record that its answer       *)
(* describes or said in the answer that it may not have (auditWarning,     *)
(* docs/SYNC_EXECUTION.md 121).                                            *)
(***************************************************************************)
NoSilentLoss ==
  \A a \in Attempt : pc[a] \in {"answering", "done"} /\ ~answer[a].warning =>
    CASE answer[a].kind = "ok"    -> jobs[a] = SucceededJob(answer[a].executed, answer[a].artifacts)
      [] answer[a].kind = "error" -> /\ jobs[a].status = "failed"
                                     /\ jobs[a].executed = answer[a].executed
                                     /\ jobs[a].artifacts = answer[a].artifacts
                                     /\ answer[a].retrySafe = ~jobs[a].partial
      [] OTHER                    -> answer[a] = NotStarted

(***************************************************************************)
(* A verdict is final: once an attempt has a terminal record or an answer, *)
(* it writes no account and its record does not change.                    *)
(***************************************************************************)
VerdictIsFinal ==
  [][\A a \in Attempt : Terminal(jobs[a]) \/ answer[a].kind # "none" =>
       /\ begun'[a] = begun[a] /\ applied'[a] = applied[a]
       /\ jobs'[a] = jobs[a]]_vars

\* No caller waits for ever: every request is answered or its connection is gone.
EveryCallerLearns ==
  \A a \in Attempt : caller[a] = "waiting" ~> caller[a] \in {"answered", "lost"}

(***************************************************************************)
(* The executor implements ConfirmedWrite: a snapshot is kept when its file*)
(* is in the backup directory, an account is dirty from the call of an     *)
(* importer that writes to it.                                             *)
(***************************************************************************)
CW == INSTANCE ConfirmedWrite WITH
        Account <- Side,
        kept <- saved,
        dirty <- [a \in Attempt |-> {Destination(i) : i \in begun[a]}],
        promised <- {a \in Attempt : SaysUntouched(a)}

ImplementsConfirmedWrite == CW!Spec

-----------------------------------------------------------------------------
(* The inductive invariant behind the safety properties *)

Executing(a) ==
  pc[a] \in {"validating", "reading", "persist-source", "persist-target", "planning",
             "preflight", "writing", "importing", "completing", "failing"}

BeforeWriting(a) ==
  pc[a] \in {"idle", "creating", "validating", "reading", "persist-source",
             "persist-target", "planning", "preflight"}

\* Every account that request a may write has a snapshot.
Covered(a) ==
  /\ "target" \in saved[a] \cap artifacts[a]
  /\ request[a].mode = "two-way" => "source" \in saved[a] \cap artifacts[a]

ClearedToWrite(a) ==
  /\ request[a].confirmWrite /\ ~request[a].dryRun
  /\ Covered(a)
  /\ prepared[a] \subseteq preflighted[a]

\* One batch was begun and not applied.
OneInDoubt(a) == \E i \in begun[a] : i \notin applied[a] /\ begun[a] = applied[a] \cup {i}

JobPhase(a) ==
  /\ pc[a] = "idle" <=> caller[a] = "idle"
  /\ pc[a] \in {"idle", "creating"} => jobs[a] = NoJob /\ answer[a] = NoAnswer
  /\ Executing(a) => jobs[a] = PendingJob /\ answer[a] = NoAnswer
  /\ pc[a] \in {"answering", "done"} => answer[a].kind # "none"

SnapshotPhase(a) ==
  /\ pc[a] \in {"persist-source", "persist-target"} =>
       request[a].confirmWrite /\ ~request[a].dryRun
  /\ pc[a] = "persist-target" /\ request[a].mode = "two-way" =>
       "source" \in saved[a] \cap artifacts[a]
  /\ pc[a] \in {"reading", "planning", "preflight"} =>
       request[a].dryRun \/ request[a].confirmWrite
  /\ pc[a] \in {"planning", "preflight"} /\ ~request[a].dryRun => Covered(a)

WritePhase(a) ==
  /\ BeforeWriting(a) => begun[a] = {} /\ applied[a] = {}
  /\ BeforeWriting(a) /\ pc[a] # "preflight" => prepared[a] = {}
  /\ prepared[a] \subseteq Writable(request[a])
  /\ applied[a] \subseteq begun[a] /\ begun[a] \subseteq prepared[a]
  /\ pc[a] \in {"writing", "importing"} => ClearedToWrite(a)
  /\ begun[a] # {} => ClearedToWrite(a) /\ jobs[a].status # "absent"
  /\ pc[a] = "writing" => begun[a] = applied[a]
  /\ pc[a] = "importing" => OneInDoubt(a)
  /\ pc[a] = "completing" =>
       begun[a] = applied[a] /\ (~request[a].dryRun => applied[a] = prepared[a])
  /\ pc[a] = "failing" =>
       \/ failure[a] \in {"generic", "preflight"} /\ begun[a] = {}
       \/ failure[a] = "write" /\ OneInDoubt(a)

\* What a terminal record and an answer say about the batches.
VerdictPhase(a) ==
  /\ SaysUntouched(a) => begun[a] = {}
  /\ jobs[a].status = "succeeded" =>
       jobs[a].executed = applied[a] /\ (~request[a].dryRun => applied[a] = prepared[a])
  /\ jobs[a].status = "failed" =>
       /\ jobs[a].executed = applied[a]
       /\ begun[a] # {} => /\ jobs[a].partial
                           /\ OneInDoubt(a)
                           /\ jobs[a].artifacts = artifacts[a]

\* The caller only went past attempts that cannot write any more.
Settled(a) == SaysUntouched(a) \/ (caller[a] # "idle" /\ request[a].dryRun)

EarlierSettled ==
  \A a, b \in Attempt : a < b /\ caller[b] # "idle" => Settled(a)

SafetyInvariant ==
  /\ \A a \in Attempt :
       JobPhase(a) /\ SnapshotPhase(a) /\ WritePhase(a) /\ VerdictPhase(a)
  /\ EarlierSettled

=============================================================================
