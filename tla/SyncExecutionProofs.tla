------------------------ MODULE SyncExecutionProofs ------------------------
(***************************************************************************)
(* Proofs about SyncExecution for any number of attempts, any features and *)
(* any importers.                                                          *)
(***************************************************************************)
EXTENDS SyncExecution, FiniteSetTheorems, TLAPS

-----------------------------------------------------------------------------
(* Type correctness *)

LEMMA RecordTypes ==
  /\ NoJob \in SyncJobRecord
  /\ PendingJob \in SyncJobRecord
  /\ NoAnswer \in Answers
  /\ NotStarted \in Answers
  /\ \A f \in Failure, e \in SUBSET Slot, s \in SUBSET Side :
       /\ SucceededJob(e, s) \in SyncJobRecord
       /\ FailedJob(f, e, s) \in SyncJobRecord
       /\ \A d, w \in BOOLEAN : CompletionAnswer(d, w, e, s) \in Answers
       /\ \A w \in BOOLEAN : FailureAnswer(f, w, e, s) \in Answers
<1> USE DEF SyncJobRecord, JobStatus, Answers
<1>1. NoJob \in SyncJobRecord /\ PendingJob \in SyncJobRecord
  BY DEF NoJob, PendingJob
<1>2. NoAnswer \in Answers /\ NotStarted \in Answers
  BY DEF NoAnswer, NotStarted
<1>3. ASSUME NEW f \in Failure, NEW e \in SUBSET Slot, NEW s \in SUBSET Side
      PROVE  /\ SucceededJob(e, s) \in SyncJobRecord
             /\ FailedJob(f, e, s) \in SyncJobRecord
             /\ \A d, w \in BOOLEAN : CompletionAnswer(d, w, e, s) \in Answers
             /\ \A w \in BOOLEAN : FailureAnswer(f, w, e, s) \in Answers
  <2>1. WriteMayBePartial(f) \in BOOLEAN
    BY DEF WriteMayBePartial
  <2>2. (IF Structured(f) THEN e ELSE {}) \in SUBSET Slot
    OBVIOUS
  <2>3. (IF Structured(f) THEN s ELSE {}) \in SUBSET Side
    OBVIOUS
  <2>4. SucceededJob(e, s) \in SyncJobRecord
    BY DEF SucceededJob
  <2>5. FailedJob(f, e, s) \in SyncJobRecord
    BY <2>1, <2>2, <2>3 DEF FailedJob
  <2>6. ASSUME NEW d \in BOOLEAN, NEW w \in BOOLEAN
        PROVE  CompletionAnswer(d, w, e, s) \in Answers
    BY DEF CompletionAnswer
  <2>7. ASSUME NEW w \in BOOLEAN
        PROVE  FailureAnswer(f, w, e, s) \in Answers
    BY <2>1, <2>2, <2>3 DEF FailureAnswer
  <2>8. QED
    BY <2>4, <2>5, <2>6, <2>7
<1>4. QED
  BY <1>1, <1>2, <1>3

LEMMA FinalizeTypes ==
  ASSUME TypeOK, NEW a \in Attempt, NEW record \in SyncJobRecord,
         NEW plain \in Answers, NEW warning \in Answers,
         Finalize(a, record, plain, warning)
  PROVE  TypeOK'
  BY DEF TypeOK, Finalize, Goto, PC, plans, accounts, snapshots

LEMMA TypeStep ==
  ASSUME TypeOK, [Next]_vars
  PROVE  TypeOK'
<1> USE DEF TypeOK, PC, Failure, Caller, Goto, Throw, plans, accounts, snapshots
<1>1. CASE UNCHANGED vars
  BY <1>1 DEF vars
<1>2. ASSUME NEW a \in Attempt, Submit(a)
      PROVE  TypeOK'
  BY <1>2, RequestsAssumption DEF Submit
<1>3. ASSUME NEW a \in Attempt, LoseConnection(a)
      PROVE  TypeOK'
  BY <1>3 DEF LoseConnection
<1>4. ASSUME NEW a \in Attempt, CreateJob(a) \/ CreateJobFails(a)
      PROVE  TypeOK'
  BY <1>4, RecordTypes DEF CreateJob, CreateJobFails
<1>5. ASSUME NEW a \in Attempt, Validate(a) \/ ReadAccounts(a)
      PROVE  TypeOK'
  BY <1>5 DEF Validate, ReadAccounts
<1>6. ASSUME NEW a \in Attempt, PersistSource(a) \/ PersistTarget(a)
      PROVE  TypeOK'
  BY <1>6 DEF PersistSource, PersistTarget, PersistSnapshot, PersistSnapshotFails, Side
<1>7. ASSUME NEW a \in Attempt, Plan(a)
      PROVE  TypeOK'
  BY <1>7 DEF Plan, Writable
<1>8. ASSUME NEW a \in Attempt, Preflight(a) \/ PreflightDone(a)
      PROVE  TypeOK'
  BY <1>8 DEF Preflight, PreflightDone
<1>9. ASSUME NEW a \in Attempt, BeginWrite(a) \/ EndWrite(a) \/ WriteDone(a)
      PROVE  TypeOK'
  BY <1>9 DEF BeginWrite, EndWrite, WriteDone
<1>10. ASSUME NEW a \in Attempt, CompleteJob(a) \/ FailJob(a)
       PROVE  TypeOK'
  <2>1. CASE CompleteJob(a)
    BY <2>1, RecordTypes, FinalizeTypes DEF CompleteJob, Request
  <2>2. CASE FailJob(a)
    BY <2>2, RecordTypes, FinalizeTypes DEF FailJob
  <2>3. QED
    BY <1>10, <2>1, <2>2
<1>11. ASSUME NEW a \in Attempt, Respond(a)
       PROVE  TypeOK'
  BY <1>11 DEF Respond
<1>12. CASE Crash
  BY <1>12 DEF Crash
<1>13. QED
  BY <1>1, <1>2, <1>3, <1>4, <1>5, <1>6, <1>7, <1>8, <1>9, <1>10, <1>11, <1>12 DEF Next, Handle

(***************************************************************************)
(* Type correctness of every behaviour.                                    *)
(***************************************************************************)
THEOREM TypeCorrect == Spec => []TypeOK
<1>1. Init => TypeOK
  BY RecordTypes DEF Init, TypeOK, PC, Idle, Request, Mode, Failure, Caller
<1>2. QED
  BY <1>1, TypeStep, PTL DEF Spec

-----------------------------------------------------------------------------
(* The inductive invariant *)

PerAttempt(a) == JobPhase(a) /\ SnapshotPhase(a) /\ WritePhase(a) /\ VerdictPhase(a)

Unmoved(a) ==
  /\ pc'[a] = pc[a] /\ request'[a] = request[a] /\ prepared'[a] = prepared[a]
  /\ preflighted'[a] = preflighted[a] /\ begun'[a] = begun[a] /\ applied'[a] = applied[a]
  /\ saved'[a] = saved[a] /\ artifacts'[a] = artifacts[a] /\ failure'[a] = failure[a]
  /\ jobs'[a] = jobs[a] /\ answer'[a] = answer[a] /\ caller'[a] = caller[a]

\* What the invariant says of an attempt does not depend on the other attempts.
LEMMA UnmovedKeeps ==
  ASSUME NEW a \in Attempt, PerAttempt(a), Unmoved(a)
  PROVE  PerAttempt(a)'
<1> USE DEF Unmoved
<1>1. JobPhase(a)'
  BY DEF PerAttempt, JobPhase, Executing
<1>2. SnapshotPhase(a)'
  BY DEF PerAttempt, SnapshotPhase, Covered
<1>3. WritePhase(a)'
  BY DEF PerAttempt, WritePhase, BeforeWriting, ClearedToWrite, Covered, OneInDoubt, Writable
<1>4. VerdictPhase(a)'
  BY DEF PerAttempt, VerdictPhase, SaysUntouched, OneInDoubt
<1>5. QED
  BY <1>1, <1>2, <1>3, <1>4 DEF PerAttempt

\* A step of one attempt moves no other.
LEMMA OthersUnmoved ==
  ASSUME TypeOK, NEW a \in Attempt, NEW b \in Attempt, b # a,
         Submit(a) \/ LoseConnection(a) \/ Handle(a)
  PROVE  Unmoved(b)
<1> USE DEF TypeOK, Unmoved, Goto, Throw, plans, accounts, snapshots
<1>1. CASE Submit(a) \/ LoseConnection(a)
  BY <1>1 DEF Submit, LoseConnection
<1>2. CASE CreateJob(a) \/ CreateJobFails(a) \/ Validate(a) \/ ReadAccounts(a)
  BY <1>2 DEF CreateJob, CreateJobFails, Validate, ReadAccounts
<1>3. CASE PersistSource(a) \/ PersistTarget(a)
  BY <1>3 DEF PersistSource, PersistTarget, PersistSnapshot, PersistSnapshotFails
<1>4. CASE Plan(a) \/ Preflight(a) \/ PreflightDone(a)
  BY <1>4 DEF Plan, Preflight, PreflightDone
<1>5. CASE BeginWrite(a) \/ EndWrite(a) \/ WriteDone(a)
  BY <1>5 DEF BeginWrite, EndWrite, WriteDone
<1>6. CASE CompleteJob(a) \/ FailJob(a) \/ Respond(a)
  BY <1>6 DEF CompleteJob, FailJob, Finalize, Respond
<1>7. QED
  BY <1>1, <1>2, <1>3, <1>4, <1>5, <1>6 DEF Handle

\* Before the verdict neither the answer nor the record says anything.
LEMMA SilentWhileRunning ==
  ASSUME NEW a \in Attempt, JobPhase(a), pc[a] \in {"idle", "creating"} \/ Executing(a)
  PROVE  ~SaysUntouched(a)
  BY DEF JobPhase, SaysUntouched, AnswerSaysUntouched, JobSaysUntouched, NoJob, PendingJob, NoAnswer

LEMMA CallerSteps ==
  ASSUME TypeOK, NEW a \in Attempt, PerAttempt(a), Submit(a) \/ LoseConnection(a)
  PROVE  PerAttempt(a)'
<1> USE DEF TypeOK, PerAttempt, Goto, plans, accounts, snapshots
<1>1. CASE Submit(a)
  <2>1. /\ pc[a] = "idle" /\ pc'[a] = "creating" /\ caller'[a] = "waiting"
        /\ jobs[a] = NoJob /\ answer[a] = NoAnswer /\ begun[a] = {} /\ applied[a] = {}
        /\ prepared[a] = {}
    BY <1>1 DEF Submit, JobPhase, WritePhase, BeforeWriting
  <2>2. JobPhase(a)'
    BY <1>1, <2>1 DEF Submit, JobPhase, Executing
  <2>3. SnapshotPhase(a)'
    BY <1>1, <2>1 DEF Submit, SnapshotPhase
  <2>4. WritePhase(a)'
    BY <1>1, <2>1 DEF Submit, WritePhase, BeforeWriting
  <2>5. VerdictPhase(a)'
    BY <1>1, <2>1 DEF Submit, VerdictPhase, NoJob
  <2>6. QED
    BY <2>2, <2>3, <2>4, <2>5
<1>2. CASE LoseConnection(a)
  <2>1. JobPhase(a)'
    BY <1>2 DEF LoseConnection, JobPhase, Executing
  <2>2. SnapshotPhase(a)' /\ VerdictPhase(a)'
    BY <1>2 DEF LoseConnection, SnapshotPhase, VerdictPhase, Covered, OneInDoubt, SaysUntouched
  <2>3. WritePhase(a)'
    BY <1>2 DEF LoseConnection, WritePhase, BeforeWriting, ClearedToWrite, Covered, OneInDoubt, Writable
  <2>4. QED
    BY <2>1, <2>2, <2>3
<1>3. QED
  BY <1>1, <1>2

\* The steps up to the plan write no account and give no verdict.
LEMMA PreparingSteps ==
  ASSUME TypeOK, NEW a \in Attempt, PerAttempt(a),
         CreateJob(a) \/ Validate(a) \/ ReadAccounts(a) \/ PersistSource(a) \/ PersistTarget(a)
           \/ Plan(a) \/ Preflight(a)
  PROVE  PerAttempt(a)'
<1> USE DEF TypeOK, PerAttempt, Goto, Throw, plans, accounts, snapshots
<1> DEFINE Quiet == /\ begun'[a] = {} /\ applied'[a] = {}
                    /\ begun[a] = {} /\ applied[a] = {}
                    /\ request'[a] = request[a] /\ caller'[a] = caller[a]
                    /\ answer'[a] = answer[a] /\ answer[a] = NoAnswer
<1>1. /\ Quiet
      /\ jobs'[a] = PendingJob
      /\ pc[a] # "idle" /\ caller[a] # "idle"
      /\ Executing(a)' /\ pc'[a] # "idle"
  <2> USE DEF JobPhase, WritePhase, BeforeWriting, Executing
  <2>1. CASE CreateJob(a)
    BY <2>1 DEF CreateJob
  <2>2. CASE Validate(a) \/ ReadAccounts(a)
    BY <2>2 DEF Validate, ReadAccounts
  <2>3. CASE PersistSource(a) \/ PersistTarget(a)
    BY <2>3 DEF PersistSource, PersistTarget, PersistSnapshot, PersistSnapshotFails
  <2>4. CASE Plan(a) \/ Preflight(a)
    BY <2>4 DEF Plan, Preflight
  <2>5. QED
    BY <2>1, <2>2, <2>3, <2>4
<1>2. JobPhase(a)'
  BY <1>1 DEF JobPhase, Executing
<1>3. SnapshotPhase(a)'
  <2> USE DEF SnapshotPhase, Covered
  <2>1. CASE CreateJob(a)
    BY <2>1 DEF CreateJob
  <2>2. CASE Validate(a) \/ ReadAccounts(a)
    BY <2>2, <1>1 DEF Validate, ReadAccounts, Refused, Request
  <2>3. CASE PersistSource(a) \/ PersistTarget(a)
    BY <2>3, <1>1 DEF PersistSource, PersistTarget, PersistSnapshot, PersistSnapshotFails
  <2>4. CASE Plan(a) \/ Preflight(a)
    BY <2>4, <1>1 DEF Plan, Preflight
  <2>5. QED
    BY <2>1, <2>2, <2>3, <2>4
<1>4. WritePhase(a)'
  <2>1. prepared'[a] \subseteq Writable(request[a])
    BY DEF CreateJob, Validate, ReadAccounts, PersistSource, PersistTarget, PersistSnapshot,
           PersistSnapshotFails, Plan, Preflight, WritePhase
  <2>2. BeforeWriting(a)' /\ pc'[a] # "preflight" => prepared'[a] = {}
    BY DEF CreateJob, Validate, ReadAccounts, PersistSource, PersistTarget, PersistSnapshot,
           PersistSnapshotFails, Plan, Preflight, WritePhase, BeforeWriting
  <2>3. /\ pc'[a] \notin {"writing", "importing", "completing"}
        /\ pc'[a] = "failing" => failure'[a] \in {"generic", "preflight"}
    BY DEF CreateJob, Validate, ReadAccounts, PersistSource, PersistTarget, PersistSnapshot,
           PersistSnapshotFails, Plan, Preflight
  <2>4. QED
    BY <1>1, <2>1, <2>2, <2>3 DEF WritePhase, Writable
<1>5. VerdictPhase(a)'
  BY <1>1 DEF VerdictPhase, PendingJob, NoJob
<1>6. QED
  BY <1>2, <1>3, <1>4, <1>5

\* The steps of the write loop.
LEMMA WritingSteps ==
  ASSUME TypeOK, NEW a \in Attempt, PerAttempt(a),
         PreflightDone(a) \/ BeginWrite(a) \/ EndWrite(a) \/ WriteDone(a)
  PROVE  PerAttempt(a)'
<1> USE DEF TypeOK, PerAttempt, Goto, Throw, plans, accounts, snapshots
<1>1. /\ Executing(a) /\ Executing(a)'
      /\ jobs[a] = PendingJob /\ jobs'[a] = PendingJob
      /\ answer[a] = NoAnswer /\ answer'[a] = NoAnswer
      /\ request'[a] = request[a] /\ caller'[a] = caller[a] /\ prepared'[a] = prepared[a]
      /\ saved'[a] = saved[a] /\ artifacts'[a] = artifacts[a] /\ preflighted'[a] = preflighted[a]
  BY DEF PreflightDone, BeginWrite, EndWrite, WriteDone, JobPhase, Executing
<1>2. JobPhase(a)'
  BY <1>1 DEF JobPhase, Executing
<1>3. SnapshotPhase(a)'
  BY <1>1 DEF PreflightDone, BeginWrite, EndWrite, WriteDone, SnapshotPhase
<1>4. ~SaysUntouched(a)'
  BY <1>1 DEF SaysUntouched, AnswerSaysUntouched, JobSaysUntouched, PendingJob, NoJob, NoAnswer
<1>5. VerdictPhase(a)'
  BY <1>1, <1>4 DEF VerdictPhase, PendingJob, NoJob
<1>6. /\ applied[a] \subseteq begun[a] /\ begun[a] \subseteq prepared[a]
      /\ prepared[a] \subseteq Writable(request[a])
  BY DEF WritePhase
<1>7. Writable(request[a])' = Writable(request[a])
  BY <1>1 DEF Writable
<1>8. ClearedToWrite(a) => ClearedToWrite(a)'
  BY <1>1 DEF ClearedToWrite, Covered
<1>9. CASE PreflightDone(a)
  <2>1. begun[a] = {} /\ applied[a] = {} /\ begun'[a] = {} /\ applied'[a] = {}
    BY <1>9 DEF PreflightDone, WritePhase, BeforeWriting
  <2>2. ~request[a].dryRun => ClearedToWrite(a)'
    BY <1>9, <1>1 DEF PreflightDone, SnapshotPhase, ClearedToWrite, Covered, Request
  <2>3. pc'[a] = IF request[a].dryRun THEN "completing" ELSE "writing"
    BY <1>9 DEF PreflightDone
  <2>4. WritePhase(a)'
    BY <2>1, <2>2, <2>3, <1>1, <1>6, <1>7 DEF WritePhase, BeforeWriting, Request
  <2>5. QED
    BY <2>4, <1>2, <1>3, <1>5
<1>10. CASE BeginWrite(a)
  <2>1. PICK i \in Slot : i \in prepared[a] \ applied[a] /\ begun'[a] = begun[a] \cup {i}
    BY <1>10 DEF BeginWrite, First
  <2>2. pc[a] = "writing" /\ pc'[a] = "importing" /\ applied'[a] = applied[a] /\ begun[a] = applied[a]
    BY <1>10 DEF BeginWrite, WritePhase
  <2>3. OneInDoubt(a)'
    BY <2>1, <2>2 DEF OneInDoubt
  <2>4. ClearedToWrite(a)'
    BY <2>2, <1>8 DEF WritePhase
  <2>5. WritePhase(a)'
    BY <2>1, <2>2, <2>3, <2>4, <1>1, <1>6, <1>7 DEF WritePhase, BeforeWriting, PendingJob, NoJob
  <2>6. QED
    BY <2>5, <1>2, <1>3, <1>5
<1>11. CASE EndWrite(a)
  <2>1. pc[a] = "importing" /\ begun'[a] = begun[a] /\ OneInDoubt(a) /\ ClearedToWrite(a)'
    BY <1>11, <1>8 DEF EndWrite, WritePhase
  <2>2. \/ applied'[a] = begun[a] /\ pc'[a] = "writing"
        \/ applied'[a] = applied[a] /\ pc'[a] = "failing" /\ failure'[a] = "write"
    BY <1>11 DEF EndWrite
  <2>3. pc'[a] = "failing" => OneInDoubt(a)'
    BY <2>1, <2>2 DEF OneInDoubt
  <2>4. WritePhase(a)'
    BY <2>1, <2>2, <2>3, <1>1, <1>6, <1>7 DEF WritePhase, BeforeWriting, PendingJob, NoJob
  <2>5. QED
    BY <2>4, <1>2, <1>3, <1>5
<1>12. CASE WriteDone(a)
  <2>1. /\ pc[a] = "writing" /\ pc'[a] = "completing" /\ begun'[a] = begun[a]
        /\ applied'[a] = applied[a] /\ begun[a] = applied[a] /\ prepared[a] \subseteq applied[a]
        /\ ClearedToWrite(a)'
    BY <1>12, <1>8 DEF WriteDone, WritePhase
  <2>2. applied[a] = prepared[a]
    <3>1. applied[a] \subseteq prepared[a] /\ prepared[a] \subseteq applied[a]
      BY <2>1, <1>6
    <3>2. QED
      BY <3>1
  <2>3. WritePhase(a)'
    BY <2>1, <2>2, <1>1, <1>6, <1>7 DEF WritePhase, BeforeWriting, PendingJob, NoJob
  <2>4. QED
    BY <2>3, <1>2, <1>3, <1>5
<1>13. QED
  BY <1>9, <1>10, <1>11, <1>12

LEMMA WriteFailureFields ==
  ASSUME NEW e, NEW s
  PROVE  /\ FailedJob("write", e, s).partial
         /\ FailedJob("write", e, s).executed = e
         /\ FailedJob("write", e, s).artifacts = s
         /\ \A w \in BOOLEAN : ~FailureAnswer("write", w, e, s).retrySafe
<1>1. FailedJob("write", e, s).partial
  BY DEF FailedJob, WriteMayBePartial
<1>2. FailedJob("write", e, s).executed = e /\ FailedJob("write", e, s).artifacts = s
  BY DEF FailedJob, Structured
<1>3. ASSUME NEW w \in BOOLEAN
      PROVE  ~FailureAnswer("write", w, e, s).retrySafe
  BY DEF FailureAnswer, WriteMayBePartial
<1>4. QED
  BY <1>1, <1>2, <1>3

\* The steps that give the verdict: the record, the answer, or the end of the process.
LEMMA VerdictSteps ==
  ASSUME TypeOK, NEW a \in Attempt, PerAttempt(a),
         CreateJobFails(a) \/ CompleteJob(a) \/ FailJob(a) \/ Respond(a)
  PROVE  PerAttempt(a)'
<1> USE DEF TypeOK, PerAttempt, Goto, plans, accounts, snapshots
<1>1. /\ request'[a] = request[a] /\ prepared'[a] = prepared[a] /\ preflighted'[a] = preflighted[a]
      /\ begun'[a] = begun[a] /\ applied'[a] = applied[a] /\ saved'[a] = saved[a]
      /\ artifacts'[a] = artifacts[a] /\ failure'[a] = failure[a]
      /\ pc'[a] \in {"answering", "done"}
      /\ ~Executing(a)' /\ ~BeforeWriting(a)'
  BY DEF CreateJobFails, CompleteJob, FailJob, Finalize, Respond, Executing, BeforeWriting
<1>2. SnapshotPhase(a)'
  BY <1>1 DEF SnapshotPhase
<1>3. jobs[a].status # "absent" => jobs'[a].status # "absent"
  <2>1. /\ SucceededJob(applied[a], artifacts[a]).status # "absent"
        /\ FailedJob(failure[a], applied[a], artifacts[a]).status # "absent"
    BY DEF SucceededJob, FailedJob
  <2>2. CreateJobFails(a) => jobs[a] = NoJob
    BY DEF CreateJobFails, JobPhase
  <2>3. CompleteJob(a) => jobs'[a] \in {jobs[a], SucceededJob(applied[a], artifacts[a])}
    BY DEF CompleteJob, Finalize
  <2>4. FailJob(a) => jobs'[a] \in {jobs[a], FailedJob(failure[a], applied[a], artifacts[a])}
    BY DEF FailJob, Finalize
  <2>5. Respond(a) => jobs'[a] = jobs[a]
    BY DEF Respond
  <2>6. NoJob.status = "absent"
    BY DEF NoJob
  <2>7. QED
    BY <2>1, <2>2, <2>3, <2>4, <2>5, <2>6
<1>4. WritePhase(a)'
  BY <1>1, <1>3 DEF WritePhase, ClearedToWrite, Covered, Writable
<1>5. CASE CreateJobFails(a)
  <2>1. /\ begun'[a] = {} /\ caller'[a] = caller[a] /\ answer'[a] = NotStarted
        /\ jobs'[a] \in {NoJob, PendingJob} /\ caller[a] # "idle"
    BY <1>5, <1>1 DEF CreateJobFails, WritePhase, BeforeWriting, JobPhase
  <2>2. JobPhase(a)'
    BY <2>1, <1>1 DEF JobPhase, NotStarted, NoAnswer
  <2>3. VerdictPhase(a)'
    BY <2>1, <1>1 DEF VerdictPhase, NoJob, PendingJob
  <2>4. QED
    BY <2>2, <2>3, <1>2, <1>4
<1>6. CASE CompleteJob(a)
  <2>1. /\ jobs'[a] \in {jobs[a], SucceededJob(applied[a], artifacts[a])}
        /\ \E w \in BOOLEAN :
             answer'[a] = CompletionAnswer(request[a].dryRun, w, applied[a], artifacts[a])
        /\ caller'[a] = caller[a] /\ caller[a] # "idle" /\ jobs[a] = PendingJob
    BY <1>6 DEF CompleteJob, Finalize, JobPhase, Executing
  <2>2. answer'[a].kind = "ok"
    BY <2>1 DEF CompletionAnswer
  <2>3. JobPhase(a)'
    BY <2>1, <2>2, <1>1 DEF JobPhase
  <2>4. ~request[a].dryRun => applied[a] = prepared[a]
    BY <1>6 DEF CompleteJob, WritePhase
  <2>5. /\ jobs'[a].status \in {"pending", "succeeded"}
        /\ jobs'[a].status = "succeeded" => jobs'[a].executed = applied[a]
    BY <2>1 DEF PendingJob, NoJob, SucceededJob
  <2>6. ~SaysUntouched(a)'
    BY <2>2, <2>5 DEF SaysUntouched, AnswerSaysUntouched, JobSaysUntouched
  <2>7. VerdictPhase(a)'
    BY <2>4, <2>5, <2>6, <1>1 DEF VerdictPhase
  <2>8. QED
    BY <2>3, <2>7, <1>2, <1>4
<1>7. CASE FailJob(a)
  <2> DEFINE record == FailedJob(failure[a], applied[a], artifacts[a])
  <2>1. /\ jobs'[a] \in {jobs[a], record}
        /\ \E w \in BOOLEAN :
             answer'[a] = FailureAnswer(failure[a], w, applied[a], artifacts[a])
        /\ caller'[a] = caller[a] /\ caller[a] # "idle" /\ jobs[a] = PendingJob
    BY <1>7 DEF FailJob, Finalize, JobPhase, Executing
  <2>2. answer'[a].kind = "error"
    BY <2>1 DEF FailureAnswer
  <2>3. JobPhase(a)'
    BY <2>1, <2>2, <1>1 DEF JobPhase
  <2>4. \/ failure[a] \in {"generic", "preflight"} /\ begun[a] = {} /\ applied[a] = {}
        \/ failure[a] = "write" /\ OneInDoubt(a)
    BY <1>7 DEF FailJob, WritePhase
  <2>5. jobs'[a] = PendingJob \/ (jobs'[a] = record /\ record.status = "failed")
    BY <2>1 DEF FailedJob
  <2>6. CASE begun[a] = {} /\ applied[a] = {}
    <3>1. record.executed = {}
      BY <2>6 DEF FailedJob
    <3>2. QED
      BY <2>3, <2>5, <2>6, <3>1, <1>1, <1>2, <1>4 DEF VerdictPhase, PendingJob, NoJob
  <2>7. CASE failure[a] = "write" /\ OneInDoubt(a)
    <3>1. record.partial /\ record.executed = applied[a] /\ record.artifacts = artifacts[a]
      BY <2>7, WriteFailureFields
    <3>2. ~answer'[a].retrySafe
      <4>1. PICK w \in BOOLEAN :
              answer'[a] = FailureAnswer(failure[a], w, applied[a], artifacts[a])
        BY <2>1
      <4>2. answer'[a] = FailureAnswer("write", w, applied[a], artifacts[a])
        BY <4>1, <2>7
      <4>3. ~FailureAnswer("write", w, applied[a], artifacts[a]).retrySafe
        BY WriteFailureFields, Zenon
      <4>4. QED
        BY <4>2, <4>3, Zenon
    <3>3. ~SaysUntouched(a)'
      BY <3>1, <3>2, <2>2, <2>5 DEF SaysUntouched, AnswerSaysUntouched, JobSaysUntouched,
         PendingJob, NoJob
    <3>4. OneInDoubt(a)'
      BY <2>7, <1>1 DEF OneInDoubt
    <3>5. VerdictPhase(a)'
      BY <3>1, <3>3, <3>4, <2>5, <1>1 DEF VerdictPhase, PendingJob, NoJob
    <3>6. QED
      BY <3>5, <2>3, <1>2, <1>4
  <2>8. QED
    BY <2>4, <2>6, <2>7
<1>8. CASE Respond(a)
  <2>1. /\ jobs'[a] = jobs[a] /\ answer'[a] = answer[a] /\ pc[a] = "answering" /\ pc'[a] = "done"
        /\ caller'[a] = "idle" <=> caller[a] = "idle"
    BY <1>8 DEF Respond
  <2>2. JobPhase(a)'
    BY <2>1 DEF JobPhase, Executing
  <2>3. VerdictPhase(a)'
    BY <2>1, <1>1 DEF VerdictPhase, SaysUntouched, OneInDoubt
  <2>4. QED
    BY <2>2, <2>3, <1>2, <1>4
<1>9. QED
  BY <1>5, <1>6, <1>7, <1>8

LEMMA CrashStep ==
  ASSUME TypeOK, NEW a \in Attempt, PerAttempt(a), Crash
  PROVE  PerAttempt(a)'
<1> USE DEF TypeOK, PerAttempt, plans, accounts, snapshots
<1>1. /\ pc'[a] = IF Active(a) THEN "crashed" ELSE pc[a]
      /\ caller'[a] = IF Active(a) /\ caller[a] = "waiting" THEN "lost" ELSE caller[a]
      /\ UNCHANGED <<request, prepared, preflighted, begun, applied, saved, artifacts, failure, jobs, answer>>
  BY DEF Crash
<1>2. JobPhase(a)'
  BY <1>1 DEF JobPhase, Executing, Active
<1>3. SnapshotPhase(a)'
  BY <1>1 DEF SnapshotPhase, Covered, Active
<1>4. WritePhase(a)'
  BY <1>1 DEF WritePhase, BeforeWriting, ClearedToWrite, Covered, OneInDoubt, Writable, Active
<1>5. VerdictPhase(a)'
  BY <1>1 DEF VerdictPhase, SaysUntouched, OneInDoubt
<1>6. QED
  BY <1>2, <1>3, <1>4, <1>5

\* A step keeps what the invariant says of each attempt.
LEMMA PerAttemptStep ==
  ASSUME TypeOK, \A a \in Attempt : PerAttempt(a), [Next]_vars
  PROVE  \A a \in Attempt : PerAttempt(a)'
<1>1. CASE UNCHANGED vars
  <2>1. \A a \in Attempt : Unmoved(a)
    BY <1>1 DEF vars, Unmoved
  <2>2. QED
    BY <2>1, UnmovedKeeps
<1>2. ASSUME NEW a \in Attempt, Submit(a) \/ LoseConnection(a) \/ Handle(a)
      PROVE  \A b \in Attempt : PerAttempt(b)'
  <2>1. PerAttempt(a)'
    BY <1>2, CallerSteps, PreparingSteps, WritingSteps, VerdictSteps DEF Handle
  <2>2. ASSUME NEW b \in Attempt, b # a
        PROVE  PerAttempt(b)'
    BY <1>2, <2>2, OthersUnmoved, UnmovedKeeps
  <2>3. QED
    BY <2>1, <2>2
<1>3. CASE Crash
  BY <1>3, CrashStep
<1>4. QED
  BY <1>1, <1>2, <1>3 DEF Next

-----------------------------------------------------------------------------
(* The caller's side: attempts that were passed over cannot write *)

\* Once settled, an attempt stays settled.
LEMMA SettledStays ==
  ASSUME TypeOK, NEW a \in Attempt, PerAttempt(a), Settled(a), [Next]_vars
  PROVE  Settled(a)'
<1> USE DEF TypeOK
<1>1. CASE UNCHANGED vars
  BY <1>1 DEF vars, Settled, SaysUntouched
<1>2. ASSUME NEW b \in Attempt, b # a, Submit(b) \/ LoseConnection(b) \/ Handle(b)
      PROVE  Settled(a)'
  BY <1>2, OthersUnmoved DEF Settled, SaysUntouched, Unmoved
<1>3. CASE Submit(a)
  BY <1>3, SilentWhileRunning DEF Submit, Settled, PerAttempt, JobPhase
<1>4. CASE LoseConnection(a)
  BY <1>4 DEF LoseConnection, Settled, SaysUntouched
<1>5. ASSUME Handle(a), SaysUntouched(a)
      PROVE  Settled(a)'
  <2>1. ~(pc[a] \in {"idle", "creating"} \/ Executing(a))
    BY <1>5, SilentWhileRunning DEF PerAttempt
  <2>2. Respond(a)
    BY <1>5, <2>1 DEF Handle, Executing, CreateJob, CreateJobFails, Validate, ReadAccounts,
       PersistSource, PersistTarget, Plan, Preflight, PreflightDone, BeginWrite, EndWrite,
       WriteDone, CompleteJob, FailJob
  <2>3. QED
    BY <1>5, <2>2 DEF Respond, Settled, SaysUntouched
<1>6. ASSUME Handle(a), caller[a] # "idle", request[a].dryRun
      PROVE  Settled(a)'
  <2>1. request'[a] = request[a]
    BY <1>6 DEF Handle, CreateJob, CreateJobFails, Validate, ReadAccounts,
       PersistSource, PersistTarget, Plan, Preflight, PreflightDone, BeginWrite, EndWrite,
       WriteDone, CompleteJob, FailJob, Finalize, Respond
  <2>2. caller'[a] # "idle"
    BY <1>6 DEF Handle, CreateJob, CreateJobFails, Validate, ReadAccounts,
       PersistSource, PersistTarget, Plan, Preflight, PreflightDone, BeginWrite, EndWrite,
       WriteDone, CompleteJob, FailJob, Finalize, Respond
  <2>3. QED
    BY <1>6, <2>1, <2>2 DEF Settled
<1>7. CASE Crash
  BY <1>7 DEF Crash, Settled, SaysUntouched
<1>8. QED
  BY <1>1, <1>2, <1>3, <1>4, <1>5, <1>6, <1>7 DEF Next, Settled

LEMMA EarlierSettledStep ==
  ASSUME TypeOK, \A a \in Attempt : PerAttempt(a), EarlierSettled, [Next]_vars
  PROVE  EarlierSettled'
<1> SUFFICES ASSUME NEW a \in Attempt, NEW b \in Attempt, a < b, caller'[b] # "idle"
             PROVE  Settled(a)'
  BY DEF EarlierSettled
<1>1. SUFFICES Settled(a)
  BY <1>1, SettledStays
<1>2. CASE caller[b] # "idle"
  BY <1>2 DEF EarlierSettled
<1>3. CASE caller[b] = "idle"
  <2>1. Submit(b)
    <3>1. CASE UNCHANGED vars
      BY <3>1, <1>3 DEF vars
    <3>2. CASE Crash
      BY <3>2, <1>3 DEF Crash, TypeOK
    <3>3. ASSUME NEW c \in Attempt, c # b, Submit(c) \/ LoseConnection(c) \/ Handle(c)
          PROVE  FALSE
      BY <3>3, <1>3, OthersUnmoved DEF Unmoved
    <3>4. CASE LoseConnection(b)
      BY <3>4, <1>3 DEF LoseConnection
    <3>5. CASE Handle(b)
      <4>1. pc[b] = "idle"
        BY <1>3 DEF PerAttempt, JobPhase
      <4>2. QED
        BY <3>5, <4>1 DEF Handle, CreateJob, CreateJobFails, Validate, ReadAccounts,
           PersistSource, PersistTarget, Plan, Preflight, PreflightDone, BeginWrite, EndWrite,
           WriteDone, CompleteJob, FailJob, Respond
    <3>6. QED
      BY <3>1, <3>2, <3>3, <3>4, <3>5 DEF Next
  <2>2. b - 1 \in Attempt /\ MayFollow(b - 1)
    BY <2>1, ConstantsAssumption DEF Submit, Attempt
  <2>3. Settled(b - 1) /\ caller[b - 1] # "idle"
    BY <2>2 DEF MayFollow, Settled, SaysUntouched
  <2>4. CASE a = b - 1
    BY <2>3, <2>4
  <2>5. CASE a < b - 1
    BY <2>2, <2>3, <2>5 DEF EarlierSettled
  <2>6. QED
    BY <2>4, <2>5, ConstantsAssumption DEF Attempt
<1>4. QED
  BY <1>2, <1>3

-----------------------------------------------------------------------------
(* Theorems *)

LEMMA SafetyInit == Init => SafetyInvariant
<1> SUFFICES ASSUME Init PROVE SafetyInvariant
  OBVIOUS
<1>1. ASSUME NEW a \in Attempt
      PROVE  JobPhase(a) /\ SnapshotPhase(a) /\ WritePhase(a)
  BY DEF Init, JobPhase, SnapshotPhase, WritePhase, Executing, BeforeWriting
<1>2. ASSUME NEW a \in Attempt
      PROVE  VerdictPhase(a)
  BY DEF Init, VerdictPhase, SaysUntouched, AnswerSaysUntouched, JobSaysUntouched, NoJob, NoAnswer
<1>3. EarlierSettled
  BY DEF Init, EarlierSettled
<1>4. QED
  BY <1>1, <1>2, <1>3 DEF SafetyInvariant

(***************************************************************************)
(* The inductive invariant: in which phase of a request which record,      *)
(* snapshots and batches exist, and that the caller only went past attempts*)
(* that cannot write any more.                                             *)
(***************************************************************************)
THEOREM InvariantHolds == Spec => []SafetyInvariant
<1>1. TypeOK /\ SafetyInvariant /\ [Next]_vars => SafetyInvariant'
  BY PerAttemptStep, EarlierSettledStep DEF SafetyInvariant, PerAttempt
<1>2. QED
  BY <1>1, SafetyInit, TypeCorrect, PTL DEF Spec

(***************************************************************************)
(* No account is written before confirmation, audit record, snapshots and  *)
(* preflight of the whole plan.                                            *)
(***************************************************************************)
THEOREM ProtectedWrites == Spec => []WritesAreProtected
<1>1. SafetyInvariant => WritesAreProtected
  <2> SUFFICES ASSUME SafetyInvariant, NEW a \in Attempt, begun[a] # {}
               PROVE  /\ request[a].confirmWrite /\ ~request[a].dryRun
                      /\ jobs[a].status # "absent"
                      /\ {Destination(i) : i \in prepared[a]} \subseteq saved[a] \cap artifacts[a]
                      /\ begun[a] \subseteq prepared[a]
                      /\ prepared[a] \subseteq preflighted[a]
    BY DEF WritesAreProtected
  <2>1. ClearedToWrite(a) /\ jobs[a].status # "absent" /\ begun[a] \subseteq prepared[a]
    BY DEF SafetyInvariant, WritePhase
  <2>2. ASSUME NEW i \in prepared[a]
        PROVE  Destination(i) \in saved[a] \cap artifacts[a]
    <3>1. request[a].mode = "two-way" \/ Destination(i) = "target"
      BY DEF SafetyInvariant, WritePhase, Writable
    <3>2. QED
      BY <2>1, <3>1 DEF ClearedToWrite, Covered, Destination
  <2>3. QED
    BY <2>1, <2>2 DEF ClearedToWrite
<1>2. QED
  BY <1>1, InvariantHolds, PTL

(***************************************************************************)
(* No answer or record says "not written" of an attempt that began a write.*)
(***************************************************************************)
THEOREM SoundAdvice == Spec => []AdviceIsSound
<1>1. SafetyInvariant => AdviceIsSound
  BY DEF SafetyInvariant, VerdictPhase, AdviceIsSound
<1>2. QED
  BY <1>1, InvariantHolds, PTL

(***************************************************************************)
(* A caller that heeds the advice has its accounts written by one attempt  *)
(* at most, however many attempts, lost answers and crashes there are.     *)
(***************************************************************************)
THEOREM OneWriter == Spec => []OneAttemptWrites
<1>1. SafetyInvariant => OneAttemptWrites
  <2> SUFFICES ASSUME SafetyInvariant, NEW a \in Attempt, NEW b \in Attempt,
                      begun[a] # {}, begun[b] # {}, a < b
               PROVE  FALSE
    BY ConstantsAssumption DEF OneAttemptWrites, Attempt
  <2>1. caller[b] # "idle"
    BY DEF SafetyInvariant, JobPhase, WritePhase, BeforeWriting
  <2>2. Settled(a)
    BY <2>1 DEF SafetyInvariant, EarlierSettled
  <2>3. ~SaysUntouched(a)
    BY DEF SafetyInvariant, VerdictPhase
  <2>4. ~request[a].dryRun
    BY DEF SafetyInvariant, WritePhase, ClearedToWrite
  <2>5. QED
    BY <2>2, <2>3, <2>4 DEF Settled
<1>2. QED
  BY <1>1, InvariantHolds, PTL

(***************************************************************************)
(* A terminal record names the batches that were applied; a failure that   *)
(* began one is partial, is in doubt about that one only and names the     *)
(* snapshots of the accounts it wrote.                                     *)
(***************************************************************************)
THEOREM TruthfulRecords == Spec => []RecordsTellTheTruth
<1>1. SafetyInvariant /\ WritesAreProtected => RecordsTellTheTruth
  <2> SUFFICES ASSUME SafetyInvariant, WritesAreProtected, NEW a \in Attempt, Terminal(jobs[a])
               PROVE  /\ jobs[a].executed = applied[a]
                      /\ jobs[a].status = "succeeded" /\ ~request[a].dryRun => applied[a] = prepared[a]
                      /\ jobs[a].status = "failed" /\ begun[a] # {} =>
                           /\ jobs[a].partial
                           /\ Cardinality(begun[a] \ applied[a]) = 1
                           /\ {Destination(i) : i \in begun[a]} \subseteq jobs[a].artifacts
    BY DEF RecordsTellTheTruth
  <2>1. VerdictPhase(a)
    BY DEF SafetyInvariant
  <2>2. ASSUME jobs[a].status = "failed", begun[a] # {}
        PROVE  /\ jobs[a].partial
               /\ Cardinality(begun[a] \ applied[a]) = 1
               /\ {Destination(i) : i \in begun[a]} \subseteq jobs[a].artifacts
    <3>1. jobs[a].partial /\ OneInDoubt(a) /\ jobs[a].artifacts = artifacts[a]
      BY <2>1, <2>2 DEF VerdictPhase
    <3>2. PICK i \in begun[a] : i \notin applied[a] /\ begun[a] = applied[a] \cup {i}
      BY <3>1 DEF OneInDoubt
    <3>3. begun[a] \ applied[a] = {i}
      BY <3>2
    <3>4. Cardinality(begun[a] \ applied[a]) = 1
      BY <3>3, FS_Singleton
    <3>5. {Destination(j) : j \in begun[a]} \subseteq artifacts[a]
      BY <2>2 DEF WritesAreProtected
    <3>6. QED
      BY <3>1, <3>4, <3>5
  <2>3. QED
    BY <2>1, <2>2 DEF VerdictPhase, Terminal
<1>2. QED
  BY <1>1, InvariantHolds, ProtectedWrites, PTL

-----------------------------------------------------------------------------
(* The answer and the durable record agree *)

\* What an answer without an audit warning says of the record of attempt a.
Tells(a) ==
  CASE answer[a].kind = "ok"    -> jobs[a] = SucceededJob(answer[a].executed, answer[a].artifacts)
    [] answer[a].kind = "error" -> /\ jobs[a].status = "failed"
                                   /\ jobs[a].executed = answer[a].executed
                                   /\ jobs[a].artifacts = answer[a].artifacts
                                   /\ answer[a].retrySafe = ~jobs[a].partial
    [] OTHER                    -> answer[a] = NotStarted

Agrees(a) == pc[a] \in {"answering", "done"} /\ ~answer[a].warning => Tells(a)

\* completeSyncJob: the answer repeats what the stored success says.
LEMMA SuccessIsTold ==
  ASSUME TypeOK, NEW a \in Attempt, JobPhase(a), CompleteJob(a)
  PROVE  Agrees(a)'
<1> DEFINE plain == CompletionAnswer(request[a].dryRun, FALSE, applied[a], artifacts[a])
<1> DEFINE warned == CompletionAnswer(request[a].dryRun, TRUE, applied[a], artifacts[a])
<1> DEFINE record == SucceededJob(applied[a], artifacts[a])
<1>0. jobs[a].status = "pending"
  BY DEF CompleteJob, JobPhase, Executing, PendingJob, NoJob
<1>1. \/ jobs'[a] = record /\ answer'[a] = plain
      \/ answer'[a] = warned
  BY <1>0 DEF CompleteJob, Finalize, TypeOK
<1>2. warned.warning
  BY DEF CompletionAnswer
<1>3. plain.kind = "ok" /\ plain.executed = applied[a] /\ plain.artifacts = artifacts[a]
  BY DEF CompletionAnswer
<1>4. CASE jobs'[a] = record /\ answer'[a] = plain
  BY <1>3, <1>4 DEF Agrees, Tells
<1>5. CASE answer'[a] = warned
  BY <1>2, <1>5 DEF Agrees
<1>6. QED
  BY <1>1, <1>4, <1>5

\* failSyncJob: the answer repeats what the stored failure says, and calls a retry safe
\* exactly when the record says that nothing was written.
LEMMA FailureIsTold ==
  ASSUME TypeOK, NEW a \in Attempt, JobPhase(a), FailJob(a)
  PROVE  Agrees(a)'
<1> DEFINE plain == FailureAnswer(failure[a], FALSE, applied[a], artifacts[a])
<1> DEFINE warned == FailureAnswer(failure[a], TRUE, applied[a], artifacts[a])
<1> DEFINE record == FailedJob(failure[a], applied[a], artifacts[a])
<1>0. jobs[a].status = "pending"
  BY DEF FailJob, JobPhase, Executing, PendingJob, NoJob
<1>1. \/ jobs'[a] = record /\ answer'[a] = plain
      \/ answer'[a] = warned
  BY <1>0 DEF FailJob, Finalize, TypeOK
<1>2. warned.warning
  BY DEF FailureAnswer
<1>3. /\ plain.kind = "error" /\ record.status = "failed"
      /\ plain.executed = record.executed /\ plain.artifacts = record.artifacts
  BY DEF FailureAnswer, FailedJob
<1>4. plain.retrySafe = ~record.partial
  <2>1. plain.retrySafe = (~FALSE /\ ~WriteMayBePartial(failure[a]))
    BY DEF FailureAnswer
  <2>2. record.partial = WriteMayBePartial(failure[a])
    BY DEF FailedJob
  <2>3. WriteMayBePartial(failure[a]) \in BOOLEAN
    BY DEF WriteMayBePartial
  <2>4. QED
    BY <2>1, <2>2, <2>3
<1>5. CASE jobs'[a] = record /\ answer'[a] = plain
  <2>1. /\ answer'[a].kind = "error" /\ jobs'[a].status = "failed"
        /\ jobs'[a].executed = answer'[a].executed /\ jobs'[a].artifacts = answer'[a].artifacts
        /\ answer'[a].retrySafe = ~jobs'[a].partial
    BY <1>3, <1>4, <1>5
  <2>2. QED
    BY <2>1 DEF Agrees, Tells
<1>6. CASE answer'[a] = warned
  BY <1>2, <1>6 DEF Agrees
<1>7. QED
  BY <1>1, <1>5, <1>6

LEMMA AgreementStep ==
  ASSUME TypeOK, [Next]_vars, NEW a \in Attempt, JobPhase(a), Agrees(a)
  PROVE  Agrees(a)'
<1>1. CASE UNCHANGED vars
  BY <1>1 DEF vars, Agrees, Tells
<1>2. ASSUME NEW b \in Attempt, b # a, Submit(b) \/ LoseConnection(b) \/ Handle(b)
      PROVE  Agrees(a)'
  BY <1>2, OthersUnmoved DEF Unmoved, Agrees, Tells
<1>3. CASE CompleteJob(a) \/ FailJob(a)
  BY <1>3, SuccessIsTold, FailureIsTold
<1>4. CASE CreateJobFails(a)
  <2>1. answer'[a] = NotStarted
    BY <1>4 DEF CreateJobFails, TypeOK
  <2>2. NotStarted.kind = "not-started"
    BY DEF NotStarted, NoAnswer
  <2>3. QED
    BY <2>1, <2>2 DEF Agrees, Tells
<1>5. CASE LoseConnection(a) \/ Respond(a) \/ Crash
  <2>1. /\ jobs'[a] = jobs[a] /\ answer'[a] = answer[a]
        /\ pc'[a] \in {"answering", "done"} => pc[a] \in {"answering", "done"}
    BY <1>5 DEF LoseConnection, Respond, Crash, Goto, TypeOK
  <2>2. QED
    BY <2>1 DEF Agrees, Tells
<1>6. ASSUME \/ Submit(a) \/ CreateJob(a) \/ Validate(a) \/ ReadAccounts(a)
             \/ PersistSource(a) \/ PersistTarget(a) \/ Plan(a) \/ Preflight(a)
             \/ PreflightDone(a) \/ BeginWrite(a) \/ EndWrite(a) \/ WriteDone(a)
      PROVE  Agrees(a)'
  <2>1. pc'[a] \notin {"answering", "done"}
    BY <1>6 DEF Submit, CreateJob, Validate, ReadAccounts, PersistSource, PersistTarget,
       PersistSnapshot, PersistSnapshotFails, Plan, Preflight, PreflightDone, BeginWrite,
       EndWrite, WriteDone, Goto, Throw, TypeOK
  <2>2. QED
    BY <2>1 DEF Agrees
<1>7. QED
  BY <1>1, <1>2, <1>3, <1>4, <1>5, <1>6 DEF Next, Handle

(***************************************************************************)
(* completeSyncJob and failSyncJob never answer for a record that is not   *)
(* there: an answer that does not warn of the audit is what the disk says, *)
(* through every failure of createSyncJob and updateSyncJob.               *)
(***************************************************************************)
THEOREM NothingIsLostSilently == Spec => []NoSilentLoss
<1> DEFINE AllAgree == \A a \in Attempt : Agrees(a)
<1>1. Init => AllAgree
  BY DEF Init, Agrees
<1>2. TypeOK /\ SafetyInvariant /\ AllAgree /\ [Next]_vars => AllAgree'
  BY AgreementStep DEF SafetyInvariant
<1>3. AllAgree => NoSilentLoss
  BY DEF Agrees, Tells, NoSilentLoss
<1> HIDE DEF AllAgree
<1>4. QED
  BY <1>1, <1>2, <1>3, TypeCorrect, InvariantHolds, PTL DEF Spec

-----------------------------------------------------------------------------
(* Steps: verdicts are final, and the executor implements ConfirmedWrite *)

\* After a verdict only the answer, the loss of the connection or a crash is left.
LEMMA AfterVerdict ==
  ASSUME NEW a \in Attempt, JobPhase(a), Handle(a),
         Terminal(jobs[a]) \/ answer[a].kind # "none" \/ SaysUntouched(a)
  PROVE  Respond(a)
<1>1. ~(pc[a] \in {"idle", "creating"} \/ Executing(a))
  BY SilentWhileRunning DEF JobPhase, Terminal, NoJob, PendingJob, NoAnswer
<1>2. QED
  BY <1>1 DEF Handle, Executing, CreateJob, CreateJobFails, Validate, ReadAccounts,
     PersistSource, PersistTarget, Plan, Preflight, PreflightDone, BeginWrite, EndWrite,
     WriteDone, CompleteJob, FailJob

LEMMA VerdictStep ==
  ASSUME TypeOK, SafetyInvariant, [Next]_vars, NEW a \in Attempt,
         Terminal(jobs[a]) \/ answer[a].kind # "none" \/ SaysUntouched(a)
  PROVE  /\ begun'[a] = begun[a] /\ applied'[a] = applied[a]
         /\ jobs'[a] = jobs[a] /\ answer'[a] = answer[a]
<1> USE DEF accounts
<1>1. CASE UNCHANGED vars
  BY <1>1 DEF vars
<1>2. ASSUME NEW b \in Attempt, b # a, Submit(b) \/ LoseConnection(b) \/ Handle(b)
      PROVE  Unmoved(a)
  BY <1>2, OthersUnmoved
<1>3. CASE Submit(a) \/ LoseConnection(a)
  BY <1>3 DEF Submit, LoseConnection
<1>4. CASE Handle(a)
  BY <1>4, AfterVerdict DEF Respond, SafetyInvariant
<1>5. CASE Crash
  BY <1>5 DEF Crash
<1>6. QED
  BY <1>1, <1>2, <1>3, <1>4, <1>5 DEF Next, Unmoved

(***************************************************************************)
(* Once an attempt has a terminal record or an answer, its record and the  *)
(* batches it began and applied never change.                              *)
(***************************************************************************)
THEOREM FinalVerdicts == Spec => VerdictIsFinal
<1>1. TypeOK /\ SafetyInvariant /\ [Next]_vars =>
        [\A a \in Attempt : Terminal(jobs[a]) \/ answer[a].kind # "none" =>
           /\ begun'[a] = begun[a] /\ applied'[a] = applied[a]
           /\ jobs'[a] = jobs[a]]_vars
  BY VerdictStep
<1>2. QED
  BY <1>1, TypeCorrect, InvariantHolds, PTL DEF Spec, VerdictIsFinal

dirty == [a \in Attempt |-> {Destination(i) : i \in begun[a]}]
promised == {a \in Attempt : SaysUntouched(a)}

\* A step that writes no account and stores no snapshot can only promise.
LEMMA PromiseStep ==
  ASSUME TypeOK, SafetyInvariant, SafetyInvariant', [Next]_vars,
         NEW a \in Attempt, begun' = begun, saved' = saved,
         Submit(a) \/ LoseConnection(a) \/ Handle(a)
  PROVE  CW!Promise(a) \/ UNCHANGED CW!vars
<1>1. dirty' = dirty
  BY DEF dirty
<1>2. promised' = promised \/ promised' = promised \cup {a}
  <2>1. ASSUME NEW b \in Attempt, b # a
        PROVE  SaysUntouched(b)' <=> SaysUntouched(b)
    BY <2>1, OthersUnmoved DEF Unmoved, SaysUntouched
  <2>2. SaysUntouched(a) => SaysUntouched(a)'
    BY VerdictStep DEF SaysUntouched
  <2>3. QED
    BY <2>1, <2>2 DEF promised
<1>3. a \in promised' => dirty[a] = {}
  BY DEF promised, dirty, SafetyInvariant, VerdictPhase
<1>4. QED
  BY <1>1, <1>2, <1>3 DEF CW!Promise, CW!vars, dirty, promised

LEMMA KeepStep ==
  ASSUME TypeOK, SafetyInvariant, NEW a \in Attempt, PersistSource(a) \/ PersistTarget(a)
  PROVE  (\E s \in Side : CW!Keep(a, s)) \/ UNCHANGED CW!vars
<1> USE DEF accounts, Goto, Throw
<1>1. begun[a] = {} /\ begun' = begun /\ jobs' = jobs /\ answer' = answer
  BY DEF PersistSource, PersistTarget, SafetyInvariant, WritePhase, BeforeWriting
<1>2. \/ saved' = saved
      \/ \E s \in Side : saved' = [saved EXCEPT ![a] = @ \cup {s}]
  BY DEF PersistSource, PersistTarget, PersistSnapshot, PersistSnapshotFails, Side
<1>3. dirty' = dirty /\ dirty[a] = {} /\ promised' = promised
  BY <1>1 DEF dirty, promised, SaysUntouched
<1>4. QED
  BY <1>2, <1>3 DEF CW!Keep, CW!vars, dirty, promised

LEMMA WriteStep ==
  ASSUME TypeOK, SafetyInvariant, SafetyInvariant', NEW a \in Attempt, BeginWrite(a),
         OneAttemptWrites'
  PROVE  \E s \in Side : CW!Write(a, s)
<1> USE DEF snapshots
<1>1. PICK i \in Slot : i \in prepared[a] /\ begun' = [begun EXCEPT ![a] = @ \cup {i}]
  BY DEF BeginWrite, First
<1>2. begun'[a] = begun[a] \cup {i}
  BY <1>1 DEF TypeOK
<1>3. Destination(i) \in Side /\ Destination(i) \in saved[a]
  <2>1. ClearedToWrite(a) /\ (request[a].mode = "two-way" \/ Destination(i) = "target")
    BY <1>1 DEF BeginWrite, SafetyInvariant, WritePhase, Writable
  <2>2. QED
    BY <2>1 DEF ClearedToWrite, Covered, Destination, Side
<1>4. ~SaysUntouched(a)
  BY SilentWhileRunning DEF BeginWrite, SafetyInvariant, Executing
<1>5. ASSUME NEW b \in Attempt \ {a}
      PROVE  dirty[b] = {}
  <2>1. begun'[b] = begun[b]
    BY <1>1 DEF TypeOK
  <2>2. begun'[b] = {}
    BY <1>2 DEF OneAttemptWrites
  <2>3. QED
    BY <2>1, <2>2 DEF dirty
<1>6. dirty' = [dirty EXCEPT ![a] = @ \cup {Destination(i)}]
  BY <1>1 DEF dirty, TypeOK
<1>7. saved' = saved /\ promised' = promised
  BY DEF BeginWrite, promised, SaysUntouched
<1>8. QED
  BY <1>3, <1>4, <1>5, <1>6, <1>7 DEF CW!Write, dirty, promised

(***************************************************************************)
(* The executor with its handlers, its crashes and its caller implements   *)
(* what WatchBridge promises of every confirmed write.                     *)
(***************************************************************************)
THEOREM Refinement == Spec => ImplementsConfirmedWrite
<1>1. Init => CW!Init
  BY DEF Init, CW!Init, SaysUntouched, AnswerSaysUntouched, JobSaysUntouched, NoJob, NoAnswer
<1>2. ASSUME TypeOK, SafetyInvariant, SafetyInvariant', OneAttemptWrites', [Next]_vars
      PROVE  [CW!Next]_(CW!vars)
  <2>1. CASE UNCHANGED vars
    BY <2>1 DEF vars, CW!vars, SaysUntouched
  <2>2. CASE Crash
    BY <2>2 DEF Crash, CW!vars, SaysUntouched, accounts, snapshots
  <2>3. ASSUME NEW a \in Attempt, Submit(a) \/ LoseConnection(a) \/ Handle(a)
        PROVE  [CW!Next]_(CW!vars)
    <3>1. CASE PersistSource(a) \/ PersistTarget(a)
      BY <1>2, <3>1, KeepStep DEF CW!Next
    <3>2. CASE BeginWrite(a)
      BY <1>2, <3>2, WriteStep DEF CW!Next
    <3>3. CASE ~(PersistSource(a) \/ PersistTarget(a) \/ BeginWrite(a))
      <4>1. begun' = begun /\ saved' = saved
        BY <2>3, <3>3 DEF Handle, Submit, LoseConnection, CreateJob, CreateJobFails, Validate,
           ReadAccounts, Plan, Preflight, PreflightDone, EndWrite, WriteDone, CompleteJob,
           FailJob, Finalize, Respond, accounts, snapshots
      <4>2. QED
        BY <1>2, <2>3, <4>1, PromiseStep DEF CW!Next
    <3>4. QED
      BY <3>1, <3>2, <3>3
  <2>4. QED
    BY <1>2, <2>1, <2>2, <2>3 DEF Next
<1>3. QED
  BY <1>1, <1>2, TypeCorrect, InvariantHolds, OneWriter, PTL DEF Spec, CW!Spec, ImplementsConfirmedWrite

=============================================================================
