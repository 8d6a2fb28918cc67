---------------------------- MODULE RestoreProofs ----------------------------
(***************************************************************************)
(* Proofs about BackupRestore, for any number of concurrent restores, any  *)
(* items, values and features.                                             *)
(*                                                                         *)
(* A restore replaces records of the account one by one, at a time when    *)
(* other restores may have replaced some since it took its snapshot.  That *)
(* nothing is lost rests on AccountIsCovered: from the moment a request    *)
(* stored its snapshot, everything on the account is in some stored backup.*)
(* It is inductive together with the fact that requests restore stored     *)
(* backups, because a restore then only adds archived records.             *)
(*                                                                         *)
(* That a restore is protected and its record true follows from what a     *)
(* request has in each phase (PerRequest), which no other request and no   *)
(* edit of the account touches.                                            *)
(***************************************************************************)
EXTENDS BackupRestore, TLAPS

\* The part of the type invariant the argument needs.
CoverTypeOK ==
  /\ account \subseteq RestoreRecord
  /\ stored \subseteq SUBSET RestoreRecord
  /\ phase \in [Attempt -> Phase]
  /\ request \in [Attempt -> Request]
  /\ snapshot \in [Attempt -> SUBSET RestoreRecord]
  /\ edits \in Nat

\* Requests under way restore a stored backup, and only confirmed ones write.
SourcesAreStored ==
  \A a \in Attempt :
    /\ phase[a] \notin {"idle", "done", "crashed"} => request[a].backup \in stored
    /\ phase[a] \in {"writing", "importing"} => ~request[a].dryRun

CoverInv == CoverTypeOK /\ SourcesAreStored /\ AccountIsCovered

\* A record the running importer still has to send is in the request's backup.
LEMMA UnsentIsOfTheBackup ==
  ASSUME NEW a \in Attempt, NEW r \in Unsent(a)
  PROVE  r \in request[a].backup
<1>1. PICK n \in begun[a] : r \in OfFeature(request[a].backup, n)
  BY DEF Unsent
<1> QED
  BY <1>1 DEF OfFeature

\* One more archived record on the account keeps it covered.
LEMMA CoverOfAnImport ==
  ASSUME CoverInv, NEW a \in Attempt, Import(a)
  PROVE  CoverInv'
<1>1. PICK r \in Unsent(a) : account' = Upserted(account, r)
  BY DEF Import
<1>2. r \in Archived
  BY <1>1, UnsentIsOfTheBackup DEF Archived, CoverInv, SourcesAreStored, Import
<1>3. account' \subseteq account \cup Archived
  BY <1>1, <1>2 DEF Upserted
<1>4. UNCHANGED <<stored, phase, request, snapshot, edits>>
  BY DEF Import, verdicts
<1>5. Archived' = Archived
  BY <1>4 DEF Archived
<1>8. r \in RestoreRecord
  BY <1>1, UnsentIsOfTheBackup DEF CoverInv, CoverTypeOK, Request
<1>9. account' \subseteq RestoreRecord
  BY <1>1, <1>8 DEF Upserted, CoverInv, CoverTypeOK
<1>6. CoverTypeOK' /\ SourcesAreStored'
  BY <1>4, <1>9 DEF CoverInv, CoverTypeOK, SourcesAreStored
<1>7. AccountIsCovered'
  BY <1>3, <1>4, <1>5 DEF CoverInv, AccountIsCovered
<1> QED
  BY <1>6, <1>7 DEF CoverInv

\* Steps after which nothing AccountIsCovered speaks of has changed.
LEMMA CoverOfAStutter ==
  ASSUME CoverInv, UNCHANGED <<account, stored, phase, request, snapshot, edits>>
  PROVE  CoverInv'
BY DEF CoverInv, CoverTypeOK, SourcesAreStored, AccountIsCovered, Archived

LEMMA CoverInit ==
  ASSUME Init PROVE CoverInv
<1>1. NoRequest \in Request
  BY DEF NoRequest, Request
<1>0. account \subseteq RestoreRecord /\ stored \subseteq SUBSET RestoreRecord
  BY DEF Init, Account
<1>2. CoverTypeOK
  <2>1. phase \in [Attempt -> Phase] /\ request \in [Attempt -> Request]
    BY <1>1 DEF Init, Phase
  <2>2. snapshot \in [Attempt -> SUBSET RestoreRecord] /\ edits \in Nat
    BY DEF Init
  <2> QED
    BY <1>0, <2>1, <2>2 DEF CoverTypeOK
<1> QED
  BY <1>2 DEF Init, CoverInv, SourcesAreStored, AccountIsCovered

\* A new request restores a stored backup and has no snapshot yet.
LEMMA CoverOfASubmission ==
  ASSUME CoverInv, NEW a \in Attempt, Submit(a)
  PROVE  CoverInv'
<1>1. PICK b \in stored, d \in BOOLEAN, w \in BOOLEAN :
        request' = [request EXCEPT ![a] = [backup |-> b, dryRun |-> d, confirmWrite |-> w]]
  BY DEF Submit
<1>2. phase' = [phase EXCEPT ![a] = "creating"]
      /\ UNCHANGED <<account, stored, snapshot, edits>>
  BY DEF Submit, Goto, progress
<1>3. b \in SUBSET RestoreRecord
  BY DEF CoverInv, CoverTypeOK
<1>4. [backup |-> b, dryRun |-> d, confirmWrite |-> w] \in Request
  BY <1>3 DEF Request
<1>5. CoverTypeOK'
  BY <1>1, <1>2, <1>4 DEF CoverInv, CoverTypeOK, Phase
<1>6. /\ request'[a].backup = b /\ phase'[a] = "creating"
      /\ \A c \in Attempt : c # a => request'[c] = request[c] /\ phase'[c] = phase[c]
  BY <1>1, <1>2 DEF CoverInv, CoverTypeOK
<1>7. SourcesAreStored'
  BY <1>2, <1>6 DEF CoverInv, SourcesAreStored
<1>8. AccountIsCovered'
  BY <1>2, <1>6 DEF CoverInv, AccountIsCovered, Archived
<1> QED
  BY <1>5, <1>7, <1>8 DEF CoverInv

\* An export is its own cover until it is stored.
LEMMA CoverOfAnExport ==
  ASSUME CoverInv, NEW a \in Attempt, Export(a)
  PROVE  CoverInv'
<1> DEFINE p == IF request[a].dryRun THEN "preflight" ELSE "persisting"
<1>1. /\ phase' = [phase EXCEPT ![a] = p]
      /\ snapshot' = [snapshot EXCEPT ![a] = account]
      /\ phase[a] = "exporting"
      /\ UNCHANGED <<account, stored, request, begun, edits>>
  BY DEF Export, Goto, progress
<1>2. CoverTypeOK'
  BY <1>1 DEF CoverInv, CoverTypeOK, Phase
<1>3. /\ phase'[a] = p /\ snapshot'[a] = account
      /\ \A c \in Attempt : c # a => snapshot'[c] = snapshot[c] /\ phase'[c] = phase[c]
  BY <1>1 DEF CoverInv, CoverTypeOK
<1>4. SourcesAreStored'
  BY <1>1, <1>3 DEF CoverInv, SourcesAreStored
<1>5. AccountIsCovered'
  BY <1>1, <1>3 DEF CoverInv, AccountIsCovered, Archived
<1> QED
  BY <1>2, <1>4, <1>5 DEF CoverInv

\* Storing the snapshot archives whatever was covered by it.
LEMMA CoverOfAStore ==
  ASSUME CoverInv, NEW a \in Attempt, Persist(a) \/ PersistFails(a)
  PROVE  CoverInv'
<1>1. /\ phase[a] = "persisting"
      /\ stored' \in {stored, stored \cup {snapshot[a]}}
      /\ UNCHANGED <<account, request, snapshot, edits>>
  BY DEF Persist, PersistFails, progress
<1>2. stored \subseteq stored' /\ stored' \subseteq SUBSET RestoreRecord
  BY <1>1 DEF CoverInv, CoverTypeOK
<1>3. Archived \subseteq Archived'
  BY <1>2 DEF Archived
<1>4. \/ phase' = [phase EXCEPT ![a] = "failing"]
      \/ phase' = [phase EXCEPT ![a] = "preflight"] /\ stored' = stored \cup {snapshot[a]}
  BY DEF Persist, PersistFails, Goto, Throw
<1>5. CASE phase' = [phase EXCEPT ![a] = "failing"]
  <2>1. phase' \in [Attempt -> Phase] /\ phase'[a] = "failing"
        /\ \A c \in Attempt : c # a => phase'[c] = phase[c]
    BY <1>5 DEF CoverInv, CoverTypeOK, Phase
  <2>2. CoverTypeOK' /\ SourcesAreStored'
    BY <1>1, <1>2, <2>1 DEF CoverInv, CoverTypeOK, SourcesAreStored
  <2>3. AccountIsCovered'
    BY <1>1, <1>3, <2>1 DEF CoverInv, AccountIsCovered
  <2> QED
    BY <2>2, <2>3 DEF CoverInv
<1>6. CASE phase' = [phase EXCEPT ![a] = "preflight"] /\ stored' = stored \cup {snapshot[a]}
  <2>1. phase' \in [Attempt -> Phase] /\ phase'[a] = "preflight"
        /\ \A c \in Attempt : c # a => phase'[c] = phase[c]
    BY <1>6 DEF CoverInv, CoverTypeOK, Phase
  <2>2. CoverTypeOK' /\ SourcesAreStored'
    BY <1>1, <1>2, <2>1 DEF CoverInv, CoverTypeOK, SourcesAreStored
  <2>3. account \subseteq Archived'
    BY <1>1, <1>3, <1>6 DEF CoverInv, AccountIsCovered, Archived
  <2>4. AccountIsCovered'
    BY <1>1, <1>3, <2>1, <2>3 DEF CoverInv, AccountIsCovered
  <2> QED
    BY <2>2, <2>4 DEF CoverInv
<1> QED
  BY <1>4, <1>5, <1>6

\* The other steps of a handler move it to a phase that its own phase covers.
LEMMA CoverOfOtherSteps ==
  ASSUME CoverInv, NEW a \in Attempt,
         \/ CreateJob(a) \/ CreateJobFails(a) \/ Validate(a) \/ ExportFails(a)
         \/ \E n \in Slot : PreflightFails(a, n) \/ BeginImport(a, n)
         \/ PreflightDone(a) \/ EndImport(a) \/ ImportFails(a) \/ ImportsDone(a)
         \/ CompleteJob(a) \/ FailJob(a)
  PROVE  CoverInv'
<1> DEFINE end == {"validating", "exporting", "completing", "failing", "done"}
<1>1. UNCHANGED <<account, stored, request, snapshot, edits>>
  BY DEF CoverInv, CoverTypeOK, CreateJob, CreateJobFails, Validate, ExportFails, PreflightFails,
         BeginImport, PreflightDone, EndImport, ImportFails, ImportsDone, CompleteJob, FailJob,
         Finalize, Goto, Throw, progress, verdicts
<1>2. /\ phase[a] \notin {"idle", "done", "crashed"}
      /\ \/ \E p \in end : phase' = [phase EXCEPT ![a] = p]
         \/ /\ \/ phase[a] = "preflight" /\ ~request[a].dryRun
               \/ phase[a] \in {"writing", "importing"}
            /\ \E p \in {"writing", "importing"} : phase' = [phase EXCEPT ![a] = p]
  BY DEF CreateJob, CreateJobFails, Validate, ExportFails, PreflightFails,
         BeginImport, PreflightDone, EndImport, ImportFails, ImportsDone, CompleteJob, FailJob,
         Finalize, Goto, Throw
<1>3. CASE \E p \in end : phase' = [phase EXCEPT ![a] = p]
  <2>1. PICK p \in end : phase' = [phase EXCEPT ![a] = p]
    BY <1>3
  <2>2. phase' \in [Attempt -> Phase] /\ phase'[a] = p
        /\ \A c \in Attempt : c # a => phase'[c] = phase[c]
    BY <2>1 DEF CoverInv, CoverTypeOK, Phase
  <2>3. CoverTypeOK'
    BY <1>1, <2>2 DEF CoverInv, CoverTypeOK
  <2>4. SourcesAreStored' /\ AccountIsCovered'
    BY <1>1, <1>2, <2>2 DEF CoverInv, SourcesAreStored, AccountIsCovered, Archived
  <2> QED
    BY <2>3, <2>4 DEF CoverInv
<1>4. CASE /\ \/ phase[a] = "preflight" /\ ~request[a].dryRun
              \/ phase[a] \in {"writing", "importing"}
           /\ \E p \in {"writing", "importing"} : phase' = [phase EXCEPT ![a] = p]
  <2>1. PICK p \in {"writing", "importing"} : phase' = [phase EXCEPT ![a] = p]
    BY <1>4
  <2>2. phase' \in [Attempt -> Phase] /\ phase'[a] = p
        /\ \A c \in Attempt : c # a => phase'[c] = phase[c]
    BY <2>1 DEF CoverInv, CoverTypeOK, Phase
  <2>3. CoverTypeOK'
    BY <1>1, <2>2 DEF CoverInv, CoverTypeOK
  <2>4. account \subseteq Archived /\ ~request[a].dryRun
    BY <1>4 DEF CoverInv, AccountIsCovered, SourcesAreStored
  <2>5. SourcesAreStored' /\ AccountIsCovered'
    BY <1>1, <1>2, <2>2, <2>4 DEF CoverInv, SourcesAreStored, AccountIsCovered, Archived
  <2> QED
    BY <2>3, <2>5 DEF CoverInv
<1> QED
  BY <1>2, <1>3, <1>4

LEMMA CoverOfACrash ==
  ASSUME CoverInv, Crash
  PROVE  CoverInv'
<1>1. UNCHANGED <<account, stored, request, snapshot, edits>>
  BY DEF Crash, progress
<1>2. phase' \in [Attempt -> Phase]
  BY DEF Crash, CoverInv, CoverTypeOK, Phase
<1>3. \A a \in Attempt : phase'[a] \in {"idle", "done", "crashed"}
  BY DEF Crash
<1> QED
  BY <1>1, <1>2, <1>3 DEF CoverInv, CoverTypeOK, SourcesAreStored, AccountIsCovered

\* As long as no other program changed the account.
LEMMA CoverNext ==
  ASSUME CoverInv, [Next]_vars, ~Edit
  PROVE  CoverInv'
<1>1. CASE UNCHANGED vars
  BY <1>1, CoverOfAStutter DEF vars
<1>2. ASSUME NEW a \in Attempt, Submit(a) PROVE CoverInv'
  BY <1>2, CoverOfASubmission
<1>3. ASSUME NEW a \in Attempt, Handle(a) PROVE CoverInv'
  <2>1. CASE Export(a)
    BY <2>1, CoverOfAnExport
  <2>2. CASE Persist(a) \/ PersistFails(a)
    BY <2>2, CoverOfAStore
  <2>3. CASE Import(a)
    BY <2>3, CoverOfAnImport
  <2>4. CASE \E n \in Slot : Preflight(a, n)
    BY <2>4, CoverOfAStutter DEF Preflight, verdicts
  <2> QED
    BY <1>3, <2>1, <2>2, <2>3, <2>4, CoverOfOtherSteps DEF Handle
<1>4. CASE Crash
  BY <1>4, CoverOfACrash
<1> QED
  BY <1>1, <1>2, <1>3, <1>4 DEF Next

\* The cover is gone for good once another program changed the account.
CoverUnlessEdited == edits \in Nat /\ (edits = 0 => CoverInv)

\* Steps of the program leave the count of foreign changes alone.
LEMMA OwnStepsAreNotEdits ==
  ASSUME [Next]_vars, ~Edit
  PROVE  edits' = edits
<1>1. ASSUME NEW a \in Attempt, Handle(a) PROVE edits' = edits
  BY <1>1 DEF Handle, CreateJob, CreateJobFails, Validate, Export, ExportFails, Persist,
              PersistFails, Preflight, PreflightFails, PreflightDone, BeginImport, Import,
              EndImport, ImportFails, ImportsDone, CompleteJob, FailJob, Finalize
<1>2. ASSUME NEW a \in Attempt, Submit(a) PROVE edits' = edits
  BY <1>2 DEF Submit
<1> QED
  BY <1>1, <1>2 DEF Next, Crash, vars

LEMMA CoverUnlessEditedNext ==
  ASSUME CoverUnlessEdited, [Next]_vars
  PROVE  CoverUnlessEdited'
<1>1. CASE Edit
  BY <1>1 DEF Edit, CoverUnlessEdited
<1>2. CASE ~Edit
  <2>1. edits' = edits
    BY <1>2, OwnStepsAreNotEdits
  <2>2. CASE edits = 0
    BY <1>2, <2>1, <2>2, CoverNext DEF CoverUnlessEdited
  <2> QED
    BY <2>1, <2>2 DEF CoverUnlessEdited
<1> QED
  BY <1>1, <1>2

\* As long as only restores change the account, a
\* request that stored its snapshot finds every record of the account in some
\* stored backup until it ends.
THEOREM RestoresAreCovered == Spec => []CoverUnlessEdited
<1>1. Init => CoverUnlessEdited
  BY CoverInit DEF Init, CoverUnlessEdited
<1>2. CoverUnlessEdited /\ [Next]_vars => CoverUnlessEdited'
  BY CoverUnlessEditedNext
<1> QED
  BY <1>1, <1>2, PTL DEF Spec

\* Only an import changes the account, and it may because it is covered.
LEMMA ReplacedRecordsStep ==
  ASSUME CoverUnlessEdited, [Next]_vars, edits' = 0
  PROVE  account \ account' \subseteq Archived'
<1>1. ~Edit
  BY DEF Edit, CoverUnlessEdited
<1>2. CoverInv
  BY <1>1, OwnStepsAreNotEdits DEF CoverUnlessEdited
<1>3. ASSUME NEW a \in Attempt, Import(a) PROVE account \ account' \subseteq Archived'
  BY <1>2, <1>3 DEF Import, CoverInv, AccountIsCovered, Archived
<1>4. ASSUME NEW a \in Attempt, Handle(a), ~Import(a) PROVE account' = account
  BY <1>4 DEF Handle, CreateJob, CreateJobFails, Validate, Export, ExportFails, Persist,
              PersistFails, Preflight, PreflightFails, PreflightDone, BeginImport, EndImport,
              ImportFails, ImportsDone, CompleteJob, FailJob, Finalize
<1>5. ASSUME NEW a \in Attempt, Submit(a) PROVE account' = account
  BY <1>5 DEF Submit
<1> QED
  BY <1>1, <1>3, <1>4, <1>5 DEF Next, Crash, vars

\* Any number of concurrent restores of one account, failing and stopping
\* anywhere, never replace a record that no stored backup holds.
THEOREM NothingIsLost == Spec => ReplacedRecordsAreArchived
<1>1. CoverUnlessEdited /\ [Next]_vars =>
        [edits' = 0 => account \ account' \subseteq Archived']_vars
  BY ReplacedRecordsStep
<1> QED
  BY <1>1, RestoresAreCovered, PTL DEF Spec, ReplacedRecordsAreArchived

-----------------------------------------------------------------------------
(***************************************************************************)
(* Type correctness, that every write is protected, and that audit records *)
(* tell what happened.                                                     *)
(***************************************************************************)

LEMMA RecordTypes ==
  /\ NoJob \in SyncJobRecord
  /\ PendingJob \in SyncJobRecord
  /\ NoAnswer \in Answers
  /\ NotStarted \in Answers
  /\ \A f \in Failure, e \in SUBSET Slot, s \in SUBSET Side :
       /\ SucceededJob(e, s) \in SyncJobRecord
       /\ FailedJob(f, e, s) \in SyncJobRecord
       /\ \A d, w \in BOOLEAN : CompletionAnswer(d, w, e, s) \in Answers
       /\ \A w \in BOOLEAN : FailureAnswer(f, w, e, s) \in Answers
<1> USE DEF SyncJobRecord, JobStatus, Answers
<1>1. NoJob \in SyncJobRecord /\ PendingJob \in SyncJobRecord
  BY DEF NoJob, PendingJob
<1>2. NoAnswer \in Answers /\ NotStarted \in Answers
  BY DEF NoAnswer, NotStarted
<1>3. ASSUME NEW f \in Failure, NEW e \in SUBSET Slot, NEW s \in SUBSET Side
      PROVE  /\ SucceededJob(e, s) \in SyncJobRecord
             /\ FailedJob(f, e, s) \in SyncJobRecord
             /\ \A d, w \in BOOLEAN : CompletionAnswer(d, w, e, s) \in Answers
             /\ \A w \in BOOLEAN : FailureAnswer(f, w, e, s) \in Answers
  <2>1. WriteMayBePartial(f) \in BOOLEAN
    BY DEF WriteMayBePartial
  <2>2. (IF Structured(f) THEN e ELSE {}) \in SUBSET Slot
    OBVIOUS
  <2>3. (IF Structured(f) THEN s ELSE {}) \in SUBSET Side
    OBVIOUS
  <2>4. SucceededJob(e, s) \in SyncJobRecord
    BY DEF SucceededJob
  <2>5. FailedJob(f, e, s) \in SyncJobRecord
    BY <2>1, <2>2, <2>3 DEF FailedJob
  <2>6. ASSUME NEW d \in BOOLEAN, NEW w \in BOOLEAN
        PROVE  CompletionAnswer(d, w, e, s) \in Answers
    BY DEF CompletionAnswer
  <2>7. ASSUME NEW w \in BOOLEAN
        PROVE  FailureAnswer(f, w, e, s) \in Answers
    BY <2>1, <2>2, <2>3 DEF FailureAnswer
  <2> QED
    BY <2>4, <2>5, <2>6, <2>7
<1> QED
  BY <1>1, <1>2, <1>3

LEMMA FinalizeTypes ==
  ASSUME RestoreTypeOK, NEW a \in Attempt, NEW record \in SyncJobRecord,
         NEW plain \in Answers, NEW warning \in Answers,
         Finalize(a, record, plain, warning)
  PROVE  RestoreTypeOK'
<1>1. jobs' \in [Attempt -> SyncJobRecord]
  BY DEF RestoreTypeOK, Finalize
<1>2. answer' \in [Attempt -> Answers]
  BY DEF RestoreTypeOK, Finalize
<1>3. phase' \in [Attempt -> Phase]
  BY DEF RestoreTypeOK, Finalize, Goto, Phase
<1> QED
  BY <1>1, <1>2, <1>3 DEF RestoreTypeOK, Finalize, progress

LEMMA TypeStep ==
  ASSUME RestoreTypeOK, [Next]_vars
  PROVE  RestoreTypeOK'
<1> USE DEF RestoreTypeOK, Phase, Failure, Goto, Throw, progress, verdicts
<1>1. CASE UNCHANGED vars
  BY <1>1 DEF vars
<1>2. ASSUME NEW a \in Attempt, Submit(a) PROVE RestoreTypeOK'
  <2>1. PICK b \in stored, d \in BOOLEAN, w \in BOOLEAN :
          request' = [request EXCEPT ![a] = [backup |-> b, dryRun |-> d, confirmWrite |-> w]]
    BY <1>2 DEF Submit
  <2>2. [backup |-> b, dryRun |-> d, confirmWrite |-> w] \in Request
    BY DEF Request
  <2> QED
    BY <1>2, <2>1, <2>2 DEF Submit
<1>3. ASSUME NEW a \in Attempt, CreateJob(a) \/ CreateJobFails(a) PROVE RestoreTypeOK'
  BY <1>3, RecordTypes DEF CreateJob, CreateJobFails
<1>4. ASSUME NEW a \in Attempt, Validate(a) \/ Export(a) \/ ExportFails(a) PROVE RestoreTypeOK'
  BY <1>4 DEF Validate, Export, ExportFails
<1>5. ASSUME NEW a \in Attempt, Persist(a) \/ PersistFails(a) PROVE RestoreTypeOK'
  <2>1. stored' \subseteq SUBSET RestoreRecord
    BY <1>5 DEF Persist, PersistFails
  <2>2. kept' \in [Attempt -> BOOLEAN] /\ phase' \in [Attempt -> Phase]
    BY <1>5 DEF Persist, PersistFails
  <2> QED
    BY <1>5, <2>1, <2>2 DEF Persist, PersistFails
<1>6. ASSUME NEW a \in Attempt, NEW n \in Slot,
             Preflight(a, n) \/ PreflightFails(a, n) \/ BeginImport(a, n)
      PROVE  RestoreTypeOK'
  BY <1>6 DEF Preflight, PreflightFails, BeginImport
<1>7. ASSUME NEW a \in Attempt, PreflightDone(a) \/ EndImport(a) \/ ImportFails(a) \/ ImportsDone(a)
      PROVE  RestoreTypeOK'
  BY <1>7 DEF PreflightDone, EndImport, ImportFails, ImportsDone
<1>8. ASSUME NEW a \in Attempt, Import(a) PROVE RestoreTypeOK'
  <2>1. PICK r \in Unsent(a) : /\ account' = Upserted(account, r)
                               /\ written' = [written EXCEPT ![a] = @ \cup {r}]
    BY <1>8 DEF Import
  <2>2. r \in RestoreRecord
    BY <2>1, UnsentIsOfTheBackup DEF Request
  <2>3. account' \subseteq RestoreRecord
    BY <2>1, <2>2 DEF Upserted
  <2> QED
    BY <1>8, <2>1, <2>2, <2>3 DEF Import
<1>9. ASSUME NEW a \in Attempt, CompleteJob(a) \/ FailJob(a) PROVE RestoreTypeOK'
  <2>1. Artifacts(a) \in SUBSET Side
    BY DEF Artifacts
  <2>2. CASE CompleteJob(a)
    BY <2>1, <2>2, RecordTypes, FinalizeTypes DEF CompleteJob, Request
  <2>3. CASE FailJob(a)
    BY <2>1, <2>3, RecordTypes, FinalizeTypes DEF FailJob
  <2> QED
    BY <1>9, <2>2, <2>3
<1>10. CASE Crash
  BY <1>10 DEF Crash
<1>11. CASE Edit
  <2>1. PICK r \in RestoreRecord : account' = Upserted(account, r)
    BY <1>11 DEF Edit
  <2>2. account' \subseteq RestoreRecord
    BY <2>1 DEF Upserted
  <2>3. edits' \in 0 .. MaxEdits
    BY <1>11, RestoreAssumption DEF Edit
  <2> QED
    BY <1>11, <2>2, <2>3 DEF Edit
<1> QED
  BY <1>1, <1>2, <1>3, <1>4, <1>5, <1>6, <1>7, <1>8, <1>9, <1>10, <1>11 DEF Next, Handle

\* Type correctness of every behaviour.
THEOREM RestoreTypeCorrect == Spec => []RestoreTypeOK
<1>1. ASSUME Init PROVE RestoreTypeOK
  <2>1. CoverTypeOK
    BY <1>1, CoverInit DEF CoverInv
  <2>2. edits \in 0 .. MaxEdits
    BY <1>1, RestoreAssumption DEF Init
  <2>3. jobs \in [Attempt -> SyncJobRecord] /\ answer \in [Attempt -> Answers]
    BY <1>1, RecordTypes DEF Init
  <2> QED
    BY <1>1, <2>1, <2>2, <2>3 DEF Init, RestoreTypeOK, CoverTypeOK, Failure
<1> QED
  BY <1>1, TypeStep, PTL DEF Spec

-----------------------------------------------------------------------------
(* The invariant behind protection and records *)

Unwritten(a) == begun[a] = {} /\ restored[a] = {} /\ written[a] = {}

\* Confirmed, with its snapshot under an identifier and every batch accepted.
Cleared(a) ==
  /\ request[a].confirmWrite /\ ~request[a].dryRun
  /\ kept[a] /\ snapshot[a] \in stored
  /\ Prepared(a) \subseteq preflighted[a]

Handling == {"validating", "exporting", "persisting", "preflight", "writing", "importing",
             "completing", "failing"}

JobPhase(a) ==
  /\ phase[a] \in {"idle", "creating"} => jobs[a] = NoJob
  /\ phase[a] \in Handling => jobs[a] = PendingJob

SnapshotPhase(a) ==
  /\ phase[a] \in {"idle", "creating", "validating", "exporting", "persisting", "preflight"} =>
       Unwritten(a)
  /\ phase[a] \in {"exporting", "persisting", "preflight"} =>
       request[a].dryRun \/ request[a].confirmWrite
  /\ phase[a] = "persisting" => ~request[a].dryRun
  /\ phase[a] = "preflight" /\ ~request[a].dryRun => kept[a] /\ snapshot[a] \in stored

WritePhase(a) ==
  /\ phase[a] \in {"writing", "importing"} => Cleared(a)
  /\ begun[a] # {} => Cleared(a) /\ jobs[a].status # "absent"
  /\ begun[a] \subseteq Prepared(a) /\ restored[a] \subseteq begun[a]
  /\ written[a] \subseteq UNION {OfFeature(request[a].backup, n) : n \in begun[a]}
  /\ \A n \in restored[a] : OfFeature(request[a].backup, n) \subseteq written[a]
  /\ phase[a] = "writing" => begun[a] = restored[a]
  /\ phase[a] = "completing" =>
       begun[a] = restored[a] /\ (~request[a].dryRun => restored[a] = Prepared(a))
  /\ phase[a] = "failing" =>
       \/ failure[a] \in {"generic", "preflight"} /\ begun[a] = {}
       \/ failure[a] = "write" /\ kept[a]

\* What RestoreRecordsTellTheTruth says of one request.
RecordPhase(a) ==
  Terminal(jobs[a]) =>
    /\ \A n \in jobs[a].executed : OfFeature(request[a].backup, n) \subseteq written[a]
    /\ jobs[a].status = "succeeded" /\ ~request[a].dryRun => jobs[a].executed = Prepared(a)
    /\ jobs[a].status = "failed" /\ written[a] # {} =>
         jobs[a].partial /\ jobs[a].artifacts = Side

PerRequest(a) == JobPhase(a) /\ SnapshotPhase(a) /\ WritePhase(a) /\ RecordPhase(a)

RestoreInv == RestoreTypeOK /\ \A a \in Attempt : PerRequest(a)

Unmoved(a) ==
  /\ phase'[a] = phase[a] /\ request'[a] = request[a] /\ snapshot'[a] = snapshot[a]
  /\ kept'[a] = kept[a] /\ preflighted'[a] = preflighted[a] /\ begun'[a] = begun[a]
  /\ restored'[a] = restored[a] /\ written'[a] = written[a] /\ failure'[a] = failure[a]
  /\ jobs'[a] = jobs[a] /\ stored \subseteq stored'

\* A request that no step moves keeps what the invariant says of it: backups stay.
LEMMA UnmovedKeeps ==
  ASSUME NEW a \in Attempt, PerRequest(a), Unmoved(a)
  PROVE  PerRequest(a)'
<1> USE DEF Unmoved, PerRequest
<1>1. JobPhase(a)'
  BY DEF JobPhase
<1>2. SnapshotPhase(a)'
  BY DEF SnapshotPhase, Unwritten
<1>3. Prepared(a)' = Prepared(a) /\ (Cleared(a) => Cleared(a)')
  BY DEF Prepared, Cleared
<1>4. WritePhase(a)'
  BY <1>3 DEF WritePhase
<1>5. RecordPhase(a)'
  BY <1>3 DEF RecordPhase
<1> QED
  BY <1>1, <1>2, <1>4, <1>5

\* A step of one request moves no other.
LEMMA OthersUnmoved ==
  ASSUME RestoreTypeOK, NEW a \in Attempt, NEW b \in Attempt, b # a, Submit(a) \/ Handle(a)
  PROVE  Unmoved(b)
<1> USE DEF RestoreTypeOK, Unmoved, Goto, Throw, progress, verdicts
<1>1. CASE Submit(a) \/ CreateJob(a) \/ CreateJobFails(a) \/ Validate(a)
  BY <1>1 DEF Submit, CreateJob, CreateJobFails, Validate
<1>2. CASE Export(a) \/ ExportFails(a) \/ Persist(a) \/ PersistFails(a)
  BY <1>2 DEF Export, ExportFails, Persist, PersistFails
<1>3. CASE \E n \in Slot : Preflight(a, n) \/ PreflightFails(a, n) \/ BeginImport(a, n)
  BY <1>3 DEF Preflight, PreflightFails, BeginImport
<1>4. CASE PreflightDone(a) \/ Import(a) \/ EndImport(a) \/ ImportFails(a) \/ ImportsDone(a)
  BY <1>4 DEF PreflightDone, Import, EndImport, ImportFails, ImportsDone
<1>5. CASE CompleteJob(a) \/ FailJob(a)
  BY <1>5 DEF CompleteJob, FailJob, Finalize
<1> QED
  BY <1>1, <1>2, <1>3, <1>4, <1>5 DEF Handle

\* Up to the preflight nothing is written and no verdict given.
LEMMA PreparingSteps ==
  ASSUME RestoreTypeOK, NEW a \in Attempt, PerRequest(a),
         \/ Submit(a) \/ CreateJob(a) \/ CreateJobFails(a) \/ Validate(a) \/ Export(a)
         \/ ExportFails(a) \/ Persist(a) \/ PersistFails(a)
  PROVE  PerRequest(a)'
<1> USE DEF RestoreTypeOK, PerRequest, Goto, Throw, progress, verdicts
<1>1. Unwritten(a) /\ Unwritten(a)'
  BY DEF SnapshotPhase, Unwritten, Submit, CreateJob, CreateJobFails, Validate, Export,
         ExportFails, Persist, PersistFails
<1>2. JobPhase(a)' /\ jobs'[a] \in {NoJob, PendingJob}
  BY DEF JobPhase, Handling, Submit, CreateJob, CreateJobFails, Validate, Export, ExportFails,
         Persist, PersistFails
<1>3. RecordPhase(a)'
  BY <1>2 DEF RecordPhase, Terminal, NoJob, PendingJob
<1>4. SnapshotPhase(a)'
  <2> USE <1>1 DEF SnapshotPhase, Unwritten
  <2>1. CASE Submit(a) \/ CreateJob(a) \/ CreateJobFails(a)
    BY <2>1 DEF Submit, CreateJob, CreateJobFails
  <2>2. CASE Validate(a) \/ Export(a) \/ ExportFails(a)
    BY <2>2 DEF Validate, Export, ExportFails, Request
  <2>3. CASE Persist(a) \/ PersistFails(a)
    BY <2>3 DEF Persist, PersistFails
  <2> QED
    BY <2>1, <2>2, <2>3
<1>5. /\ phase'[a] \notin {"writing", "importing", "completing"}
      /\ phase'[a] = "failing" => failure'[a] = "generic"
  BY DEF Submit, CreateJob, CreateJobFails, Validate, Export, ExportFails, Persist, PersistFails
<1>6. WritePhase(a)'
  BY <1>1, <1>5 DEF WritePhase, Unwritten
<1> QED
  BY <1>2, <1>3, <1>4, <1>6

\* The preflight and the write loop.
LEMMA WritingSteps ==
  ASSUME RestoreTypeOK, NEW a \in Attempt, PerRequest(a),
         \/ \E n \in Slot : Preflight(a, n) \/ PreflightFails(a, n) \/ BeginImport(a, n)
         \/ PreflightDone(a) \/ Import(a) \/ EndImport(a) \/ ImportFails(a) \/ ImportsDone(a)
  PROVE  PerRequest(a)'
<1> USE DEF RestoreTypeOK, Goto, Throw, progress, verdicts
<1>1. /\ phase[a] \in {"preflight", "writing", "importing"}
      /\ phase'[a] \in {"preflight", "writing", "importing", "completing", "failing"}
      /\ jobs'[a] = jobs[a] /\ request'[a] = request[a] /\ kept'[a] = kept[a]
      /\ snapshot'[a] = snapshot[a] /\ stored' = stored
      /\ preflighted[a] \subseteq preflighted'[a]
  BY DEF Preflight, PreflightFails, BeginImport, PreflightDone, Import, EndImport, ImportFails,
         ImportsDone
<1>2. jobs[a] = PendingJob
  BY <1>1 DEF PerRequest, JobPhase, Handling
<1>3. JobPhase(a)' /\ RecordPhase(a)'
  BY <1>1, <1>2 DEF JobPhase, RecordPhase, Terminal, PendingJob, NoJob
<1>4. Prepared(a)' = Prepared(a) /\ (Cleared(a) => Cleared(a)') /\ jobs'[a].status # "absent"
  BY <1>1, <1>2 DEF Prepared, Cleared, PendingJob, NoJob
<1>5. CASE \E n \in Slot : Preflight(a, n) \/ PreflightFails(a, n)
  <2>1. /\ Unwritten(a) /\ Unwritten(a)' /\ phase'[a] \in {"preflight", "failing"}
        /\ phase'[a] = "failing" => failure'[a] = "preflight"
    BY <1>5 DEF PerRequest, SnapshotPhase, Unwritten, Preflight, PreflightFails
  <2>2. SnapshotPhase(a)'
    BY <1>1, <1>5, <2>1 DEF PerRequest, SnapshotPhase, Preflight, PreflightFails
  <2>3. WritePhase(a)'
    BY <2>1 DEF WritePhase, Unwritten
  <2> QED
    BY <1>3, <2>2, <2>3 DEF PerRequest
<1>6. CASE PreflightDone(a)
  <2>1. Unwritten(a) /\ Unwritten(a)' /\ Prepared(a) \subseteq preflighted[a]
    BY <1>6 DEF PerRequest, SnapshotPhase, Unwritten, PreflightDone
  <2>2. phase'[a] = IF request[a].dryRun THEN "completing" ELSE "writing"
    BY <1>6 DEF PreflightDone
  <2>3. ~request[a].dryRun => Cleared(a)
    BY <1>6, <2>1 DEF PerRequest, SnapshotPhase, PreflightDone, Cleared
  <2>4. request[a].dryRun \in BOOLEAN
    BY DEF Request
  <2>5. SnapshotPhase(a)'
    BY <2>2, <2>4 DEF SnapshotPhase
  <2>6. WritePhase(a)'
    BY <1>1, <1>4, <2>1, <2>2, <2>3, <2>4 DEF WritePhase, Unwritten
  <2> QED
    BY <1>3, <2>5, <2>6 DEF PerRequest
<1>7. ASSUME phase[a] \in {"writing", "importing"}
      PROVE  PerRequest(a)'
  <2>1. Cleared(a) /\ Cleared(a)' /\ phase'[a] \in {"writing", "importing", "completing", "failing"}
    BY <1>4, <1>7 DEF PerRequest, WritePhase, Preflight, PreflightFails, BeginImport,
       PreflightDone, Import, EndImport, ImportFails, ImportsDone
  <2>2. SnapshotPhase(a)'
    BY <2>1 DEF SnapshotPhase
  <2>3. /\ begun[a] \subseteq Prepared(a) /\ restored[a] \subseteq begun[a]
        /\ written[a] \subseteq UNION {OfFeature(request[a].backup, n) : n \in begun[a]}
        /\ \A n \in restored[a] : OfFeature(request[a].backup, n) \subseteq written[a]
        /\ phase[a] = "writing" => begun[a] = restored[a]
    BY DEF PerRequest, WritePhase
  <2>4. /\ begun'[a] \subseteq Prepared(a)
        /\ restored'[a] \subseteq begun'[a]
        /\ written'[a] \subseteq UNION {OfFeature(request[a].backup, n) : n \in begun'[a]}
    <3>1. CASE \E n \in Slot : BeginImport(a, n)
      BY <2>3, <3>1 DEF BeginImport, InOrder
    <3>2. CASE Import(a)
      BY <2>3, <3>2 DEF Import, Unsent
    <3>3. CASE EndImport(a) \/ ImportFails(a) \/ ImportsDone(a)
      BY <2>3, <3>3 DEF EndImport, ImportFails, ImportsDone
    <3> QED
      BY <1>7, <3>1, <3>2, <3>3 DEF Preflight, PreflightFails, PreflightDone
  <2>5. \A n \in restored'[a] : OfFeature(request[a].backup, n) \subseteq written'[a]
    <3>1. CASE EndImport(a)
      <4>1. /\ Unsent(a) = {} /\ restored'[a] = begun[a] /\ written'[a] = written[a]
        BY <3>1 DEF EndImport
      <4>2. ASSUME NEW n \in begun[a]
            PROVE  OfFeature(request[a].backup, n) \subseteq written[a]
        BY <4>1 DEF Unsent
      <4> QED
        BY <4>1, <4>2
    <3>2. CASE ~EndImport(a)
      <4>1. restored'[a] = restored[a] /\ written[a] \subseteq written'[a]
        BY <3>2 DEF Preflight, PreflightFails, BeginImport, PreflightDone, Import, ImportFails,
           ImportsDone
      <4> QED
        BY <2>3, <4>1
    <3> QED
      BY <3>1, <3>2
  <2>6. phase'[a] = "writing" => begun'[a] = restored'[a]
    BY <1>7, <2>3 DEF Preflight, PreflightFails, BeginImport, PreflightDone, Import, EndImport,
       ImportFails, ImportsDone
  <2>7. phase'[a] = "completing" => begun'[a] = restored'[a] /\ restored'[a] = Prepared(a)
    <3>1. CASE ImportsDone(a)
      <4>1. begun[a] = restored[a] /\ restored[a] \subseteq Prepared(a) /\ Prepared(a) \subseteq restored[a]
        BY <2>3, <3>1 DEF ImportsDone
      <4>2. restored[a] = Prepared(a)
        BY <4>1
      <4> QED
        BY <3>1, <4>1, <4>2 DEF ImportsDone
    <3>2. CASE ~ImportsDone(a)
      BY <1>7, <3>2 DEF Preflight, PreflightFails, BeginImport, PreflightDone, Import, EndImport,
         ImportFails
    <3> QED
      BY <3>1, <3>2
  <2>8. phase'[a] = "failing" => failure'[a] = "write"
    BY <1>7 DEF Preflight, PreflightFails, BeginImport, PreflightDone, Import, EndImport,
       ImportFails, ImportsDone
  <2>9. kept'[a]
    BY <2>1 DEF Cleared
  <2>10. WritePhase(a)'
    BY <1>1, <1>4, <2>1, <2>4, <2>5, <2>6, <2>7, <2>8, <2>9 DEF WritePhase
  <2> QED
    BY <1>3, <2>2, <2>10 DEF PerRequest
<1> QED
  BY <1>5, <1>6, <1>7 DEF BeginImport, Import, EndImport, ImportFails, ImportsDone

\* completeSyncJob and failSyncJob write the record of what was restored.
LEMMA VerdictSteps ==
  ASSUME RestoreTypeOK, NEW a \in Attempt, PerRequest(a), CompleteJob(a) \/ FailJob(a)
  PROVE  PerRequest(a)'
<1> USE DEF RestoreTypeOK, Goto, progress
<1>1. /\ phase[a] \in {"completing", "failing"} /\ phase'[a] = "done"
      /\ request'[a] = request[a] /\ kept'[a] = kept[a] /\ snapshot'[a] = snapshot[a]
      /\ stored' = stored /\ preflighted'[a] = preflighted[a] /\ begun'[a] = begun[a]
      /\ restored'[a] = restored[a] /\ written'[a] = written[a]
  BY DEF CompleteJob, FailJob, Finalize
<1>2. jobs[a] = PendingJob
  BY <1>1 DEF PerRequest, JobPhase, Handling
<1>3. JobPhase(a)' /\ SnapshotPhase(a)'
  BY <1>1 DEF JobPhase, SnapshotPhase, Handling
<1>4. jobs'[a].status # "absent"
  <2>1. \/ jobs'[a] = jobs[a]
        \/ jobs'[a] = SucceededJob(restored[a], Artifacts(a))
        \/ jobs'[a] = FailedJob(failure[a], restored[a], Artifacts(a))
    BY DEF CompleteJob, FailJob, Finalize
  <2> QED
    BY <1>2, <2>1 DEF SucceededJob, FailedJob, PendingJob, NoJob
<1>5. WritePhase(a)'
  BY <1>1, <1>4 DEF PerRequest, WritePhase, Cleared, Prepared
<1>6. CASE CompleteJob(a)
  <2>1. jobs'[a] \in {PendingJob, SucceededJob(restored[a], Artifacts(a))}
    BY <1>2, <1>6 DEF CompleteJob, Finalize
  <2>2. /\ SucceededJob(restored[a], Artifacts(a)).status = "succeeded"
        /\ SucceededJob(restored[a], Artifacts(a)).executed = restored[a]
    BY DEF SucceededJob
  <2>3. /\ \A n \in restored[a] : OfFeature(request[a].backup, n) \subseteq written[a]
        /\ ~request[a].dryRun => restored[a] = Prepared(a)
    BY <1>6 DEF PerRequest, WritePhase, CompleteJob
  <2>4. RecordPhase(a)'
    BY <1>1, <2>1, <2>2, <2>3 DEF RecordPhase, Terminal, PendingJob, NoJob, Prepared
  <2> QED
    BY <1>3, <1>5, <2>4 DEF PerRequest
<1>7. CASE FailJob(a)
  <2> DEFINE record == FailedJob(failure[a], restored[a], Artifacts(a))
  <2>1. jobs'[a] \in {PendingJob, record}
    BY <1>2, <1>7 DEF FailJob, Finalize
  <2>2. record.status = "failed" /\ record.executed \subseteq restored[a]
    BY DEF FailedJob
  <2>3. \A n \in restored[a] : OfFeature(request[a].backup, n) \subseteq written[a]
    BY DEF PerRequest, WritePhase
  <2>4. written[a] # {} => record.partial /\ record.artifacts = Side
    <3>1. written[a] # {} => failure[a] = "write" /\ kept[a]
      BY <1>7 DEF PerRequest, WritePhase, FailJob
    <3> QED
      BY <3>1 DEF FailedJob, WriteMayBePartial, Structured, Artifacts
  <2>5. RecordPhase(a)'
    <3>1. CASE jobs'[a] = PendingJob
      BY <3>1 DEF RecordPhase, Terminal, PendingJob, NoJob
    <3>2. CASE jobs'[a] = record
      <4> HIDE DEF record
      <4>1. \A n \in jobs'[a].executed : OfFeature(request'[a].backup, n) \subseteq written'[a]
        BY <1>1, <2>2, <2>3, <3>2
      <4> QED
        BY <1>1, <2>2, <2>4, <3>2, <4>1 DEF RecordPhase
    <3> QED
      BY <2>1, <3>1, <3>2
  <2> QED
    BY <1>3, <1>5, <2>5 DEF PerRequest
<1> QED
  BY <1>6, <1>7

LEMMA RestoreInvStep ==
  ASSUME RestoreInv, [Next]_vars
  PROVE  RestoreInv'
<1> SUFFICES ASSUME NEW a \in Attempt PROVE PerRequest(a)'
  BY TypeStep DEF RestoreInv
<1>0. RestoreTypeOK /\ PerRequest(a)
  BY DEF RestoreInv
<1>1. CASE UNCHANGED vars
  BY <1>0, <1>1, UnmovedKeeps DEF vars, Unmoved
<1>2. CASE Edit
  BY <1>0, <1>2, UnmovedKeeps DEF Edit, Unmoved, progress, verdicts
<1>3. CASE Crash
  <2>1. /\ phase'[a] = phase[a] \/ phase'[a] = "crashed"
        /\ UNCHANGED <<stored, request, snapshot, kept, preflighted, begun, restored, written,
                       failure, jobs>>
    BY <1>0, <1>3 DEF Crash, progress, verdicts, RestoreTypeOK
  <2>2. CASE phase'[a] = phase[a]
    BY <1>0, <2>1, <2>2, UnmovedKeeps DEF Unmoved
  <2>3. CASE phase'[a] = "crashed"
    <3>1. JobPhase(a)' /\ SnapshotPhase(a)'
      BY <2>3 DEF JobPhase, SnapshotPhase, Handling
    <3>2. WritePhase(a)'
      BY <1>0, <2>1, <2>3 DEF PerRequest, WritePhase, Cleared, Prepared
    <3>3. RecordPhase(a)'
      BY <1>0, <2>1 DEF PerRequest, RecordPhase, Prepared
    <3> QED
      BY <3>1, <3>2, <3>3 DEF PerRequest
  <2> QED
    BY <2>1, <2>2, <2>3
<1>4. ASSUME NEW b \in Attempt, b # a, Submit(b) \/ Handle(b)
      PROVE  PerRequest(a)'
  BY <1>0, <1>4, OthersUnmoved, UnmovedKeeps
<1>5. CASE Submit(a) \/ Handle(a)
  BY <1>0, <1>5, PreparingSteps, WritingSteps, VerdictSteps DEF Handle
<1> QED
  BY <1>1, <1>2, <1>3, <1>4, <1>5 DEF Next

\* The inductive invariant: which snapshot, batches and record a request has in which phase.
THEOREM RestoreInvariantHolds == Spec => []RestoreInv
<1>1. ASSUME Init PROVE \A a \in Attempt : PerRequest(a)
  <2> SUFFICES ASSUME NEW a \in Attempt PROVE PerRequest(a)
    OBVIOUS
  <2> USE <1>1 DEF Init
  <2>1. phase[a] = "idle" /\ jobs[a] = NoJob /\ Unwritten(a)
    BY DEF Unwritten
  <2>2. JobPhase(a) /\ SnapshotPhase(a) /\ RecordPhase(a)
    BY <2>1 DEF JobPhase, SnapshotPhase, RecordPhase, Terminal, NoJob, Handling
  <2>3. WritePhase(a)
    BY <2>1 DEF WritePhase, Unwritten
  <2> QED
    BY <2>2, <2>3 DEF PerRequest
<1>2. Init => \A a \in Attempt : PerRequest(a)
  BY <1>1
<1>3. RestoreInv /\ [Next]_vars => RestoreInv'
  BY RestoreInvStep
<1>4. Init /\ RestoreTypeOK => RestoreInv
  BY <1>2 DEF RestoreInv
<1> QED
  BY <1>3, <1>4, RestoreTypeCorrect, PTL DEF Spec

\* restoreBackup writes only when the request was confirmed, its job recorded, its snapshot
\* stored under an identifier and every batch accepted, with other restores, failures and
\* crashes at any point; and it writes only records of its backup, in features that have an
\* importer and that it began.
THEOREM WritesAreProtected == Spec => []RestoreIsProtected
<1>1. RestoreInv => RestoreIsProtected
  BY DEF RestoreInv, PerRequest, WritePhase, Cleared, Prepared, RestoreIsProtected
<1> QED
  BY <1>1, RestoreInvariantHolds, PTL

\* A stored verdict names only features that are completely back, a success all of them,
\* and a failure that put records on the account is partial and names the snapshot.
THEOREM RecordsAreTrue == Spec => []RestoreRecordsTellTheTruth
<1>1. RestoreInv => RestoreRecordsTellTheTruth
  BY DEF RestoreInv, PerRequest, RecordPhase, RestoreRecordsTellTheTruth
<1> QED
  BY <1>1, RestoreInvariantHolds, PTL
=============================================================================
