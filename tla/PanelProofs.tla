----------------------------- MODULE PanelProofs -----------------------------
(***************************************************************************)
(* Proofs about the panels that write to accounts, for any forms, jobs and *)
(* overlapping requests.  RecoveryPanel: what the page shows of a restore  *)
(* and of the job history, and that a confirmed restore has a fresh        *)
(* preview.  The handler's answers pass the panel's checks because they    *)
(* carry what their records carry; the list matches the selection because, *)
(* until a restore loads it, one load is under way at a time and the       *)
(* selection stands still meanwhile.  AccountSyncForm: a confirmed sync    *)
(* was previewed and has the decisions on the page.                        *)
(***************************************************************************)
EXTENDS MCRecoveryPanel, TLAPS

USE PanelAssumption

LEMMA AnswersAreTyped ==
  ASSUME NEW request \in Requests
  PROVE  /\ \A reply \in Completions(request) : reply.answer \in Answers
         /\ \A reply \in Failures(request) : reply.answer \in Answers
<1>1. ASSUME NEW warned \in BOOLEAN PROVE Completed(request, warned).answer \in Answers
  BY DEF Completed, CompletionAnswer, Answers, Snapshots, Requests
<1>2. ASSUME NEW failure, NEW executed \in SUBSET Slot, NEW warned \in BOOLEAN
      PROVE  Stopped(request, failure, executed, warned).answer \in Answers
  BY DEF Stopped, FailureAnswer, Answers, Snapshots, WriteMayBePartial, Requests
<1> QED
  BY <1>1, <1>2 DEF Completions, Failures

\* An answer without a warning comes with a terminal record that says the same.
LEMMA StoredAnswersAreUnderstood ==
  ASSUME NEW request \in Requests
  PROVE  /\ \A reply \in Completions(request) :
              ~reply.answer.warning => SuccessUnderstood(request, reply)
         /\ \A reply \in Failures(request) : ~reply.answer.warning => FailureUnderstood(reply)
<1>1. ASSUME NEW warned \in BOOLEAN, ~Completed(request, warned).answer.warning
      PROVE  SuccessUnderstood(request, Completed(request, warned))
  BY <1>1 DEF Completed, CompletionAnswer, SucceededJob, SuccessUnderstood, HasActions
<1>2. ASSUME NEW failure, NEW executed, NEW warned \in BOOLEAN,
             ~Stopped(request, failure, executed, warned).answer.warning
      PROVE  FailureUnderstood(Stopped(request, failure, executed, warned))
  BY <1>2 DEF Stopped, FailureAnswer, FailedJob, FailureUnderstood
<1> QED
  BY <1>1, <1>2 DEF Completions, Failures

-----------------------------------------------------------------------------
(* The two halves of the state: the restore, and the job history beside it. *)

RestoreTypes ==
  /\ form \in Forms /\ dryRun \in BOOLEAN /\ confirm \in BOOLEAN
  /\ approved \in Forms \cup {Nothing} /\ accepted \subseteq Forms
  /\ inFlight \in Requests \cup {Nothing}
  /\ result \in Answers \cup {Nothing} /\ answered \in Answers \cup {Nothing}

HistoryTypes ==
  /\ jobsState \in {"idle", "loading", "loaded", "error"} /\ jobs \subseteq Jobs
  /\ selectedId \in Jobs \cup {Nothing} /\ detail \in Jobs \cup {Nothing}
  /\ detailLoading \in BOOLEAN /\ details \in [Details -> Jobs \cup {Nothing}]
  /\ loads \in [Loads -> [phase : {"none", "sent", "served"},
                           known : Jobs \cup {Nothing}, found : SUBSET Jobs]]
  /\ stored \subseteq Jobs /\ reloaded \in BOOLEAN

\* The gate is open for a form whose dry run succeeded.
GateIsApproved ==
  /\ ~dryRun => approved = form
  /\ inFlight # Nothing => inFlight.form = form
  /\ (inFlight = Nothing \/ inFlight.dryRun) /\ approved # Nothing => approved \in accepted

\* Until a restore loads the list, one load is under way, for the selection of the moment.
OneLoad ==
  ~reloaded =>
    \A r \in Loads : loads[r] # NoLoad =>
      /\ jobsState = "loading" /\ loads[r].known = selectedId
      /\ \A q \in Loads : loads[q] # NoLoad => q = r

RestoreInv == RestoreTypes /\ OutcomeIsShown /\ GateIsApproved
HistoryInv == HistoryTypes /\ SelectionIsListed /\ OneLoad

LEMMA NoLoadIsTyped ==
  NoLoad \in [phase : {"none", "sent", "served"}, known : Jobs \cup {Nothing}, found : SUBSET Jobs]
BY DEF NoLoad

\* What only concerns the history.
HistoryStep ==
  \/ \E r \in Loads : ClickLoad(r) \/ ListServed(r) \/ ListArrives(r) \/ ListFails(r)
  \/ \E r \in Details, id \in Jobs : SelectJob(r, id)
  \/ \E r \in Details : DetailEnds(r)
  \/ ServerChanges

LEMMA HistoryStepKeeps ==
  ASSUME HistoryInv, HistoryStep
  PROVE  HistoryInv'
<1> USE DEF history, selection
<1>0. HistoryTypes /\ SelectionIsListed /\ OneLoad
  BY DEF HistoryInv
<1>1. ASSUME NEW r \in Loads, ClickLoad(r) PROVE HistoryInv'
  <2>1. /\ loads[r] = NoLoad /\ jobsState # "loading" /\ jobsState' = "loading"
        /\ loads' = [loads EXCEPT ![r] = [phase |-> "sent", known |-> selectedId, found |-> {}]]
        /\ UNCHANGED <<jobs, selection, detailLoading, details, stored, reloaded>>
    BY <1>1 DEF ClickLoad, LoadJobs
  <2>2. HistoryTypes'
    BY <1>0, <2>1 DEF HistoryTypes
  <2>3. SelectionIsListed'
    BY <2>1 DEF SelectionIsListed
  <2>4. OneLoad'
    BY <1>0, <2>1 DEF OneLoad, HistoryTypes
  <2> QED
    BY <2>2, <2>3, <2>4 DEF HistoryInv
<1>2. ASSUME NEW r \in Loads, ListServed(r) PROVE HistoryInv'
  <2>1. /\ loads[r].phase = "sent"
        /\ loads' = [loads EXCEPT ![r].phase = "served", ![r].found = stored]
        /\ UNCHANGED <<jobsState, jobs, selection, detailLoading, details, stored, reloaded>>
    BY <1>2 DEF ListServed
  <2>2. /\ loads[r] # NoLoad /\ loads'[r].known = loads[r].known
        /\ \A q \in Loads : q # r => loads'[q] = loads[q]
    BY <1>0, <2>1 DEF HistoryTypes, NoLoad
  <2>3. HistoryTypes'
    BY <1>0, <2>1 DEF HistoryTypes
  <2>4. SelectionIsListed'
    BY <1>0, <2>1 DEF SelectionIsListed
  <2>5. OneLoad'
    BY <1>0, <2>1, <2>2 DEF OneLoad
  <2> QED
    BY <2>3, <2>4, <2>5 DEF HistoryInv
<1>3. ASSUME NEW r \in Loads, ListArrives(r) PROVE HistoryInv'
  <2>1. /\ loads[r].phase = "served" /\ jobs' = loads[r].found /\ jobsState' = "loaded"
        /\ DropSelection(r) /\ loads' = [loads EXCEPT ![r] = NoLoad]
        /\ UNCHANGED <<detailLoading, details, stored, reloaded>>
    BY <1>3 DEF ListArrives
  <2>2. HistoryTypes'
    BY <1>0, <2>1, NoLoadIsTyped DEF HistoryTypes, DropSelection
  <2>3. loads[r] # NoLoad /\ loads'[r] = NoLoad /\ \A q \in Loads : q # r => loads'[q] = loads[q]
    BY <1>0, <2>1 DEF HistoryTypes, NoLoad
  <2>4. SelectionIsListed'
    BY <1>0, <2>1, <2>3 DEF SelectionIsListed, OneLoad, DropSelection
  <2>5. OneLoad'
    BY <1>0, <2>1, <2>3 DEF OneLoad
  <2> QED
    BY <2>2, <2>4, <2>5 DEF HistoryInv
<1>4. ASSUME NEW r \in Loads, ListFails(r) PROVE HistoryInv'
  <2>1. /\ loads[r] # NoLoad /\ jobs' = {} /\ jobsState' = "error"
        /\ loads' = [loads EXCEPT ![r] = NoLoad]
        /\ UNCHANGED <<selection, detailLoading, details, stored, reloaded>>
    BY <1>4 DEF ListFails
  <2>2. HistoryTypes'
    BY <1>0, <2>1, NoLoadIsTyped DEF HistoryTypes
  <2>3. loads'[r] = NoLoad /\ \A q \in Loads : q # r => loads'[q] = loads[q]
    BY <1>0, <2>1 DEF HistoryTypes
  <2>4. SelectionIsListed' /\ OneLoad'
    BY <1>0, <2>1, <2>3 DEF SelectionIsListed, OneLoad
  <2> QED
    BY <2>2, <2>4 DEF HistoryInv
<1>5. ASSUME NEW r \in Details, NEW id \in Jobs, SelectJob(r, id) PROVE HistoryInv'
  <2>1. /\ jobsState = "loaded" /\ id \in jobs /\ selectedId' = id /\ detail' = Nothing
        /\ detailLoading' = TRUE /\ details' = [details EXCEPT ![r] = id]
        /\ UNCHANGED <<jobsState, jobs, loads, stored, reloaded>>
    BY <1>5 DEF SelectJob
  <2>2. HistoryTypes'
    BY <1>0, <2>1 DEF HistoryTypes
  <2>3. SelectionIsListed' /\ OneLoad'
    BY <1>0, <2>1 DEF SelectionIsListed, OneLoad
  <2> QED
    BY <2>2, <2>3 DEF HistoryInv
<1>6. ASSUME NEW r \in Details, DetailEnds(r) PROVE HistoryInv'
  <2>1. /\ detail' \in {detail, details[r]} /\ detailLoading' = FALSE
        /\ details' = [details EXCEPT ![r] = Nothing]
        /\ UNCHANGED <<jobsState, jobs, selectedId, loads, stored, reloaded>>
    BY <1>6 DEF DetailEnds
  <2>2. HistoryTypes'
    BY <1>0, <2>1 DEF HistoryTypes
  <2>3. SelectionIsListed' /\ OneLoad'
    BY <1>0, <2>1 DEF SelectionIsListed, OneLoad
  <2> QED
    BY <2>2, <2>3 DEF HistoryInv
<1>7. CASE ServerChanges
  BY <1>0, <1>7 DEF ServerChanges, HistoryInv, HistoryTypes, SelectionIsListed, OneLoad
<1> QED
  BY <1>1, <1>2, <1>3, <1>4, <1>5, <1>6, <1>7 DEF HistoryStep

\* A restore that ends with a job loads the list.
LEMMA ReloadKeeps ==
  ASSUME HistoryInv, inFlight \in Requests, Reload, stored' = stored
  PROVE  HistoryInv'
<1>0. HistoryTypes /\ inFlight.known \in Jobs \cup {Nothing}
  BY DEF HistoryInv, Requests
<1>1. PICK r \in Loads : LoadJobs(r, inFlight.known)
  BY DEF Reload
<1>2. /\ loads' = [loads EXCEPT ![r] = [phase |-> "sent", known |-> inFlight.known, found |-> {}]]
      /\ jobsState' = "loading" /\ reloaded' = TRUE
      /\ UNCHANGED <<jobs, selectedId, detail, detailLoading, details>>
  BY <1>1 DEF LoadJobs, Reload, selection
<1>3. HistoryTypes'
  BY <1>0, <1>2 DEF HistoryTypes
<1>4. SelectionIsListed' /\ OneLoad'
  BY <1>2 DEF SelectionIsListed, OneLoad
<1> QED
  BY <1>3, <1>4 DEF HistoryInv

LEMMA InputKeeps ==
  ASSUME RestoreInv, Edit \/ UncheckDryRun \/ CheckDryRun \/ ToggleConfirm \/ SubmitRestore,
         selectedId \in Jobs \cup {Nothing}
  PROVE  RestoreInv'
<1>0. RestoreTypes /\ OutcomeIsShown /\ GateIsApproved
  BY DEF RestoreInv
<1>1. CASE Edit
  BY <1>0, <1>1 DEF Edit, InvalidateRestorePreview, RestoreInv, RestoreTypes, OutcomeIsShown,
     GateIsApproved
<1>2. CASE UncheckDryRun \/ CheckDryRun \/ ToggleConfirm
  <2>1. /\ UNCHANGED <<form, approved, inFlight, result, accepted, answered>>
        /\ dryRun' \in BOOLEAN /\ confirm' \in BOOLEAN /\ (~dryRun' => approved = form)
    BY <1>0, <1>2 DEF UncheckDryRun, CheckDryRun, ToggleConfirm, RestoreTypes, GateIsApproved
  <2> QED
    BY <1>0, <2>1 DEF RestoreInv, RestoreTypes, OutcomeIsShown, GateIsApproved
<1>3. CASE SubmitRestore
  <2>1. /\ inFlight = Nothing /\ (dryRun \/ confirm)
        /\ result' = Nothing /\ answered' = Nothing /\ form' = form
    BY <1>3 DEF SubmitRestore
  <2>2. CASE form \in Malformed
    <3>1. UNCHANGED <<inFlight, accepted>> /\ AfterAttempt(dryRun)
      BY <1>3, <2>2 DEF SubmitRestore
    <3>2. RestoreTypes'
      BY <1>0, <2>1, <3>1 DEF RestoreTypes, AfterAttempt, gate
    <3> QED
      BY <1>0, <2>1, <3>1, <3>2 DEF RestoreInv, OutcomeIsShown, GateIsApproved, AfterAttempt, gate
  <2>3. CASE form \notin Malformed
    <3>1. /\ inFlight' = [form |-> form, dryRun |-> dryRun, known |-> selectedId]
          /\ accepted' = (IF dryRun THEN accepted ELSE {})
          /\ UNCHANGED <<dryRun, confirm, approved>>
      BY <1>3, <2>3 DEF SubmitRestore, gate
    <3>2. inFlight' \in Requests /\ inFlight'.form = form /\ inFlight'.dryRun = dryRun
      BY <1>0, <3>1 DEF Requests, RestoreTypes
    <3>3. RestoreTypes'
      BY <1>0, <2>1, <3>1, <3>2 DEF RestoreTypes
    <3> QED
      BY <1>0, <2>1, <3>1, <3>2, <3>3 DEF RestoreInv, OutcomeIsShown, GateIsApproved
  <2> QED
    BY <2>2, <2>3
<1> QED
  BY <1>1, <1>2, <1>3

LEMMA ReplyKeeps ==
  ASSUME RestoreInv, HistoryInv, RestoreSucceeds \/ RestoreFails \/ NoReply
  PROVE  RestoreInv' /\ HistoryInv'
<1>0. RestoreTypes /\ OutcomeIsShown /\ GateIsApproved
  BY DEF RestoreInv
<1>1. /\ inFlight # Nothing /\ inFlight' = Nothing /\ form' = form /\ stored' = stored
      /\ inFlight \in Requests /\ inFlight.form = form /\ inFlight.form \in Forms
  BY <1>0 DEF RestoreSucceeds, RestoreFails, NoReply, RestoreTypes, GateIsApproved, Requests
<1>2. UNCHANGED <<history, stored, reloaded>> => HistoryInv'
  BY DEF HistoryInv, HistoryTypes, SelectionIsListed, OneLoad, history, selection
\* The gate after an answer, and what is accepted.
<1>3. ASSUME accepted' = accepted, AfterAttempt(inFlight.dryRun)
      PROVE  /\ GateIsApproved' /\ accepted' \subseteq Forms /\ approved' \in Forms \cup {Nothing}
             /\ dryRun' \in BOOLEAN /\ confirm' \in BOOLEAN
  BY <1>0, <1>1, <1>3 DEF AfterAttempt, gate, GateIsApproved, RestoreTypes
<1>4. CASE RestoreSucceeds
  <2>1. PICK reply \in Completions(inFlight) :
          IF ~SuccessUnderstood(inFlight, reply)
          THEN Hide(reply) /\ AfterAttempt(inFlight.dryRun) /\ UNCHANGED accepted
          ELSE /\ Show(reply)
               /\ IF inFlight.dryRun
                  THEN /\ approved' = form
                       /\ accepted' = accepted \cup {inFlight.form}
                       /\ UNCHANGED <<dryRun, confirm>>
                  ELSE AfterAttempt(FALSE) /\ UNCHANGED accepted
    BY <1>4 DEF RestoreSucceeds
  <2>2. reply.answer \in Answers
        /\ (~SuccessUnderstood(inFlight, reply) => reply.answer.warning)
    BY <1>1, AnswersAreTyped, StoredAnswersAreUnderstood
  <2>3. CASE ~SuccessUnderstood(inFlight, reply)
    <3>1. /\ result' = Nothing /\ answered' = reply.answer /\ UNCHANGED <<history, reloaded>>
          /\ AfterAttempt(inFlight.dryRun) /\ accepted' = accepted
      BY <2>1, <2>3 DEF Hide
    <3>2. RestoreTypes' /\ OutcomeIsShown'
      BY <1>1, <1>3, <2>2, <2>3, <3>1 DEF RestoreTypes, OutcomeIsShown
    <3> QED
      BY <1>1, <1>2, <1>3, <3>1, <3>2 DEF RestoreInv
  <2>4. CASE SuccessUnderstood(inFlight, reply) /\ inFlight.dryRun
    <3>1. /\ result' = reply.answer /\ answered' = reply.answer /\ Reload
          /\ approved' = form /\ accepted' = accepted \cup {form}
          /\ UNCHANGED <<dryRun, confirm>>
      BY <1>1, <2>1, <2>4 DEF Show
    <3>2. RestoreTypes' /\ OutcomeIsShown'
      BY <1>0, <1>1, <2>2, <3>1 DEF RestoreTypes, OutcomeIsShown
    <3>3. GateIsApproved'
      BY <1>1, <3>1 DEF GateIsApproved
    <3> QED
      BY <1>1, <3>1, <3>2, <3>3, ReloadKeeps DEF RestoreInv
  <2>5. CASE SuccessUnderstood(inFlight, reply) /\ ~inFlight.dryRun
    <3>1. /\ result' = reply.answer /\ answered' = reply.answer /\ Reload
          /\ AfterAttempt(inFlight.dryRun) /\ accepted' = accepted
      BY <2>1, <2>5 DEF Show, AfterAttempt
    <3>2. RestoreTypes' /\ OutcomeIsShown'
      BY <1>1, <1>3, <2>2, <3>1 DEF RestoreTypes, OutcomeIsShown
    <3> QED
      BY <1>1, <1>3, <3>1, <3>2, ReloadKeeps DEF RestoreInv
  <2> QED
    BY <2>3, <2>4, <2>5
<1>5. CASE RestoreFails
  <2>1. PICK reply \in Failures(inFlight) :
          IF FailureUnderstood(reply) THEN Show(reply) ELSE Hide(reply)
    BY <1>5 DEF RestoreFails
  <2>2. AfterAttempt(inFlight.dryRun) /\ accepted' = accepted
    BY <1>5 DEF RestoreFails
  <2>3. reply.answer \in Answers /\ (~FailureUnderstood(reply) => reply.answer.warning)
    BY <1>1, AnswersAreTyped, StoredAnswersAreUnderstood
  <2>4. /\ answered' = reply.answer
        /\ result' = (IF FailureUnderstood(reply) THEN reply.answer ELSE Nothing)
    BY <2>1 DEF Show, Hide
  <2>5. RestoreTypes' /\ OutcomeIsShown'
    BY <1>1, <1>3, <2>2, <2>3, <2>4 DEF RestoreTypes, OutcomeIsShown
  <2>6. HistoryInv'
    BY <1>1, <1>2, <2>1, ReloadKeeps DEF Show, Hide
  <2> QED
    BY <1>3, <2>2, <2>5, <2>6 DEF RestoreInv
<1>6. CASE NoReply
  <2>1. /\ result' = Nothing /\ answered' = Nothing /\ AfterAttempt(inFlight.dryRun)
        /\ accepted' = accepted /\ UNCHANGED <<history, stored, reloaded>>
    BY <1>6 DEF NoReply
  <2>2. RestoreTypes' /\ OutcomeIsShown'
    BY <1>1, <1>3, <2>1 DEF RestoreTypes, OutcomeIsShown
  <2> QED
    BY <1>2, <1>3, <2>1, <2>2 DEF RestoreInv
<1> QED
  BY <1>4, <1>5, <1>6

LEMMA PanelInit == Init => RestoreInv /\ HistoryInv
<1> SUFFICES ASSUME Init PROVE RestoreInv /\ HistoryInv
  OBVIOUS
<1>1. RestoreInv
  BY DEF Init, RestoreInv, RestoreTypes, OutcomeIsShown, GateIsApproved
<1>2. HistoryInv
  BY NoLoadIsTyped DEF Init, HistoryInv, HistoryTypes, SelectionIsListed, OneLoad
<1> QED
  BY <1>1, <1>2

LEMMA PanelNext ==
  ASSUME RestoreInv, HistoryInv, [Next]_vars
  PROVE  RestoreInv' /\ HistoryInv'
<1>1. CASE UNCHANGED vars
  BY <1>1 DEF vars, restore, gate, history, selection, RestoreInv, RestoreTypes, OutcomeIsShown,
     GateIsApproved, HistoryInv, HistoryTypes, SelectionIsListed, OneLoad
<1>2. CASE HistoryStep
  <2>1. UNCHANGED restore
    BY <1>2 DEF HistoryStep, ClickLoad, ListServed, ListArrives, ListFails, SelectJob, DetailEnds,
       ServerChanges
  <2>2. RestoreInv'
    BY <2>1 DEF restore, gate, RestoreInv, RestoreTypes, OutcomeIsShown, GateIsApproved
  <2> QED
    BY <1>2, <2>2, HistoryStepKeeps
<1>3. CASE Edit \/ UncheckDryRun \/ CheckDryRun \/ ToggleConfirm \/ SubmitRestore
  <2>1. UNCHANGED <<history, stored, reloaded>>
    BY <1>3 DEF Edit, UncheckDryRun, CheckDryRun, ToggleConfirm, SubmitRestore
  <2>2. HistoryInv'
    BY <2>1 DEF HistoryInv, HistoryTypes, SelectionIsListed, OneLoad, history, selection
  <2>3. selectedId \in Jobs \cup {Nothing}
    BY DEF HistoryInv, HistoryTypes
  <2> QED
    BY <1>3, <2>2, <2>3, InputKeeps
<1>4. CASE RestoreSucceeds \/ RestoreFails \/ NoReply
  BY <1>4, ReplyKeeps
<1> QED
  BY <1>1, <1>2, <1>3, <1>4 DEF Next, HistoryStep

\* However the answers of overlapping requests arrive, the page shows what the
\* handler said of the last restore, and a selection from the list it shows.
THEOREM OutcomesAreShown == Spec => []StoredOutcomesAreShown
<1>1. RestoreInv /\ HistoryInv => StoredOutcomesAreShown
  BY DEF RestoreInv, RestoreTypes, HistoryInv, HistoryTypes, PanelTypeOK, StoredOutcomesAreShown
<1> QED
  BY <1>1, PanelInit, PanelNext, PTL DEF Spec

\* A confirmed restore is sent only of a form whose dry run succeeded since the
\* last confirmed attempt.
THEOREM RestoresArePreviewed == Spec => RestoredFromPreview
<1>1. RestoreInv /\ [Next]_vars =>
        [inFlight = Nothing /\ inFlight' # Nothing /\ ~inFlight'.dryRun
           => inFlight'.form \in accepted]_vars
  <2> SUFFICES ASSUME RestoreInv, [Next]_vars, inFlight = Nothing, inFlight' # Nothing,
                      ~inFlight'.dryRun
               PROVE  inFlight'.form \in accepted
    OBVIOUS
  <2>1. SubmitRestore
    BY DEF Next, vars, restore, history, Edit, UncheckDryRun, CheckDryRun, ToggleConfirm,
       RestoreSucceeds, RestoreFails, NoReply, ClickLoad, ListServed, ListArrives, ListFails,
       SelectJob, DetailEnds, ServerChanges
  <2>2. inFlight' = [form |-> form, dryRun |-> dryRun, known |-> selectedId]
    BY <2>1 DEF SubmitRestore
  <2>3. approved = form /\ form \in Forms /\ (approved # Nothing => approved \in accepted)
    BY <2>2 DEF RestoreInv, RestoreTypes, GateIsApproved
  <2> QED
    BY <2>2, <2>3
<1> QED
  BY <1>1, PanelInit, PanelNext, PTL DEF Spec, RestoredFromPreview

-----------------------------------------------------------------------------
(* The account-sync panel: AccountSyncForm, with the constants it shares   *)
(* with the recovery panel only by name.  What is accepted and what is     *)
(* shown agree with the approved preview, except while a write is away.    *)

FormTypes ==
  /\ base \in Sync!Bases /\ choices \in Sync!For(Sync!Sides)
  /\ syncDryRun \in BOOLEAN /\ syncConfirm \in BOOLEAN
  /\ syncResult \in Sync!For(Sync!Sides \cup {"unresolved"})
  /\ syncApproved \in Sync!Signatures \cup {Nothing}
  /\ syncInFlight \in Sync!Requests \cup {Nothing}
  /\ matches \in [Settings -> SUBSET Conflicts]

\* No write is away, or the write that is has not been answered yet.
NoWriteAway == syncInFlight # Nothing => syncInFlight.dryRun

ApprovedIsAccepted == syncApproved # Nothing /\ NoWriteAway => syncApproved \in syncAccepted

\* Whatever is shown beside an approved preview is what that preview decided.
ShowsApproved ==
  syncApproved # Nothing /\ syncApproved.base.policy = "manual" =>
    \A c \in DOMAIN syncResult :
      syncResult[c] = IF c \in DOMAIN syncApproved.choices THEN syncApproved.choices[c]
                                                          ELSE "unresolved"

FormInv == FormTypes /\ ApprovedIsAccepted /\ ShowsApproved

LEMMA RestrictedIsFor ==
  ASSUME NEW D, NEW f \in Sync!For(D), NEW S \in SUBSET DOMAIN f
  PROVE  Sync!Restrict(f, S) \in Sync!For(D) /\ DOMAIN Sync!Restrict(f, S) = S
<1>1. PICK found \in SUBSET Conflicts : f \in [found -> D]
  BY DEF Sync!For
<1>2. Sync!Restrict(f, S) \in [S -> D] /\ S \in SUBSET Conflicts
  BY <1>1 DEF Sync!Restrict
<1> QED
  BY <1>2 DEF Sync!For

LEMMA SignatureIsTyped == FormTypes => Sync!Signature \in Sync!Signatures
<1> SUFFICES ASSUME FormTypes PROVE Sync!Signature \in Sync!Signatures
  OBVIOUS
<1>1. choices \in Sync!For(Sync!Sides) /\ base \in Sync!Bases
  BY DEF FormTypes
<1>2. /\ (DOMAIN choices) \cap (DOMAIN syncResult) \in SUBSET DOMAIN choices
      /\ {} \in SUBSET DOMAIN choices
  OBVIOUS
<1>3. Sync!ShownChoices \in Sync!For(Sync!Sides)
  BY <1>1, <1>2, RestrictedIsFor DEF Sync!ShownChoices
<1> QED
  BY <1>1, <1>3 DEF Sync!Signature, Sync!Signatures

LEMMA DecisionsAreTyped ==
  ASSUME FormTypes, NEW sig \in Sync!Signatures
  PROVE  /\ Sync!Decide(sig) \in Sync!For(Sync!Sides \cup {"unresolved"})
         /\ sig.base.policy = "manual" =>
              \A c \in DOMAIN Sync!Decide(sig) :
                Sync!Decide(sig)[c] = IF c \in DOMAIN sig.choices THEN sig.choices[c]
                                                                 ELSE "unresolved"
<1> DEFINE found == matches[sig.base.setting]
<1>1. found \in SUBSET Conflicts
  BY DEF FormTypes, Sync!Signatures, Sync!Bases
<1>2. PICK some \in SUBSET Conflicts : sig.choices \in [some -> Sync!Sides]
  BY DEF Sync!Signatures, Sync!For
<1>3. Sync!Decide(sig) \in [found -> Sync!Sides \cup {"unresolved"}]
  BY <1>2 DEF Sync!Decide, Sync!Sides
<1>4. sig.base.policy = "manual" =>
        \A c \in DOMAIN Sync!Decide(sig) :
          Sync!Decide(sig)[c] = IF c \in DOMAIN sig.choices THEN sig.choices[c] ELSE "unresolved"
  BY DEF Sync!Decide
<1> QED
  BY <1>1, <1>3, <1>4 DEF Sync!For

LEMMA ChoosingIsTyped ==
  ASSUME FormTypes, NEW c \in Conflicts, NEW next \in Sync!NextChoices(c)
  PROVE  next \in Sync!For(Sync!Sides)
<1>1. PICK some \in SUBSET Conflicts : choices \in [some -> Sync!Sides]
  BY DEF FormTypes, Sync!For
<1>2. ASSUME NEW side \in Sync!Sides PROVE Sync!With(c, side) \in Sync!For(Sync!Sides)
  <2>1. Sync!With(c, side) \in [some \cup {c} -> Sync!Sides]
    BY <1>1, <1>2 DEF Sync!With
  <2> QED
    BY <2>1 DEF Sync!For
<1>3. (DOMAIN choices) \ {c} \in SUBSET DOMAIN choices
  OBVIOUS
<1>4. Sync!Restrict(choices, (DOMAIN choices) \ {c}) \in Sync!For(Sync!Sides)
  BY <1>3, RestrictedIsFor DEF FormTypes
<1> QED
  BY <1>2, <1>4 DEF Sync!NextChoices

LEMMA FormInit == Sync!Init => FormInv
<1> SUFFICES ASSUME Sync!Init PROVE FormInv
  OBVIOUS
<1>1. [c \in Conflicts |-> "source"] \in Sync!For(Sync!Sides)
  BY DEF Sync!For, Sync!Sides
<1>2. Sync!Restrict([c \in Conflicts |-> "source"], {}) \in Sync!For(Sync!Sides)
  BY <1>1, RestrictedIsFor
<1>3. Sync!For(Sync!Sides) \subseteq Sync!For(Sync!Sides \cup {"unresolved"})
  BY DEF Sync!For
<1>4. FormTypes
  BY <1>2, <1>3 DEF Sync!Init, FormTypes
<1> QED
  BY <1>4 DEF Sync!Init, FormInv, ApprovedIsAccepted, ShowsApproved

\* Inputs change neither the preview nor what is away.
FormInput ==
  \/ Sync!EditBase \/ Sync!SaveIdentityOverrides \/ Sync!ResolveConflict
  \/ Sync!UncheckDryRun \/ Sync!CheckDryRun \/ Sync!ToggleConfirm \/ Sync!AccountsChange

LEMMA InputKeepsForm ==
  ASSUME FormInv, FormInput
  PROVE  FormInv' /\ syncInFlight' = syncInFlight
<1>1. UNCHANGED <<syncResult, syncApproved, syncInFlight, syncAccepted>>
  BY DEF FormInput, Sync!EditBase, Sync!SaveIdentityOverrides, Sync!ResolveConflict,
     Sync!UncheckDryRun, Sync!CheckDryRun, Sync!ToggleConfirm, Sync!AccountsChange,
     Sync!form, Sync!review
<1>2. FormTypes
  BY DEF FormInv
<1>3. base' \in Sync!Bases
  BY <1>2 DEF FormInput, FormTypes, Sync!EditBase, Sync!SaveIdentityOverrides,
     Sync!ResolveConflict, Sync!UncheckDryRun, Sync!CheckDryRun, Sync!ToggleConfirm,
     Sync!AccountsChange, Sync!form, Sync!review, Sync!Bases
<1>4. choices' \in Sync!For(Sync!Sides)
  <2>1. CASE Sync!ResolveConflict
    <3>1. PICK c \in Sync!Unresolved : choices' \in Sync!NextChoices(c)
      BY <2>1 DEF Sync!ResolveConflict
    <3>2. c \in Conflicts
      BY <1>2 DEF FormTypes, Sync!Unresolved, Sync!For
    <3> QED
      BY <1>2, <3>1, <3>2, ChoosingIsTyped
  <2>2. CASE ~Sync!ResolveConflict
    <3>1. choices' = choices
      BY <2>2 DEF FormInput, Sync!EditBase, Sync!SaveIdentityOverrides, Sync!UncheckDryRun,
         Sync!CheckDryRun, Sync!ToggleConfirm, Sync!AccountsChange, Sync!form
    <3> QED
      BY <1>2, <3>1 DEF FormTypes
  <2> QED
    BY <2>1, <2>2
<1>5. syncDryRun' \in BOOLEAN /\ syncConfirm' \in BOOLEAN
  BY <1>2, Zenon DEF FormInput, FormTypes, Sync!EditBase, Sync!SaveIdentityOverrides,
     Sync!ResolveConflict, Sync!UncheckDryRun, Sync!CheckDryRun, Sync!ToggleConfirm,
     Sync!AccountsChange, Sync!form, Sync!review
<1>6. matches' \in [Settings -> SUBSET Conflicts]
  BY <1>2 DEF FormInput, FormTypes, Sync!EditBase, Sync!SaveIdentityOverrides,
     Sync!ResolveConflict, Sync!UncheckDryRun, Sync!CheckDryRun, Sync!ToggleConfirm,
     Sync!AccountsChange, Sync!form, Sync!review
<1>7. FormTypes'
  BY <1>1, <1>2, <1>3, <1>4, <1>5, <1>6 DEF FormTypes
<1> QED
  BY <1>1, <1>7 DEF FormInv, ApprovedIsAccepted, NoWriteAway, ShowsApproved

LEMMA SubmitKeepsForm ==
  ASSUME Sync!FormAssumption, FormInv, Sync!Submit
  PROVE  FormInv'
<1>1. FormTypes /\ Sync!Signature \in Sync!Signatures
  BY SignatureIsTyped DEF FormInv
<1>2. /\ syncInFlight = Nothing /\ syncApproved' = syncApproved
      /\ UNCHANGED <<base, syncDryRun, syncConfirm, choices, matches>>
      /\ syncResult' = Sync!Restrict(syncResult, {})
  BY DEF Sync!Submit, Sync!SubmitEnabled, Sync!form
<1>3. {} \in SUBSET DOMAIN syncResult
  OBVIOUS
<1>4. /\ syncResult' \in Sync!For(Sync!Sides \cup {"unresolved"})
      /\ DOMAIN syncResult' = {}
  BY <1>1, <1>2, <1>3, RestrictedIsFor DEF FormTypes
<1>5. \/ syncInFlight' = Nothing /\ syncAccepted' = syncAccepted
      \/ /\ syncInFlight' = [signature |-> Sync!Signature, dryRun |-> syncDryRun]
         /\ syncAccepted' = IF syncDryRun THEN syncAccepted ELSE {}
  BY <1>2 DEF Sync!Submit
<1>6. syncInFlight' \in Sync!Requests \cup {Nothing}
  BY <1>1, <1>5 DEF FormTypes, Sync!Requests
<1>7. FormTypes'
  BY <1>1, <1>2, <1>4, <1>6 DEF FormTypes
<1>8. ApprovedIsAccepted'
  <2>1. CASE syncInFlight' = Nothing /\ syncAccepted' = syncAccepted
    BY <1>2, <2>1 DEF FormInv, ApprovedIsAccepted, NoWriteAway
  <2>2. CASE /\ syncInFlight' = [signature |-> Sync!Signature, dryRun |-> syncDryRun]
             /\ syncAccepted' = IF syncDryRun THEN syncAccepted ELSE {}
    <3>1. syncInFlight' # Nothing /\ syncInFlight'.dryRun = syncDryRun
      BY <1>1, <2>2 DEF Sync!FormAssumption, FormTypes, Sync!Requests
    <3>2. syncDryRun => syncAccepted' = syncAccepted
      BY <2>2
    <3> QED
      BY <1>2, <3>1, <3>2, Zenon DEF FormInv, ApprovedIsAccepted, NoWriteAway
  <2> QED
    BY <1>5, <2>1, <2>2
<1>9. ShowsApproved'
  BY <1>4 DEF ShowsApproved
<1> QED
  BY <1>7, <1>8, <1>9 DEF FormInv

LEMMA AnswerKeepsForm ==
  ASSUME FormInv, Sync!PreviewAccepted \/ Sync!WriteAccepted \/ Sync!Failed
  PROVE  FormInv' /\ syncInFlight' = Nothing
<1>1. FormTypes /\ syncInFlight # Nothing /\ syncInFlight' = Nothing
  BY DEF FormInv, Sync!PreviewAccepted, Sync!WriteAccepted, Sync!Failed
<1> DEFINE sig == syncInFlight.signature
<1>2. sig \in Sync!Signatures /\ syncInFlight.dryRun \in BOOLEAN
  BY <1>1 DEF FormTypes, Sync!Requests
<1>3. /\ base' = base /\ choices' = choices /\ matches' = matches
      /\ \/ syncDryRun' = syncDryRun /\ syncConfirm' = syncConfirm
         \/ syncDryRun' = TRUE /\ syncConfirm' = FALSE
      /\ syncResult' = Sync!Decide(sig) \/ syncResult' = syncResult
  BY DEF Sync!PreviewAccepted, Sync!WriteAccepted, Sync!Failed, Sync!ResetAfterWrite, Sync!form
<1>4. \/ /\ syncApproved' = sig /\ syncResult' = Sync!Decide(sig)
         /\ syncAccepted' = syncAccepted \cup {sig}
      \/ syncApproved' = Nothing
      \/ /\ syncInFlight.dryRun
         /\ UNCHANGED <<syncResult, syncApproved, syncAccepted>>
  BY DEF Sync!PreviewAccepted, Sync!WriteAccepted, Sync!Failed, Sync!ResetAfterWrite
<1>5. FormTypes'
  <2>1. Sync!Decide(sig) \in Sync!For(Sync!Sides \cup {"unresolved"})
    BY <1>1, <1>2, DecisionsAreTyped
  <2>2. syncDryRun' \in BOOLEAN /\ syncConfirm' \in BOOLEAN
    BY <1>1, <1>3, Zenon DEF FormTypes
  <2> HIDE DEF sig
  <2> QED
    BY <1>1, <1>2, <1>3, <1>4, <2>1, <2>2 DEF FormTypes
<1>6. ApprovedIsAccepted'
  BY <1>1, <1>4 DEF FormInv, ApprovedIsAccepted, NoWriteAway
<1>7. ShowsApproved'
  <2>1. CASE syncApproved' = sig /\ syncResult' = Sync!Decide(sig)
    BY <1>1, <1>2, <2>1, DecisionsAreTyped DEF ShowsApproved
  <2>2. CASE syncApproved' = Nothing
    BY <2>2 DEF ShowsApproved
  <2>3. CASE UNCHANGED <<syncResult, syncApproved>>
    BY <2>3 DEF FormInv, ShowsApproved
  <2> QED
    BY <1>4, <2>1, <2>2, <2>3
<1> QED
  BY <1>1, <1>5, <1>6, <1>7 DEF FormInv

LEMMA FormNext ==
  ASSUME Sync!FormAssumption, FormInv, [Sync!Next]_(Sync!vars)
  PROVE  FormInv'
<1>1. CASE UNCHANGED Sync!vars
  BY <1>1 DEF Sync!vars, Sync!form, Sync!review, FormInv, FormTypes, ApprovedIsAccepted,
     NoWriteAway, ShowsApproved
<1>2. CASE Sync!Next
  BY <1>2, InputKeepsForm, SubmitKeepsForm, AnswerKeepsForm DEF Sync!Next, FormInput
<1> QED
  BY <1>1, <1>2

\* A sync write is sent only with settings and choices the API accepted as a dry
\* run since the last write began, and with the decisions the page shows.
THEOREM SyncsArePreviewed ==
  ASSUME Sync!FormAssumption PROVE Sync!Spec => WhatIsShownIsWritten
<1> DEFINE Sent ==
      Sync!WriteSent =>
        /\ syncInFlight'.signature \in syncAccepted
        /\ syncInFlight'.signature.base.policy = "manual" =>
             \A c \in DOMAIN syncResult :
               IF c \in DOMAIN syncInFlight'.signature.choices
                 THEN syncResult[c] = syncInFlight'.signature.choices[c]
                 ELSE syncResult[c] = "unresolved"
<1>1. FormInv /\ [Sync!Next]_(Sync!vars) => [Sent]_(Sync!vars)
  <2> SUFFICES ASSUME FormInv, [Sync!Next]_(Sync!vars), Sync!WriteSent PROVE Sent
    OBVIOUS
  <2>1. Sync!Submit
    <3>1. syncInFlight = Nothing /\ syncInFlight' # Nothing
      BY DEF Sync!WriteSent
    <3>2. ~UNCHANGED Sync!vars
      BY <3>1 DEF Sync!vars
    <3> QED
      BY <3>1, <3>2, InputKeepsForm, AnswerKeepsForm DEF Sync!Next, FormInput
  <2>2. syncInFlight' = [signature |-> Sync!Signature, dryRun |-> syncDryRun]
    BY <2>1 DEF Sync!WriteSent, Sync!Submit
  <2>3. syncApproved = Sync!Signature
    BY <2>1, <2>2 DEF Sync!WriteSent, Sync!Submit, Sync!SubmitEnabled, Sync!PreviewMatches
  <2>4. Sync!Signature # Nothing
    BY SignatureIsTyped DEF FormInv, Sync!FormAssumption
  <2>5. syncApproved \in syncAccepted
    BY <2>3, <2>4 DEF Sync!WriteSent, FormInv, ApprovedIsAccepted, NoWriteAway
  <2> HIDE DEF Sync!Signature
  <2>6. syncInFlight'.signature = syncApproved
    BY <2>2, <2>3
  <2> QED
    BY <2>3, <2>4, <2>5, <2>6 DEF FormInv, ShowsApproved
<1>2. FormInv /\ [Sync!Next]_(Sync!vars) => FormInv'
  BY FormNext
<1> HIDE DEF Sent
<1>3. Sync!Spec => [][Sent]_(Sync!vars)
  BY <1>1, <1>2, FormInit, PTL DEF Sync!Spec
<1> QED
  BY <1>3 DEF Sent, Sync!WhatIsShownIsWritten, WhatIsShownIsWritten
=============================================================================
