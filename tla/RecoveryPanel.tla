---------------------------- MODULE RecoveryPanel ----------------------------
(***************************************************************************)
(* The recovery panel of the web application (RestoreJobsPanel.tsx): the   *)
(* gate from the dry run of a restore to a confirmed one, what the panel   *)
(* makes of the restore handler's answers (AuditJob), which it checks      *)
(* strictly before it shows anything, and the job history beside it, a     *)
(* list and the detail of one selected job.                                *)
(*                                                                         *)
(* The inputs of the restore are disabled while it is under way; the job   *)
(* history is not.  A restore that ends with a job loads the list, which   *)
(* may overlap with loads the user asked for.  A list answer is applied    *)
(* whenever it arrives, and compares with the selection that the render    *)
(* knew which made its request: for the list a restore loads, the render   *)
(* in which the restore was submitted.                                     *)
(*                                                                         *)
(* A form is the backup, the service and the connector context; the slots  *)
(* of AuditJob are the features the restore has to write.                  *)
(***************************************************************************)
EXTENDS Naturals, AuditJob

CONSTANTS
  Forms,       \* backup, service and context in the inputs
  Malformed,   \* the forms buildBackupRestoreRequest does not accept
  Jobs,        \* job identifiers
  Loads,       \* list requests that can be under way at once
  Details,     \* detail requests that can be under way at once
  Nothing      \* no form, request, answer, result, job or selection

VARIABLES
  form,       \* the inputs
  dryRun,     \* the dry-run checkbox
  confirm,    \* the confirmation checkbox
  approved,   \* approvedPreviewSignature, or Nothing
  inFlight,   \* restoring: the request and the selection it knows, or Nothing
  result,     \* restoreResult, or Nothing
  accepted,   \* forms whose dry run succeeded since the last confirmed attempt
  answered,   \* the answer to the last request, until an edit or a request
  jobsState,  \* "idle", "loading", "loaded" or "error"
  jobs,       \* the list on the page
  selectedId, \* the selected job, or Nothing
  detail,     \* the job whose detail is shown, or Nothing
  detailLoading,
  loads,      \* per list request: its phase, the selection it knows, what it found
  details,    \* per detail request: the job it asks for, or Nothing
  stored,     \* the jobs on the server
  reloaded    \* whether a restore has loaded the list

gate == <<dryRun, confirm, approved>>
restore == <<form, gate, inFlight, result, accepted, answered>>
selection == <<selectedId, detail>>
history == <<jobsState, jobs, selection, detailLoading, loads, details>>
vars == <<restore, history, stored, reloaded>>

Requests == [form : Forms, dryRun : BOOLEAN, known : Jobs \cup {Nothing}]

ASSUME PanelAssumption ==
  Malformed \subseteq Forms /\ Nothing \notin Forms \cup Jobs \cup Requests

NoLoad == [phase |-> "none", known |-> Nothing, found |-> {}]

Init ==
  /\ form \in Forms /\ dryRun = TRUE /\ confirm = FALSE /\ approved = Nothing
  /\ inFlight = Nothing /\ result = Nothing /\ accepted = {} /\ answered = Nothing
  /\ jobsState = "idle" /\ jobs = {}
  /\ selectedId = Nothing /\ detail = Nothing /\ detailLoading = FALSE
  /\ loads = [r \in Loads |-> NoLoad] /\ details = [r \in Details |-> Nothing]
  /\ stored \in SUBSET Jobs /\ reloaded = FALSE
-----------------------------------------------------------------------------
(* The answers of the handler, each with the job it carries.               *)

Snapshots(request) == IF request.dryRun THEN {} ELSE Side

Completed(request, warned) ==
  LET executed == IF request.dryRun THEN {} ELSE Slot IN
  [answer |-> CompletionAnswer(request.dryRun, warned, executed, Snapshots(request)),
   job    |-> IF warned THEN PendingJob ELSE SucceededJob(executed, Snapshots(request))]

Stopped(request, failure, executed, warned) ==
  [answer |-> FailureAnswer(failure, warned, executed, Snapshots(request)),
   job    |-> IF warned THEN PendingJob ELSE FailedJob(failure, executed, Snapshots(request))]

Completions(request) == {Completed(request, warned) : warned \in BOOLEAN}

\* Only a confirmed restore fails while it writes.
Failures(request) ==
  {Stopped(request, failure, {}, warned) :
     failure \in {"generic", "preflight"}, warned \in BOOLEAN} \cup
  {Stopped(request, "write", executed, warned) :
     executed \in IF request.dryRun THEN {} ELSE (SUBSET Slot) \ {Slot}, warned \in BOOLEAN}

HasActions(job) == job.status # "pending"

\* A success has one action per feature and a snapshot if it wrote; its job,
\* which may be pending if there is a warning, must have the same of both.
SuccessUnderstood(request, reply) ==
  /\ reply.job.status = "succeeded" \/ (reply.job.status = "pending" /\ reply.answer.warning)
  /\ HasActions(reply.job)
  /\ reply.answer.artifacts = Snapshots(request)
  /\ reply.job.artifacts = reply.answer.artifacts

\* A plausible bug: a failed job must have written something.
FailureUnderstoodStrictly(reply) ==
  /\ reply.job.status = "failed"
  /\ reply.job.executed # {} /\ reply.job.artifacts = reply.answer.artifacts

FailureUnderstood(reply) ==
  /\ reply.job.status = "failed" \/ (reply.job.status = "pending" /\ reply.answer.warning)
  /\ reply.answer.artifacts # {} => reply.job.artifacts = reply.answer.artifacts
-----------------------------------------------------------------------------
(* The job history.                                                        *)

\* loadJobs, as called by a render that knows this selection.
LoadJobs(r, known) ==
  /\ loads[r] = NoLoad
  /\ loads' = [loads EXCEPT ![r] = [phase |-> "sent", known |-> known, found |-> {}]]
  /\ jobsState' = "loading"

\* The button, disabled while loading.
ClickLoad(r) ==
  /\ jobsState # "loading"
  /\ LoadJobs(r, selectedId)
  /\ UNCHANGED <<restore, jobs, selection, detailLoading, details, stored, reloaded>>

\* The server reads the list; the answer is still on its way.
ListServed(r) ==
  /\ loads[r].phase = "sent"
  /\ loads' = [loads EXCEPT ![r].phase = "served", ![r].found = stored]
  /\ UNCHANGED <<restore, jobsState, jobs, selection, detailLoading, details, stored, reloaded>>

\* A loaded list drops the selection if the one its request knows is gone.
DropSelection(r) ==
  IF loads[r].known # Nothing /\ loads[r].known \notin loads[r].found
  THEN selectedId' = Nothing /\ detail' = Nothing
  ELSE UNCHANGED selection

ListArrives(r) ==
  /\ loads[r].phase = "served"
  /\ jobs' = loads[r].found /\ jobsState' = "loaded"
  /\ DropSelection(r)
  /\ loads' = [loads EXCEPT ![r] = NoLoad]
  /\ UNCHANGED <<restore, detailLoading, details, stored, reloaded>>

ListFails(r) ==
  /\ loads[r] # NoLoad
  /\ jobs' = {} /\ jobsState' = "error"
  /\ loads' = [loads EXCEPT ![r] = NoLoad]
  /\ UNCHANGED <<restore, selection, detailLoading, details, stored, reloaded>>

\* A row of the list.
SelectJob(r, id) ==
  /\ details[r] = Nothing
  /\ jobsState = "loaded" /\ id \in jobs
  /\ selectedId' = id /\ detail' = Nothing /\ detailLoading' = TRUE
  /\ details' = [details EXCEPT ![r] = id]
  /\ UNCHANGED <<restore, jobsState, jobs, loads, stored, reloaded>>

\* The job's detail, or only an error if it is unknown or the request fails.
DetailEnds(r) ==
  /\ details[r] # Nothing
  /\ \/ details[r] \in stored /\ detail' = details[r]
     \/ UNCHANGED detail
  /\ detailLoading' = FALSE
  /\ details' = [details EXCEPT ![r] = Nothing]
  /\ UNCHANGED <<restore, jobsState, jobs, selectedId, loads, stored, reloaded>>

\* Other requests store jobs, and the retention deletes them.
ServerChanges ==
  /\ stored' \in (SUBSET Jobs) \ {stored}
  /\ UNCHANGED <<restore, history, reloaded>>
-----------------------------------------------------------------------------
(* The inputs of the restore.                                              *)

InvalidateRestorePreview ==
  /\ approved' = Nothing /\ dryRun' = TRUE /\ confirm' = FALSE
  /\ result' = Nothing

Edit ==
  /\ inFlight = Nothing
  /\ form' \in Forms \ {form}
  /\ InvalidateRestorePreview
  /\ answered' = Nothing
  /\ UNCHANGED <<inFlight, accepted, history, stored, reloaded>>

UncheckDryRun ==
  /\ inFlight = Nothing /\ dryRun /\ approved = form
  /\ dryRun' = FALSE
  /\ UNCHANGED <<form, confirm, approved, inFlight, result, accepted, answered, history,
                 stored, reloaded>>

CheckDryRun ==
  /\ inFlight = Nothing /\ ~dryRun
  /\ dryRun' = TRUE /\ confirm' = FALSE
  /\ UNCHANGED <<form, approved, inFlight, result, accepted, answered, history, stored,
                 reloaded>>

\* The confirmation does not look at the preview again.
ToggleConfirm ==
  /\ inFlight = Nothing /\ ~dryRun
  /\ confirm' = ~confirm
  /\ UNCHANGED <<form, dryRun, approved, inFlight, result, accepted, answered, history,
                 stored, reloaded>>

\* A plausible bug: after a failed confirmed attempt the gate stays open.
KeepAfterAttempt(dry) == UNCHANGED gate

\* After a confirmed attempt, whatever came of it, a preview is due again.
AfterAttempt(dry) ==
  IF dry THEN UNCHANGED gate
  ELSE approved' = Nothing /\ dryRun' = TRUE /\ confirm' = FALSE

\* A form that is not accepted is reported without a request.
SubmitRestore ==
  /\ inFlight = Nothing /\ (dryRun \/ confirm)
  /\ result' = Nothing /\ answered' = Nothing
  /\ IF form \in Malformed
     THEN UNCHANGED <<inFlight, accepted>> /\ AfterAttempt(dryRun)
     ELSE /\ inFlight' = [form |-> form, dryRun |-> dryRun, known |-> selectedId]
          /\ accepted' = IF dryRun THEN accepted ELSE {}
          /\ UNCHANGED gate
  /\ UNCHANGED <<form, history, stored, reloaded>>
-----------------------------------------------------------------------------
(* The answer.                                                             *)

\* The list is loaded again, for the selection of the submitting render.
Reload ==
  /\ \E r \in Loads : LoadJobs(r, inFlight.known)
  /\ reloaded' = TRUE
  /\ UNCHANGED <<jobs, selection, detailLoading, details>>

Show(reply) ==
  /\ result' = reply.answer /\ answered' = reply.answer
  /\ Reload

\* Only an error is shown, and the list stays.
Hide(reply) ==
  /\ result' = Nothing /\ answered' = reply.answer
  /\ UNCHANGED <<history, reloaded>>

RestoreSucceeds ==
  /\ inFlight # Nothing
  /\ \E reply \in Completions(inFlight) :
       IF ~SuccessUnderstood(inFlight, reply)
       THEN Hide(reply) /\ AfterAttempt(inFlight.dryRun) /\ UNCHANGED accepted
       ELSE /\ Show(reply)
            /\ IF inFlight.dryRun
               THEN /\ approved' = form
                    /\ accepted' = accepted \cup {inFlight.form}
                    /\ UNCHANGED <<dryRun, confirm>>
               ELSE AfterAttempt(FALSE) /\ UNCHANGED accepted
  /\ inFlight' = Nothing
  /\ UNCHANGED <<form, stored>>

RestoreFails ==
  /\ inFlight # Nothing
  /\ \E reply \in Failures(inFlight) :
       IF FailureUnderstood(reply) THEN Show(reply) ELSE Hide(reply)
  /\ AfterAttempt(inFlight.dryRun)
  /\ inFlight' = Nothing
  /\ UNCHANGED <<form, accepted, stored>>

\* Refused before a job existed, or the answer is lost.
NoReply ==
  /\ inFlight # Nothing
  /\ result' = Nothing /\ answered' = Nothing
  /\ AfterAttempt(inFlight.dryRun)
  /\ inFlight' = Nothing
  /\ UNCHANGED <<form, accepted, history, stored, reloaded>>
-----------------------------------------------------------------------------
Next ==
  \/ Edit \/ UncheckDryRun \/ CheckDryRun \/ ToggleConfirm \/ SubmitRestore
  \/ RestoreSucceeds \/ RestoreFails \/ NoReply
  \/ \E r \in Loads : ClickLoad(r) \/ ListServed(r) \/ ListArrives(r) \/ ListFails(r)
  \/ \E r \in Details, id \in Jobs : SelectJob(r, id)
  \/ \E r \in Details : DetailEnds(r)
  \/ ServerChanges

Spec == Init /\ [][Next]_vars
-----------------------------------------------------------------------------
PanelTypeOK ==
  /\ form \in Forms /\ dryRun \in BOOLEAN /\ confirm \in BOOLEAN
  /\ approved \in Forms \cup {Nothing} /\ accepted \subseteq Forms
  /\ inFlight \in Requests \cup {Nothing}
  /\ result \in Answers \cup {Nothing} /\ answered \in Answers \cup {Nothing}
  /\ jobsState \in {"idle", "loading", "loaded", "error"} /\ jobs \subseteq Jobs
  /\ selectedId \in Jobs \cup {Nothing} /\ detail \in Jobs \cup {Nothing}
  /\ detailLoading \in BOOLEAN /\ details \in [Details -> Jobs \cup {Nothing}]
  /\ loads \in [Loads -> [phase : {"none", "sent", "served"},
                           known : Jobs \cup {Nothing}, found : SUBSET Jobs]]
  /\ stored \subseteq Jobs /\ reloaded \in BOOLEAN

\* submitRestore: a confirmed restore is sent only of a form whose dry run
\* succeeded since the last confirmed attempt: none is retried from a stale
\* preview.
RestoredFromPreview ==
  [][inFlight = Nothing /\ inFlight' # Nothing /\ ~inFlight'.dryRun
       => inFlight'.form \in accepted]_vars

\* Until the user goes on, the page shows what the handler said of a failed or partial
\* restore whose record could be stored.
OutcomeIsShown == answered # Nothing /\ ~answered.warning => result = answered

\* As long as no restore has loaded the list beside it, the selection is a row of the loaded
\* list, or gone with it.
SelectionIsListed ==
  jobsState = "loaded" /\ selectedId # Nothing /\ ~reloaded => selectedId \in jobs

\* postBackupRestore and loadJobs: however the answers of overlapping requests arrive and
\* whatever the server deletes, the page shows the outcome of the last restore, with its
\* snapshot, what was restored and whether to retry, and a selection from the list it shows.
StoredOutcomesAreShown == PanelTypeOK /\ OutcomeIsShown /\ SelectionIsListed
=============================================================================
