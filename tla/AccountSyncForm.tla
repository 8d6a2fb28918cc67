-------------------------- MODULE AccountSyncForm --------------------------
(***************************************************************************)
(* The account-sync panel of the web application and the API behind it:   *)
(* a user edits the settings, previews them, chooses a side for records    *)
(* the preview left unresolved, and confirms a write.  The settings stay   *)
(* editable while a request is under way, the request keeps the values it  *)
(* was sent with, and the choices of a user are kept by conflict           *)
(* identifier and never cleared.                                           *)
(* A base is what baseSyncSignature covers: a setting (the accounts,       *)
(* features, direction, contexts and identity overrides) and a policy.     *)
(***************************************************************************)
EXTENDS Naturals, FiniteSets, Functions

CONSTANTS
  Settings,     \* accounts, features, direction, contexts, overrides
  Malformed,    \* the settings whose context or overrides do not parse
  Conflicts,    \* conflict identifiers
  MaxRequests,  \* bound: requests the user submits
  MaxEdits,     \* bound: edits, choices and changes of the accounts
  Nothing       \* neither a request nor a signature

VARIABLES
  base,         \* [setting, policy] in the form
  dryRun,       \* the dry-run checkbox
  confirm,      \* the confirmation checkbox
  choices,      \* conflictResolutions: conflict -> side, for some conflicts
  result,       \* the details shown: conflict -> decision, for some
  approved,     \* approvedPreviewSignature, or Nothing
  reviewBase,   \* reviewBaseSignature, or Nothing
  inFlight,     \* the request under way with its dryRun, or Nothing
  matches,      \* per setting, the conflicts of the accounts just now
  accepted,     \* the dry runs the API accepted since the last write began
  submitted,    \* requests so far
  edits         \* edits so far

form == <<base, dryRun, confirm, choices>>
review == <<result, approved, reviewBase>>
vars == <<form, review, accepted, inFlight, matches, submitted, edits>>

Policies == {"manual", "source-wins"}
Sides == {"source", "target"}
Bases == [setting: Settings, policy: Policies]

\* One of the decisions for each of some conflicts.
For(decisions) == UNION {[found -> decisions] : found \in SUBSET Conflicts}

Signatures == [base: Bases, choices: For(Sides)]
Requests == [signature: Signatures, dryRun: BOOLEAN]

FormAssumption ==
  /\ Malformed \subseteq Settings
  /\ MaxRequests \in Nat /\ MaxEdits \in Nat
  /\ Nothing \notin Signatures \cup Requests

-----------------------------------------------------------------------------
(* What a render derives from the state.                                   *)

\* The choices for the records the current review shows, if that review is
\* of the base in the form.
ShownChoices ==
  IF reviewBase = base THEN Restrict(choices, DOMAIN choices \cap DOMAIN result)
                       ELSE Restrict(choices, {})

Signature == [base |-> base, choices |-> ShownChoices]

\* The preview compared without the choices.
PreviewMatchesBase == approved # Nothing /\ approved.base = base

PreviewMatches == approved = Signature

-----------------------------------------------------------------------------
(* The API.  A match is decided by the policy; under manual it is left     *)
(* unresolved or decided by the choice.  A choice that decides nothing     *)
(* refuses the request.                                                    *)

Decide(sig) ==
  [c \in matches[sig.base.setting] |->
    IF sig.base.policy # "manual" THEN "source"
    ELSE IF c \in DOMAIN sig.choices THEN sig.choices[c] ELSE "unresolved"]

\* A choice is used when its record is there and left to the user.
ChoicesAreUsed(sig) ==
  \/ DOMAIN sig.choices = {}
  \/ sig.base.policy = "manual" /\ DOMAIN sig.choices \subseteq matches[sig.base.setting]

-----------------------------------------------------------------------------
(* The user's inputs; all of them also work while a request is under way.  *)

Edited == edits < MaxEdits /\ edits' = edits + 1

\* An account, feature, policy, direction, context or JSON edit.
EditBase ==
  /\ Edited
  /\ \E b \in Bases \ {base} : base' = b
  /\ UNCHANGED <<dryRun, confirm, choices, review, accepted, inFlight, matches, submitted>>

\* Adding or removing an exact mapping is an edit that also resets the form.
SaveIdentityOverrides ==
  /\ Edited
  /\ \E s \in Settings \ {base.setting} : base' = [base EXCEPT !.setting = s]
  /\ dryRun' = TRUE /\ confirm' = FALSE
  /\ UNCHANGED <<choices, review, accepted, inFlight, matches, submitted>>

\* The dry-run checkbox.
UncheckDryRun ==
  /\ dryRun /\ PreviewMatches
  /\ dryRun' = FALSE
  /\ UNCHANGED <<base, confirm, choices, review, accepted, inFlight, matches, submitted, edits>>

CheckDryRun ==
  /\ ~dryRun
  /\ dryRun' = TRUE /\ confirm' = FALSE
  /\ UNCHANGED <<base, choices, review, accepted, inFlight, matches, submitted, edits>>

\* The confirmation checkbox.
ToggleConfirm ==
  /\ ~dryRun /\ PreviewMatches
  /\ confirm' = ~confirm
  /\ UNCHANGED <<base, dryRun, choices, review, accepted, inFlight, matches, submitted, edits>>

Unresolved == {c \in DOMAIN result : result[c] = "unresolved"}

With(c, decision) ==
  [d \in DOMAIN choices \cup {c} |-> IF d = c THEN decision ELSE choices[d]]

\* The choices after one for c; leaving it unresolved removes it.
NextChoices(c) ==
  {With(c, side) : side \in Sides} \cup {Restrict(choices, DOMAIN choices \ {c})}

\* Choosing or clearing a side, offered for unresolved records only.
ResolveConflict ==
  /\ Edited
  /\ \E c \in Unresolved : choices' \in NextChoices(c) \ {choices}
  /\ dryRun' = TRUE /\ confirm' = FALSE
  /\ UNCHANGED <<base, review, accepted, inFlight, matches, submitted>>

-----------------------------------------------------------------------------
(* Submitting and the answer.                                              *)

\* What the button asks for: a write needs its preview and confirmation.
SubmitEnabled == inFlight = Nothing /\ (dryRun \/ (PreviewMatches /\ confirm))

\* The result is cleared first; a setting that does not parse ends it here.
Submit ==
  /\ SubmitEnabled
  /\ submitted < MaxRequests /\ submitted' = submitted + 1
  /\ result' = Restrict(result, {})
  /\ IF base.setting \in Malformed
       THEN UNCHANGED <<inFlight, accepted>>
       ELSE /\ inFlight' = [signature |-> Signature, dryRun |-> dryRun]
            /\ accepted' = IF dryRun THEN accepted ELSE {}
  /\ UNCHANGED <<form, approved, reviewBase, matches, edits>>

\* After a write, whatever came of it: no preview, and a dry run again.
ResetAfterWrite ==
  /\ approved' = Nothing /\ reviewBase' = Nothing
  /\ dryRun' = TRUE /\ confirm' = FALSE

\* A preview is noted with the values it was sent with.
PreviewAccepted ==
  /\ inFlight # Nothing /\ inFlight.dryRun
  /\ ChoicesAreUsed(inFlight.signature)
  /\ result' = Decide(inFlight.signature)
  /\ approved' = inFlight.signature
  /\ reviewBase' = inFlight.signature.base
  /\ accepted' = accepted \cup {inFlight.signature}
  /\ inFlight' = Nothing
  /\ UNCHANGED <<form, matches, submitted, edits>>

WriteAccepted ==
  /\ inFlight # Nothing /\ ~inFlight.dryRun
  /\ ChoicesAreUsed(inFlight.signature)
  /\ result' = Decide(inFlight.signature)
  /\ ResetAfterWrite
  /\ inFlight' = Nothing
  /\ UNCHANGED <<base, choices, accepted, matches, submitted, edits>>

\* Refused, lost, or failed; a failed execution may show its details.
Failed ==
  /\ inFlight # Nothing
  /\ \/ UNCHANGED result
     \/ ~inFlight.dryRun /\ ChoicesAreUsed(inFlight.signature)
        /\ result' = Decide(inFlight.signature)
  /\ IF inFlight.dryRun THEN UNCHANGED <<approved, reviewBase, dryRun, confirm>>
                        ELSE ResetAfterWrite
  /\ inFlight' = Nothing
  /\ UNCHANGED <<base, choices, accepted, matches, submitted, edits>>

\* The accounts change: this write, or another program.
AccountsChange ==
  /\ Edited
  /\ \E s \in Settings, found \in SUBSET Conflicts :
       matches' = [matches EXCEPT ![s] = found]
  /\ UNCHANGED <<form, review, accepted, inFlight, submitted>>

-----------------------------------------------------------------------------

Init ==
  /\ base \in Bases /\ dryRun = TRUE /\ confirm = FALSE
  /\ choices = Restrict([c \in Conflicts |-> "source"], {})
  /\ result = Restrict([c \in Conflicts |-> "source"], {})
  /\ approved = Nothing /\ reviewBase = Nothing /\ inFlight = Nothing
  /\ matches \in [Settings -> SUBSET Conflicts]
  /\ accepted = {} /\ submitted = 0 /\ edits = 0

Next ==
  \/ EditBase \/ SaveIdentityOverrides \/ ResolveConflict
  \/ UncheckDryRun \/ CheckDryRun \/ ToggleConfirm
  \/ Submit \/ PreviewAccepted \/ WriteAccepted \/ Failed
  \/ AccountsChange

Spec == Init /\ [][Next]_vars

-----------------------------------------------------------------------------
(* Properties.                                                             *)

WriteSent == inFlight = Nothing /\ inFlight' # Nothing /\ ~inFlight'.dryRun

\* A write that is sent has the settings and choices of a dry run that the API accepted
\* since the last write began, whatever was edited or retried meanwhile, and the decisions on
\* the page are the ones it asks for: an unresolved record carries no choice, and a chosen one
\* that choice.
WhatIsShownIsWritten ==
  [][WriteSent =>
       /\ inFlight'.signature \in accepted
       /\ inFlight'.signature.base.policy = "manual" =>
            \A c \in DOMAIN result :
              IF c \in DOMAIN inFlight'.signature.choices
                THEN result[c] = inFlight'.signature.choices[c]
                ELSE result[c] = "unresolved"]_vars
=============================================================================
