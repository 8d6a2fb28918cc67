--------------------------- MODULE MCRecoveryPanel ---------------------------
(***************************************************************************)
(* Small instances of RecoveryPanel and, beside it, of AccountSyncForm:    *)
(* the two panels that write to accounts, which share nothing.  A          *)
(* behaviour is one of the former or of the latter, and the other one      *)
(* stays in its initial state.  Jobs and list requests are                 *)
(* interchangeable.                                                        *)
(***************************************************************************)
EXTENDS RecoveryPanel, TLC

CONSTANTS
  f1, f2, bad, ratings, target, j1, j2, l1, l2, d1,
  s1, c1, c2, Settings, MalformedSettings, Conflicts, MaxRequests, MaxEdits

VARIABLES
  panel,     \* which of the two
  base, syncDryRun, syncConfirm, choices, syncResult, syncApproved, reviewBase, syncInFlight,
  matches, syncAccepted, submitted, edits

syncForm == <<base, syncDryRun, syncConfirm, choices, syncResult, syncApproved, reviewBase,
              syncInFlight, matches, syncAccepted, submitted, edits>>

Interchangeable == Permutations(Jobs) \cup Permutations(Loads)

Sync == INSTANCE AccountSyncForm
  WITH Malformed <- MalformedSettings, dryRun <- syncDryRun, confirm <- syncConfirm,
       result <- syncResult, approved <- syncApproved, inFlight <- syncInFlight,
       accepted <- syncAccepted

ASSUME SyncConstants == Sync!FormAssumption

EitherInit ==
  /\ Init /\ Sync!Init
  /\ panel \in {"recovery", "account sync"}
  /\ panel = "recovery" =>
       base = [setting |-> s1, policy |-> "manual"] /\ \A s \in Settings : matches[s] = {}
  /\ panel = "account sync" => form = f1 /\ stored = {}

EitherNext ==
  \/ panel = "recovery" /\ Next /\ UNCHANGED <<panel, syncForm>>
  \/ panel = "account sync" /\ Sync!Next /\ UNCHANGED <<panel, vars>>

EitherSpec == EitherInit /\ [][EitherNext]_<<panel, vars, syncForm>>

\* A confirmed write is one the API previewed and has the decisions the page shows
\* (AccountSyncForm).
WhatIsShownIsWritten == Sync!WhatIsShownIsWritten
=============================================================================
