------------------------------ MODULE JobStore ------------------------------
(***************************************************************************)
(* One stored sync job (apps/api/src/server.ts): the file that             *)
(* updateSyncJob finalizes and removeEligibleSyncJob deletes under the     *)
(* claim of withJobLock, and that readSyncJob reads without it.  A read    *)
(* that decrypted with the previous storage key writes the record back     *)
(* under the active key (rewriteMigratedStorageFile).                      *)
(*                                                                         *)
(* A read, a rename over the file and an unlink are atomic; everything     *)
(* between them interleaves, in one API process or in several.  A read that*)
(* writes back without the claim may bring back a record that was replaced *)
(* or deleted meanwhile (overwritten): the properties hold until then.     *)
(***************************************************************************)
EXTENDS JobLock

CONSTANTS
  Updater,     \* the calls made by updateSyncJob; removeEligibleSyncJob makes the others
  Reader,      \* executions of readSyncJob outside the claim
  KeyOf,       \* KeyOf[p]: the active storage key of the process that runs p
  FirstKey     \* the key under which the job was created

Process == Call \cup Reader
Key == {"old", "new"}

ASSUME StoreAssumption ==
  /\ Updater \subseteq Call
  /\ Reader \cap Call = {}
  /\ KeyOf \in [Process -> Key]
  /\ FirstKey \in Key

Verdict == {"succeeded", "failed"}

VARIABLES
  file,        \* the record on disk; expired: updatedAt lies before the retention cutoff
  seen,        \* seen[p]: the record p read
  step,        \* step[p]: how far p is with its read and its write
  result,      \* result[c]: what the guarded action of c returned
  overwritten  \* history: a read outside the claim wrote back a status that the disk no longer had

storeVars == <<file, seen, step, result, overwritten>>
vars == <<lockVars, storeVars>>

Record == [status : {"pending"} \cup Verdict, key : Key, expired : BOOLEAN]
NoFile == [status |-> "none", key |-> FirstKey, expired |-> FALSE]
Step == {"read", "migrate", "decide", "done"}
Result == {"none", "unavailable", "retained", "deleted", "error"} \cup Verdict

Init ==
  /\ LockInit
  /\ file \in {r \in Record : r.key = FirstKey}
  /\ seen = [p \in Process |-> NoFile]
  /\ step = [p \in Process |-> "read"]
  /\ result = [c \in Call |-> "none"]
  /\ overwritten = FALSE

Goto(p, s) == step' = [step EXCEPT ![p] = s]
Afterwards(p) == IF p \in Call THEN "decide" ELSE "done"

End(c, r) ==
  /\ Goto(c, "done")
  /\ result' = [result EXCEPT ![c] = r]
  /\ UNCHANGED <<seen, overwritten, lockVars>>

-----------------------------------------------------------------------------
(* readSyncJob *)

\* A process decrypts with its active key, and one that has the new key also with the old.
Decodes(p, r) == r.status # "none" /\ (KeyOf[p] = "new" \/ r.key = "old")

\* The body of a call runs while the call is inside its claim; a reader needs none.
InStep(p, s) == step[p] = s /\ (p \in Call => at[p] = "inside")

Read(p) ==
  /\ InStep(p, "read")
  /\ seen' = [seen EXCEPT ![p] = IF Decodes(p, file) THEN file ELSE NoFile]
  /\ Goto(p, IF Decodes(p, file) /\ file.key # KeyOf[p] THEN "migrate" ELSE Afterwards(p))
  /\ UNCHANGED <<file, result, overwritten, lockVars>>

\* rewriteMigratedStorageFile renames the re-encrypted record over whatever is there.
WriteBack(p) ==
  /\ file' = [seen[p] EXCEPT !.key = KeyOf[p]]
  /\ overwritten' = (overwritten \/ (p \in Reader /\ file.status # seen[p].status))

Migrate(p) ==
  /\ InStep(p, "migrate")
  /\ WriteBack(p)
  /\ Goto(p, Afterwards(p))
  /\ UNCHANGED <<seen, result, lockVars>>

\* An error, before or after the rename, makes the record unreadable for the caller.
MigrateFails(p) ==
  /\ p \in MayAbandon \cup Reader
  /\ InStep(p, "migrate")
  /\ WriteBack(p) \/ UNCHANGED <<file, overwritten>>
  /\ seen' = [seen EXCEPT ![p] = NoFile]
  /\ Goto(p, Afterwards(p))
  /\ UNCHANGED <<result, lockVars>>

-----------------------------------------------------------------------------
(* updateSyncJob *)

Finalized(c, v) == [status |-> v, key |-> KeyOf[c], expired |-> FALSE]

\* A plausible bug: a terminal record is overwritten.
UpdateBlindly(c) ==
  /\ c \in Updater
  /\ InStep(c, "decide")
  /\ \E v \in Verdict :
       IF seen[c] = NoFile THEN UNCHANGED file /\ End(c, "unavailable")
       ELSE file' = Finalized(c, v) /\ End(c, v)

\* A plausible bug: the update answers with its own verdict although a terminal record was kept.
UpdateAnswersPatch(c) ==
  /\ c \in Updater
  /\ InStep(c, "decide")
  /\ \E v \in Verdict :
       \/ seen[c] = NoFile /\ UNCHANGED file /\ End(c, "unavailable")
       \/ seen[c].status \in Verdict /\ UNCHANGED file /\ End(c, v)
       \/ seen[c].status = "pending" /\ file' = Finalized(c, v) /\ End(c, v)

Update(c) ==
  /\ c \in Updater
  /\ InStep(c, "decide")
  /\ \/ seen[c].status = "none" /\ UNCHANGED file /\ End(c, "unavailable")
     \/ seen[c].status \in Verdict /\ UNCHANGED file /\ End(c, seen[c].status)
     \/ /\ seen[c].status = "pending"
        /\ \E v \in Verdict : file' = Finalized(c, v) /\ End(c, v)

\* writeSyncJob throws, before or after the rename; the caller only sees the error.
UpdateFails(c) ==
  /\ c \in Updater \cap MayAbandon
  /\ InStep(c, "decide")
  /\ seen[c].status = "pending"
  /\ file' = file \/ \E v \in Verdict : file' = Finalized(c, v)
  /\ End(c, "unavailable")

-----------------------------------------------------------------------------
(* removeEligibleSyncJob *)

\* A plausible bug: only the age of the record decides.
RemoveByAge(c) ==
  /\ c \in Call \ Updater
  /\ InStep(c, "decide")
  /\ IF seen[c].expired
     THEN file' = NoFile /\ End(c, "deleted")
     ELSE UNCHANGED file /\ End(c, "retained")

Eligible(r) == r.status \in Verdict /\ r.expired

\* An unlink that finds no file reports an error.
Remove(c) ==
  /\ c \in Call \ Updater
  /\ InStep(c, "decide")
  /\ IF Eligible(seen[c])
     THEN file' = NoFile /\ End(c, IF file = NoFile THEN "error" ELSE "deleted")
     ELSE UNCHANGED file /\ End(c, "retained")

\* The unlink fails, which is counted and reported.
RemoveFails(c) ==
  /\ c \in Call \ Updater
  /\ InStep(c, "decide")
  /\ Eligible(seen[c])
  /\ UNCHANGED file
  /\ End(c, "error")

-----------------------------------------------------------------------------
(* The specification *)

\* Retention counts days, a read and its write take milliseconds.
AtWork(p) == InStep(p, "migrate") \/ InStep(p, "decide")

Expire ==
  /\ \A p \in Process : ~AtWork(p)
  /\ file # NoFile /\ ~file.expired
  /\ file' = [file EXCEPT !.expired = TRUE]
  /\ UNCHANGED <<lockVars, seen, step, result, overwritten>>

Lock(c) ==
  /\ Claiming(c) \/ (step[c] = "done" /\ Leave(c)) \/ Releasing(c) \/ Abandoning(c)
  /\ UNCHANGED storeVars

Next ==
  \/ \E p \in Process : Read(p) \/ Migrate(p) \/ MigrateFails(p)
  \/ \E c \in Call : Update(c) \/ UpdateFails(c) \/ Remove(c) \/ RemoveFails(c) \/ Lock(c)
  \/ Age /\ UNCHANGED storeVars
  \/ Expire

Spec == Init /\ [][Next]_vars

Work(c) ==
  \/ Read(c) \/ Migrate(c) \/ Update(c) \/ Remove(c)
  \/ /\ Claiming(c) \/ (step[c] = "done" /\ Leave(c)) \/ Releasing(c)
     /\ UNCHANGED storeVars

(***************************************************************************)
(* Fairness: a live process goes on with its file operations (the loop of  *)
(* withJobLock, its action and the finally block are one async function of *)
(* a running event loop), and time passes.                                 *)
(***************************************************************************)
FairSpec ==
  /\ Spec
  /\ \A c \in Call : WF_vars(Work(c))
  /\ WF_vars(Age /\ UNCHANGED storeVars)

-----------------------------------------------------------------------------
(* Properties *)

StoreTypeOK ==
  /\ LockTypeOK
  /\ file \in Record \cup {NoFile}
  /\ seen \in [Process -> Record \cup {NoFile}]
  /\ step \in [Process -> Step]
  /\ result \in [Call -> Result]
  /\ overwritten \in BOOLEAN

(***************************************************************************)
(* What the comment in updateSyncJob says: once a terminal record exists,  *)
(* nothing replaces it, neither another verdict nor the pending record it  *)
(* replaced.  A read that migrates without the claim may do the latter.    *)
(***************************************************************************)
TerminalRecordsStay ==
  [][file.status \in Verdict => file'.status \in {file.status, "none"}]_vars

(***************************************************************************)
(* That is the only way: while no read outside the claim wrote back a stale*)
(* record, a verdict is not overwritten, by a second update (updateSyncJob)*)
(* or by the records that the calls themselves re-encrypt under the claim. *)
(***************************************************************************)
VerdictStays ==
  [][file.status \in Verdict /\ ~overwritten' => file'.status \in {file.status, "none"}]_vars

(***************************************************************************)
(* Retention never deletes a pending job, whatever its age                 *)
(* (docs/DEPLOYMENT.md 103), although it decides on a record it read before*)
(* the unlink, and although migrating reads bring back older records.      *)
(***************************************************************************)
PendingNeverDeleted == [][file.status = "pending" => file' # NoFile]_vars

(***************************************************************************)
(* What updateSyncJob returns is what the disk holds, and goes on holding  *)
(* until retention deletes it: two updates of one job answer alike, while  *)
(* no read outside the claim wrote back a stale record.                    *)
(***************************************************************************)
ResultsAreDurable ==
  ~overwritten => \A c \in Updater : result[c] \in Verdict => file.status \in {result[c], "none"}

\* An update decides on a record that is still on disk, a deletion on a terminal one.
SeenIsCurrent ==
  \A c \in Call :
    step[c] = "decide" =>
      /\ at[c] \in {"inside", "crashed"}
      /\ at[c] = "inside" /\ c \in Updater /\ seen[c].status = "pending"
           => file.status = "pending"
      /\ seen[c].status \in Verdict => file.status \in {seen[c].status, "none"}

NothingMigrates == ~overwritten /\ \A p \in Process : step[p] # "migrate"

\* What is about to be deleted is not pending in any copy that may yet be written back.
Copies == {file} \cup {seen[p] : p \in {q \in Process : AtWork(q)}}
EligibleStaysSo == \A r, s \in Copies : Eligible(r) => s.status # "pending"

(***************************************************************************)
(* The invariant behind them, where no key is being rotated: what a guarded*)
(* action of withJobLock read is still true when it writes.                *)
(***************************************************************************)
StoreInvariant ==
  StoreTypeOK /\ SeenIsCurrent /\ NothingMigrates /\ ResultsAreDurable

=============================================================================
