--------------------------- MODULE StorageProofs ---------------------------
(***************************************************************************)
(* Proofs about what the API stores, in five parts: the claim file alone   *)
(* (JobLock); the record it guards (JobStore) where no storage key is being*)
(* rotated; the record while keys are rotated; the retention of jobs and   *)
(* snapshots (RetentionCleanup); and how often it runs (CleanupThrottle).  *)
(* Without a rotation a record is never re-encrypted, and what a guarded   *)
(* action read still holds when it writes, for either of two reasons: the  *)
(* claim excludes (nothing is abandoned, no holder is slow), or the job has*)
(* one update, as each handler makes, and deletions leave a pending record *)
(* alone.                                                                  *)
(***************************************************************************)
EXTENDS JobStore, MCRetentionCleanup, Integers, Sequences, TLAPS

-----------------------------------------------------------------------------
(***************************************************************************)
(* The claim alone.  It excludes as long as no claim is abandoned          *)
(* (MayAbandon is empty) and no live holder outlasts JOB_LOCK_STALE_MS     *)
(* (SlowHolders is false): then a claim never gets stale, so nobody but its*)
(* owner removes it.  Without the assumption two waiters of a stale claim  *)
(* may both run their action.                                              *)
(***************************************************************************)

\* The claim file and the places are well typed, whatever fails.
LEMMA LockTypeInductive ==
  /\ LockInit => LockTypeOK
  /\ LockTypeOK /\ [LockNext]_lockVars => LockTypeOK'
<1>1. LockInit => LockTypeOK
  BY DEF LockInit, LockTypeOK, NoClaim, At
<1>2. ASSUME LockTypeOK, [LockNext]_lockVars
      PROVE  LockTypeOK'
  <2>0. LockTypeOK
    BY <1>2
  <2> USE <2>0 DEF LockTypeOK, At, Move, NoClaim, Claim
  <2>1. CASE UNCHANGED lockVars
    BY <2>1 DEF lockVars
  <2>2. ASSUME NEW c \in Call, Acquire(c)
        PROVE  LockTypeOK'
    BY <2>2 DEF Acquire
  <2>3. ASSUME NEW c \in Call, FindStale(c) \/ TimeOut(c) \/ Leave(c)
        PROVE  LockTypeOK'
    BY <2>3 DEF FindStale, TimeOut, Leave
  <2>4. ASSUME NEW c \in Call, Reclaim(c) \/ Unlink(c)
        PROVE  LockTypeOK'
    <3>1. claim' = NoClaim
      BY <2>4 DEF Reclaim, Unlink
    <3>2. \E place \in At : Move(c, place)
      BY <2>4 DEF Reclaim, Unlink
    <3>3. QED
      BY <3>1, <3>2
  <2>5. ASSUME NEW c \in Call, ReadOwner(c)
        PROVE  LockTypeOK'
    BY <2>5 DEF ReadOwner
  <2>6. ASSUME NEW c \in Call, AcquireFails(c)
        PROVE  LockTypeOK'
    <3>1. claim' = claim \/ claim' = Claim(c)
      BY <2>6 DEF AcquireFails
    <3>2. Move(c, "failed")
      BY <2>6 DEF AcquireFails
    <3>3. CASE claim' = claim
      BY <3>2, <3>3
    <3>4. CASE claim' = Claim(c)
      BY <3>2, <3>4
    <3>5. QED
      BY <3>1, <3>3, <3>4
  <2>7. ASSUME NEW c \in Call, ReleaseFails(c) \/ Crash(c)
        PROVE  LockTypeOK'
    BY <2>7 DEF ReleaseFails, Crash
  <2>8. CASE Age
    BY <2>8 DEF Age
  <2>9. QED
    BY <1>2, <2>1, <2>2, <2>3, <2>4, <2>5, <2>6, <2>7, <2>8
       DEF LockNext, Claiming, Releasing, Abandoning
<1>3. QED
  BY <1>1, <1>2

\* A claim is absent or names one call, and a call is at one place of withJobLock.
THEOREM LockTypeCorrect == LockSpec => []LockTypeOK
BY LockTypeInductive, PTL DEF LockSpec

-----------------------------------------------------------------------------

\* A step at which no call fails keeps the owner and the holder the same.
LEMMA ExclusionStep ==
  ASSUME SlowHolders = FALSE, ExclusionInvariant, [LockNext]_lockVars,
         \A c \in Call : ~Abandoning(c)
  PROVE  ExclusionInvariant'
<1>1. LockTypeOK'
  BY LockTypeInductive DEF ExclusionInvariant
<1> SUFFICES HolderOwns' /\ OwnerHolds' /\ NobodyReclaims'
  BY <1>1 DEF ExclusionInvariant
<1> USE DEF ExclusionInvariant, LockTypeOK, At, HolderOwns, OwnerHolds, NobodyReclaims,
            Holding, NoClaim, Claim, Move
<1>2. CASE UNCHANGED lockVars
  BY <1>2 DEF lockVars
<1>3. ASSUME NEW c \in Call, Acquire(c)
      PROVE  HolderOwns' /\ OwnerHolds' /\ NobodyReclaims'
  BY <1>3 DEF Acquire
<1>4. ASSUME NEW c \in Call, FindStale(c) \/ Reclaim(c)
      PROVE  FALSE
  BY <1>4 DEF FindStale, Reclaim
<1>5. ASSUME NEW c \in Call, TimeOut(c)
      PROVE  HolderOwns' /\ OwnerHolds' /\ NobodyReclaims'
  BY <1>5 DEF TimeOut
<1>6. ASSUME NEW c \in Call, Leave(c)
      PROVE  HolderOwns' /\ OwnerHolds' /\ NobodyReclaims'
  BY <1>6 DEF Leave
<1>7. ASSUME NEW c \in Call, ReadOwner(c)
      PROVE  HolderOwns' /\ OwnerHolds' /\ NobodyReclaims'
  BY <1>7 DEF ReadOwner
<1>8. ASSUME NEW c \in Call, Unlink(c)
      PROVE  HolderOwns' /\ OwnerHolds' /\ NobodyReclaims'
  BY <1>8 DEF Unlink
<1>9. CASE Age
  \* The owner of the claim is at work, so its claim does not get old.
  BY <1>9 DEF Age
<1>10. QED
  BY <1>2, <1>3, <1>4, <1>5, <1>6, <1>7, <1>8, <1>9
     DEF LockNext, Claiming, Releasing

\* Where nothing fails, the file names exactly the call that holds the claim.
THEOREM ExclusionInductive ==
  ASSUME MayAbandon = {}, SlowHolders = FALSE
  PROVE  LockSpec => []ExclusionInvariant
<1>1. LockInit => ExclusionInvariant
  BY DEF LockInit, ExclusionInvariant, LockTypeOK, HolderOwns, OwnerHolds, NobodyReclaims,
         Holding, NoClaim, At
<1>2. \A c \in Call : ~Abandoning(c)
  BY DEF Abandoning, AcquireFails, ReleaseFails, Crash
<1>3. ExclusionInvariant /\ [LockNext]_lockVars => ExclusionInvariant'
  BY <1>2, ExclusionStep
<1>4. QED
  BY <1>1, <1>3, PTL DEF LockSpec

\* At most one guarded action of withJobLock runs at a time.
THEOREM OneHolder ==
  ASSUME MayAbandon = {}, SlowHolders = FALSE
  PROVE  LockSpec => []MutualExclusion
<1>1. ExclusionInvariant => MutualExclusion
  BY DEF ExclusionInvariant, HolderOwns, Holding, MutualExclusion
<1>2. QED
  BY <1>1, ExclusionInductive, PTL

\* Whatever fails, a claim on disk belongs to a call that holds it or that may have left it.
HealthyOwnersHold == \A c \in claim.owner \ MayAbandon : Holding(c)

\* A claim is left behind only by a call that died or whose file system failed, so a
\* job whose calls all ended well is free (the finally block of withJobLock).
THEOREM OrphansAreAbandoned == LockSpec => []NoOrphanClaim
<1>1. LockInit => HealthyOwnersHold
  BY DEF LockInit, HealthyOwnersHold, NoClaim
<1>2. ASSUME LockTypeOK, HealthyOwnersHold, [LockNext]_lockVars
      PROVE  HealthyOwnersHold'
  <2> USE <1>2 DEF LockTypeOK, At, HealthyOwnersHold, Holding, NoClaim, Claim, Move
  <2>1. CASE UNCHANGED lockVars
    BY <2>1 DEF lockVars
  <2>2. ASSUME NEW c \in Call, Acquire(c)
        PROVE  HealthyOwnersHold'
    BY <2>2 DEF Acquire
  <2>3. ASSUME NEW c \in Call, FindStale(c) \/ TimeOut(c) \/ Leave(c) \/ ReadOwner(c)
        PROVE  HealthyOwnersHold'
    BY <2>3 DEF FindStale, TimeOut, Leave, ReadOwner
  <2>4. ASSUME NEW c \in Call, Reclaim(c) \/ Unlink(c)
        PROVE  HealthyOwnersHold'
    BY <2>4 DEF Reclaim, Unlink
  <2>5. ASSUME NEW c \in Call, Abandoning(c)
        PROVE  HealthyOwnersHold'
    <3>1. c \in MayAbandon /\ (claim' = claim \/ claim' = Claim(c))
      BY <2>5 DEF Abandoning, AcquireFails, ReleaseFails, Crash
    <3>2. \A d \in Call \ {c} : at'[d] = at[d]
      BY <2>5 DEF Abandoning, AcquireFails, ReleaseFails, Crash
    <3>3. QED
      BY <3>1, <3>2
  <2>6. CASE Age
    BY <2>6 DEF Age
  <2>7. QED
    BY <2>1, <2>2, <2>3, <2>4, <2>5, <2>6 DEF LockNext, Claiming, Releasing
<1>3. LockTypeOK /\ HealthyOwnersHold => NoOrphanClaim
  BY DEF LockTypeOK, HealthyOwnersHold, NoOrphanClaim, Holding, Ended
<1>4. QED
  BY <1>1, <1>2, <1>3, LockTypeCorrect, PTL DEF LockSpec

-----------------------------------------------------------------------------
(* The guarded record, where no key is being rotated *)

NoRotation == \A p \in Process : KeyOf[p] = FirstKey

\* What the two situations have in common.
UpdatersExclude ==
  \A c, d \in Updater : at[c] = "inside" /\ at[d] = "inside" => c = d

KeysAgree == file.key = FirstKey /\ \A p \in Process : seen[p].key = FirstKey

Inv == StoreInvariant /\ KeysAgree

-----------------------------------------------------------------------------
(* The claim is the one of JobLock. *)

LEMMA StepsOfTheLock == [Next]_vars => [LockNext]_lockVars
<1>1. ASSUME UNCHANGED vars
      PROVE  UNCHANGED lockVars
  BY <1>1 DEF vars, lockVars
<1>2. ASSUME NEW p \in Process, Read(p) \/ Migrate(p) \/ MigrateFails(p)
      PROVE  UNCHANGED lockVars
  BY <1>2 DEF Read, Migrate, MigrateFails
<1>3. ASSUME NEW c \in Call, Update(c) \/ UpdateFails(c) \/ Remove(c) \/ RemoveFails(c)
      PROVE  UNCHANGED lockVars
  BY <1>3 DEF Update, UpdateFails, Remove, RemoveFails, End
<1>4. ASSUME NEW c \in Call, Lock(c)
      PROVE  LockNext
  BY <1>4 DEF Lock, LockNext
<1>5. ASSUME Age
      PROVE  LockNext
  BY <1>5 DEF LockNext
<1>6. ASSUME Expire
      PROVE  UNCHANGED lockVars
  BY <1>6 DEF Expire, lockVars
<1>7. QED
  BY <1>1, <1>2, <1>3, <1>4, <1>5, <1>6 DEF Next

\* The store uses the claim as JobLock describes it.
THEOREM StoreUsesLock == Spec => LockSpec
<1>1. Init => LockInit
  BY DEF Init
<1>2. QED
  BY <1>1, StepsOfTheLock, PTL DEF Spec, LockSpec

-----------------------------------------------------------------------------
(* One lemma for each action. *)

\* What a step may do to a verdict: keep it or delete it.
KeepsTheRecord == file.status \in Verdict => file'.status \in {file.status, "none"}

LEMMA ReadStep ==
  ASSUME NoRotation, Inv, NEW p \in Process, Read(p)
  PROVE  Inv' /\ UNCHANGED file
<1> USE DEF Inv, StoreInvariant, StoreTypeOK, KeysAgree, NoFile, Record, Step
<1>1. UNCHANGED <<file, result, overwritten, lockVars>> /\ InStep(p, "read")
  BY DEF Read
<1>2. seen' = [seen EXCEPT ![p] = seen'[p]] /\ seen'[p] \in {file, NoFile}
  BY DEF Read
<1>3. step' = [step EXCEPT ![p] = Afterwards(p)]
  BY DEF Read, Goto, NoRotation
<1>4. Afterwards(p) \in {"decide", "done"}
  BY DEF Afterwards
<1>5. StoreTypeOK' /\ KeysAgree'
  BY <1>1, <1>2, <1>3, <1>4 DEF LockTypeOK, lockVars
<1>6. SeenIsCurrent'
  BY <1>1, <1>2, <1>3, <1>4 DEF SeenIsCurrent, lockVars, InStep, Process, Verdict
<1>7. NothingMigrates'
  BY <1>1, <1>3, <1>4 DEF NothingMigrates
<1>8. ResultsAreDurable'
  BY <1>1 DEF ResultsAreDurable
<1>9. QED
  BY <1>1, <1>5, <1>6, <1>7, <1>8

LEMMA UpdateStep ==
  ASSUME NoRotation, Inv, UpdatersExclude, StoreAssumption,
         NEW c \in Call, Update(c) \/ UpdateFails(c)
  PROVE  Inv' /\ KeepsTheRecord
<1> USE DEF Inv, StoreInvariant, StoreTypeOK, KeysAgree, NoFile, Record, Step, Process
<1>1. /\ c \in Updater /\ InStep(c, "decide") /\ at[c] = "inside"
      /\ UNCHANGED <<seen, overwritten, lockVars>>
      /\ step' = [step EXCEPT ![c] = "done"]
  BY DEF Update, UpdateFails, End, Goto, InStep
<1>2. PICK r \in Result : result' = [result EXCEPT ![c] = r]
  BY DEF Update, UpdateFails, End, Result
<1>3. \/ file' = file /\ (r = "unavailable" \/ (seen[c].status \in Verdict /\ r = seen[c].status))
      \/ /\ seen[c].status = "pending"
         /\ \E v \in Verdict : file' = Finalized(c, v) /\ r \in {v, "unavailable"}
  BY <1>2 DEF Update, UpdateFails, End
<1>4. NothingMigrates'
  BY <1>1 DEF NothingMigrates
<1>5. CASE file' = file /\ (r = "unavailable" \/ (seen[c].status \in Verdict /\ r = seen[c].status))
  <2>1. StoreTypeOK' /\ KeysAgree'
    BY <1>1, <1>2, <1>5 DEF LockTypeOK, lockVars
  <2>2. SeenIsCurrent'
    BY <1>1, <1>5 DEF SeenIsCurrent, lockVars
  <2>3. ResultsAreDurable'
    BY <1>1, <1>2, <1>5 DEF ResultsAreDurable, SeenIsCurrent, InStep, Verdict
  <2>4. KeepsTheRecord
    BY <1>5 DEF KeepsTheRecord
  <2>5. QED
    BY <1>4, <2>1, <2>2, <2>3, <2>4
<1>6. ASSUME seen[c].status = "pending",
             NEW v \in Verdict, file' = Finalized(c, v), r \in {v, "unavailable"}
      PROVE  Inv' /\ KeepsTheRecord
  <2>1. file.status = "pending"
    BY <1>1, <1>6 DEF SeenIsCurrent, InStep
  <2>2. file' = [status |-> v, key |-> FirstKey, expired |-> FALSE]
    BY <1>6 DEF Finalized, NoRotation
  <2>3. StoreTypeOK' /\ KeysAgree'
    BY <1>1, <1>2, <2>2, <1>6 DEF LockTypeOK, lockVars, StoreAssumption
  <2>4. SeenIsCurrent'
    \* No other update is inside, and nobody has seen a verdict yet.
    BY <1>1, <2>1, <2>2 DEF SeenIsCurrent, lockVars, InStep, UpdatersExclude, Verdict
  <2>5. ResultsAreDurable'
    BY <1>1, <1>2, <1>6, <2>1, <2>2 DEF ResultsAreDurable, Verdict
  <2>6. KeepsTheRecord
    BY <2>1, <2>2 DEF KeepsTheRecord, Verdict
  <2>7. QED
    BY <1>4, <2>3, <2>4, <2>5, <2>6
<1>7. QED
  BY <1>3, <1>5, <1>6

LEMMA RemoveStep ==
  ASSUME Inv, NEW c \in Call, Remove(c) \/ RemoveFails(c)
  PROVE  Inv' /\ (file' = file \/ (file' = NoFile /\ file.status # "pending"))
<1> USE DEF Inv, StoreInvariant, StoreTypeOK, KeysAgree, NoFile, Record, Step, Process
<1>1. /\ c \notin Updater /\ InStep(c, "decide") /\ at[c] = "inside"
      /\ UNCHANGED <<seen, overwritten, lockVars>>
      /\ step' = [step EXCEPT ![c] = "done"]
  BY DEF Remove, RemoveFails, End, Goto, InStep
<1>2. PICK r \in Result : result' = [result EXCEPT ![c] = r]
  BY DEF Remove, RemoveFails, End, Result
<1>3. file' = file \/ (file' = NoFile /\ seen[c].status \in Verdict)
  BY DEF Remove, RemoveFails, Eligible
<1>4. seen[c].status \in Verdict => file.status # "pending"
  BY <1>1 DEF SeenIsCurrent, InStep, Verdict
<1>5. StoreTypeOK' /\ KeysAgree'
  BY <1>1, <1>2, <1>3 DEF LockTypeOK, lockVars
<1>6. SeenIsCurrent'
  BY <1>1, <1>3, <1>4 DEF SeenIsCurrent, lockVars
<1>7. NothingMigrates'
  BY <1>1 DEF NothingMigrates
<1>8. ResultsAreDurable'
  BY <1>1, <1>2, <1>3 DEF ResultsAreDurable
<1>9. QED
  BY <1>3, <1>4, <1>5, <1>6, <1>7, <1>8

LEMMA ExpireStep ==
  ASSUME Inv, Expire
  PROVE  Inv' /\ file'.status = file.status
<1> USE DEF Inv, StoreInvariant, StoreTypeOK, KeysAgree, NoFile, Record
<1>1. /\ UNCHANGED <<lockVars, seen, step, result, overwritten>>
      /\ file' = [file EXCEPT !.expired = TRUE]
  BY DEF Expire
<1>2. file \in Record
  BY DEF Expire
<1>3. file' \in Record /\ file'.status = file.status /\ file'.key = file.key
  BY <1>1, <1>2
<1>4. QED
  BY <1>1, <1>3 DEF LockTypeOK, lockVars, SeenIsCurrent, NothingMigrates, ResultsAreDurable

\* A call between its read and its write stays inside, or dies there.
LEMMA AtWorkStays ==
  ASSUME LockTypeOK, (\E c \in Call : Lock(c)) \/ (Age /\ UNCHANGED storeVars),
         NEW d \in Call, step[d] # "done", at[d] \in {"inside", "crashed"}
  PROVE  at'[d] = at[d] \/ at'[d] = "crashed"
<1>1. CASE Age /\ UNCHANGED storeVars
  BY <1>1 DEF Age
<1>2. ASSUME NEW c \in Call, Lock(c)
      PROVE  at'[d] = at[d] \/ at'[d] = "crashed"
  <2>1. CASE Claiming(c)
    BY <2>1 DEF Claiming, Acquire, FindStale, Reclaim, TimeOut, Move, LockTypeOK
  <2>2. CASE step[c] = "done" /\ Leave(c)
    BY <2>2 DEF Leave, Move, LockTypeOK
  <2>3. CASE Releasing(c)
    BY <2>3 DEF Releasing, ReadOwner, Unlink, Move, LockTypeOK
  <2>4. CASE Abandoning(c)
    BY <2>4 DEF Abandoning, AcquireFails, ReleaseFails, Crash, Move, LockTypeOK
  <2>5. QED
    BY <1>2, <2>1, <2>2, <2>3, <2>4 DEF Lock
<1>3. QED
  BY <1>1, <1>2

LEMMA LockStep ==
  ASSUME Inv, LockTypeOK', (\E c \in Call : Lock(c)) \/ (Age /\ UNCHANGED storeVars)
  PROVE  Inv' /\ UNCHANGED file
<1> USE DEF Inv, StoreInvariant, StoreTypeOK
<1>1. UNCHANGED <<file, seen, step, result, overwritten>>
  BY DEF Lock, storeVars
<1>2. \A d \in Call : step[d] = "decide" => at'[d] = at[d] \/ at'[d] = "crashed"
  BY AtWorkStays DEF SeenIsCurrent
<1>3. SeenIsCurrent'
  BY <1>1, <1>2 DEF SeenIsCurrent
<1>4. QED
  BY <1>1, <1>3 DEF KeysAgree, NothingMigrates, ResultsAreDurable

-----------------------------------------------------------------------------
(* The invariant and the verdict that stays *)

LEMMA InitialInvariant ==
  ASSUME Init
  PROVE  Inv
<1>1. LockTypeOK
  BY LockTypeInductive DEF Init
<1>2. /\ file \in Record /\ file.key = FirstKey
      /\ seen = [p \in Process |-> NoFile]
      /\ step = [p \in Process |-> "read"]
      /\ result = [c \in Call |-> "none"]
      /\ overwritten = FALSE
  BY DEF Init
<1>3. StoreTypeOK
  BY <1>1, <1>2 DEF StoreTypeOK, Step, Result
<1>4. KeysAgree
  BY <1>2 DEF KeysAgree, NoFile
<1>5. SeenIsCurrent /\ NothingMigrates
  BY <1>2 DEF SeenIsCurrent, NothingMigrates, Process
<1>6. ResultsAreDurable
  BY <1>2, StoreAssumption DEF ResultsAreDurable, Verdict
<1>7. QED
  BY <1>3, <1>4, <1>5, <1>6 DEF Inv, StoreInvariant

LEMMA StoreStep ==
  ASSUME NoRotation, UpdatersExclude, Inv, [Next]_vars
  PROVE  Inv' /\ KeepsTheRecord
<1>1. LockTypeOK'
  BY StepsOfTheLock, LockTypeInductive DEF Inv, StoreInvariant, StoreTypeOK
<1>2. ASSUME file'.status = file.status
      PROVE  KeepsTheRecord
  BY <1>2 DEF KeepsTheRecord, NoFile
<1>3. CASE UNCHANGED vars
  BY <1>1, <1>2, <1>3 DEF vars, storeVars, lockVars, Inv, StoreInvariant, StoreTypeOK, KeysAgree,
         SeenIsCurrent, NothingMigrates, ResultsAreDurable
<1>4. ASSUME NEW p \in Process, Read(p)
      PROVE  Inv' /\ KeepsTheRecord
  BY <1>2, <1>4, ReadStep
<1>5. ASSUME NEW p \in Process, Migrate(p) \/ MigrateFails(p)
      PROVE  FALSE
  BY <1>5 DEF Migrate, MigrateFails, InStep, Inv, StoreInvariant, NothingMigrates
<1>6. ASSUME NEW c \in Call, Update(c) \/ UpdateFails(c)
      PROVE  Inv' /\ KeepsTheRecord
  BY <1>6, UpdateStep, StoreAssumption
<1>7. ASSUME NEW c \in Call, Remove(c) \/ RemoveFails(c)
      PROVE  Inv' /\ KeepsTheRecord
  <2>1. Inv' /\ (file' = file \/ (file' = NoFile /\ file.status # "pending"))
    BY <1>7, RemoveStep
  <2>2. QED
    BY <2>1 DEF KeepsTheRecord, NoFile
<1>8. CASE (\E c \in Call : Lock(c)) \/ (Age /\ UNCHANGED storeVars)
  BY <1>1, <1>2, <1>8, LockStep
<1>9. CASE Expire
  BY <1>2, <1>9, ExpireStep
<1>10. QED
  BY <1>3, <1>4, <1>5, <1>6, <1>7, <1>8, <1>9 DEF Next

\* Where the claim excludes and no key is rotated, no update overwrites a verdict
\* (updateSyncJob), however many updates and deletions a job has.
THEOREM FirstVerdictStays ==
  ASSUME NoRotation, MayAbandon = {}, SlowHolders = FALSE
  PROVE  Spec => []StoreInvariant /\ TerminalRecordsStay
<1>1. Spec => []UpdatersExclude
  <2>1. MutualExclusion => UpdatersExclude
    BY StoreAssumption DEF MutualExclusion, UpdatersExclude
  <2>2. QED
    BY <2>1, StoreUsesLock, OneHolder, PTL
<1>2. Init => Inv
  BY InitialInvariant
<1>3. Inv /\ UpdatersExclude /\ [Next]_vars =>
        /\ Inv'
        /\ [file.status \in Verdict => file'.status \in {file.status, "none"}]_vars
  BY StoreStep DEF KeepsTheRecord
<1>4. Inv => StoreInvariant
  BY DEF Inv
<1>5. QED
  BY <1>1, <1>2, <1>3, <1>4, PTL DEF Spec, TerminalRecordsStay

\* With one update per job nothing has to exclude: the same holds through crashes,
\* failed writes and claims that were taken for stale.
THEOREM SoleUpdaterSurvives ==
  ASSUME NoRotation, \A c, d \in Updater : c = d
  PROVE  Spec => []StoreInvariant /\ TerminalRecordsStay
<1>1. UpdatersExclude
  BY DEF UpdatersExclude
<1>2. Init => Inv
  BY InitialInvariant
<1>3. Inv /\ [Next]_vars =>
        /\ Inv'
        /\ [file.status \in Verdict => file'.status \in {file.status, "none"}]_vars
  BY <1>1, StoreStep DEF KeepsTheRecord
<1>4. Inv => StoreInvariant
  BY DEF Inv
<1>5. QED
  BY <1>2, <1>3, <1>4, PTL DEF Spec, TerminalRecordsStay

-----------------------------------------------------------------------------
(***************************************************************************)
(* The record while keys are rotated, every failure and every stale write  *)
(* included: what is typed, and what retention may delete.                 *)
(***************************************************************************)

Deciding(p) == step[p] \in {"migrate", "decide"}

\* A call works inside its claim or died there, and only a record that was read is written back.
Typed ==
  /\ StoreTypeOK
  /\ \A c \in Call : Deciding(c) => at[c] \in {"inside", "crashed"}
  /\ \A p \in Process : step[p] = "migrate" => seen[p].status # "none"

LEMMA ReadTyped ==
  ASSUME Typed, NEW p \in Process, Read(p)
  PROVE  Typed'
<1> USE DEF Typed, StoreTypeOK, NoFile, Record, Step
<1>1. UNCHANGED <<file, result, overwritten, lockVars>> /\ UNCHANGED <<claim, at>>
      /\ InStep(p, "read")
  BY DEF Read, lockVars
<1>2. seen' = [seen EXCEPT ![p] = seen'[p]] /\ seen'[p] \in {file, NoFile}
  BY DEF Read
<1>3. /\ step' = [step EXCEPT ![p] = step'[p]] /\ step'[p] \in {"migrate", "decide", "done"}
      /\ step'[p] = "migrate" => seen'[p].status # "none"
  BY DEF Read, Goto, Afterwards, Decodes
<1>4. StoreTypeOK'
  BY <1>1, <1>2, <1>3 DEF LockTypeOK, lockVars
<1>5. \A c \in Call : Deciding(c)' => at'[c] \in {"inside", "crashed"}
  BY <1>1, <1>3 DEF Deciding, InStep, Process
<1>6. \A q \in Process : step'[q] = "migrate" => seen'[q].status # "none"
  BY <1>2, <1>3
<1>7. QED
  BY <1>4, <1>5, <1>6

\* What a migrating read of p writes is what p read, under its own key.
LEMMA WritesBackWhatItRead ==
  ASSUME Typed, NEW p \in Process, Migrate(p) \/ MigrateFails(p)
  PROVE  /\ UNCHANGED <<result, claim, at>> /\ InStep(p, "migrate")
         /\ step' = [step EXCEPT ![p] = Afterwards(p)]
         /\ seen' = [seen EXCEPT ![p] = seen'[p]] /\ seen'[p] \in {seen[p], NoFile}
         /\ seen[p] \in Record
         /\ \/ file' = file /\ overwritten' = overwritten
            \/ /\ file' \in Record
               /\ file'.status = seen[p].status /\ file'.expired = seen[p].expired
               /\ overwritten' = (overwritten \/ (p \in Reader /\ file.status # seen[p].status))
<1> USE DEF Typed, StoreTypeOK, NoFile, Record
<1>1. /\ UNCHANGED <<result, claim, at>> /\ InStep(p, "migrate")
      /\ step' = [step EXCEPT ![p] = Afterwards(p)]
  BY DEF Migrate, MigrateFails, Goto, lockVars
<1>2. seen' = [seen EXCEPT ![p] = seen'[p]] /\ seen'[p] \in {seen[p], NoFile}
  BY DEF Migrate, MigrateFails
<1>3. seen[p] \in Record
  BY <1>1 DEF InStep
<1>4. WriteBack(p) \/ (file' = file /\ overwritten' = overwritten)
  BY DEF Migrate, MigrateFails
<1>5. ASSUME WriteBack(p)
      PROVE  /\ file' \in Record
             /\ file'.status = seen[p].status /\ file'.expired = seen[p].expired
             /\ overwritten' = (overwritten \/ (p \in Reader /\ file.status # seen[p].status))
  <2>1. KeyOf[p] \in Key
    BY StoreAssumption
  <2>2. file' = [seen[p] EXCEPT !.key = KeyOf[p]]
    BY <1>5 DEF WriteBack
  <2>3. QED
    BY <1>3, <1>5, <2>1, <2>2 DEF WriteBack
<1>6. QED
  BY <1>1, <1>2, <1>3, <1>4, <1>5

LEMMA RewriteTyped ==
  ASSUME Typed, NEW p \in Process, Migrate(p) \/ MigrateFails(p)
  PROVE  Typed'
<1> USE DEF Typed, StoreTypeOK, Step
<1>1. /\ UNCHANGED <<result, claim, at>> /\ InStep(p, "migrate")
      /\ step' = [step EXCEPT ![p] = Afterwards(p)]
      /\ seen' = [seen EXCEPT ![p] = seen'[p]] /\ seen'[p] \in {seen[p], NoFile}
      /\ file' \in Record \cup {NoFile} /\ overwritten' \in BOOLEAN
  BY WritesBackWhatItRead
<1>2. Afterwards(p) \in {"decide", "done"} /\ (p \in Call => at[p] = "inside")
  BY <1>1 DEF Afterwards, InStep
<1>3. StoreTypeOK'
  BY <1>1, <1>2 DEF LockTypeOK
<1>4. \A c \in Call : Deciding(c)' => at'[c] \in {"inside", "crashed"}
  BY <1>1, <1>2 DEF Deciding, Process
<1>5. \A q \in Process : step'[q] = "migrate" => seen'[q].status # "none"
  BY <1>1, <1>2
<1>6. QED
  BY <1>3, <1>4, <1>5

LEMMA DecisionTyped ==
  ASSUME Typed, NEW c \in Call, Update(c) \/ UpdateFails(c) \/ Remove(c) \/ RemoveFails(c)
  PROVE  /\ Typed'
         /\ AtWork(c) /\ UNCHANGED <<seen, overwritten, claim, at>>
         /\ step' = [step EXCEPT ![c] = "done"]
<1> USE DEF Typed, StoreTypeOK, NoFile, Record, Step, Process
<1>1. /\ AtWork(c) /\ UNCHANGED <<seen, overwritten, claim, at>>
      /\ step' = [step EXCEPT ![c] = "done"]
  BY DEF Update, UpdateFails, Remove, RemoveFails, End, Goto, AtWork, lockVars
<1>2. result' \in [Call -> Result]
  <2>1. PICK v \in Result : result' = [result EXCEPT ![c] = v]
    BY DEF Update, UpdateFails, Remove, RemoveFails, End, Result
  <2>2. QED
    BY <2>1
<1>3. file' = file \/ file' = NoFile \/ \E v \in Verdict : file' = Finalized(c, v)
  BY DEF Update, UpdateFails, Remove, RemoveFails
<1>4. \A v \in Verdict : Finalized(c, v) \in Record
  BY StoreAssumption DEF Finalized
<1>5. StoreTypeOK'
  BY <1>1, <1>2, <1>3, <1>4 DEF LockTypeOK
<1>6. QED
  BY <1>1, <1>5 DEF Deciding

LEMMA ExpireTyped ==
  ASSUME Typed, Expire
  PROVE  /\ Typed' /\ file' \in Record /\ file'.status = file.status
         /\ UNCHANGED <<claim, at, seen, step, result, overwritten>>
<1> USE DEF Typed, StoreTypeOK, NoFile, Record
<1>1. /\ UNCHANGED <<claim, at, seen, step, result, overwritten>>
      /\ file \in Record /\ file' = [file EXCEPT !.expired = TRUE]
  BY DEF Expire, lockVars
<1>2. file' \in Record /\ file'.status = file.status
  BY <1>1
<1>3. QED
  BY <1>1, <1>2 DEF LockTypeOK, Deciding

LEMMA LockTyped ==
  ASSUME Typed, LockTypeOK', (\E c \in Call : Lock(c)) \/ (Age /\ UNCHANGED storeVars)
  PROVE  /\ Typed' /\ UNCHANGED <<file, seen, step, result, overwritten>>
         /\ \A c \in Call : Deciding(c) => at'[c] = at[c] \/ at'[c] = "crashed"
<1> USE DEF Typed, StoreTypeOK
<1>1. UNCHANGED <<file, seen, step, result, overwritten>>
  BY DEF Lock, storeVars
<1>2. \A c \in Call : Deciding(c) => at'[c] = at[c] \/ at'[c] = "crashed"
  BY AtWorkStays DEF Deciding
<1>3. QED
  BY <1>1, <1>2 DEF Deciding

LEMMA StutterTyped ==
  ASSUME Typed, UNCHANGED vars
  PROVE  Typed' /\ UNCHANGED <<claim, at, file, seen, step, result, overwritten>>
BY DEF vars, storeVars, lockVars, Typed, StoreTypeOK, LockTypeOK, Deciding

LEMMA TypedStep ==
  ASSUME Typed, [Next]_vars
  PROVE  Typed'
<1>1. LockTypeOK'
  BY StepsOfTheLock, LockTypeInductive DEF Typed, StoreTypeOK
<1>2. QED
  BY <1>1, ReadTyped, RewriteTyped, DecisionTyped, ExpireTyped, LockTyped, StutterTyped DEF Next

LEMMA TypedInit ==
  ASSUME Init
  PROVE  Typed
<1>1. LockTypeOK
  BY LockTypeInductive DEF Init
<1>2. QED
  BY <1>1 DEF Init, Typed, StoreTypeOK, Deciding, NoFile, Step, Result, Process

-----------------------------------------------------------------------------

\* A record as old and of the same status as one that is on disk or in the hands of a process.
Alike(r) == \E s \in Copies : r.status = s.status /\ r.expired = s.expired

\* A record that retention retains and that is not pending.
Harmless(r) == ~Eligible(r) /\ r.status # "pending"

LEMMA NewCopiesAreOld ==
  ASSUME EligibleStaysSo, \A r \in Copies' : Alike(r) \/ Harmless(r)
  PROVE  EligibleStaysSo'
<1> SUFFICES ASSUME NEW r \in Copies', NEW s \in Copies', Eligible(r), s.status = "pending"
             PROVE  FALSE
  BY DEF EligibleStaysSo, Eligible
<1>1. Alike(r) /\ Alike(s)
  BY DEF Harmless
<1>2. PICK x \in Copies : r.status = x.status /\ r.expired = x.expired
  BY <1>1 DEF Alike
<1>3. PICK y \in Copies : s.status = y.status
  BY <1>1 DEF Alike
<1>4. QED
  BY <1>2, <1>3 DEF EligibleStaysSo, Eligible

\* A step that writes no new record and starts no read brings no new copy.
LEMMA NoNewCopy ==
  ASSUME Typed, EligibleStaysSo, file' = file, seen' = seen,
         \A p \in Process : AtWork(p)' => AtWork(p)
  PROVE  EligibleStaysSo'
<1>1. \A r \in Copies' : r \in Copies
  BY DEF Copies
<1>2. QED
  BY <1>1, NewCopiesAreOld DEF Alike

LEMMA CopiesStep ==
  ASSUME Typed, EligibleStaysSo, [Next]_vars
  PROVE  EligibleStaysSo' /\ (file.status = "pending" => file' # NoFile)
<1> USE DEF Process
<1>0. /\ file \in Copies /\ \A p \in Process : AtWork(p) => seen[p] \in Copies
      /\ file.status = "pending" => file # NoFile
  BY DEF Copies, NoFile
<1>1. LockTypeOK'
  BY StepsOfTheLock, LockTypeInductive DEF Typed, StoreTypeOK
<1>2. CASE UNCHANGED vars
  BY <1>0, <1>2, StutterTyped, NoNewCopy DEF AtWork, InStep
<1>3. ASSUME NEW p \in Process, Read(p)
      PROVE  EligibleStaysSo' /\ file' = file
  <2>1. /\ file' = file /\ at' = at /\ seen'[p] \in {file, NoFile}
        /\ \A q \in Process : q # p => seen'[q] = seen[q] /\ step'[q] = step[q]
    BY <1>3 DEF Read, Goto, lockVars, Typed, StoreTypeOK
  <2>2. \A r \in Copies' : r \in Copies \/ r = NoFile
    BY <1>0, <2>1 DEF Copies, AtWork, InStep
  <2>3. QED
    BY <2>1, <2>2, NewCopiesAreOld DEF Alike, Harmless, NoFile, Eligible, Verdict
<1>4. ASSUME NEW p \in Process, Migrate(p) \/ MigrateFails(p)
      PROVE  EligibleStaysSo' /\ (file.status = "pending" => file' # NoFile)
  <2>1. /\ at' = at /\ AtWork(p) /\ step' = [step EXCEPT ![p] = Afterwards(p)]
        /\ seen' = [seen EXCEPT ![p] = seen'[p]] /\ seen'[p] \in {seen[p], NoFile}
        /\ \/ file' = file
           \/ file' \in Record /\ file'.status = seen[p].status /\ file'.expired = seen[p].expired
    BY <1>4, WritesBackWhatItRead DEF AtWork
  <2>2. \A q \in Process : q # p => seen'[q] = seen[q] /\ step'[q] = step[q]
    BY <2>1 DEF Typed, StoreTypeOK
  <2>3. Alike(file')
    BY <1>0, <2>1 DEF Alike
  <2>4. ASSUME NEW q \in Process, AtWork(q)'
        PROVE  seen'[q] \in Copies \cup {NoFile}
    BY <1>0, <2>1, <2>2, <2>4 DEF AtWork, InStep
  <2>5. \A r \in Copies' : Alike(r) \/ Harmless(r)
    BY <2>3, <2>4 DEF Copies, Alike, Harmless, NoFile, Eligible, Verdict
  <2>6. file' = file \/ file' # NoFile
    BY <2>1 DEF Record, NoFile, Verdict
  <2>7. QED
    BY <1>0, <2>5, <2>6, NewCopiesAreOld
<1>5. ASSUME NEW c \in Call, Update(c) \/ UpdateFails(c) \/ Remove(c) \/ RemoveFails(c)
      PROVE  EligibleStaysSo' /\ (file.status = "pending" => file' # NoFile)
  <2>1. AtWork(c) /\ UNCHANGED <<seen, at>> /\ step' = [step EXCEPT ![c] = "done"]
    BY <1>5, DecisionTyped
  <2>2. \/ file' = file
        \/ \E v \in Verdict : file' = Finalized(c, v)
        \/ file' = NoFile /\ Eligible(seen[c])
    BY <1>5 DEF Update, UpdateFails, Remove, RemoveFails
  <2>3. \A q \in Process : AtWork(q)' => AtWork(q)
    BY <2>1 DEF AtWork, InStep, Typed, StoreTypeOK
  <2>4. file' = file \/ Harmless(file')
    BY <2>2 DEF Harmless, Finalized, NoFile, Eligible, Verdict
  <2>5. \A r \in Copies' : r \in Copies \/ Harmless(r)
    BY <1>0, <2>1, <2>3, <2>4 DEF Copies
  <2>6. \A v \in Verdict : Finalized(c, v) # NoFile
    BY DEF Finalized, NoFile, Verdict
  <2>7. Eligible(seen[c]) => file.status # "pending"
    BY <1>0, <2>1 DEF EligibleStaysSo
  <2>8. EligibleStaysSo'
    BY <2>5, NewCopiesAreOld DEF Alike
  <2>9. QED
    BY <1>0, <2>2, <2>6, <2>7, <2>8
<1>6. CASE (\E c \in Call : Lock(c)) \/ (Age /\ UNCHANGED storeVars)
  <2>1. /\ UNCHANGED <<file, seen, step>>
        /\ \A c \in Call : Deciding(c) => at'[c] = at[c] \/ at'[c] = "crashed"
    BY <1>1, <1>6, LockTyped
  <2>2. QED
    BY <1>0, <2>1, NoNewCopy DEF AtWork, InStep, Deciding
<1>7. CASE Expire
  <2>1. file' \in Record /\ UNCHANGED <<at, seen, step>> /\ \A p \in Process : ~AtWork(p)
    BY <1>7, ExpireTyped DEF Expire
  <2>2. Copies' = {file'}
    BY <2>1 DEF Copies, AtWork, InStep
  <2>3. QED
    BY <2>1, <2>2 DEF EligibleStaysSo, Eligible, Verdict, Record, NoFile
<1>8. QED
  BY <1>0, <1>2, <1>3, <1>4, <1>5, <1>6, <1>7 DEF Next

\* Retention never deletes a pending job: not when claims are abandoned or outlived, not when
\* several updates compete, and not when migrating reads bring back older records.
THEOREM PendingIsSafe == Spec => PendingNeverDeleted
<1>1. Init => Typed
  BY TypedInit
<1>2. Init => EligibleStaysSo
  BY DEF Init, EligibleStaysSo, Copies, AtWork, InStep, Eligible, Verdict
<1>3. Typed /\ [Next]_vars => Typed'
  BY TypedStep
<1>4. Typed /\ EligibleStaysSo /\ [Next]_vars =>
        EligibleStaysSo' /\ [file.status = "pending" => file' # NoFile]_vars
  BY CopiesStep
<1>5. QED
  BY <1>1, <1>2, <1>3, <1>4, PTL DEF Spec, PendingNeverDeleted

-----------------------------------------------------------------------------
(***************************************************************************)
(* Results and verdicts while keys are rotated.  A read under the new key  *)
(* writes the record back, also inside the claim, so a guarded action may  *)
(* overwrite what it did not decide about.  What it read stays true while  *)
(* it is inside as long as an update excludes every other call and no read *)
(* outside the claim brought back a stale status.  The claim excludes until*)
(* the first failure; if only the update can fail, no further update of the*)
(* job follows that failure.                                               *)
(***************************************************************************)

\* The call that may abandon its claim is the only update of the job, or no call may.
OnlyTheUpdateFails == SlowHolders = FALSE /\ \A c \in Updater : MayAbandon \subseteq {c}

Exclusion == HolderOwns /\ OwnerHolds /\ NobodyReclaims
ExclusionUntilFailure ==
  LockTypeOK /\ ((\A c \in MayAbandon : ~Ended(c)) => Exclusion)

UpdateAlone ==
  \A c \in Updater, d \in Call : at[c] = "inside" /\ at[d] = "inside" => c = d

\* The status s is what the disk holds, or held when retention deleted it.
StillTrue(s) == s # "none" => file.status \in {s, "none"}

SeenIsTrue ==
  \A c \in Call :
    at[c] = "inside" /\ Deciding(c) =>
      /\ StillTrue(seen[c].status)
      /\ seen[c].status = "pending" => file.status = "pending"

\* Two calls inside at once have seen the same status.
SeenAgree ==
  \A c, d \in Call :
    at[c] = "inside" /\ Deciding(c) /\ at[d] = "inside" /\ Deciding(d)
      => seen[c].status \in {seen[d].status, "none"} \/ seen[d].status = "none"

ResultsAreSeen ==
  \A c \in Updater, d \in Call :
    result[c] \in Verdict /\ at[d] = "inside" /\ Deciding(d)
      => seen[d].status \in {result[c], "none"}


Content == SeenIsTrue /\ SeenAgree /\ ResultsAreSeen /\ ResultsAreDurable

RotationInv == Typed /\ (overwritten \/ Content)

LEMMA ExclusionUntilFailureHolds ==
  ASSUME OnlyTheUpdateFails
  PROVE  LockSpec => [](ExclusionUntilFailure /\ UpdateAlone)
<1>1. LockInit => ExclusionUntilFailure
  <2>1. LockInit => LockTypeOK
    BY LockTypeInductive
  <2>2. LockInit => Exclusion
    BY DEF LockInit, Exclusion, HolderOwns, OwnerHolds, NobodyReclaims, Holding, NoClaim
  <2>3. QED
    BY <2>1, <2>2 DEF ExclusionUntilFailure
<1>2. ASSUME ExclusionUntilFailure, [LockNext]_lockVars
      PROVE  ExclusionUntilFailure'
  <2>1. LockTypeOK /\ LockTypeOK'
    BY <1>2, LockTypeInductive DEF ExclusionUntilFailure
  <2> SUFFICES ASSUME \A c \in MayAbandon : ~Ended(c)'
               PROVE  Exclusion'
    BY <2>1 DEF ExclusionUntilFailure
  <2>2. ASSUME NEW c \in Call, Abandoning(c)
        PROVE  FALSE
    <3>1. c \in MayAbandon /\ at'[c] \in {"failed", "returned", "crashed"}
      BY <2>1, <2>2 DEF Abandoning, AcquireFails, ReleaseFails, Crash, Move, LockTypeOK
    <3>2. QED
      BY <3>1 DEF Ended
  <2>3. ASSUME NEW c \in MayAbandon, Ended(c)
        PROVE  FALSE
    \* A call that ended stays where it is.
    <3> USE <2>1, <2>3 DEF LockTypeOK, Move, Ended
    <3>1. CASE UNCHANGED lockVars
      BY <3>1 DEF lockVars
    <3>2. CASE Age
      BY <3>2 DEF Age
    <3>3. ASSUME NEW d \in Call, Claiming(d) \/ Leave(d) \/ Releasing(d)
          PROVE  FALSE
      BY <3>3, CallAssumption
         DEF Claiming, Acquire, FindStale, Reclaim, TimeOut, Leave, Releasing, ReadOwner, Unlink
    <3>4. QED
      BY <1>2, <2>2, <3>1, <3>2, <3>3 DEF LockNext
  <2>4. ExclusionInvariant
    BY <1>2, <2>1, <2>3 DEF ExclusionUntilFailure, Exclusion, ExclusionInvariant
  <2>5. ExclusionInvariant'
    BY <1>2, <2>2, <2>4, ExclusionStep DEF OnlyTheUpdateFails
  <2>6. QED
    BY <2>5 DEF Exclusion, ExclusionInvariant
<1>3. ExclusionUntilFailure => UpdateAlone
  <2> SUFFICES ASSUME ExclusionUntilFailure, NEW c \in Updater, NEW d \in Call,
                      at[c] = "inside", at[d] = "inside"
               PROVE  c = d
    BY DEF UpdateAlone
  <2>1. \A a \in MayAbandon : ~Ended(a)
    BY DEF OnlyTheUpdateFails, Ended
  <2>2. c \in Call
    BY StoreAssumption
  <2>3. claim.owner = {c} /\ claim.owner = {d}
    BY <2>1, <2>2 DEF ExclusionUntilFailure, Exclusion, HolderOwns, Holding
  <2>4. QED
    BY <2>3
<1>4. QED
  BY <1>1, <1>2, <1>3, PTL DEF LockSpec

LEMMA RotationReads ==
  ASSUME Typed, Content, ~overwritten, NEW p \in Process, Read(p)
  PROVE  Content' /\ file' = file
<1> USE DEF Content, Typed, StoreTypeOK, NoFile, Record, Step
<1>1. UNCHANGED <<file, result, overwritten, claim, at>> /\ InStep(p, "read")
  BY DEF Read, lockVars
<1>2. /\ seen' = [seen EXCEPT ![p] = seen'[p]] /\ seen'[p] \in {file, NoFile}
  BY DEF Read
<1>3. step' = [step EXCEPT ![p] = step'[p]]
  BY DEF Read, Goto
<1>4. SeenIsTrue'
  BY <1>1, <1>2, <1>3 DEF SeenIsTrue, StillTrue, Deciding, Process
<1>5. SeenAgree'
  BY <1>1, <1>2, <1>3 DEF SeenAgree, SeenIsTrue, StillTrue, Deciding, Process
<1>6. ResultsAreSeen'
  BY <1>1, <1>2, <1>3 DEF ResultsAreSeen, ResultsAreDurable, Deciding, Process
<1>7. ResultsAreDurable'
  BY <1>1 DEF ResultsAreDurable
<1>8. QED
  BY <1>1, <1>4, <1>5, <1>6, <1>7

LEMMA RotationRewrites ==
  ASSUME Typed, Content, ~overwritten, NEW p \in Process, Migrate(p) \/ MigrateFails(p),
         ~overwritten'
  PROVE  Content' /\ KeepsTheRecord
<1> USE DEF Content, Typed, StoreTypeOK
<1>1. /\ UNCHANGED <<result, claim, at>> /\ InStep(p, "migrate")
      /\ step' = [step EXCEPT ![p] = Afterwards(p)]
      /\ seen' = [seen EXCEPT ![p] = seen'[p]] /\ seen'[p] \in {seen[p], NoFile}
      /\ seen[p] \in Record
      /\ file'.status \in {file.status, seen[p].status}
      /\ p \in Reader => file'.status = file.status
  BY WritesBackWhatItRead
<1>2. /\ \A c \in Call : Deciding(c)' => Deciding(c)
      /\ \A c \in Call : seen'[c].status \in {seen[c].status, "none"}
  BY <1>1, StoreAssumption DEF Deciding, InStep, Process, Afterwards, NoFile
<1>3. SeenAgree'
  BY <1>1, <1>2 DEF SeenAgree
<1>4. ResultsAreSeen'
  BY <1>1, <1>2 DEF ResultsAreSeen
\* A reader leaves the status as it is; a call writes the status that all calls inside have seen.
<1>5. CASE file'.status = file.status
  <2>1. SeenIsTrue' /\ ResultsAreDurable'
    BY <1>1, <1>2, <1>5 DEF SeenIsTrue, StillTrue, ResultsAreDurable
  <2>2. QED
    BY <1>3, <1>4, <1>5, <2>1 DEF KeepsTheRecord
<1>6. CASE p \in Call /\ file'.status = seen[p].status
  <2>1. at[p] = "inside" /\ Deciding(p) /\ StillTrue(seen[p].status) /\ seen[p].status # "none"
    BY <1>1, <1>6 DEF InStep, Deciding, SeenIsTrue
  <2>2. ASSUME NEW c \in Call, at'[c] = "inside", Deciding(c)'
        PROVE  /\ StillTrue(seen[c].status)'
               /\ seen'[c].status = "pending" => file'.status = "pending"
    <3>1. seen[c].status \in {seen[p].status, "none"}
      BY <1>1, <1>2, <1>6, <2>1, <2>2 DEF SeenAgree
    <3>2. QED
      BY <1>2, <1>6, <2>1, <3>1 DEF StillTrue
  <2>3. SeenIsTrue'
    BY <2>2 DEF SeenIsTrue
  <2>4. ResultsAreDurable'
    BY <1>1, <1>6, <2>1 DEF ResultsAreDurable, ResultsAreSeen
  <2>5. KeepsTheRecord
    BY <1>6, <2>1 DEF KeepsTheRecord, StillTrue, Verdict
  <2>6. QED
    BY <1>3, <1>4, <2>3, <2>4, <2>5
<1>7. QED
  BY <1>1, <1>5, <1>6 DEF Process

LEMMA RotationUpdates ==
  ASSUME Typed, Content, ~overwritten, UpdateAlone, NEW c \in Call, Update(c) \/ UpdateFails(c)
  PROVE  Content' /\ KeepsTheRecord
<1> USE DEF Content, Typed, StoreTypeOK, NoFile, Record, Process
<1>1. /\ c \in Updater /\ InStep(c, "decide") /\ at[c] = "inside" /\ Deciding(c)
      /\ UNCHANGED <<seen, overwritten, claim, at>>
      /\ step' = [step EXCEPT ![c] = "done"]
  BY DecisionTyped DEF Update, UpdateFails, InStep, Deciding
<1>2. PICK v \in Result : result' = [result EXCEPT ![c] = v]
  BY DEF Update, UpdateFails, End, Result
<1>3. \/ file' = file /\ (v = "unavailable" \/ (seen[c].status \in Verdict /\ v = seen[c].status))
      \/ /\ seen[c].status = "pending"
         /\ \E w \in Verdict : file' = Finalized(c, w) /\ v \in {w, "unavailable"}
  BY <1>2 DEF Update, UpdateFails, End
\* Nobody else is inside.
<1>4. \A d \in Call : ~(at'[d] = "inside" /\ Deciding(d)')
  BY <1>1 DEF UpdateAlone, Deciding
<1>5. SeenIsTrue' /\ SeenAgree' /\ ResultsAreSeen'
  BY <1>4 DEF SeenIsTrue, SeenAgree, ResultsAreSeen
<1>6. CASE file' = file /\ (v = "unavailable" \/ (seen[c].status \in Verdict /\ v = seen[c].status))
  <2>1. ResultsAreDurable'
    BY <1>1, <1>2, <1>6 DEF ResultsAreDurable, SeenIsTrue, StillTrue, Verdict
  <2>2. QED
    BY <1>5, <1>6, <2>1 DEF KeepsTheRecord
<1>7. ASSUME seen[c].status = "pending",
             NEW w \in Verdict, file' = Finalized(c, w), v \in {w, "unavailable"}
      PROVE  Content' /\ KeepsTheRecord
  <2>1. file.status = "pending" /\ file'.status = w
    BY <1>1, <1>7 DEF SeenIsTrue, Finalized
  <2>2. ResultsAreDurable'
    BY <1>1, <1>2, <1>7, <2>1 DEF ResultsAreDurable, Verdict
  <2>3. QED
    BY <1>5, <2>1, <2>2 DEF KeepsTheRecord, Verdict
<1>8. QED
  BY <1>3, <1>6, <1>7

LEMMA RotationRemoves ==
  ASSUME Typed, Content, ~overwritten, NEW c \in Call, Remove(c) \/ RemoveFails(c)
  PROVE  Content' /\ KeepsTheRecord
<1> USE DEF Content, Typed, StoreTypeOK, NoFile, Record, Process
<1>1. /\ c \notin Updater /\ at[c] = "inside" /\ Deciding(c)
      /\ UNCHANGED <<seen, overwritten, claim, at>>
      /\ step' = [step EXCEPT ![c] = "done"]
  BY DecisionTyped DEF Remove, RemoveFails, InStep, Deciding
<1>2. PICK v \in Result \ Verdict : result' = [result EXCEPT ![c] = v]
  BY DEF Remove, RemoveFails, End, Result, Verdict
<1>3. file' = file \/ (file' = NoFile /\ seen[c].status \in Verdict)
  BY DEF Remove, RemoveFails, Eligible
<1>4. seen[c].status \in Verdict => file.status \in {seen[c].status, "none"}
  BY <1>1 DEF SeenIsTrue, StillTrue, Verdict
<1>5. \A d \in Call : Deciding(d)' => Deciding(d)
  BY <1>1 DEF Deciding
\* What another call has seen pending is pending, and so is not deleted.
<1>6. SeenIsTrue'
  BY <1>1, <1>3, <1>4, <1>5 DEF SeenIsTrue, StillTrue, Verdict
<1>7. SeenAgree'
  BY <1>1, <1>5 DEF SeenAgree
<1>8. ResultsAreSeen'
  BY <1>1, <1>2, <1>5 DEF ResultsAreSeen
<1>9. ResultsAreDurable'
  BY <1>1, <1>2, <1>3 DEF ResultsAreDurable
<1>10. KeepsTheRecord
  BY <1>3 DEF KeepsTheRecord
<1>11. QED
  BY <1>6, <1>7, <1>8, <1>9, <1>10

\* A step that leaves the statuses alone, and in which calls only leave their work.
LEMMA RotationKeeps ==
  ASSUME Content, file'.status = file.status, UNCHANGED <<seen, step, result, overwritten>>,
         \A d \in Call : Deciding(d) => at'[d] = at[d] \/ at'[d] = "crashed"
  PROVE  Content' /\ KeepsTheRecord
<1>1. \A d \in Call : Deciding(d)' <=> Deciding(d)
  BY DEF Deciding
<1>2. QED
  BY <1>1 DEF Content, SeenIsTrue, StillTrue, SeenAgree, ResultsAreSeen, ResultsAreDurable,
     KeepsTheRecord

LEMMA RotationStep ==
  ASSUME RotationInv, UpdateAlone, [Next]_vars
  PROVE  RotationInv' /\ (~overwritten' => KeepsTheRecord)
<1>1. Typed /\ Typed' /\ LockTypeOK'
  BY TypedStep DEF RotationInv, Typed, StoreTypeOK
<1> SUFFICES ASSUME ~overwritten'
             PROVE  Content' /\ KeepsTheRecord
  BY <1>1 DEF RotationInv
<1>2. CASE UNCHANGED vars
  <2>1. ~overwritten /\ UNCHANGED <<claim, at, file, seen, step, result, overwritten>>
    BY <1>1, <1>2, StutterTyped
  <2>2. QED
    BY <2>1, RotationKeeps DEF RotationInv
<1>3. ASSUME NEW p \in Process, Read(p)
      PROVE  Content' /\ KeepsTheRecord
  <2>1. ~overwritten
    BY <1>3 DEF Read
  <2>2. QED
    BY <1>1, <1>3, <2>1, RotationReads DEF RotationInv, KeepsTheRecord
<1>4. ASSUME NEW p \in Process, Migrate(p) \/ MigrateFails(p)
      PROVE  Content' /\ KeepsTheRecord
  <2>1. ~overwritten
    BY <1>4 DEF Migrate, MigrateFails, WriteBack
  <2>2. QED
    BY <1>1, <1>4, <2>1, RotationRewrites DEF RotationInv
<1>5. ASSUME NEW c \in Call, Update(c) \/ UpdateFails(c) \/ Remove(c) \/ RemoveFails(c)
      PROVE  Content' /\ KeepsTheRecord
  <2>1. ~overwritten
    BY <1>1, <1>5, DecisionTyped
  <2>2. QED
    BY <1>1, <1>5, <2>1, RotationUpdates, RotationRemoves DEF RotationInv
<1>6. CASE (\E c \in Call : Lock(c)) \/ (Age /\ UNCHANGED storeVars)
  <2>1. /\ ~overwritten /\ UNCHANGED <<file, seen, step, result, overwritten>>
        /\ \A d \in Call : Deciding(d) => at'[d] = at[d] \/ at'[d] = "crashed"
    BY <1>1, <1>6, LockTyped
  <2>2. QED
    BY <2>1, RotationKeeps DEF RotationInv
<1>7. CASE Expire
  <2>1. /\ ~overwritten /\ file'.status = file.status
        /\ UNCHANGED <<claim, at, seen, step, result, overwritten>>
    BY <1>1, <1>7, ExpireTyped
  <2>2. QED
    BY <2>1, RotationKeeps DEF RotationInv
<1>8. QED
  BY <1>2, <1>3, <1>4, <1>5, <1>6, <1>7 DEF Next

\* While keys are rotated, any number of reads outside the claim write records back.  Until one
\* of them brings back a stale status, what updateSyncJob answered is what the disk holds and
\* no verdict is overwritten, although deletions and updates re-encrypt what they read earlier.
THEOREM RotationKeepsResults ==
  ASSUME OnlyTheUpdateFails
  PROVE  Spec => []ResultsAreDurable /\ VerdictStays
<1>1. Init => RotationInv
  BY TypedInit, StoreAssumption
     DEF Init, RotationInv, Content, SeenIsTrue, SeenAgree, ResultsAreSeen, ResultsAreDurable,
         Deciding, Verdict, Process
<1>2. Spec => []UpdateAlone
  BY StoreUsesLock, ExclusionUntilFailureHolds, PTL
<1>3. RotationInv /\ UpdateAlone /\ [Next]_vars =>
        /\ RotationInv'
        /\ [file.status \in Verdict /\ ~overwritten' => file'.status \in {file.status, "none"}]_vars
  BY RotationStep DEF KeepsTheRecord
<1>4. RotationInv => ResultsAreDurable
  BY DEF RotationInv, Content, ResultsAreDurable
<1>5. QED
  BY <1>1, <1>2, <1>3, <1>4, PTL DEF Spec, VerdictStays

-----------------------------------------------------------------------------
(***************************************************************************)
(* The retention of jobs and snapshots (RetentionCleanup), for any number  *)
(* of requests and runs, where a job may become unreadable at any time.    *)
(* RetentionInvariant is inductive: while a run goes on, no file gets old, *)
(* so the jobs that name an expired snapshot are among those it listed, and*)
(* it drops such a job only after it deleted the job file, or when the job *)
(* became unreadable behind its back (missedBy).                           *)
(***************************************************************************)
Core == RequestsAndFiles /\ RunKnowsReferences /\ RunPhases /\ ReferencedBackupsStay

LEMMA FilesInit == CleanupInit => RetentionInvariant
BY DEF CleanupInit, RetentionInvariant, RetentionTypeOK, RequestsAndFiles, RunKnowsReferences,
       RunPhases, ReferencedBackupsStay, Stored, Running, Damaged

LEMMA FilesTypeStep ==
  ASSUME RetentionTypeOK, [CleanupNext]_cleanupVars
  PROVE  RetentionTypeOK'
<1> USE DEF RetentionTypeOK, jobVars, runVars, Proceed, Retain
<1>1. CASE UNCHANGED cleanupVars
  BY <1>1 DEF cleanupVars
<1>2. ASSUME NEW j \in Job,
             RequestStep(j) \/ Damage(j) \/ ExpireJob(j) \/ ExpireBackup(j)
      PROVE  RetentionTypeOK'
  <2>1. CASE Create(j) \/ StoreBackup(j) \/ Stop(j)
    BY <2>1 DEF Create, StoreBackup, Stop
  <2>2. CASE EndJob(j)
    BY <2>2 DEF EndJob
  <2>3. CASE Damage(j)
    BY <2>3 DEF Damage
  <2>4. CASE ExpireJob(j)
    BY <2>4 DEF ExpireJob
  <2>5. CASE ExpireBackup(j)
    BY <2>5 DEF ExpireBackup
  <2>6. QED
    BY <1>2, <2>1, <2>2, <2>3, <2>4, <2>5 DEF RequestStep
<1>3. ASSUME NEW k \in Cleaner, Start(k) \/ ListBackups(k) \/ Report(k)
      PROVE  RetentionTypeOK'
  <2>1. CASE Start(k)
    <3>1. dryRun' \in [Cleaner -> BOOLEAN]
      BY <2>1 DEF Start
    <3>2. CASE unscanned' = [unscanned EXCEPT ![k] = Stored] /\ UNCHANGED blocked
      BY <2>1, <3>1, <3>2 DEF Start, Stored
    <3>3. CASE blocked' = [blocked EXCEPT ![k] = TRUE] /\ UNCHANGED unscanned
      BY <2>1, <3>1, <3>3 DEF Start
    <3>4. QED
      BY <2>1, <3>2, <3>3 DEF Start
  <2>2. CASE ListBackups(k)
    BY <2>2 DEF ListBackups
  <2>3. CASE Report(k)
    BY <2>3 DEF Report
  <2>4. QED
    BY <1>3, <2>1, <2>2, <2>3
<1>4. ASSUME NEW k \in Cleaner, NEW j \in Job, RunStep(k, j)
      PROVE  RetentionTypeOK'
  <2>0. CASE FindInvalid(k, j)
    BY <2>0 DEF FindInvalid, ReadJob
  <2>1. CASE FindRetained(k, j)
    BY <2>1 DEF FindRetained, ReadJob
  <2>2. CASE FindEligible(k, j)
    <3>1. /\ UNCHANGED <<jobVars, backup, dryRun, referenced, blocked, candidates>>
          /\ unscanned' \in [Cleaner -> SUBSET Job]
      BY <2>2 DEF FindEligible, ReadJob
    <3>2. runAt' = runAt \/ runAt' = [runAt EXCEPT ![k] = "removing"]
      BY <2>2 DEF FindEligible
    <3>3. deciding' = deciding \/ deciding' = [deciding EXCEPT ![k] = {j}]
      BY <2>2 DEF FindEligible
    <3>4. QED
      BY <3>1, <3>2, <3>3
  <2>3. CASE RemoveJob(k, j)
    <3>1. UNCHANGED <<handler, readable, missedBy, backup, dryRun, unscanned, referenced, blocked,
                      candidates>>
      BY <2>3 DEF RemoveJob
    <3>2. runAt' \in {[runAt EXCEPT ![k] = "jobs"], [runAt EXCEPT ![k] = "refreshing"]}
      BY <2>3 DEF RemoveJob
    <3>3. /\ status' \in {status, [status EXCEPT ![j] = "none"]}
          /\ refers' \in {refers, [refers EXCEPT ![j] = FALSE]}
          /\ expired' \in {expired, [expired EXCEPT ![j] = FALSE]}
          /\ deciding' \in {deciding, [deciding EXCEPT ![k] = {}]}
      BY <2>3 DEF RemoveJob
    <3>4. /\ status' \in [Job -> {"none", "pending", "terminal"}]
          /\ refers' \in [Job -> BOOLEAN] /\ expired' \in [Job -> BOOLEAN]
      <4>1. status' \in [Job -> {"none", "pending", "terminal"}]
        BY <3>3
      <4>2. refers' \in [Job -> BOOLEAN]
        BY <3>3
      <4>3. expired' \in [Job -> BOOLEAN]
        BY <3>3
      <4>4. QED
        BY <4>1, <4>2, <4>3
    <3>5. deciding' \in [Cleaner -> SUBSET Job]
      BY <3>3
    <3>6. runAt' \in [Cleaner -> {"idle", "jobs", "removing", "refreshing", "backups", "done"}]
      BY <3>2
    <3>7. QED
      BY <3>1, <3>4, <3>5, <3>6
  <2>4. CASE RemovalFails(k, j) \/ Refresh(k, j)
    <3>1. /\ UNCHANGED <<jobVars, backup, dryRun, unscanned, blocked, candidates>>
          /\ deciding' = [deciding EXCEPT ![k] = {}] /\ runAt' = [runAt EXCEPT ![k] = "jobs"]
      BY <2>4 DEF RemovalFails, Refresh
    <3>2. referenced' = referenced \/ referenced' = [referenced EXCEPT ![k] = @ \cup {j}]
      BY <2>4 DEF RemovalFails, Refresh
    <3>3. QED
      BY <3>1, <3>2
  <2>5. CASE VisitBackup(k, j)
    BY <2>5 DEF VisitBackup
  <2>6. QED
    BY <1>4, <2>0, <2>1, <2>2, <2>3, <2>4, <2>5 DEF RunStep
<1>5. QED
  BY <1>1, <1>2, <1>3, <1>4 DEF CleanupNext

-----------------------------------------------------------------------------
(* Steps of the requests: the memory of the runs does not change. *)

LEMMA RequestStepKeeps ==
  ASSUME RetentionInvariant, NEW j \in Job,
         RequestStep(j) \/ Damage(j) \/ ExpireJob(j) \/ ExpireBackup(j)
  PROVE  Core'
<1> USE DEF RetentionInvariant, RetentionTypeOK, Core, RequestsAndFiles, RunKnowsReferences,
            RunPhases, ReferencedBackupsStay, Stored, Running, Damaged, runVars, jobVars
<1>1. CASE Create(j)
  BY <1>1 DEF Create
<1>2. CASE StoreBackup(j)
  BY <1>2 DEF StoreBackup
<1>3. CASE EndJob(j)
  \* The snapshot of a request at work is fresh, so no run has to know of it yet.
  BY <1>3 DEF EndJob
<1>4. CASE Stop(j)
  BY <1>4 DEF Stop
<1>5. CASE Damage(j)
  <2>1. /\ UNCHANGED <<handler, status, refers, expired, backup, runVars>>
        /\ readable' = [readable EXCEPT ![j] = FALSE]
        /\ j \in Stored /\ readable[j] /\ handler[j] = "ended"
        /\ missedBy' = [missedBy EXCEPT ![j] =
                          {k \in Cleaner : Running(k) /\ j \notin unscanned[k]}]
    BY <1>5 DEF Damage
  <2>2. missedBy[j] = {}
    BY <2>1
  <2>3. RequestsAndFiles' /\ ReferencedBackupsStay'
    BY <2>1, <2>2
  <2>4. RunKnowsReferences'
    BY <2>1, <2>2
  \* A run that was about to delete the job had read it.
  <2>5. \A k \in Cleaner : deciding[k] # {} => Running(k) /\ deciding[k] \cap unscanned[k] = {}
    BY DEF RunPhases
  <2>6. RunPhases'
    BY <2>1, <2>2, <2>5
  <2>7. QED
    BY <2>3, <2>4, <2>6
<1>6. CASE ExpireJob(j)
  BY <1>6 DEF ExpireJob
<1>7. CASE ExpireBackup(j)
  <2>1. \A k \in Cleaner : ~Running(k)
    BY <1>7 DEF ExpireBackup, ADayPasses
  <2>2. QED
    BY <1>7, <2>1 DEF ExpireBackup
<1>8. QED
  BY <1>1, <1>2, <1>3, <1>4, <1>5, <1>6, <1>7 DEF RequestStep

-----------------------------------------------------------------------------
(* Steps of a run *)

LEMMA RunStepKeeps ==
  ASSUME RetentionInvariant, NEW k \in Cleaner, NEW j \in Job, RunStep(k, j)
  PROVE  Core'
<1> USE DEF RetentionInvariant, RetentionTypeOK, Core, RequestsAndFiles, RunKnowsReferences,
            RunPhases, ReferencedBackupsStay, Stored, Running, Damaged, runVars, jobVars, Proceed
<1>1. CASE FindInvalid(k, j)
  BY <1>1 DEF FindInvalid, ReadJob
<1>2. CASE FindRetained(k, j)
  BY <1>2 DEF FindRetained, ReadJob, Retain
<1>3. CASE FindEligible(k, j)
  BY <1>3 DEF FindEligible, ReadJob
<1>4. CASE RemoveJob(k, j)
  <2>1. runAt[k] = "removing" /\ j \in deciding[k]
    BY <1>4 DEF RemoveJob
  <2>2. UNCHANGED <<handler, readable, missedBy, backup, dryRun, unscanned, referenced, blocked>>
    BY <1>4 DEF RemoveJob
  <2>3. CASE status' = [status EXCEPT ![j] = "none"] /\ Proceed(k, "jobs")
    <3>1. /\ refers' = [refers EXCEPT ![j] = FALSE]
          /\ deciding' = [deciding EXCEPT ![k] = {}]
      BY <1>4, <2>3 DEF RemoveJob
    <3>2. Stored' = Stored \ {j} /\ Damaged' \subseteq Damaged
      BY <2>2, <2>3
    <3>3. RequestsAndFiles' /\ ReferencedBackupsStay'
      BY <2>2, <2>3, <3>1, <3>2
    <3>4. RunKnowsReferences'
      BY <2>1, <2>2, <2>3, <3>1, <3>2
    <3>5. RunPhases'
      BY <2>1, <2>2, <2>3, <3>1, <3>2
    <3>6. QED
      BY <2>1, <3>3, <3>4, <3>5
  <2>4. CASE Proceed(k, "refreshing") /\ UNCHANGED <<status, refers, expired, deciding>>
    BY <2>1, <2>2, <2>4
  <2>5. QED
    BY <1>4, <2>3, <2>4 DEF RemoveJob
<1>5. CASE RemovalFails(k, j)
  <2>1. runAt[k] = "removing" /\ deciding[k] = {j}
    BY <1>5 DEF RemovalFails
  <2>2. \A i \in Cleaner : referenced[i] \subseteq referenced'[i]
    BY <1>5 DEF RemovalFails, Retain
  <2>3. refers[j] => j \in referenced'[k]
    BY <1>5 DEF RemovalFails, Retain
  <2>4. QED
    BY <1>5, <2>1, <2>2, <2>3 DEF RemovalFails
<1>6. CASE Refresh(k, j)
  <2>1. runAt[k] = "refreshing" /\ deciding[k] = {j}
    BY <1>6 DEF Refresh
  <2>2. \A i \in Cleaner : referenced[i] \subseteq referenced'[i]
    BY <1>6 DEF Refresh, Retain
  <2>3. j \in Stored /\ refers[j] => j \in referenced'[k] \/ k \in missedBy[j]
    BY <1>6, <2>1 DEF Refresh, Retain
  <2>4. QED
    BY <1>6, <2>1, <2>2, <2>3 DEF Refresh
<1>7. CASE VisitBackup(k, j)
  <2>1. /\ UNCHANGED <<jobVars, runAt, dryRun, unscanned, deciding, referenced, blocked>>
        /\ runAt[k] = "backups"
        /\ \/ backup' = backup
           \/ /\ ~blocked[k] /\ ~dryRun[k] /\ j \notin referenced[k] /\ backup[j] = "expired"
              /\ backup' = [backup EXCEPT ![j] = "none"]
    BY <1>7 DEF VisitBackup, Removable
  <2>2. CASE backup' = backup
    BY <2>1, <2>2
  <2>3. CASE /\ ~blocked[k] /\ ~dryRun[k] /\ j \notin referenced[k] /\ backup[j] = "expired"
             /\ backup' = [backup EXCEPT ![j] = "none"]
    <3>1. RunKnowsReferences' /\ RunPhases'
      BY <2>1, <2>3
    \* A run that is not blocked holds the name of every expired snapshot a stored job names.
    <3>2. j \in Stored /\ refers[j] => k \in missedBy[j]
      BY <2>1, <2>3 DEF RunPhases, RunKnowsReferences
    <3>3. RequestsAndFiles' /\ ReferencedBackupsStay'
      BY <2>1, <2>3, <3>2
    <3>4. QED
      BY <3>1, <3>3
  <2>4. QED
    BY <2>1, <2>2, <2>3
<1>8. QED
  BY <1>1, <1>2, <1>3, <1>4, <1>5, <1>6, <1>7 DEF RunStep

LEMMA RunPhaseKeeps ==
  ASSUME RetentionInvariant, NEW k \in Cleaner, Start(k) \/ ListBackups(k) \/ Report(k)
  PROVE  Core'
<1> USE DEF RetentionInvariant, RetentionTypeOK, Core, RequestsAndFiles, RunKnowsReferences,
            RunPhases, ReferencedBackupsStay, Stored, Running, Damaged, runVars, jobVars, Proceed
<1>1. CASE Start(k)
  BY <1>1 DEF Start
<1>2. CASE ListBackups(k)
  BY <1>2 DEF ListBackups
<1>3. CASE Report(k)
  BY <1>3 DEF Report
<1>4. QED
  BY <1>1, <1>2, <1>3

-----------------------------------------------------------------------------

LEMMA FilesStep ==
  ASSUME RetentionInvariant, [CleanupNext]_cleanupVars
  PROVE  RetentionInvariant'
<1>1. RetentionTypeOK'
  BY FilesTypeStep DEF RetentionInvariant
<1>2. CASE UNCHANGED cleanupVars
  BY <1>2 DEF cleanupVars, jobVars, runVars, RetentionInvariant, RetentionTypeOK, RequestsAndFiles,
         RunKnowsReferences, RunPhases, ReferencedBackupsStay, Stored, Running, Damaged
<1>3. CASE CleanupNext
  <2>1. Core'
    BY <1>3, RequestStepKeeps, RunStepKeeps, RunPhaseKeeps DEF CleanupNext
  <2>2. QED
    BY <1>1, <2>1 DEF Core, RetentionInvariant
<1>4. QED
  BY <1>2, <1>3

\* The invariant of the files and of the memory of the runs.
THEOREM RetentionInductive == CleanupSpec => []RetentionInvariant
<1>1. RetentionInvariant /\ [CleanupNext]_cleanupVars => RetentionInvariant'
  BY FilesStep
<1>2. QED
  BY <1>1, FilesInit, PTL DEF CleanupSpec

\* cleanupStorage preserves every snapshot that a stored job names, unless the job became
\* unreadable after a run had looked at it.
THEOREM SnapshotsStay == CleanupSpec => []ReferencedBackupsStay
<1>1. RetentionInvariant => ReferencedBackupsStay
  BY DEF RetentionInvariant
<1>2. QED
  BY <1>1, RetentionInductive, PTL

LEMMA DeletionsAreInformed ==
  ASSUME RetentionInvariant, [CleanupNext]_cleanupVars, NEW k \in Cleaner, Deletes(k)
  PROVE  \A j \in Damaged : k \in missedBy[j]
<1> USE DEF RetentionInvariant, RetentionTypeOK, jobVars, runVars, Deletes
<1>1. CASE UNCHANGED cleanupVars
  BY <1>1 DEF cleanupVars
<1>2. ASSUME NEW i \in Job,
             RequestStep(i) \/ Damage(i) \/ ExpireJob(i) \/ ExpireBackup(i)
      PROVE  FALSE
  BY <1>2 DEF RequestStep, Create, StoreBackup, EndJob, Stop, Damage, ExpireJob, ExpireBackup
<1>3. ASSUME NEW l \in Cleaner, Start(l) \/ ListBackups(l) \/ Report(l)
      PROVE  FALSE
  BY <1>3 DEF Start, ListBackups, Report
<1>4. ASSUME NEW l \in Cleaner, NEW i \in Job, RunStep(l, i)
      PROVE  \A j \in Damaged : k \in missedBy[j]
  <2>1. VisitBackup(l, i) /\ backup' # backup
    BY <1>4 DEF RunStep, FindInvalid, FindRetained, FindEligible, RemoveJob, RemovalFails, Refresh
  <2>2. l = k
    BY <2>1 DEF VisitBackup
  <2>3. runAt[k] = "backups" /\ ~blocked[k]
    BY <2>1, <2>2 DEF VisitBackup, Removable
  <2>4. QED
    BY <2>3 DEF RunPhases, Running
<1>5. QED
  BY <1>1, <1>2, <1>3, <1>4 DEF CleanupNext

\* Deletion of snapshots fails closed: a job that cannot be read stops every run that had
\* not looked at it before.
THEOREM FailsClosed == CleanupSpec => DamageBlocksDeletion
<1>1. RetentionInvariant /\ [CleanupNext]_cleanupVars =>
        [\A k \in Cleaner : Deletes(k) => \A j \in Damaged : k \in missedBy[j]]_cleanupVars
  BY DeletionsAreInformed
<1>2. QED
  BY <1>1, RetentionInductive, PTL DEF CleanupSpec, DamageBlocksDeletion

-----------------------------------------------------------------------------
(***************************************************************************)
(* When a cleanup runs (CleanupThrottle), for any number of calls and any  *)
(* interval.  A call that waits for a cleanup arrived after it began, and  *)
(* some call waits for each; once they all resumed, the time that is       *)
(* remembered is not before the last beginning - if all of them are calls  *)
(* of one tenant, as one key is remembered.                                *)
(***************************************************************************)
Begun(t, time) == \A i \in DOMAIN started[t] : started[t][i] <= time

Spaced(t) == \A i \in 2 .. Len(started[t]) : started[t][i] - started[t][i - 1] >= Interval

ThrottleTypes ==
  /\ Throttle!ThrottleTypeOK
  /\ tenant \in [Requests -> Tenant] /\ now \in [Requests -> Nat] /\ started \in [Tenant -> Seq(Nat)]

WaitersCameLater ==
  /\ \A t \in Tenant : Begun(t, clock)
  /\ \A c \in Requests :
       /\ callPhase[c] \in {"waiting", "resumed"} => Begun(tenant[c], now[c])
       /\ callPhase[c] = "resumed" => running = Throttle!NoTenant
  /\ running # Throttle!NoTenant => \E c \in Requests : callPhase[c] = "waiting"

LastIsRemembered ==
  running = Throttle!NoTenant /\ (\A c \in Requests : callPhase[c] # "resumed") =>
    \A c \in Requests :
      started[tenant[c]] = <<>> \/ (lastKey = tenant[c] /\ Begun(tenant[c], lastAt))

ThrottleInv ==
  /\ ThrottleTypes /\ WaitersCameLater
  /\ Throttle!OneTenant => LastIsRemembered /\ \A t \in Tenant : Spaced(t)

LEMMA ThrottleInit ==
  ASSUME Throttle!ThrottleAssumption, Throttle!Init
  PROVE  ThrottleInv
BY DEF Throttle!ThrottleAssumption, Throttle!Init, ThrottleInv, ThrottleTypes, WaitersCameLater,
   LastIsRemembered, Throttle!ThrottleTypeOK, Begun, Spaced

LEMMA ThrottleNext ==
  ASSUME Throttle!ThrottleAssumption, ThrottleInv, [Throttle!Next]_(Throttle!vars)
  PROVE  ThrottleInv'
<1> USE DEF Throttle!ThrottleAssumption
<1>0. /\ ThrottleTypes /\ WaitersCameLater
      /\ Throttle!OneTenant => LastIsRemembered /\ \A t \in Tenant : Spaced(t)
  BY DEF ThrottleInv
<1>n. /\ clock \in Nat /\ lastAt \in Nat /\ now \in [Requests -> Nat] /\ tenant \in [Requests -> Tenant]
      /\ started \in [Tenant -> Seq(Nat)] /\ lastAt <= clock /\ clock <= MaxTime
  BY <1>0 DEF ThrottleTypes, Throttle!ThrottleTypeOK
<1>1. CASE UNCHANGED Throttle!vars
  BY <1>0, <1>1 DEF Throttle!vars, ThrottleInv, ThrottleTypes, WaitersCameLater, LastIsRemembered,
     Throttle!ThrottleTypeOK, Begun, Spaced, Throttle!OneTenant
<1>2. CASE Throttle!Tick
  <2>1. /\ clock' = clock + 1 /\ clock < MaxTime
        /\ UNCHANGED <<running, lastKey, lastAt, tenant, callPhase, now, started>>
    BY <1>2 DEF Throttle!Tick
  <2>2. ThrottleTypes'
    BY <1>0, <1>n, <2>1 DEF ThrottleTypes, Throttle!ThrottleTypeOK
  <2>3. \A t \in Tenant : Begun(t, clock')
    BY <1>0, <1>n, <2>1 DEF WaitersCameLater, Begun
  <2> QED
    BY <1>0, <2>1, <2>2, <2>3 DEF ThrottleInv, WaitersCameLater, LastIsRemembered, Begun, Spaced,
       Throttle!OneTenant
<1>3. CASE Throttle!Finish
  <2>1. /\ running # Throttle!NoTenant /\ running' = Throttle!NoTenant
        /\ callPhase' = [c \in Requests |-> IF callPhase[c] = "waiting" THEN "resumed" ELSE callPhase[c]]
        /\ UNCHANGED <<clock, lastKey, lastAt, tenant, now, started>>
    BY <1>3 DEF Throttle!Finish
  <2>2. ThrottleTypes'
    BY <1>0, <2>1 DEF ThrottleTypes, Throttle!ThrottleTypeOK
  <2>3. \E c \in Requests : callPhase'[c] = "resumed"
    BY <1>0, <2>1 DEF WaitersCameLater
  <2> QED
    BY <1>0, <2>1, <2>2, <2>3 DEF ThrottleInv, WaitersCameLater, LastIsRemembered, Begun, Spaced,
       Throttle!OneTenant
<1>4. ASSUME NEW c \in Requests, Throttle!Skip(c) PROVE ThrottleInv'
  <2>1. /\ callPhase' = [callPhase EXCEPT ![c] = "done"] /\ callPhase[c] = "idle"
        /\ UNCHANGED <<clock, running, lastKey, lastAt, tenant, now, started>>
    BY <1>4 DEF Throttle!Skip, Throttle!Arriving
  <2>2. ThrottleTypes'
    BY <1>0, <2>1 DEF ThrottleTypes, Throttle!ThrottleTypeOK
  <2>3. /\ callPhase'[c] = "done" /\ \A d \in Requests : d # c => callPhase'[d] = callPhase[d]
    BY <1>0, <2>1 DEF ThrottleTypes, Throttle!ThrottleTypeOK
  <2> QED
    BY <1>0, <2>1, <2>2, <2>3 DEF ThrottleInv, WaitersCameLater, LastIsRemembered, Begun, Spaced,
       Throttle!OneTenant
<1>5. ASSUME NEW c \in Requests, Throttle!Resume(c) PROVE ThrottleInv'
  <2>1. /\ callPhase' = [callPhase EXCEPT ![c] = "done"] /\ callPhase[c] = "resumed"
        /\ lastKey' = tenant[c] /\ lastAt' = now[c]
        /\ UNCHANGED <<clock, running, tenant, now, started>>
    BY <1>5 DEF Throttle!Resume
  <2>2. ThrottleTypes'
    <3>1. now[c] \in 0 .. clock
      BY <1>0, <1>n DEF ThrottleTypes, Throttle!ThrottleTypeOK
    <3> QED
      BY <1>0, <2>1, <3>1 DEF ThrottleTypes, Throttle!ThrottleTypeOK
  <2>3. /\ callPhase'[c] = "done" /\ \A d \in Requests : d # c => callPhase'[d] = callPhase[d]
    BY <1>0, <2>1 DEF ThrottleTypes, Throttle!ThrottleTypeOK
  <2>4. WaitersCameLater'
    BY <1>0, <2>1, <2>3 DEF WaitersCameLater, Begun
  <2>5. Throttle!OneTenant => LastIsRemembered'
    BY <1>0, <2>1 DEF WaitersCameLater, LastIsRemembered, Begun, Throttle!OneTenant
  <2> QED
    BY <1>0, <2>1, <2>2, <2>4, <2>5 DEF ThrottleInv, Begun, Spaced, Throttle!OneTenant
<1>6. ASSUME NEW c \in Requests, Throttle!Wait(c) PROVE ThrottleInv'
  <2>1. /\ callPhase' = [callPhase EXCEPT ![c] = "waiting"] /\ now' = [now EXCEPT ![c] = clock]
        /\ UNCHANGED <<clock, lastKey, lastAt, tenant>>
        /\ \A d \in Requests : callPhase[d] # "resumed"
        /\ IF running = Throttle!NoTenant THEN Throttle!Begin(c) ELSE UNCHANGED <<running, started>>
    BY <1>6 DEF Throttle!Wait, Throttle!Arriving
  <2>2. /\ callPhase'[c] = "waiting" /\ \A d \in Requests : d # c => callPhase'[d] = callPhase[d]
        /\ now'[c] = clock /\ \A d \in Requests : d # c => now'[d] = now[d]
    BY <1>0, <2>1 DEF ThrottleTypes, Throttle!ThrottleTypeOK
  <2>3. /\ callPhase' \in [Requests -> {"idle", "waiting", "resumed", "done"}]
        /\ now' \in [Requests -> Nat] /\ \A d \in Requests : now'[d] <= clock
    BY <1>0, <1>n, <2>1, <2>2 DEF ThrottleTypes, Throttle!ThrottleTypeOK
  <2>4. CASE running # Throttle!NoTenant
    <3>1. UNCHANGED <<running, started>>
      BY <2>1, <2>4
    <3>2. ThrottleTypes'
      BY <1>0, <1>n, <2>1, <2>2, <2>3, <2>4, <3>1 DEF ThrottleTypes, Throttle!ThrottleTypeOK
    <3>3. WaitersCameLater'
      BY <1>0, <1>n, <2>1, <2>2, <3>1 DEF WaitersCameLater, Begun
    <3> QED
      BY <1>0, <2>1, <2>4, <3>1, <3>2, <3>3 DEF ThrottleInv, LastIsRemembered, Spaced, Begun,
         Throttle!OneTenant
  <2>5. CASE running = Throttle!NoTenant
    <3>1. PICK t \in Tenant : t = tenant[c]
      BY <1>n
    <3>2. /\ running' = t /\ t # Throttle!NoTenant
          /\ started' = [started EXCEPT ![t] = Append(started[t], clock)]
      BY <2>1, <2>5, <3>1 DEF Throttle!Begin
    <3>3. /\ started' \in [Tenant -> Seq(Nat)] /\ started[t] \in Seq(Nat)
          /\ started'[t] = Append(started[t], clock)
          /\ \A u \in Tenant : u # t => started'[u] = started[u]
      BY <1>n, <3>2
    <3>4. /\ Len(started'[t]) = Len(started[t]) + 1 /\ Len(started[t]) \in Nat
          /\ \A i \in 1 .. Len(started[t]) : started'[t][i] = started[t][i]
          /\ started'[t][Len(started[t]) + 1] = clock
          /\ DOMAIN started'[t] = 1 .. Len(started[t]) + 1
      BY <1>n, <3>3
    <3>5. ThrottleTypes'
      BY <1>0, <1>n, <2>1, <2>2, <2>3, <3>1, <3>2, <3>3 DEF ThrottleTypes, Throttle!ThrottleTypeOK
    <3>6. \A u \in Tenant : Begun(u, clock)'
      <4>1. \A u \in Tenant : Begun(u, clock) /\ clock' = clock
        BY <1>0, <2>1 DEF WaitersCameLater
      <4>2. \A u \in Tenant : u # t => Begun(u, clock)'
        BY <3>3, <4>1 DEF Begun
      <4>3. DOMAIN started[t] = 1 .. Len(started[t])
        BY <3>3
      <4>4. \A i \in DOMAIN started'[t] : i \in DOMAIN started[t] \/ i = Len(started[t]) + 1
        BY <3>4, <4>3
      <4>5. Begun(t, clock)'
        BY <1>n, <3>4, <4>1, <4>3, <4>4 DEF Begun
      <4> QED
        BY <4>2, <4>5
    <3>7. \A d \in Requests : callPhase[d] # "waiting"
      BY <1>0, <2>5 DEF ThrottleTypes, Throttle!ThrottleTypeOK
    <3>8. WaitersCameLater'
      BY <1>n, <2>1, <2>2, <3>1, <3>2, <3>6, <3>7 DEF WaitersCameLater, Begun
    <3>9. ASSUME Throttle!OneTenant PROVE Spaced(t)'
      <4>1. started[t] = <<>> \/ (lastKey = t /\ Begun(t, lastAt))
        BY <1>0, <2>1, <2>5, <3>1, <3>9 DEF LastIsRemembered
      <4>2. lastKey = t => clock - lastAt >= Interval
        BY <1>6, <1>n, <3>1 DEF Throttle!Wait, Throttle!Recent
      <4>3. ASSUME NEW i \in 2 .. Len(started'[t])
            PROVE  started'[t][i] - started'[t][i - 1] >= Interval
        <5>1. CASE i = Len(started[t]) + 1
          <6>1. Len(started[t]) \in DOMAIN started[t] /\ started[t] # <<>>
            BY <3>3, <3>4, <4>3, <5>1
          <6>2. started[t][Len(started[t])] <= lastAt /\ started[t][Len(started[t])] \in Nat
            BY <3>3, <4>1, <6>1 DEF Begun
          <6>3. i - 1 = Len(started[t]) /\ started'[t][i - 1] = started[t][Len(started[t])]
                /\ started'[t][i] = clock
            BY <3>4, <4>3, <5>1, <6>1
          <6> QED
            BY <1>n, <4>1, <4>2, <6>1, <6>2, <6>3
        <5>2. CASE i # Len(started[t]) + 1
          <6>1. i \in 2 .. Len(started[t]) /\ i - 1 \in 1 .. Len(started[t])
                /\ i \in 1 .. Len(started[t])
            BY <3>4, <4>3, <5>2
          <6>2. started[t][i] - started[t][i - 1] >= Interval
            BY <1>0, <3>9, <6>1 DEF Spaced
          <6> QED
            BY <3>4, <6>1, <6>2
        <5> QED
          BY <5>1, <5>2
      <4> QED
        BY <4>3 DEF Spaced
    <3>10. Throttle!OneTenant => \A u \in Tenant : Spaced(u)'
      BY <1>0, <3>3, <3>9 DEF Spaced
    <3> QED
      BY <2>1, <3>2, <3>5, <3>8, <3>10 DEF ThrottleInv, LastIsRemembered, Throttle!OneTenant
  <2> QED
    BY <2>4, <2>5
<1> QED
  BY <1>1, <1>2, <1>3, <1>4, <1>5, <1>6 DEF Throttle!Next

\* maybeCleanupStorage cleans the directories of a single tenant at most once per
\* interval, however its requests arrive, join a running cleanup and resume.
THEOREM CleanupsAreSpaced ==
  ASSUME Throttle!ThrottleAssumption
  PROVE  Throttle!Spec => []AtMostHourly
<1>1. Throttle!Init => ThrottleInv
  BY ThrottleInit
<1>2. ThrottleInv /\ [Throttle!Next]_(Throttle!vars) => ThrottleInv'
  BY ThrottleNext
<1>3. ThrottleInv => AtMostHourly
  BY DEF ThrottleInv, ThrottleTypes, Spaced, Throttle!AtMostHourly, AtMostHourly
<1> QED
  BY <1>1, <1>2, <1>3, PTL DEF Throttle!Spec
=============================================================================
