------------------------------ MODULE JobLock ------------------------------
(***************************************************************************)
(* withJobLock (apps/api/src/server.ts): the claim file that serializes the*)
(* updates and the deletion of one stored sync job, on a file system that  *)
(* several API processes share.  Every file operation is a step of its own:*)
(* exclusive creation, stat, unlink, and the read and unlink of a release. *)
(*                                                                         *)
(* A Call is one execution of withJobLock; its random owner string is the  *)
(* call itself.  What the guarded action does while its call is "inside"   *)
(* is the subject of module JobStore.                                      *)
(***************************************************************************)
EXTENDS FiniteSets

CONSTANTS
  Call,           \* executions of withJobLock for one job
  MayAbandon,     \* the calls that may leave a claim behind: their process dies
                  \* holding it, or the file system fails under them
  SlowHolders     \* may a live holder take longer than JOB_LOCK_STALE_MS?

ASSUME CallAssumption == MayAbandon \subseteq Call /\ SlowHolders \in BOOLEAN

NoClaim == [owner |-> {}, stale |-> FALSE]
Claim(c) == [owner |-> {c}, stale |-> FALSE]

VARIABLES
  claim,          \* the claim file: its owner, and whether it is older than the limit
  at              \* at[c]: where call c is

lockVars == <<claim, at>>

At == {"claiming", "reclaiming", "inside", "releasing", "unlinking",
       "returned", "failed", "crashed"}

Holding(c) == at[c] \in {"inside", "releasing", "unlinking"}
Ended(c) == at[c] \in {"returned", "failed", "crashed"}

LockInit ==
  /\ claim = NoClaim
  /\ at = [c \in Call |-> "claiming"]

Move(c, place) == at' = [at EXCEPT ![c] = place]

-----------------------------------------------------------------------------
(* Claiming *)

\* writeFile with flag "wx" creates the file or fails with EEXIST.
Acquire(c) ==
  /\ at[c] = "claiming"
  /\ claim = NoClaim
  /\ claim' = Claim(c)
  /\ Move(c, "inside")

\* An error other than EEXIST; the file may have been created before it.
AcquireFails(c) ==
  /\ c \in MayAbandon
  /\ at[c] = "claiming"
  /\ claim' = claim \/ (claim = NoClaim /\ claim' = Claim(c))
  /\ Move(c, "failed")

\* EEXIST, and stat shows a modification time beyond JOB_LOCK_STALE_MS.
FindStale(c) ==
  /\ at[c] = "claiming"
  /\ claim.stale
  /\ Move(c, "reclaiming")
  /\ UNCHANGED claim

\* A plausible bug: only the owner may remove the claim, and a waiter that may not tries again.
ReclaimOwned(c) ==
  /\ at[c] = "reclaiming"
  /\ claim' = IF c \in claim.owner THEN NoClaim ELSE claim
  /\ Move(c, "claiming")

\* The unlink removes whatever file has the name by then, or finds none.
Reclaim(c) ==
  /\ at[c] = "reclaiming"
  /\ claim' = NoClaim
  /\ Move(c, "claiming") \/ Move(c, "failed")

\* EEXIST, the claim is not stale, and JOB_LOCK_WAIT_MS has passed.
TimeOut(c) ==
  /\ at[c] = "claiming"
  /\ claim # NoClaim /\ ~claim.stale
  /\ Move(c, "failed")
  /\ UNCHANGED claim

-----------------------------------------------------------------------------
(* Releasing *)

\* The guarded action returned or threw: the finally block reads the owner ...
Leave(c) ==
  /\ at[c] = "inside"
  /\ Move(c, "releasing")
  /\ UNCHANGED claim

\* A plausible bug: the release never finds its own claim.
ReadNoOwner(c) ==
  /\ at[c] = "releasing"
  /\ Move(c, "returned")
  /\ UNCHANGED claim

ReadOwner(c) ==
  /\ at[c] = "releasing"
  /\ Move(c, IF c \in claim.owner THEN "unlinking" ELSE "returned")
  /\ UNCHANGED claim

\* ... and unlinks the file if it was its own.
Unlink(c) ==
  /\ at[c] = "unlinking"
  /\ claim' = NoClaim
  /\ Move(c, "returned")

\* Errors of the release are swallowed.
ReleaseFails(c) ==
  /\ c \in MayAbandon
  /\ at[c] \in {"releasing", "unlinking"}
  /\ Move(c, "returned")
  /\ UNCHANGED claim

Crash(c) ==
  /\ c \in MayAbandon
  /\ ~Ended(c)
  /\ Move(c, "crashed")
  /\ UNCHANGED claim

\* JOB_LOCK_STALE_MS pass.
Age ==
  /\ claim # NoClaim /\ ~claim.stale
  /\ SlowHolders \/ \A c \in claim.owner : ~Holding(c)
  /\ claim' = [claim EXCEPT !.stale = TRUE]
  /\ UNCHANGED at

Claiming(c) == Acquire(c) \/ FindStale(c) \/ Reclaim(c) \/ TimeOut(c)
Releasing(c) == ReadOwner(c) \/ Unlink(c)
Abandoning(c) == AcquireFails(c) \/ ReleaseFails(c) \/ Crash(c)

LockNext ==
  \/ \E c \in Call : Claiming(c) \/ Leave(c) \/ Releasing(c) \/ Abandoning(c)
  \/ Age

LockSpec == LockInit /\ [][LockNext]_lockVars

-----------------------------------------------------------------------------
(* Properties *)

\* The claim file is absent or names one call; a call is at one place of withJobLock.
LockTypeOK ==
  /\ claim \in [owner : SUBSET Call, stale : BOOLEAN]
  /\ \A c, d \in claim.owner : c = d
  /\ at \in [Call -> At]

(***************************************************************************)
(* At most one call is inside its guarded action (docs/DEPLOYMENT.md 101:  *)
(* terminal updates and retention deletion use a per-job claim lock and    *)
(* re-read state under that lock).                                         *)
(***************************************************************************)
MutualExclusion ==
  \A c, d \in Call : at[c] = "inside" /\ at[d] = "inside" => c = d

HolderOwns == \A c \in Call : Holding(c) => claim.owner = {c}
OwnerHolds == \A c \in claim.owner : Holding(c)
NobodyReclaims == ~claim.stale /\ \A c \in Call : at[c] # "reclaiming"

(***************************************************************************)
(* Where no claim is abandoned or outlived, the file names exactly the call*)
(* that runs its action or releases, and no waiter takes it for stale      *)
(* (withJobLock's comparison with JOB_LOCK_STALE_MS and with the owner).   *)
(***************************************************************************)
ExclusionInvariant == LockTypeOK /\ HolderOwns /\ OwnerHolds /\ NobodyReclaims

(***************************************************************************)
(* A call waits a bounded time, whoever died holding the claim: its guarded*)
(* action runs to the end or the call reports the timeout.                 *)
(***************************************************************************)
EveryCallEnds == \A c \in Call : <>Ended(c)

(***************************************************************************)
(* A claim outlives its call only where that call died or the file system  *)
(* failed under it: once every call ended, no claim is left that a healthy *)
(* call created, so the next one need not wait for JOB_LOCK_STALE_MS.      *)
(***************************************************************************)
NoOrphanClaim ==
  (\A c \in Call : Ended(c)) => claim.owner \subseteq MayAbandon

=============================================================================
