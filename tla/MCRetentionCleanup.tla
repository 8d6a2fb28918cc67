------------------------- MODULE MCRetentionCleanup -------------------------
(***************************************************************************)
(* Instances of RetentionCleanup and, beside it, of CleanupThrottle, which *)
(* decides when a cleanup runs: a behaviour is one of the former or of the *)
(* latter, and the other one stays in its initial state.                   *)
(***************************************************************************)
EXTENDS RetentionCleanup, TLC

CONSTANTS
  j1, j2, k1, k2,
  t1, Requests, Tenant, Interval, MaxTime

VARIABLES
  part,      \* which of the two runs
  clock, running, lastKey, lastAt, tenant, callPhase, now, started

throttle == <<clock, running, lastKey, lastAt, tenant, callPhase, now, started>>

TwoJobs == {j1, j2}
TwoRuns == {k1, k2}

Throttle == INSTANCE CleanupThrottle WITH Call <- Requests, phase <- callPhase

ASSUME ThrottleConstants == Throttle!ThrottleAssumption

\* Both are in an initial state, the calls all of one tenant.
BothIdle == CleanupInit /\ Throttle!Init /\ \A c \in Requests : tenant[c] = t1

EitherInit ==
  \/ part = "files" /\ BothIdle
  \/ part = "throttle" /\ CleanupInit /\ Throttle!Init

\* One run of two may be a preview.
FilesNext == CleanupNext /\ dryRun' # [k \in Cleaner |-> TRUE]

EitherNext ==
  \/ part = "files" /\ FilesNext /\ UNCHANGED <<part, throttle>>
  \/ part = "throttle" /\ Throttle!Next /\ UNCHANGED <<part, cleanupVars>>

\* maybeCleanupStorage begins a cleanup at most once per interval (CleanupThrottle).
AtMostHourly == Throttle!AtMostHourly
=============================================================================
