--------------------------- MODULE CleanupThrottle ---------------------------
(***************************************************************************)
(* maybeCleanupStorage (apps/api/src/server.ts): every request that stores *)
(* a job or a backup first runs the retention cleanup of its tenant's      *)
(* directories, or joins the one that is running, or skips it because it   *)
(* ran less than an interval ago.  One promise, one key and one time are   *)
(* shared by all requests of the process.  What a cleanup deletes is the   *)
(* subject of RetentionCleanup.                                            *)
(*                                                                         *)
(* A key names the directories and the policy of a tenant; retention is on *)
(* for every tenant.  Callbacks of a settled promise run before the process*)
(* takes up a new request, so calls arrive only when none is resumed.      *)
(***************************************************************************)
EXTENDS Integers, Sequences

CONSTANTS
  Call,       \* calls of maybeCleanupStorage
  Tenant,     \* tenants, each with directories of its own
  Interval,   \* STORAGE_CLEANUP_INTERVAL_MS
  MaxTime     \* bound on the clock

NoTenant == "none"

ThrottleAssumption ==
  /\ Interval \in Nat \ {0}
  /\ MaxTime \in Nat /\ MaxTime >= Interval
  /\ NoTenant \notin Tenant

VARIABLES
  clock,       \* Date.now()
  running,     \* automaticCleanup: the tenant whose directories it cleans
  lastKey,     \* lastAutomaticCleanupKey
  lastAt,      \* lastAutomaticCleanupAt
  tenant,      \* tenant[c]: the tenant scope of call c
  phase,       \* phase[c]: "idle", "waiting", "resumed" (the promise settled), "done"
  now,         \* now[c]: the time call c read when it arrived
  started      \* started[t]: the times at which a cleanup of t began

vars == <<clock, running, lastKey, lastAt, tenant, phase, now, started>>

Init ==
  /\ clock = Interval
  /\ running = NoTenant
  /\ lastKey = NoTenant /\ lastAt = 0
  /\ tenant \in [Call -> Tenant]
  /\ phase = [c \in Call |-> "idle"]
  /\ now = [c \in Call |-> 0]
  /\ started = [t \in Tenant |-> <<>>]

Arriving(c) == phase[c] = "idle" /\ \A d \in Call : phase[d] # "resumed"

Recent(c) == lastKey = tenant[c] /\ clock - lastAt < Interval

Skip(c) ==
  /\ Arriving(c) /\ Recent(c)
  /\ phase' = [phase EXCEPT ![c] = "done"]
  /\ UNCHANGED <<clock, running, lastKey, lastAt, tenant, now, started>>

Begin(c) ==
  /\ running' = tenant[c]
  /\ started' = [started EXCEPT ![tenant[c]] = Append(@, clock)]

\* A plausible bug: a call never joins, it starts a cleanup of its own.
NeverJoin(c) ==
  /\ Arriving(c) /\ ~Recent(c)
  /\ Begin(c)
  /\ phase' = [phase EXCEPT ![c] = "waiting"]
  /\ now' = [now EXCEPT ![c] = clock]
  /\ UNCHANGED <<clock, lastKey, lastAt, tenant>>

\* Whatever cleanup is running is waited for, whichever tenant it cleans.
Wait(c) ==
  /\ Arriving(c) /\ ~Recent(c)
  /\ IF running = NoTenant THEN Begin(c) ELSE UNCHANGED <<running, started>>
  /\ phase' = [phase EXCEPT ![c] = "waiting"]
  /\ now' = [now EXCEPT ![c] = clock]
  /\ UNCHANGED <<clock, lastKey, lastAt, tenant>>

\* cleanupStorage counts its errors and never throws.
Finish ==
  /\ running # NoTenant
  /\ running' = NoTenant
  /\ phase' = [c \in Call |-> IF phase[c] = "waiting" THEN "resumed" ELSE phase[c]]
  /\ UNCHANGED <<clock, lastKey, lastAt, tenant, now, started>>

\* The call records its own key and the time at which it arrived.
Resume(c) ==
  /\ phase[c] = "resumed"
  /\ phase' = [phase EXCEPT ![c] = "done"]
  /\ lastKey' = tenant[c] /\ lastAt' = now[c]
  /\ UNCHANGED <<clock, running, tenant, now, started>>

Tick ==
  /\ clock < MaxTime /\ \A d \in Call : phase[d] # "resumed"
  /\ clock' = clock + 1
  /\ UNCHANGED <<running, lastKey, lastAt, tenant, phase, now, started>>

Next == Finish \/ Tick \/ \E c \in Call : Skip(c) \/ Wait(c) \/ Resume(c)

Spec == Init /\ [][Next]_vars
-----------------------------------------------------------------------------
ThrottleTypeOK ==
  /\ clock \in Interval .. MaxTime
  /\ running \in Tenant \cup {NoTenant}
  /\ lastKey \in Tenant \cup {NoTenant} /\ lastAt \in 0 .. clock
  /\ phase \in [Call -> {"idle", "waiting", "resumed", "done"}]
  /\ \A c \in Call : now[c] <= clock
  /\ \A c \in Call : phase[c] = "waiting" => running # NoTenant

\* Deployments with a single tenant; one promise, one key and one time cannot
\* keep the intervals of several tenants apart.
OneTenant == \A c, d \in Call : tenant[c] = tenant[d]

\* docs/DEPLOYMENT.md 103: the cleanup of the tenant's directories begins at
\* most once per interval, however the requests arrive and wait.
AtMostHourly ==
  /\ ThrottleTypeOK
  /\ OneTenant => \A t \in Tenant : \A i \in 2 .. Len(started[t]) :
       started[t][i] - started[t][i - 1] >= Interval
=============================================================================
