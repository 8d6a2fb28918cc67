-------------------------- MODULE AdmissionControl --------------------------
(***************************************************************************)
(* What lets a request into the API process and out of it again            *)
(* (apps/api/src/server.ts): authentication, the budget of concurrent      *)
(* requests, the fixed-window rate limit per authorization value, the body *)
(* limits, the budget of long-running operations, and the graceful         *)
(* shutdown that drains what was let in.  Handlers are opaque: they take   *)
(* time and end.                                                           *)
(***************************************************************************)
EXTENDS Integers, FiniteSets

CONSTANTS
  Request,        \* the requests that arrive
  Key,            \* the configured API keys
  MaxRequests,    \* WATCHBRIDGE_MAX_CONCURRENT_REQUESTS
  MaxSyncs,       \* WATCHBRIDGE_MAX_CONCURRENT_SYNCS
  RateLimit,      \* WATCHBRIDGE_RATE_LIMIT_PER_MINUTE
  Window,         \* RATE_LIMIT_WINDOW_MS
  MaxTime         \* bound on the clock

ASSUME AdmissionAssumption ==
  /\ IsFiniteSet(Request)
  /\ {MaxRequests, MaxSyncs, RateLimit, Window} \subseteq Nat \ {0}
  /\ MaxTime \in Nat

\* "metrics" never takes a request slot, "sync" stands for the three
\* long-running routes.
Kind == {"plain", "sync", "metrics"}

NoKey == "none"
ASSUME NoKeyAssumption == NoKey \notin Key

VARIABLES
  clock,        \* Date.now()
  server,       \* "open", "draining", "stopped" (exit 0), "killed"
  phase,        \* phase[r]: where request r is
  kind, key,    \* kind[r], key[r]: the route and authorization of request r
  slots,        \* the requests that hold a request slot
  syncSlots,    \* the requests that hold a slot of the long-running operations
  activeApiRequests,     \* the counters the limits are checked against
  activeSyncExecutions,
  bucket,       \* rateLimitBuckets: per key the window and its count
  counted       \* counted[r]: the time at which the rate limit admitted r, or -1

vars == <<clock, server, phase, kind, key, slots, syncSlots, activeApiRequests,
          activeSyncExecutions, bucket, counted>>

identity == <<kind, key>>
requestBudget == <<slots, activeApiRequests>>
syncBudget == <<syncSlots, activeSyncExecutions>>
rate == <<bucket, counted>>

Phase == {"new", "admitted", "handling", "answered", "cut"}

Init ==
  /\ clock = 0 /\ server = "open"
  /\ phase = [r \in Request |-> "new"]
  /\ kind \in [Request -> Kind] /\ key \in [Request -> Key \cup {NoKey}]
  /\ slots = {} /\ syncSlots = {}
  /\ activeApiRequests = 0 /\ activeSyncExecutions = 0
  /\ bucket = [k \in Key |-> [window |-> -1, requests |-> 0]]
  /\ counted = [r \in Request |-> -1]

UnderWay == {r \in Request : phase[r] \in {"admitted", "handling"}}

\* Closing the listener leaves the connections of requests under way, which
\* may carry another request.
Reachable == server = "open" \/ (server = "draining" /\ UnderWay # {})
Up == server \in {"open", "draining"}
Goto(r, p) == phase' = [phase EXCEPT ![r] = p]

CurrentWindow == (clock \div Window) * Window

\* A plausible bug: one request too many.
UnderLimitByOne(k) == bucket[k].window # CurrentWindow \/ bucket[k].requests <= RateLimit

\* rateLimitRetryAfterSeconds answers undefined.
UnderLimit(k) == bucket[k].window # CurrentWindow \/ bucket[k].requests < RateLimit

Counted(k) ==
  [bucket EXCEPT ![k] = [window |-> CurrentWindow,
                         requests |-> IF @.window = CurrentWindow THEN @.requests + 1 ELSE 1]]

\* Answered at once: nothing is counted and no slot is kept.
Refuse(r) ==
  /\ Reachable /\ phase[r] = "new"
  /\ Goto(r, "answered")
  /\ UNCHANGED <<clock, server, identity, requestBudget, syncBudget, rate>>

Unauthorized(r) == key[r] \notin Key /\ Refuse(r)

Room(r) == kind[r] = "metrics" \/ activeApiRequests < MaxRequests

AtCapacity(r) == key[r] \in Key /\ ~Room(r) /\ Refuse(r)

\* The slot is taken and released again in one step of the event loop.
RateLimited(r) == key[r] \in Key /\ Room(r) /\ ~UnderLimit(key[r]) /\ Refuse(r)

TakeSlot(r) ==
  IF kind[r] = "metrics" THEN UNCHANGED requestBudget
  ELSE slots' = slots \cup {r} /\ activeApiRequests' = activeApiRequests + 1

\* From here on the request waits for its body, slot in hand.
Admit(r) ==
  /\ Reachable /\ phase[r] = "new"
  /\ key[r] \in Key /\ Room(r) /\ UnderLimit(key[r])
  /\ TakeSlot(r)
  /\ bucket' = Counted(key[r])
  /\ counted' = [counted EXCEPT ![r] = clock]
  /\ Goto(r, "admitted")
  /\ UNCHANGED <<clock, server, identity, syncBudget>>

\* The finally block: the release callback works once.
Release(r) ==
  /\ slots' = slots \ {r}
  /\ activeApiRequests' = IF r \in slots THEN activeApiRequests - 1 ELSE activeApiRequests

\* The body is too large or malformed, or it asks for a long-running operation
\* and these are at capacity.
RefuseBody(r) ==
  /\ Up /\ phase[r] = "admitted"
  /\ Release(r)
  /\ Goto(r, "answered")
  /\ UNCHANGED <<clock, server, identity, syncBudget, rate>>

\* A plausible bug: the budget is checked when the operation ends.
StartUnchecked(r) ==
  /\ Up /\ phase[r] = "admitted"
  /\ IF kind[r] = "sync"
     THEN syncSlots' = syncSlots \cup {r} /\ activeSyncExecutions' = activeSyncExecutions + 1
     ELSE UNCHANGED syncBudget
  /\ Goto(r, "handling")
  /\ UNCHANGED <<clock, server, identity, requestBudget, rate>>

Start(r) ==
  /\ Up /\ phase[r] = "admitted"
  /\ IF kind[r] = "sync"
     THEN /\ activeSyncExecutions < MaxSyncs
          /\ syncSlots' = syncSlots \cup {r}
          /\ activeSyncExecutions' = activeSyncExecutions + 1
     ELSE UNCHANGED syncBudget
  /\ Goto(r, "handling")
  /\ UNCHANGED <<clock, server, identity, requestBudget, rate>>

\* The handler returned or threw: both release callbacks run.
Answer(r) ==
  /\ Up /\ phase[r] = "handling"
  /\ Release(r)
  /\ syncSlots' = syncSlots \ {r}
  /\ activeSyncExecutions' =
       IF r \in syncSlots THEN activeSyncExecutions - 1 ELSE activeSyncExecutions
  /\ Goto(r, "answered")
  /\ UNCHANGED <<clock, server, identity, rate>>

\* The first SIGTERM or SIGINT: the listener closes.
Signal ==
  /\ server = "open"
  /\ server' = "draining"
  /\ UNCHANGED <<clock, phase, identity, requestBudget, syncBudget, rate>>

\* server.close calls back when the last connection is gone.
Closed ==
  /\ server = "draining" /\ UnderWay = {}
  /\ server' = "stopped"
  /\ UNCHANGED <<clock, phase, identity, requestBudget, syncBudget, rate>>

\* The timeout of the drain, or a second signal of the same name, whose
\* listener was registered once and whose default action ends the process.
Forced ==
  /\ server = "draining"
  /\ server' = "killed"
  /\ phase' = [r \in Request |-> IF r \in UnderWay THEN "cut" ELSE phase[r]]
  /\ UNCHANGED <<clock, identity, requestBudget, syncBudget, rate>>

Tick ==
  /\ Up /\ clock < MaxTime
  /\ clock' = clock + 1
  /\ UNCHANGED <<server, phase, identity, requestBudget, syncBudget, rate>>

Step(r) ==
  \/ Unauthorized(r) \/ AtCapacity(r) \/ RateLimited(r) \/ Admit(r)
  \/ RefuseBody(r) \/ Start(r) \/ Answer(r)

Next == Signal \/ Closed \/ Forced \/ Tick \/ \E r \in Request : Step(r)

Spec == Init /\ [][Next]_vars
-----------------------------------------------------------------------------
\* The counters are the numbers of the holders, and the holders are the
\* requests under way, or cut off with the process.
SlotsMatchHolders ==
  /\ activeApiRequests = Cardinality(slots) /\ activeApiRequests <= MaxRequests
  /\ slots = {r \in Request : phase[r] \in {"admitted", "handling", "cut"}
                             /\ kind[r] # "metrics"}
  /\ activeSyncExecutions = Cardinality(syncSlots) /\ activeSyncExecutions <= MaxSyncs
  /\ \A r \in Request :
       /\ phase[r] = "handling" /\ kind[r] = "sync" => r \in syncSlots
       /\ r \in syncSlots => phase[r] \in {"handling", "cut"} /\ kind[r] = "sync"

AdmissionTypeOK ==
  /\ clock \in 0 .. MaxTime
  /\ server \in {"open", "draining", "stopped", "killed"}
  /\ phase \in [Request -> Phase]
  /\ kind \in [Request -> Kind] /\ key \in [Request -> Key \cup {NoKey}]
  /\ slots \subseteq Request /\ syncSlots \subseteq Request
  /\ activeApiRequests \in Nat /\ activeSyncExecutions \in Nat

BudgetInvariant == AdmissionTypeOK /\ SlotsMatchHolders

\* acquireApiRequestSlot, acquireSyncExecutionSlot: the requests that wait for
\* a body or are handled, metrics apart, and the operations under way stay
\* within their budgets.
BudgetsHold ==
  /\ Cardinality({r \in UnderWay : kind[r] # "metrics"}) <= MaxRequests
  /\ Cardinality({r \in Request : phase[r] = "handling" /\ kind[r] = "sync"}) <= MaxSyncs

\* The requests of a key that the rate limit admitted in [from, from + Window).
AdmittedIn(k, from) ==
  {r \in Request : key[r] = k /\ counted[r] >= 0 /\ counted[r] \in from .. from + Window - 1}

\* rateLimitRetryAfterSeconds: no minute, wherever it begins, admits more than
\* twice the limit of one key.
AtMostTwiceTheLimit ==
  \A k \in Key, from \in 0 .. MaxTime : Cardinality(AdmittedIn(k, from)) <= 2 * RateLimit
=============================================================================
