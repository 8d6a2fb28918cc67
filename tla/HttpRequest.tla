----------------------------- MODULE HttpRequest -----------------------------
(***************************************************************************)
(* requestJson (packages/connectors/src/http.ts): one call of a connector  *)
(* to its provider, with a time limit per attempt, bounded retries of      *)
(* reads only, a bound on the response and cancellation by the caller.     *)
(*                                                                         *)
(* The network may delay an attempt past its time limit, lose it or lose   *)
(* its answer, so an attempt the connector gave up may still be executed.  *)
(* Time is counted in units; a timer fires exactly when it is due.         *)
(***************************************************************************)
EXTENDS Integers, FiniteSets

CONSTANTS
  Settings,      \* the values a caller configures for a limit
  Unset,         \* a limit that is not configured
  MaxTimeout, MaxAttempts, MaxDelay, MaxBytes,          \* the hard limits
  DefaultTimeout, DefaultAttempts, DefaultDelay,        \* used when a limit is unusable
  RetryAfter,    \* the waits a provider may ask for
  BaseDelay      \* the first wait when it asks for none

HttpAssumption ==
  /\ Unset \notin Int
  /\ Settings \subseteq Int \cup {Unset}
  /\ {MaxTimeout, MaxAttempts, MaxDelay, MaxBytes} \subseteq Nat \ {0}
  /\ DefaultTimeout \in 1..MaxTimeout
  /\ DefaultAttempts \in 1..MaxAttempts
  /\ DefaultDelay \in 1..MaxDelay
  /\ RetryAfter \subseteq Nat
  /\ BaseDelay \in Nat \ {0}
  /\ \A n \in 0..MaxAttempts : 2 ^ n \in Nat     \* arithmetic the provers do not know

VARIABLES
  kind,       \* "read" for GET and HEAD, "write" for every other method
  limits,     \* the limits in force for this call
  pc,         \* where the call is
  attempt,    \* the attempt under way
  due,        \* when its timer fires: the attempt's time limit or the end of a wait
  now,        \* the time since the call began
  aborted,    \* the caller has cancelled
  wire,       \* the attempts the provider has not executed yet
  effects,    \* how often the provider executed the call
  response,   \* what has arrived of the answer to the attempt under way
  received,   \* the length of the body read so far
  result      \* what the caller was given

vars == <<kind, limits, pc, attempt, due, now, aborted, wire, effects, response, received, result>>

provider == <<wire, effects>>
caller == <<kind, limits, aborted>>

\* A body is whole or cut short, and its declared length may be missing or wrong.
Body ==
  {b \in [size : 0..(MaxBytes + 1), declared : {Unset} \cup 0..(MaxBytes + 1), whole : BOOLEAN] :
     b.whole => b.size > 0}
NoBody == [size |-> 0, declared |-> Unset, whole |-> FALSE]

Answers ==
  [status : {"ok"}, body : Body, wait : {Unset}]
    \cup [status : {"empty", "refused"}, body : {NoBody}, wait : {Unset}]
    \cup [status : {"busy"}, body : {NoBody}, wait : RetryAfter \cup {Unset}]

NoAnswer == [status |-> "none", body |-> NoBody, wait |-> Unset]
Broken == [status |-> "broken", body |-> NoBody, wait |-> Unset]

\* A limit that is missing, zero, negative or not a number falls back; one too large is capped.
boundedInteger(value, fallback, maximum) ==
  IF value = Unset \/ value <= 0 THEN fallback
  ELSE IF value < maximum THEN value ELSE maximum

isRetryableStatus(answer) == answer.status = "busy"

\* A plausible bug: the wait the provider asks for is not capped.
RetryDelayUncapped(wait, n) ==
  IF wait = Unset THEN BaseDelay * 2 ^ (n - 1) ELSE wait

\* The wait before attempt n + 1: what the provider asks for, or twice the last, capped.
retryDelay(wait, n) ==
  LET d == IF wait = Unset THEN BaseDelay * 2 ^ (n - 1) ELSE wait
  IN  IF d < limits.delay THEN d ELSE limits.delay

Init ==
  /\ kind \in {"read", "write"}
  /\ limits = [timeout |-> DefaultTimeout, attempts |-> 1, delay |-> DefaultDelay]
  /\ pc = "idle"
  /\ attempt = 0
  /\ due = 0
  /\ now = 0
  /\ aborted \in BOOLEAN
  /\ wire = {}
  /\ effects = 0
  /\ response = NoAnswer
  /\ received = 0
  /\ result = "none"

-----------------------------------------------------------------------------
(* Steps of the call *)

Return(r) ==
  /\ pc' = "done"
  /\ result' = r
  /\ UNCHANGED <<caller, attempt, due, now, provider, response, received>>

\* fetch is called: the attempt is on the wire and its timer runs.
Fetch(n, length) ==
  /\ pc' = "fetching"
  /\ attempt' = n
  /\ due' = now + length
  /\ wire' = wire \cup {n}
  /\ response' = NoAnswer
  /\ received' = 0
  /\ UNCHANGED <<effects, now, aborted, kind, result>>

Call ==
  /\ pc = "idle"
  /\ \/ aborted /\ Return("aborted")
     \/ /\ ~aborted
        /\ \E t, a, d \in Settings :
             LET l == [timeout |-> boundedInteger(t, DefaultTimeout, MaxTimeout),
                       attempts |-> IF kind = "read"
                                    THEN boundedInteger(a, DefaultAttempts, MaxAttempts)
                                    ELSE 1,
                       delay |-> boundedInteger(d, DefaultDelay, MaxDelay)]
             IN  limits' = l /\ Fetch(1, l.timeout)

\* Give up this attempt for a later one, unless the caller has cancelled.
Wait(d) ==
  /\ pc' = "sleeping"
  /\ due' = now + d
  /\ UNCHANGED <<caller, attempt, now, provider, response, received, result>>

\* A plausible bug: the method is forgotten where the retry is decided.
MayRetryAnything == attempt < DefaultAttempts

MayRetry == kind = "read" /\ attempt < limits.attempts

\* The answer's head has arrived: an error status is dropped with its body.
Head ==
  /\ pc = "fetching"
  /\ response.status \notin {"none", "broken"}
  /\ \/ response.status = "empty" /\ Return("nothing")
     \/ /\ response.status \in {"busy", "refused"}
        /\ pc' = "discarding"
        /\ UNCHANGED <<caller, attempt, due, now, provider, response, received, result>>
     \/ /\ response.status = "ok"
        /\ IF response.body.declared \in 0..MaxBytes \cup {Unset}
           THEN /\ pc' = "streaming"
                /\ UNCHANGED <<caller, attempt, due, now, provider, response, received, result>>
           ELSE Return("too large")

\* The body of an error status is cancelled, even by the attempt's own time limit.
Discarded ==
  /\ pc = "discarding"
  /\ IF isRetryableStatus(response) /\ MayRetry
     THEN IF aborted THEN Return("aborted") ELSE Wait(retryDelay(response.wait, attempt))
     ELSE Return("status")

\* One more piece of the body, or its end.
Read ==
  /\ pc = "streaming"
  /\ ~aborted
  /\ \/ /\ received < response.body.size
        /\ IF received + 1 > MaxBytes
           THEN Return("too large")
           ELSE /\ received' = received + 1
                /\ UNCHANGED <<caller, pc, attempt, due, now, provider, response, result>>
     \/ /\ received = response.body.size
        /\ Return(IF response.body.whole THEN "data" ELSE "invalid")

\* A failed attempt: a broken connection, or a timer that fires before the answer is complete.
Fail ==
  /\ \/ pc = "fetching" /\ response.status = "broken"
     \/ pc \in {"fetching", "streaming"} /\ (now = due \/ aborted)
  /\ IF aborted THEN Return("aborted")
     ELSE IF MayRetry THEN Wait(retryDelay(Unset, attempt))
     ELSE Return("network")

\* An abortable wait: a cancellation ends it at once.
Wake ==
  /\ pc = "sleeping"
  /\ \/ aborted /\ Return("aborted")
     \/ /\ ~aborted /\ now = due
        /\ Fetch(attempt + 1, limits.timeout)
        /\ UNCHANGED limits

-----------------------------------------------------------------------------
(* The caller, the network and time *)

Abort ==
  /\ pc \notin {"idle", "done"}
  /\ ~aborted
  /\ aborted' = TRUE
  /\ UNCHANGED <<kind, limits, pc, attempt, due, now, provider, response, received, result>>

\* Only the attempt under way still has someone waiting for its answer.
Deliver(n, answer) ==
  /\ response' = IF pc = "fetching" /\ n = attempt THEN answer ELSE response
  /\ wire' = wire \ {n}
  /\ UNCHANGED <<caller, pc, attempt, due, now, received, result>>

\* A refusal executes nothing; an unavailable provider may have executed the call.
Execute(n) ==
  /\ n \in wire
  /\ \E answer \in Answers \cup {Broken} :
       /\ \/ answer.status \in {"ok", "empty", "busy", "broken"} /\ effects' = effects + 1
          \/ answer.status \in {"refused", "busy", "broken"} /\ effects' = effects
       /\ Deliver(n, answer)

\* Time passes up to the next timer; once the call is over only the wire remains.
Tick ==
  /\ pc \in {"fetching", "discarding", "streaming", "sleeping"}
  /\ now < due
  /\ now' = now + 1
  /\ UNCHANGED <<caller, pc, attempt, due, provider, response, received, result>>

Next ==
  \/ Call \/ Head \/ Discarded \/ Read \/ Fail \/ Wake
  \/ Abort
  \/ \E n \in 1..MaxAttempts : Execute(n)
  \/ Tick

Spec == Init /\ [][Next]_vars

-----------------------------------------------------------------------------
(* Properties *)

RequestTypeOK ==
  /\ kind \in {"read", "write"}
  /\ limits \in [timeout : 1..MaxTimeout, attempts : 1..MaxAttempts, delay : 1..MaxDelay]
  /\ pc \in {"idle", "fetching", "discarding", "streaming", "sleeping", "done"}
  /\ attempt \in 0..limits.attempts
  /\ due \in Nat /\ now \in 0..due
  /\ aborted \in BOOLEAN
  /\ wire \subseteq 1..attempt
  /\ effects \in 0..attempt
  /\ response \in Answers \cup {NoAnswer, Broken}
  /\ received \in 0..MaxBytes
  /\ result \in {"none", "aborted", "nothing", "data", "invalid", "too large", "status", "network"}

(***************************************************************************)
(* Whatever the provider answers, asks to wait for or never sends, and     *)
(* whatever limits are configured, the call is over within its attempts'   *)
(* time limits and the capped waits between them: no answer and no         *)
(* configured zero can make a connector wait for ever.                     *)
(***************************************************************************)
EndsInTime ==
  /\ RequestTypeOK
  /\ pc # "done" => now <= MaxAttempts * MaxTimeout + (MaxAttempts - 1) * MaxDelay

Told ==
  IF result \in {"data", "nothing"} THEN "answered"
  ELSE IF result = "status" /\ response.status = "refused" THEN "refused"
  ELSE IF result = "aborted" THEN "cancelled"
  ELSE IF result = "none" THEN "none"
  ELSE "unknown"

Abstract == INSTANCE ProviderCall WITH report <- Told, MaxEffects <- MaxAttempts

(***************************************************************************)
(* A connector's call is a ProviderCall: a write takes effect at most once *)
(* although its answer may be lost or late, an answered call has taken     *)
(* effect, and a refused one has not and will not.                         *)
(***************************************************************************)
ImplementsProviderCall == Abstract!Spec
=============================================================================
