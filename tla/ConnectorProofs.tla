--------------------------- MODULE ConnectorProofs ---------------------------
(***************************************************************************)
(* Proofs about the components that MCAccountConnectors puts side by side, *)
(* for any values of the constants.  HttpRequest, for all limits and all   *)
(* values a caller may configure: a request is over in time, and it is a   *)
(* ProviderCall.                                                           *)
(* The invariant counts: an attempt is on the wire or was executed, at most*)
(* once, so a write, which has one attempt, takes effect at most once; and *)
(* every round of an attempt and a wait has its share of the time.         *)
(* AccountReading, for lists of any size: a reader that counts has all of  *)
(* the list, from the one server it connected to.                          *)
(* AccountConnectors, for accounts, calls and bounds of any size: the      *)
(* importers implement AccountImport, and those that reread overwrite      *)
(* nothing they have not seen.                                             *)
(***************************************************************************)
EXTENDS MCAccountConnectors, FiniteSetTheorems, SequenceTheorems, TLAPS

Running == {"fetching", "discarding", "streaming"}

\* How far the call is tells what it knows.
Progress ==
  /\ requestPc = "idle" =>
       /\ attempt = 0 /\ due = 0 /\ now = 0 /\ requestWire = {} /\ effects = 0
       /\ response = Http!NoAnswer
  /\ requestPc \in Running \cup {"sleeping"} => attempt > 0
  /\ requestPc = "sleeping" => attempt < limits.attempts
  /\ requestPc = "discarding" => response.status \in {"busy", "refused"}
  /\ requestPc = "streaming" => response.status = "ok"
  /\ (requestPc = "done") = (result # "none")

\* The time one attempt and the wait after it may take.
Round == MaxTimeout + MaxDelay

Punctual ==
  /\ requestPc \in Running => due + MaxDelay <= attempt * Round
  /\ requestPc = "sleeping" => due <= attempt * Round

\* An attempt is on the wire until the provider decides about it; only then it is answered.
Accounted ==
  /\ effects + Cardinality(requestWire) <= attempt
  /\ kind = "write" => limits.attempts = 1
  /\ response # Http!NoAnswer => attempt \notin requestWire
  /\ response.status \in {"ok", "empty"} => effects > 0
  /\ response.status = "refused" /\ kind = "write" => effects = 0
  /\ result = "data" => response.status = "ok"
  /\ result = "nothing" => response.status = "empty"

HttpInv == Http!RequestTypeOK /\ Progress /\ Punctual /\ Accounted

-----------------------------------------------------------------------------
(* Arithmetic *)

LEMMA LimitIsBounded ==
  ASSUME Http!HttpAssumption, NEW value \in Settings, NEW maximum \in Nat \ {0},
         NEW fallback \in 1..maximum
  PROVE  Http!boundedInteger(value, fallback, maximum) \in 1..maximum
BY DEF Http!HttpAssumption, Http!boundedInteger

\* What the type invariant says of the numbers.
LEMMA Numbers ==
  ASSUME Http!HttpAssumption, Http!RequestTypeOK
  PROVE  /\ MaxTimeout \in Nat /\ MaxDelay \in Nat /\ MaxAttempts \in Nat
         /\ limits.timeout \in 1..MaxTimeout /\ limits.delay \in 1..MaxDelay
         /\ limits.attempts \in 1..MaxAttempts
         /\ attempt \in 0..MaxAttempts /\ attempt <= limits.attempts
         /\ due \in Nat /\ now \in 0..due /\ effects \in Nat
<1>1. limits \in [timeout : 1..MaxTimeout, attempts : 1..MaxAttempts, delay : 1..MaxDelay]
  BY DEF Http!RequestTypeOK
<1>2. attempt \in 0..limits.attempts /\ effects \in 0..attempt /\ due \in Nat /\ now \in 0..due
  BY DEF Http!RequestTypeOK
<1>3. MaxTimeout \in Nat /\ MaxDelay \in Nat /\ MaxAttempts \in Nat
  BY DEF Http!HttpAssumption
<1>4. QED
  BY <1>1, <1>2, <1>3

LEMMA DelayIsBounded ==
  ASSUME Http!HttpAssumption, Http!RequestTypeOK, NEW wait \in RetryAfter \cup {Unset},
         attempt > 0
  PROVE  Http!retryDelay(wait, attempt) \in 0..limits.delay
<1>1. attempt \in 1..MaxAttempts /\ limits.delay \in Nat
  BY Numbers
<1>2. attempt - 1 \in 0..MaxAttempts
  BY <1>1 DEF Http!HttpAssumption
<1>3. 2 ^ (attempt - 1) \in Nat
  BY <1>2 DEF Http!HttpAssumption
<1>4. ASSUME NEW p \in Nat
      PROVE  BaseDelay * p \in Nat
  BY <1>4 DEF Http!HttpAssumption
<1>5. (IF wait = Unset THEN BaseDelay * 2 ^ (attempt - 1) ELSE wait) \in Nat
  BY <1>3, <1>4 DEF Http!HttpAssumption
<1>6. QED
  BY <1>1, <1>5 DEF Http!retryDelay

LEMMA RoundsAddUp ==
  ASSUME Http!HttpAssumption, NEW n \in Nat
  PROVE  /\ n * Round \in Nat
         /\ (n + 1) * Round = n * Round + MaxTimeout + MaxDelay
BY DEF Http!HttpAssumption, Round

LEMMA WireIsFinite ==
  ASSUME Http!HttpAssumption, Http!RequestTypeOK
  PROVE  IsFiniteSet(requestWire) /\ Cardinality(requestWire) \in Nat
<1>1. attempt \in Int /\ 1 \in Int
  BY Numbers
<1>2. IsFiniteSet(1..attempt)
  BY <1>1, FS_Interval
<1>3. requestWire \subseteq 1..attempt
  BY DEF Http!RequestTypeOK
<1>4. QED
  BY <1>2, <1>3, FS_Subset, FS_CardinalityType

-----------------------------------------------------------------------------
(* What the parts of the actions keep *)

LEMMA ReturnKeeps ==
  ASSUME Http!HttpAssumption, HttpInv, NEW r, Http!Return(r), requestPc # "done",
         r \in {"aborted", "nothing", "data", "invalid", "too large", "status", "network"},
         r = "data" => response.status = "ok",
         r = "nothing" => response.status = "empty"
  PROVE  HttpInv'
<1> USE DEF HttpInv
<1>1. /\ requestPc' = "done" /\ result' = r /\ r # "none"
      /\ UNCHANGED <<kind, limits, aborted, attempt, due, now, requestWire, effects, response,
                     received>>
  BY DEF Http!Return, Http!caller, Http!provider
<1>2. Http!RequestTypeOK'
  BY <1>1 DEF Http!RequestTypeOK
<1>3. Progress' /\ Punctual'
  BY <1>1 DEF Progress, Punctual, Running
<1>4. Accounted'
  BY <1>1 DEF Accounted
<1>5. QED
  BY <1>2, <1>3, <1>4

LEMMA FetchKeeps ==
  ASSUME Http!HttpAssumption, HttpInv, NEW length \in 1..MaxTimeout, Http!Fetch(attempt + 1,
         length),
         result = "none", now <= attempt * Round,
         limits' \in [timeout : 1..MaxTimeout, attempts : 1..MaxAttempts, delay : 1..MaxDelay],
         attempt + 1 <= limits'.attempts,
         kind = "write" => limits'.attempts = 1
  PROVE  HttpInv'
<1> USE DEF HttpInv
<1>1. /\ requestPc' = "fetching" /\ attempt' = attempt + 1 /\ due' = now + length
      /\ requestWire' = requestWire \cup {attempt + 1} /\ response' = Http!NoAnswer /\ received' = 0
      /\ UNCHANGED <<effects, now, aborted, kind, result>>
  BY DEF Http!Fetch
<1>2. /\ attempt \in Nat /\ now \in Nat /\ effects \in Nat
      /\ MaxTimeout \in Nat /\ MaxDelay \in Nat /\ MaxAttempts \in Nat
  BY Numbers
<1>3. requestWire \subseteq 1..attempt /\ effects \in 0..attempt
  BY DEF Http!RequestTypeOK
<1>4. limits'.attempts \in 1..MaxAttempts
  OBVIOUS
<1>5. Http!RequestTypeOK'
  <2>1. /\ attempt' \in 0..limits'.attempts
        /\ requestWire' \subseteq 1..attempt' /\ effects' \in 0..attempt'
    BY <1>1, <1>2, <1>3, <1>4
  <2>2. due' \in Nat /\ now' \in 0..due' /\ received' \in 0..MaxBytes
    BY <1>1, <1>2 DEF Http!HttpAssumption
  <2>3. kind' \in {"read", "write"} /\ aborted' \in BOOLEAN
    BY <1>1 DEF Http!RequestTypeOK
  <2>4. QED
    BY <1>1, <2>1, <2>2, <2>3 DEF Http!RequestTypeOK
<1>6. Progress'
  BY <1>1, <1>2 DEF Progress, Running, Http!NoAnswer
<1>7. Punctual'
  BY <1>1, <1>2, RoundsAddUp DEF Punctual, Running
<1>8. effects' + Cardinality(requestWire') <= attempt'
  <2>1. attempt + 1 \notin requestWire
    BY <1>2, <1>3
  <2>2. Cardinality(requestWire') = Cardinality(requestWire) + 1
    BY <1>1, <2>1, WireIsFinite, FS_AddElement
  <2>3. QED
    BY <1>1, <1>2, <2>2, WireIsFinite DEF Accounted
<1>9. Accounted'
  BY <1>1, <1>8 DEF Accounted, Http!NoAnswer
<1>10. QED
  BY <1>5, <1>6, <1>7, <1>9

LEMMA WaitKeeps ==
  ASSUME Http!HttpAssumption, HttpInv, NEW d \in 0..limits.delay, Http!Wait(d),
         requestPc \in Running, attempt < limits.attempts
  PROVE  HttpInv'
<1> USE DEF HttpInv
<1>1. /\ requestPc' = "sleeping" /\ due' = now + d
      /\ UNCHANGED <<kind, limits, aborted, attempt, now, requestWire, effects, response,
                     received, result>>
  BY DEF Http!Wait, Http!caller, Http!provider
<1>2. /\ MaxTimeout \in Nat /\ MaxDelay \in Nat /\ limits.delay \in 1..MaxDelay
      /\ due \in Nat /\ now \in 0..due /\ attempt \in Nat
  BY Numbers
<1>3. due' \in Nat /\ now' \in 0..due' /\ due' <= due + MaxDelay
  BY <1>1, <1>2
<1>4. Http!RequestTypeOK'
  BY <1>1, <1>3 DEF Http!RequestTypeOK
<1>5. Progress'
  BY <1>1 DEF Progress, Running
<1>6. Punctual'
  BY <1>1, <1>2, <1>3, RoundsAddUp DEF Punctual, Running
<1>7. Accounted'
  BY <1>1 DEF Accounted
<1>8. QED
  BY <1>4, <1>5, <1>6, <1>7

-----------------------------------------------------------------------------
(* One lemma for each action *)

LEMMA CallKeeps ==
  ASSUME Http!HttpAssumption, HttpInv, Http!Call
  PROVE  HttpInv'
<1> USE DEF HttpInv
<1>1. requestPc = "idle" /\ attempt = 0 /\ now = 0 /\ result = "none"
  BY DEF Http!Call, Progress
<1>2. CASE aborted /\ Http!Return("aborted")
  BY <1>1, <1>2, ReturnKeeps
<1>3. ASSUME NEW t \in Settings, NEW tries \in Settings, NEW d \in Settings,
             limits' = [timeout |-> Http!boundedInteger(t, DefaultTimeout, MaxTimeout),
                        attempts |-> IF kind = "read"
                                     THEN Http!boundedInteger(tries, DefaultAttempts, MaxAttempts)
                                     ELSE 1,
                        delay |-> Http!boundedInteger(d, DefaultDelay, MaxDelay)],
             Http!Fetch(1, limits'.timeout)
      PROVE  HttpInv'
  <2>1. /\ Http!boundedInteger(t, DefaultTimeout, MaxTimeout) \in 1..MaxTimeout
        /\ Http!boundedInteger(tries, DefaultAttempts, MaxAttempts) \in 1..MaxAttempts
        /\ Http!boundedInteger(d, DefaultDelay, MaxDelay) \in 1..MaxDelay
        /\ 1 \in 1..MaxAttempts
    BY LimitIsBounded, SMTT(30) DEF Http!HttpAssumption
  <2>2. limits' \in [timeout : 1..MaxTimeout, attempts : 1..MaxAttempts, delay : 1..MaxDelay]
    BY <1>3, <2>1
  <2>3. limits'.timeout \in 1..MaxTimeout /\ limits'.attempts \in 1..MaxAttempts
    BY <2>2
  <2>4. kind = "write" => limits'.attempts = 1
    BY <1>3
  <2>5. attempt + 1 = 1 /\ 1 <= limits'.attempts /\ now <= attempt * Round
    BY <1>1, <2>3, RoundsAddUp DEF Http!HttpAssumption
  <2>6. Http!Fetch(attempt + 1, limits'.timeout)
    BY <1>3, <2>5
  <2>7. QED
    BY <1>1, <2>2, <2>3, <2>4, <2>5, <2>6, FetchKeeps
<1>4. QED
  BY <1>2, <1>3 DEF Http!Call

LEMMA HeadKeeps ==
  ASSUME Http!HttpAssumption, HttpInv, Http!Head
  PROVE  HttpInv'
<1> USE DEF HttpInv
<1>1. CASE Http!Return("nothing") /\ response.status = "empty"
  BY <1>1, ReturnKeeps DEF Http!Head
<1>2. CASE Http!Return("too large")
  BY <1>2, ReturnKeeps DEF Http!Head
<1>3. ASSUME NEW next \in {"discarding", "streaming"}, requestPc = "fetching", requestPc' = next,
             next = "discarding" => response.status \in {"busy", "refused"},
             next = "streaming" => response.status = "ok",
             UNCHANGED <<Http!caller, attempt, due, now, Http!provider, response, received, result>>
      PROVE  HttpInv'
  <2>1. UNCHANGED <<kind, limits, aborted, attempt, due, now, requestWire, effects, response,
                    received, result>>
    BY <1>3 DEF Http!caller, Http!provider
  <2>2. Http!RequestTypeOK'
    BY <1>3, <2>1 DEF Http!RequestTypeOK
  <2>3. Progress' /\ Punctual'
    BY <1>3, <2>1 DEF Progress, Punctual, Running
  <2>4. Accounted'
    BY <2>1 DEF Accounted
  <2>5. QED
    BY <2>2, <2>3, <2>4
<1>4. QED
  BY <1>1, <1>2, <1>3 DEF Http!Head

LEMMA DiscardedKeeps ==
  ASSUME Http!HttpAssumption, HttpInv, Http!Discarded
  PROVE  HttpInv'
<1> USE DEF HttpInv
<1>1. CASE Http!Return("aborted") \/ Http!Return("status")
  BY <1>1, ReturnKeeps DEF Http!Discarded
<1>2. CASE /\ Http!Wait(Http!retryDelay(response.wait, attempt))
           /\ Http!MayRetry /\ Http!isRetryableStatus(response)
  <2>1. requestPc = "discarding" /\ attempt > 0
    BY DEF Http!Discarded, Progress, Running
  <2>2. response.wait \in RetryAfter \cup {Unset}
    <3>1. response \in Http!Answers \cup {Http!NoAnswer, Http!Broken}
      BY DEF Http!RequestTypeOK
    <3>2. QED
      BY <3>1 DEF Http!Answers, Http!NoAnswer, Http!Broken
  <2>3. Http!retryDelay(response.wait, attempt) \in 0..limits.delay
    BY <2>1, <2>2, DelayIsBounded
  <2>4. QED
    BY <1>2, <2>1, <2>3, WaitKeeps DEF Http!MayRetry, Running
<1>3. QED
  BY <1>1, <1>2 DEF Http!Discarded

LEMMA ReadKeeps ==
  ASSUME Http!HttpAssumption, HttpInv, Http!Read
  PROVE  HttpInv'
<1> USE DEF HttpInv
<1>0. received \in 0..MaxBytes /\ MaxBytes \in Nat
  <2>1. received \in 0..MaxBytes
    BY DEF Http!RequestTypeOK
  <2>2. QED
    BY <2>1 DEF Http!HttpAssumption
<1>1. CASE \E r \in {"too large", "data", "invalid"} : Http!Return(r)
  BY <1>1, ReturnKeeps DEF Http!Read, Progress
<1>2. CASE /\ ~(received + 1 > MaxBytes) /\ received' = received + 1
           /\ UNCHANGED <<Http!caller, requestPc, attempt, due, now, Http!provider, response,
                          result>>
  <2>1. UNCHANGED <<kind, limits, aborted, requestPc, attempt, due, now, requestWire, effects,
                    response, result>>
    BY <1>2 DEF Http!caller, Http!provider
  <2>2. received' \in 0..MaxBytes
    BY <1>0, <1>2
  <2>3. Http!RequestTypeOK'
    BY <2>1, <2>2 DEF Http!RequestTypeOK
  <2>4. Progress' /\ Punctual' /\ Accounted'
    BY <2>1 DEF Progress, Punctual, Accounted
  <2>5. QED
    BY <2>3, <2>4
<1>3. \/ \E r \in {"too large", "data", "invalid"} : Http!Return(r)
      \/ /\ ~(received + 1 > MaxBytes) /\ received' = received + 1
         /\ UNCHANGED <<Http!caller, requestPc, attempt, due, now, Http!provider, response, result>>
  BY DEF Http!Read
<1>4. QED
  BY <1>1, <1>2, <1>3

LEMMA FailKeeps ==
  ASSUME Http!HttpAssumption, HttpInv, Http!Fail
  PROVE  HttpInv'
<1> USE DEF HttpInv
<1>1. requestPc \in Running
  BY DEF Http!Fail, Running
<1>2. CASE Http!Return("aborted") \/ Http!Return("network")
  BY <1>1, <1>2, ReturnKeeps DEF Running
<1>3. CASE Http!Wait(Http!retryDelay(Unset, attempt)) /\ Http!MayRetry
  <2>1. attempt > 0
    BY <1>1 DEF Progress
  <2>2. Http!retryDelay(Unset, attempt) \in 0..limits.delay
    BY <2>1, DelayIsBounded
  <2>3. QED
    BY <1>1, <1>3, <2>2, WaitKeeps DEF Http!MayRetry
<1>4. QED
  BY <1>2, <1>3 DEF Http!Fail

LEMMA WakeKeeps ==
  ASSUME Http!HttpAssumption, HttpInv, Http!Wake
  PROVE  HttpInv'
<1> USE DEF HttpInv
<1>1. requestPc = "sleeping"
  BY DEF Http!Wake
<1>2. CASE Http!Return("aborted")
  BY <1>1, <1>2, ReturnKeeps
<1>3. CASE now = due /\ Http!Fetch(attempt + 1, limits.timeout) /\ UNCHANGED limits
  <2>1. limits.timeout \in 1..MaxTimeout /\ attempt \in Nat /\ limits.attempts \in Nat
    BY Numbers
  <2>2. result = "none" /\ attempt + 1 <= limits'.attempts /\ now <= attempt * Round
    BY <1>1, <1>3, <2>1 DEF Progress, Punctual
  <2>3. limits' \in [timeout : 1..MaxTimeout, attempts : 1..MaxAttempts, delay : 1..MaxDelay]
    BY <1>3 DEF Http!RequestTypeOK
  <2>4. kind = "write" => limits'.attempts = 1
    BY <1>3 DEF Accounted
  <2>5. QED
    BY <1>3, <2>1, <2>2, <2>3, <2>4, FetchKeeps
<1>4. QED
  BY <1>2, <1>3 DEF Http!Wake

LEMMA AbortKeeps ==
  ASSUME HttpInv, Http!Abort
  PROVE  HttpInv'
<1>1. UNCHANGED <<kind, limits, requestPc, attempt, due, now, requestWire, effects, response,
                  received, result>>
  BY DEF Http!Abort, Http!provider
<1>2. aborted' \in BOOLEAN
  BY DEF Http!Abort
<1>3. Http!RequestTypeOK'
  BY <1>1, <1>2 DEF HttpInv, Http!RequestTypeOK
<1>4. Progress' /\ Punctual' /\ Accounted'
  BY <1>1 DEF HttpInv, Progress, Punctual, Accounted
<1>5. QED
  BY <1>3, <1>4 DEF HttpInv

LEMMA TickKeeps ==
  ASSUME Http!HttpAssumption, HttpInv, Http!Tick
  PROVE  HttpInv'
<1> USE DEF HttpInv
<1>1. UNCHANGED <<kind, limits, aborted, requestPc, attempt, due, requestWire, effects, response,
                  received, result>>
  BY DEF Http!Tick, Http!caller, Http!provider
<1>2. now' \in 0..due'
  BY <1>1, Numbers DEF Http!Tick
<1>3. Http!RequestTypeOK'
  BY <1>1, <1>2 DEF Http!RequestTypeOK
<1>4. Progress'
  BY <1>1 DEF Http!Tick, Progress
<1>5. Punctual' /\ Accounted'
  BY <1>1 DEF Punctual, Accounted
<1>6. QED
  BY <1>3, <1>4, <1>5

\* The provider decides about an attempt once.
LEMMA ExecuteKeeps ==
  ASSUME Http!HttpAssumption, HttpInv, NEW n \in 1..MaxAttempts, Http!Execute(n)
  PROVE  /\ HttpInv'
         /\ UNCHANGED <<kind, result, requestPc>>
         /\ requestPc = "fetching" \/ UNCHANGED response
         /\ \/ effects' = effects
            \/ effects' = effects + 1 /\ effects < MaxAttempts /\ (kind = "write" => effects = 0)
         /\ kind = "write" /\ effects' # effects => attempt \in requestWire
<1> USE DEF HttpInv
<1>1. PICK given \in Http!Answers \cup {Http!Broken} :
        /\ \/ given.status \in {"ok", "empty", "busy", "broken"} /\ effects' = effects + 1
           \/ given.status \in {"refused", "busy", "broken"} /\ effects' = effects
        /\ Http!Deliver(n, given)
  BY DEF Http!Execute
<1>2. /\ n \in requestWire /\ requestWire' = requestWire \ {n}
      /\ response' = IF requestPc = "fetching" /\ n = attempt THEN given ELSE response
      /\ UNCHANGED <<kind, limits, aborted, requestPc, attempt, due, now, received, result>>
  BY <1>1 DEF Http!Execute, Http!Deliver, Http!caller
<1>3. /\ attempt \in 0..MaxAttempts /\ effects \in Nat /\ MaxAttempts \in Nat
      /\ attempt <= limits.attempts
  BY Numbers
<1>4. requestWire \subseteq 1..attempt
  BY DEF Http!RequestTypeOK
<1>5. Cardinality(requestWire') = Cardinality(requestWire) - 1 /\ Cardinality(requestWire) \in Nat
  BY <1>2, WireIsFinite, FS_RemoveElement
<1>6. Cardinality(requestWire') \in Nat
  <2>1. IsFiniteSet(requestWire')
    BY <1>2, WireIsFinite, FS_Subset
  <2>2. QED
    BY <2>1, FS_CardinalityType
<1>7. /\ effects' \in {effects, effects + 1} /\ effects < attempt
      /\ effects' + Cardinality(requestWire') <= attempt
  BY <1>1, <1>3, <1>5, <1>6 DEF Accounted
\* A write has one attempt, so this is it.
<1>8. kind = "write" => attempt = 1 /\ n = attempt /\ effects = 0
  <2>1. ASSUME kind = "write"
        PROVE  attempt <= 1
    BY <1>3, <2>1 DEF Accounted
  <2>2. QED
    BY <1>2, <1>3, <1>4, <1>7, <2>1
<1>9. Http!RequestTypeOK'
  <2>1. requestWire' \subseteq 1..attempt'
    BY <1>2, <1>4
  <2>2. effects' \in 0..attempt'
    BY <1>2, <1>3, <1>7
  <2>3. response' \in Http!Answers \cup {Http!NoAnswer, Http!Broken}
    BY <1>1, <1>2 DEF Http!RequestTypeOK
  <2>4. QED
    BY <1>2, <2>1, <2>2, <2>3 DEF Http!RequestTypeOK
<1>10. Progress'
  BY <1>2, <1>3, <1>4 DEF Progress, Running
<1>11. Punctual'
  BY <1>2 DEF Punctual
<1>12. Accounted'
  <2>1. response # Http!NoAnswer \/ (requestPc = "fetching" /\ n = attempt)
          => attempt \notin requestWire'
    BY <1>2 DEF Accounted
  <2>2. response'.status \in {"ok", "empty"} => effects' > 0
    BY <1>1, <1>2, <1>3, <1>7 DEF Accounted
  <2>3. response'.status = "refused" /\ kind = "write" => effects' = 0
    BY <1>1, <1>2, <1>3, <1>7, <1>8 DEF Accounted, Http!NoAnswer
  <2>4. result # "none" => response' = response
    BY <1>2 DEF Progress
  <2>5. QED
    BY <1>2, <1>7, <2>1, <2>2, <2>3, <2>4 DEF Accounted
<1>13. QED
  BY <1>2, <1>3, <1>7, <1>8, <1>9, <1>10, <1>11, <1>12

LEMMA StepKeeps ==
  ASSUME Http!HttpAssumption, HttpInv, [Http!Next]_(Http!vars)
  PROVE  HttpInv'
<1>1. CASE UNCHANGED Http!vars
  <2>1. Http!RequestTypeOK'
    BY <1>1 DEF Http!vars, HttpInv, Http!RequestTypeOK
  <2>2. Progress' /\ Punctual' /\ Accounted'
    BY <1>1 DEF Http!vars, HttpInv, Progress, Punctual, Accounted
  <2>3. QED
    BY <2>1, <2>2 DEF HttpInv
<1>2. ASSUME NEW n \in 1..MaxAttempts, Http!Execute(n)
      PROVE  HttpInv'
  BY <1>2, ExecuteKeeps
<1>3. QED
  BY <1>1, <1>2, CallKeeps, HeadKeeps, DiscardedKeeps, ReadKeeps, FailKeeps, WakeKeeps,
     AbortKeeps, TickKeeps DEF Http!Next

LEMMA InitialRequest ==
  ASSUME Http!HttpAssumption, Http!Init
  PROVE  HttpInv
<1>1. limits = [timeout |-> DefaultTimeout, attempts |-> 1, delay |-> DefaultDelay]
  BY DEF Http!Init
<1>2. limits \in [timeout : 1..MaxTimeout, attempts : 1..MaxAttempts, delay : 1..MaxDelay]
  BY <1>1 DEF Http!HttpAssumption
<1>3. /\ limits.attempts = 1 /\ requestPc = "idle"
      /\ attempt = 0 /\ due = 0 /\ now = 0 /\ requestWire = {}
      /\ effects = 0 /\ response = Http!NoAnswer /\ received = 0 /\ result = "none"
  BY <1>1 DEF Http!Init
<1>4. kind \in {"read", "write"} /\ aborted \in BOOLEAN
  BY DEF Http!Init
<1>5. received \in 0..MaxBytes
  BY <1>3 DEF Http!HttpAssumption
<1>6. attempt \in 0..limits.attempts /\ effects \in 0..attempt /\ now \in 0..due /\ due \in Nat
  BY <1>3
<1>7. Http!RequestTypeOK
  BY <1>2, <1>3, <1>4, <1>5, <1>6 DEF Http!RequestTypeOK
<1>8. Progress /\ Punctual
  BY <1>3 DEF Progress, Punctual, Running
<1>9. Accounted
  BY <1>3, FS_EmptySet DEF Accounted, Http!NoAnswer
<1>10. QED
  BY <1>7, <1>8, <1>9 DEF HttpInv

\* A request is well typed, on time and accounted for, whatever the limits.
LEMMA RequestInvariant ==
  ASSUME Http!HttpAssumption
  PROVE  Http!Spec => []HttpInv
<1>1. Http!Init => HttpInv
  BY InitialRequest
<1>2. HttpInv /\ [Http!Next]_(Http!vars) => HttpInv'
  BY StepKeeps
<1>3. QED
  BY <1>1, <1>2, PTL DEF Http!Spec

\* requestJson is over within the time limits of its attempts and the capped waits
\* between them, for all limits, configured values and answers.
THEOREM RequestsEndInTime ==
  ASSUME Http!HttpAssumption
  PROVE  Http!Spec => []EndsInTime
<1>1. ASSUME HttpInv
      PROVE  Http!EndsInTime
  <2>1. Http!RequestTypeOK
    BY <1>1 DEF HttpInv
  <2>2. /\ MaxTimeout \in Nat /\ MaxDelay \in Nat /\ MaxAttempts \in Nat /\ limits.attempts \in Nat
        /\ attempt \in Nat /\ attempt <= limits.attempts /\ limits.attempts <= MaxAttempts
        /\ due \in Nat /\ now \in 0..due
    BY <2>1, Numbers
  <2>3. MaxAttempts * Round = MaxAttempts * MaxTimeout + (MaxAttempts - 1) * MaxDelay + MaxDelay
    BY <2>2 DEF Round
  <2>4. Round \in Nat
    BY <2>2 DEF Round
  <2>5. ASSUME NEW n \in Nat, n <= MaxAttempts
        PROVE  n * Round <= MaxAttempts * Round
    BY <2>2, <2>4, <2>5
  <2>6. CASE requestPc = "idle"
    <3>1. now = 0 /\ 1 <= MaxAttempts
      BY <1>1, <2>6 DEF HttpInv, Progress, Http!HttpAssumption
    <3>2. MaxAttempts * MaxTimeout \in Nat /\ (MaxAttempts - 1) * MaxDelay \in Nat
      BY <2>2, <3>1
    <3>3. QED
      BY <2>1, <3>1, <3>2 DEF Http!EndsInTime
  <2>7. CASE requestPc \in Running
    <3>1. now + MaxDelay <= attempt * Round
      BY <1>1, <2>2, <2>4, <2>7 DEF HttpInv, Punctual
    <3>2. now + MaxDelay <= MaxAttempts * Round
      BY <2>2, <2>4, <2>5, <3>1
    <3>3. QED
      BY <2>1, <2>2, <2>3, <3>2 DEF Http!EndsInTime
  <2>8. CASE requestPc = "sleeping"
    \* Another attempt follows, so a round is left.
    <3>1. now <= attempt * Round /\ attempt + 1 <= MaxAttempts
      BY <1>1, <2>2, <2>4, <2>8 DEF HttpInv, Punctual, Progress
    <3>2. (attempt + 1) * Round = attempt * Round + MaxTimeout + MaxDelay
      BY <2>2, RoundsAddUp
    <3>3. now + MaxDelay <= (attempt + 1) * Round
      BY <2>2, <2>4, <3>1, <3>2
    <3>4. now + MaxDelay <= MaxAttempts * Round
      BY <2>2, <2>4, <2>5, <3>1, <3>3
    <3>5. QED
      BY <2>1, <2>2, <2>3, <3>4 DEF Http!EndsInTime
  <2>9. CASE requestPc = "done"
    BY <2>1, <2>9 DEF Http!EndsInTime
  <2>10. QED
    BY <2>1, <2>6, <2>7, <2>8, <2>9 DEF Http!RequestTypeOK, Running
<1>2. QED
  BY <1>1, RequestInvariant, PTL DEF EndsInTime

-----------------------------------------------------------------------------
(* The abstract call *)

\* Whatever ends a request tells what a ProviderCall may tell.
LEMMA ReturnTells ==
  ASSUME Http!HttpAssumption, HttpInv, NEW r, Http!Return(r), requestPc # "done",
         r \in {"aborted", "nothing", "data", "invalid", "too large", "status", "network"},
         r = "data" => response.status = "ok",
         r = "nothing" => response.status = "empty"
  PROVE  Http!Abstract!Next
<1>1. result = "none" /\ result' = r /\ UNCHANGED <<kind, effects, response>>
  BY DEF Http!Return, HttpInv, Progress, Http!caller, Http!provider
<1>2. Http!Told = "none"
  BY <1>1 DEF Http!Told
<1>3. Http!Told' \in Http!Abstract!Report \ {"none"}
  BY <1>1 DEF Http!Told, Http!Abstract!Report
<1>4. Http!Told' = "answered" => effects > 0
  BY <1>1 DEF Http!Told, HttpInv, Accounted
<1>5. Http!Told' = "refused" => kind = "read" \/ effects = 0
  <2>1. kind \in {"read", "write"}
    BY DEF HttpInv, Http!RequestTypeOK
  <2>2. Http!Told' = "refused" => response.status = "refused"
    BY <1>1 DEF Http!Told
  <2>3. QED
    BY <2>1, <2>2 DEF HttpInv, Accounted
<1>6. Http!Abstract!Tell(Http!Told')
  BY <1>1, <1>2, <1>4, <1>5 DEF Http!Abstract!Tell
<1>7. QED
  BY <1>3, <1>6 DEF Http!Abstract!Next

\* A step that ends nothing and executes nothing is not seen.
LEMMA QuietStep ==
  ASSUME UNCHANGED <<kind, effects, result>>, UNCHANGED response \/ result = "none"
  PROVE  UNCHANGED Http!Abstract!vars
BY DEF Http!Abstract!vars, Http!Told

LEMMA AbstractStep ==
  ASSUME Http!HttpAssumption, HttpInv, [Http!Next]_(Http!vars)
  PROVE  [Http!Abstract!Next]_(Http!Abstract!vars)
<1>1. CASE UNCHANGED Http!vars
  BY <1>1, QuietStep DEF Http!vars
<1>2. CASE Http!Call
  <2>1. requestPc = "idle" /\ (Http!Return("aborted") \/ \E l : Http!Fetch(1, l))
    BY <1>2 DEF Http!Call
  <2>2. result = "none"
    BY <2>1 DEF HttpInv, Progress
  <2>3. QED
    BY <2>1, <2>2, ReturnTells, QuietStep DEF Http!Fetch
<1>3. CASE Http!Head
  BY <1>3, ReturnTells, QuietStep DEF Http!Head, Http!caller, Http!provider
<1>4. CASE Http!Discarded
  BY <1>4, ReturnTells, QuietStep DEF Http!Discarded, Http!Wait, Http!caller, Http!provider
<1>5. CASE Http!Read
  <2>1. requestPc = "streaming" /\ response.status = "ok"
    BY <1>5 DEF Http!Read, HttpInv, Progress
  <2>2. \/ \E r \in {"too large", "data", "invalid"} : Http!Return(r)
        \/ UNCHANGED <<Http!caller, Http!provider, response, result>>
    BY <1>5 DEF Http!Read
  <2>3. QED
    BY <2>1, <2>2, ReturnTells, QuietStep DEF Http!caller, Http!provider
<1>6. CASE Http!Fail
  <2>1. requestPc # "done"
    BY <1>6 DEF Http!Fail
  <2>2. Http!Return("aborted") \/ Http!Return("network") \/ \E d : Http!Wait(d)
    BY <1>6 DEF Http!Fail
  <2>3. QED
    BY <2>1, <2>2, ReturnTells, QuietStep DEF Http!Wait, Http!caller, Http!provider
<1>7. CASE Http!Wake
  <2>1. /\ requestPc = "sleeping"
        /\ Http!Return("aborted") \/ Http!Fetch(attempt + 1, limits.timeout)
    BY <1>7 DEF Http!Wake
  <2>2. result = "none"
    BY <2>1 DEF HttpInv, Progress
  <2>3. QED
    BY <2>1, <2>2, ReturnTells, QuietStep DEF Http!Fetch
<1>8. CASE Http!Abort \/ Http!Tick
  BY <1>8, QuietStep DEF Http!Abort, Http!Tick, Http!caller, Http!provider
<1>9. ASSUME NEW n \in 1..MaxAttempts, Http!Execute(n)
      PROVE  [Http!Abstract!Next]_(Http!Abstract!vars)
  <2>1. /\ HttpInv' /\ UNCHANGED <<kind, result, requestPc>>
        /\ requestPc = "fetching" \/ UNCHANGED response
        /\ \/ effects' = effects
           \/ effects' = effects + 1 /\ effects < MaxAttempts /\ (kind = "write" => effects = 0)
        /\ kind = "write" /\ effects' # effects => attempt \in requestWire
    BY <1>9, ExecuteKeeps
  <2>2. requestPc = "fetching" => result = "none"
    BY DEF HttpInv, Progress
  <2>3. Http!Told' = Http!Told
    BY <2>1, <2>2 DEF Http!Told
  <2>4. CASE effects' = effects
    BY <2>1, <2>3, <2>4 DEF Http!Abstract!vars
  <2>5. CASE effects' # effects
    \* The attempt is still on the wire, so nothing was told that it contradicts.
    <3>1. kind \in {"read", "write"} /\ effects \in Nat
      BY Numbers DEF HttpInv, Http!RequestTypeOK
    <3>2. kind = "write" => response = Http!NoAnswer
      BY <2>1, <2>5 DEF HttpInv, Accounted
    <3>3. kind = "write" => Http!Told \notin {"answered", "refused"}
      BY <3>2 DEF Http!Told, HttpInv, Accounted, Http!NoAnswer
    <3>4. Http!Abstract!Effect
      BY <2>1, <2>3, <2>5, <3>1, <3>3 DEF Http!Abstract!Effect
    <3>5. QED
      BY <3>4 DEF Http!Abstract!Next
  <2>6. QED
    BY <2>4, <2>5
<1>10. QED
  BY <1>1, <1>2, <1>3, <1>4, <1>5, <1>6, <1>7, <1>8, <1>9 DEF Http!Next

\* A connector's call is a ProviderCall: a write takes effect at most once, although its
\* answer may be lost or late (requestJson retries reads only).
THEOREM RequestIsProviderCall ==
  ASSUME Http!HttpAssumption
  PROVE  Http!Spec => ImplementsProviderCall
<1>1. Http!Init => Http!Abstract!Init
  BY DEF Http!Init, Http!Abstract!Init, Http!Told
<1>2. HttpInv /\ [Http!Next]_(Http!vars) => [Http!Abstract!Next]_(Http!Abstract!vars)
  BY AbstractStep
<1>3. QED
  BY <1>1, <1>2, RequestInvariant, PTL
     DEF Http!Spec, Http!Abstract!Spec, Http!ImplementsProviderCall, ImplementsProviderCall

-----------------------------------------------------------------------------
(***************************************************************************)
(* AccountReading, for lists, pages and limits of any size.  A reader that *)
(* counts has rows of the list as long as it does not change, and sees a   *)
(* change by the total that no longer fits; as many different rows as the  *)
(* list has are the list.                                                  *)
(***************************************************************************)

LEMMA ListSizes == MaxRow \in Nat /\ PageSize \in Nat \ {0} /\ MaxPages \in Nat \ {0} /\ Account!None = MaxRow + 1
BY ReadingConstants DEF Account!ReadingAssumption, Account!None

\* The instance's own copies of two library operators.
LEMMA Library ==
  /\ \A S : Account!Cardinality(S) = Cardinality(S)
  /\ \A f : Account!IsInjective(f) <=> IsInjective(f)
<1>1. \A S : Account!Cardinality(S) = Cardinality(S)
  BY DEF Account!Cardinality, Cardinality
<1>2. \A f : Account!IsInjective(f) <=> IsInjective(f)
  BY DEF Account!IsInjective, IsInjective
<1> QED
  BY <1>1, <1>2

Place(S, key, x) == Cardinality({y \in S : key[y] <= key[x]})

\* The keys of a finite set put its members in an order without gaps.
LEMMA KeyRanks ==
  ASSUME NEW S, IsFiniteSet(S), NEW key, \A x \in S : key[x] \in Nat,
         \A x, y \in S : key[x] = key[y] => x = y
  PROVE  /\ Cardinality(S) \in Nat
         /\ \A k \in 1..Cardinality(S) : \E x \in S : Place(S, key, x) = k
         /\ \A x \in S : Place(S, key, x) \in 1..Cardinality(S)
         /\ \A x, y \in S : Place(S, key, x) = Place(S, key, y) => x = y
<1> DEFINE R(x) == {y \in S : key[y] <= key[x]}
<1>1. Cardinality(S) \in Nat
  BY FS_CardinalityType
<1>2. ASSUME NEW x \in S
      PROVE  IsFiniteSet(R(x)) /\ Place(S, key, x) \in 1..Cardinality(S)
  <2>1. IsFiniteSet(R(x)) /\ Cardinality(R(x)) <= Cardinality(S) /\ Cardinality(R(x)) \in Nat
    BY FS_Subset, FS_CardinalityType
  <2>2. x \in R(x)
    OBVIOUS
  <2>3. Cardinality(R(x)) # 0
    BY <2>1, <2>2, FS_EmptySet
  <2> QED
    BY <1>1, <2>1, <2>3 DEF Place
<1>3. ASSUME NEW x \in S, NEW y \in S, key[x] < key[y] PROVE Place(S, key, x) # Place(S, key, y)
  <2>1. R(x) \in SUBSET R(y)
    BY <1>3
  <2>2. y \notin R(x) /\ y \in R(y)
    BY <1>3
  <2> QED
    BY <1>2, <2>1, <2>2, FS_Subset DEF Place
<1>4. ASSUME NEW x \in S, NEW y \in S, Place(S, key, x) = Place(S, key, y) PROVE x = y
  <2>1. key[x] < key[y] \/ key[y] < key[x] \/ key[x] = key[y]
    OBVIOUS
  <2> QED
    BY <1>3, <1>4, <2>1
<1>5. \A k \in 1..Cardinality(S) : \E x \in S : Place(S, key, x) = k
  <2> DEFINE f == [x \in S |-> Place(S, key, x)]
  <2>1. f \in Injection(S, 1..Cardinality(S))
    BY <1>2, <1>4 DEF Injection, IsInjective
  <2>2. IsFiniteSet(1..Cardinality(S)) /\ Cardinality(1..Cardinality(S)) = Cardinality(S)
    BY <1>1, FS_Interval
  <2>3. f \in Surjection(S, 1..Cardinality(S))
    BY <2>1, <2>2, FS_Injection
  <2> QED
    BY <2>3 DEF Surjection
<1> QED
  BY <1>1, <1>2, <1>4, <1>5

\* Numbers are keys of themselves.
Itself(S) == [r \in S |-> r]

LEMMA NumberRanks ==
  ASSUME NEW S, IsFiniteSet(S), \A r \in S : r \in Nat
  PROVE  /\ \A k \in 1..Cardinality(S) : \E r \in S : Place(S, Itself(S), r) = k
         /\ \A r \in S : Place(S, Itself(S), r) \in 1..Cardinality(S)
         /\ \A q, r \in S : Place(S, Itself(S), q) = Place(S, Itself(S), r) => q = r
<1>1. /\ \A x \in S : Itself(S)[x] \in Nat
      /\ \A x, y \in S : Itself(S)[x] = Itself(S)[y] => x = y
  BY DEF Itself
<1> QED
  BY <1>1, KeyRanks

Rank(S, r) == Account!Cardinality({x \in S : x <= r})

\* The ranks of the rows of a list are 1, 2, ... up to their number.
LEMMA RanksCount ==
  ASSUME NEW S \in SUBSET (1..MaxRow)
  PROVE  /\ IsFiniteSet(S) /\ Cardinality(S) \in Nat /\ Cardinality(S) <= MaxRow
         /\ \A k \in 1..Cardinality(S) : \E r \in S : Rank(S, r) = k
         /\ \A r \in S : Rank(S, r) \in 1..Cardinality(S)
         /\ \A q, r \in S : Rank(S, q) = Rank(S, r) => q = r
<1>1. IsFiniteSet(1..MaxRow) /\ Cardinality(1..MaxRow) = MaxRow
  BY ListSizes, FS_Interval
<1>2. IsFiniteSet(S) /\ Cardinality(S) \in Nat /\ Cardinality(S) <= MaxRow
  BY <1>1, FS_Subset, FS_CardinalityType
<1>3. ASSUME NEW r \in S PROVE Place(S, Itself(S), r) = Rank(S, r)
  <2>1. {x \in S : Itself(S)[x] <= Itself(S)[r]} = {x \in S : x <= r}
    BY DEF Itself
  <2> QED
    BY <2>1, Library DEF Place, Rank
<1>4. \A r \in S : r \in Nat
  OBVIOUS
<1>5. /\ \A k \in 1..Cardinality(S) : \E r \in S : Place(S, Itself(S), r) = k
      /\ \A r \in S : Place(S, Itself(S), r) \in 1..Cardinality(S)
      /\ \A q, r \in S : Place(S, Itself(S), q) = Place(S, Itself(S), r) => q = r
  <2>1. IsFiniteSet(S)
    BY <1>2
  <2> QED
    BY <1>4, <2>1, NumberRanks, Zenon
<1> QED
  BY <1>2, <1>3, <1>5

\* The list in the provider's order has every row once.
LEMMA ListingIsTheList ==
  ASSUME Account!Rows \in SUBSET (1..MaxRow)
  PROVE  /\ Account!N \in Nat /\ Account!N <= MaxRow
         /\ Account!Listing \in [1..Account!N -> Account!Rows]
         /\ \A j, k \in 1..Account!N : Account!Listing[j] = Account!Listing[k] => j = k
<1> DEFINE S == Account!Rows
<1>1. /\ Cardinality(S) \in Nat /\ Cardinality(S) <= MaxRow
      /\ \A k \in 1..Cardinality(S) : \E r \in S : Rank(S, r) = k
  BY RanksCount
<1>2. Account!Listing = [k \in 1..Account!N |-> CHOOSE r \in S : Rank(S, r) = k]
  BY DEF Account!Listing, Rank
<1>3. Account!N = Cardinality(S)
  BY Library DEF Account!N
<1> HIDE DEF S
<1>4. /\ Account!Listing \in [1..Cardinality(S) -> S]
      /\ \A k \in 1..Cardinality(S) : Rank(S, Account!Listing[k]) = k
  BY <1>1, <1>2, <1>3
<1>5. \A j, k \in 1..Cardinality(S) : Account!Listing[j] = Account!Listing[k] => j = k
  BY <1>4
<1>6. S = Account!Rows
  BY DEF S
<1> QED
  BY <1>1, <1>3, <1>4, <1>5, <1>6

\* A row as it is read: with the server that it came from.
ListRow == {Account!Answering} \X Account!Rows

\* A page has rows of the list, whatever the manner of the provider.
LEMMA PageOfRows ==
  ASSUME Account!Rows \in SUBSET (1..MaxRow), NEW k \in Nat
  PROVE  Account!Page(k) \in Seq(ListRow)
<1> DEFINE listing == Account!Listing
           n == Account!N
           m == IF k >= n THEN 0 ELSE IF k + Account!Size > n THEN n - k ELSE Account!Size
<1>1. n \in Nat /\ listing \in [1..n -> Account!Rows]
  BY ListingIsTheList
<1>2. Account!Size \in Nat \ {0}
  BY ListSizes DEF Account!Size
<1>3. ASSUME NEW i \in Nat
      PROVE  Account!Slice(i) \in Seq(ListRow)
  <2> DEFINE j == IF i >= n THEN 0 ELSE IF i + Account!Size > n THEN n - i ELSE Account!Size
  <2>1. j \in Nat /\ (j # 0 => i + j <= n)
    BY <1>1, <1>2
  <2>2. Account!Slice(i) = [x \in 1..j |-> <<Account!Answering, listing[i + x]>>]
    BY DEF Account!Slice
  <2> HIDE DEF j, listing, n
  <2>3. ASSUME NEW x \in 1..j PROVE <<Account!Answering, listing[i + x]>> \in ListRow
    <3>1. i + x \in 1..n
      BY <1>1, <2>1
    <3> QED
      BY <1>1, <3>1 DEF ListRow
  <2>4. [x \in 1..j |-> <<Account!Answering, listing[i + x]>>] \in Seq(ListRow)
    BY <2>1, <2>3
  <2> QED
    BY <2>2, <2>4
<1>4. [x \in 1..n |-> <<Account!Answering, listing[x]>>] \in Seq(ListRow)
  <2> HIDE DEF listing, n
  <2>1. ASSUME NEW x \in 1..n PROVE <<Account!Answering, listing[x]>> \in ListRow
    BY <1>1 DEF ListRow
  <2> QED
    BY <1>1, <2>1
<1> QED
  BY <1>3, <1>4 DEF Account!Page

\* A provider that sends the whole list sends every row once.
LEMMA WholePage ==
  ASSUME Account!Rows \in SUBSET (1..MaxRow)
  PROVE  LET items == [n \in 1..Account!N |-> <<Account!Answering, Account!Listing[n]>>]
         IN  items \in Seq(ListRow) /\ Len(items) = Account!N /\ Account!IsInjective(items)
<1> DEFINE n == Account!N
           listing == Account!Listing
           items == [x \in 1..n |-> <<Account!Answering, listing[x]>>]
<1>1. /\ n \in Nat /\ listing \in [1..n -> Account!Rows]
      /\ \A j, k \in 1..n : listing[j] = listing[k] => j = k
  BY ListingIsTheList
<1> HIDE DEF listing, n
<1>2. \A x \in 1..n : <<Account!Answering, listing[x]>> \in ListRow
  BY <1>1 DEF ListRow
<1>3. items \in Seq(ListRow) /\ Len(items) = n
  BY <1>1, <1>2
<1>4. Account!IsInjective(items)
  BY <1>1 DEF Account!IsInjective
<1> QED
  BY <1>3, <1>4 DEF n, listing

\* As many different rows as the list has are all of it.
LEMMA AllRows ==
  ASSUME Account!Rows \in SUBSET (1..MaxRow),
         NEW s \in Seq(ListRow), Account!IsInjective(s), Len(s) = Account!N
  PROVE  {s[n][2] : n \in DOMAIN s} = Account!Rows
<1> DEFINE S == Account!Rows
           f == [n \in 1..Len(s) |-> s[n][2]]
<1>1. /\ DOMAIN s = 1..Len(s) /\ Len(s) \in Nat
      /\ \A n \in 1..Len(s) : s[n] \in ListRow
  BY LenProperties, ElementOfSeq
<1>2. \A n \in 1..Len(s) : s[n] = <<Account!Answering, s[n][2]>> /\ s[n][2] \in S
  BY <1>1 DEF ListRow
<1>3. f \in Injection(1..Len(s), S)
  <2>1. ASSUME NEW j \in 1..Len(s), NEW k \in 1..Len(s), s[j][2] = s[k][2]
        PROVE  j = k
    <3>1. s[j] = s[k]
      BY <1>2, <2>1
    <3> QED
      BY <1>1, <3>1 DEF Account!IsInjective
  <2>2. f \in [1..Len(s) -> S]
    BY <1>2
  <2> QED
    BY <2>1, <2>2 DEF Injection, IsInjective
<1>4. IsFiniteSet(S) /\ Cardinality(S) = Len(s)
  BY RanksCount, Library DEF Account!N
<1>5. IsFiniteSet(1..Len(s)) /\ Cardinality(1..Len(s)) = Len(s)
  BY <1>1, FS_Interval
<1>6. f \in Surjection(1..Len(s), S)
  BY <1>3, <1>4, <1>5, FS_Injection
<1>7. \A r \in S : \E n \in 1..Len(s) : s[n][2] = r
  BY <1>6 DEF Surjection
<1> QED
  BY <1>1, <1>2, <1>7

-----------------------------------------------------------------------------
(* The invariant of a connection and a read. *)

\* Which connector is at which request, and whom it has heard from.
Connecting ==
  /\ readPc \in {"token", "user id", "viewer"} => reader \in {"works", "records"}
  /\ readPc = "whoami" => reader = "shikimori"
  /\ readPc = "me" => reader \in {"bangumi", "jellyfin"}
  /\ readPc = "viewer of the list" => reader = "anilist"
  /\ readPc \in {"system", "server user"} => reader = "emby"
  /\ readPc = "rpc" => reader = "kodi"
  /\ readPc \in {"resources", "identity", "root", "providers"} => reader = "plex"
  /\ readPc \in {"token", "whoami", "me", "viewer of the list", "system", "resources", "identity"}
       => evidence = {}
  /\ readPc \in {"user id", "viewer", "server user", "root", "providers"} => evidence = {identity}
  /\ readPc \in {"root", "providers"} => identity = Account!Configured
  /\ readPc \notin {"resources", "identity", "failed"} => Account!Answering \in Account!Server

\* Nothing was read before the first page was.
Fresh ==
  /\ readPc \notin {"reading", "done", "failed"} => visited = {}
  /\ readPc \notin {"done", "failed"} /\ visited = {} =>
       out = <<>> /\ place = 0 /\ total = Account!None /\ changes = 0

\* What a reader that counts has so far, and that it sees the first change.
Counting ==
  readPc = "reading" /\ Account!CountsAll =>
    /\ reader # "bangumi" => Account!IsInjective(out)
    /\ visited # {} => total # Account!None
    /\ reader = "shikimori" \/ (reader = "plex" /\ manner = "whole") => visited = {}
    /\ reader = "plex" => place = Len(out)
    /\ swaps = 0 /\ changes = 0 => total \in {Account!None, Account!N} /\ out \in Seq(ListRow)
    /\ swaps = 0 /\ changes = 1 => total # Account!N

ReadInv ==
  /\ Account!ReadingTypeOK /\ IsFiniteSet(visited)
  /\ Connecting /\ Fresh /\ Counting /\ Account!OneServer
  /\ readPc = "done" /\ Account!CountsAll => Account!IsTheList

-----------------------------------------------------------------------------
(* What one page adds. *)

Owned(items) ==
  reader \in {"records", "shikimori", "emby", "jellyfin"} =>
    \A n \in DOMAIN items : items[n][1] = identity

\* The last page of a reader that counts, and one that is not the last.
EndsWhole(items) ==
  Account!CountsAll =>
    ~Account!TotalChanged /\ Len(out \o items) = Account!N /\ ~Account!Repeating(items)

GoesOn(items, next, declared) ==
  Account!CountsAll =>
    /\ ~Account!TotalChanged /\ declared = Account!N
    /\ reader # "bangumi" => ~Account!Repeating(items)
    /\ reader # "shikimori"
    /\ reader = "plex" => manner # "whole" /\ next = Len(out \o items)

Adds(items) ==
  \/ Account!Fail
  \/ Account!Finish(items) /\ EndsWhole(items)
  \/ \E next \in Nat, declared \in Nat :
       Account!Continue(items, next, declared) /\ GoesOn(items, next, declared)

LEMMA ReadingState ==
  ASSUME ReadInv, readPc = "reading"
  PROVE  /\ Account!Rows \in SUBSET (1..MaxRow) /\ Account!N \in Nat /\ Account!N <= MaxRow
         /\ out \in Seq(Account!Server \X (1..MaxRow)) /\ place \in Nat /\ total \in Nat
         /\ ListRow \subseteq Account!Server \X (1..MaxRow)
<1>1. /\ Account!Answering \in Account!Server
      /\ rows \in [Account!Server -> SUBSET (1..MaxRow)]
      /\ out \in Seq(Account!Server \X (1..MaxRow)) /\ place \in Nat /\ total \in Nat
  BY DEF ReadInv, Connecting, Account!ReadingTypeOK
<1>2. Account!Rows \in SUBSET (1..MaxRow)
  BY <1>1 DEF Account!Rows
<1>3. ListRow \subseteq Account!Server \X (1..MaxRow)
  BY <1>1, <1>2 DEF ListRow
<1> QED
  BY <1>1, <1>2, <1>3, ListingIsTheList

\* The reader and its page, appended to what it has.
LEMMA Appended ==
  ASSUME ReadInv, readPc = "reading", NEW items \in Seq(ListRow)
  PROVE  /\ out \o items \in Seq(Account!Server \X (1..MaxRow))
         /\ Len(out \o items) \in Nat /\ Len(out \o items) = Len(out) + Len(items)
         /\ Len(out) \in Nat /\ Len(items) \in Nat
<1>1. out \in Seq(Account!Server \X (1..MaxRow)) /\ items \in Seq(Account!Server \X (1..MaxRow))
  BY ReadingState, SeqMonotonic
<1> QED
  BY <1>1, ConcatProperties, LenProperties

LEMMA AppendedOwners ==
  ASSUME NEW S, NEW s \in Seq(S), NEW t \in Seq(S), NEW owner,
         \A n \in DOMAIN s : s[n][1] = owner, \A n \in DOMAIN t : t[n][1] = owner
  PROVE  \A n \in DOMAIN (s \o t) : (s \o t)[n][1] = owner
<1>1. /\ Len(s) \in Nat /\ Len(t) \in Nat /\ DOMAIN s = 1..Len(s) /\ DOMAIN t = 1..Len(t)
      /\ s \o t \in Seq(S) /\ Len(s \o t) = Len(s) + Len(t) /\ DOMAIN (s \o t) = 1..(Len(s) + Len(t))
      /\ \A n \in 1..(Len(s) + Len(t)) :
           (s \o t)[n] = IF n <= Len(s) THEN s[n] ELSE t[n - Len(s)]
  BY ConcatProperties, LenProperties
<1>2. ASSUME NEW n \in 1..(Len(s) + Len(t)) PROVE (s \o t)[n][1] = owner
  <2>1. CASE n <= Len(s)
    BY <1>1, <2>1
  <2>2. CASE ~(n <= Len(s))
    <3>1. n - Len(s) \in 1..Len(t)
      BY <1>1, <2>2
    <3> QED
      BY <1>1, <2>2, <3>1
  <2> QED
    BY <2>1, <2>2
<1> QED
  BY <1>1, <1>2

\* The readers whose pages declare one total.
LEMMA CountedAdds ==
  ASSUME ReadInv, readPc = "reading", reader \notin {"plex", "shikimori"},
         NEW items \in Seq(ListRow), NEW last \in BOOLEAN, Account!Counted(items, last),
         \/ ~Account!Repeating(items)
         \/ reader = "bangumi" /\ Len(out \o items) < Account!N
  PROVE  Adds(items)
<1>1. Account!N \in Nat /\ Len(out \o items) \in Nat
  BY ReadingState, Appended
<1>2. CASE Account!TotalChanged
  BY <1>2 DEF Account!Counted, Adds
<1>3. CASE ~Account!TotalChanged /\ Len(out \o items) >= Account!N
  BY <1>1, <1>3 DEF Account!Counted, Adds, EndsWhole
<1>4. CASE ~Account!TotalChanged /\ ~(Len(out \o items) >= Account!N)
  <2>1. GoesOn(items, Len(out \o items), Account!N)
    BY <1>4 DEF GoesOn
  <2> QED
    BY <1>1, <1>4, <2>1 DEF Account!Counted, Adds
<1> QED
  BY <1>2, <1>3, <1>4

\* Each reader's page adds rows of the list, or fails the read.
LEMMA ReadAdds ==
  ASSUME ReadInv, Account!Read
  PROVE  \E items \in Seq(ListRow) : Adds(items) /\ Owned(items)
<1>1. readPc = "reading"
  BY DEF Account!Read, Account!Reading, Account!KodiPage, Account!JellyfinPage, Account!EmbyPage,
     Account!BangumiPage, Account!WorksPage, Account!RecordsPage, Account!PlexPage,
     Account!ShikimoriRates, Account!MovaryPage, Account!TraktPage, Account!TmdbPage,
     Account!MalPage, Account!AniListPage
<1>2. /\ Account!Rows \in SUBSET (1..MaxRow) /\ Account!N \in Nat /\ place \in Nat
      /\ Account!Size \in Nat \ {0} /\ Account!None \in Nat
  BY <1>1, ReadingState, ListSizes DEF Account!Size
<1>3. \A k \in Nat : Account!Page(k) \in Seq(ListRow)
  BY <1>2, PageOfRows
<1>4. place * Account!Size \in Nat /\ place + 1 \in Nat /\ place + Account!Size \in Nat
  BY <1>2
<1>5. \A items : Account!Fail => Adds(items)
  BY DEF Adds
<1>6. CASE Account!KodiPage
  <2>1. Adds(Account!Page(place))
    BY <1>1, <1>2, <1>3, <1>5, <1>6, CountedAdds DEF Account!KodiPage, Account!Reading
  <2> QED
    BY <1>2, <1>3, <1>6, <2>1 DEF Owned, Account!KodiPage, Account!Reading
<1>7. CASE Account!JellyfinPage \/ Account!EmbyPage
  <2> DEFINE items == Account!Page(place)
  <2>1. items \in Seq(ListRow) /\ reader \in {"jellyfin", "emby"}
    BY <1>2, <1>3, <1>7 DEF Account!JellyfinPage, Account!EmbyPage, Account!Reading
  <2>2. CASE Account!Fail
    <3>1. <<>> \in Seq(ListRow) /\ Owned(<<>>)
      BY DEF Owned
    <3> QED
      BY <1>5, <2>2, <3>1
  <2>3. CASE ~Account!Foreign(items) /\ ~Account!Repeating(items) /\ Account!Counted(items, TRUE)
    <3>1. Owned(items)
      BY <2>3 DEF Owned, Account!Foreign
    <3>2. Adds(items)
      BY <1>1, <2>1, <2>3, CountedAdds
    <3> QED
      BY <2>1, <3>1, <3>2
  <2> QED
    BY <1>7, <2>2, <2>3 DEF Account!JellyfinPage, Account!EmbyPage
<1>8. CASE Account!BangumiPage
  <2> DEFINE items == Account!Page(place)
  <2>1. items \in Seq(ListRow) /\ reader = "bangumi"
    BY <1>2, <1>3, <1>8 DEF Account!BangumiPage, Account!Reading
  <2>2. Len(items) \in Nat /\ Len(out \o items) \in Nat
    BY <1>1, <2>1, Appended
  <2>3. \/ Account!Fail
        \/ Account!Counted(items, TRUE)
           /\ (~Account!Repeating(items) \/ ~(Len(out \o items) >= Account!N))
    BY <1>8 DEF Account!BangumiPage
  <2>4. Len(out \o items) >= Account!N \/ Len(out \o items) < Account!N
    BY <1>2, <2>2
  <2>5. Adds(items)
    BY <1>1, <1>5, <2>1, <2>3, <2>4, CountedAdds, Zenon
  <2> QED
    BY <2>1, <2>5 DEF Owned
<1>9. CASE Account!WorksPage
  <2> DEFINE items == Account!Page(place * Account!Size)
  <2>1. items \in Seq(ListRow) /\ reader = "works"
    BY <1>3, <1>4, <1>9 DEF Account!WorksPage, Account!Reading
  <2>2. \/ Account!Fail
        \/ /\ ~Account!TotalChanged /\ ~Account!Repeating(items)
           /\ \/ Account!Finish(items) /\ Len(out \o items) = Account!N
              \/ Account!Continue(items, place + 1, Account!N)
    BY <1>9 DEF Account!WorksPage
  <2>3. Adds(items)
    BY <1>2, <1>4, <2>1, <2>2 DEF Adds, EndsWhole, GoesOn
  <2> QED
    BY <2>1, <2>3 DEF Owned
<1>10. CASE Account!RecordsPage
  <2> DEFINE after == Account!Cardinality({r \in Account!Rows : r <= place})
             items == Account!Page(after)
             endCursor == IF items = <<>> THEN place ELSE items[Len(items)][2]
  <2>1. after \in Nat
    BY <1>2, RanksCount, FS_Subset, FS_CardinalityType, Library
  <2>2. items \in Seq(ListRow) /\ reader = "records"
    BY <1>3, <1>10, <2>1 DEF Account!RecordsPage, Account!Reading
  <2>3. \/ Account!Fail
        \/ /\ ~Account!TotalChanged /\ ~Account!Repeating(items) /\ Account!Answering = identity
           /\ \/ Account!Finish(items) /\ Len(out \o items) = Account!N
              \/ Account!Continue(items, endCursor, Account!N)
    BY <1>10 DEF Account!RecordsPage
  <2> HIDE DEF after
  <2>4. endCursor \in Nat
    <3>1. CASE items # <<>>
      <4>1. Len(items) \in 1..Len(items)
        BY <2>2, <3>1, EmptySeq
      <4>2. items[Len(items)] \in ListRow
        BY <2>2, <4>1, ElementOfSeq
      <4>3. items[Len(items)][2] \in Account!Rows
        BY <4>2 DEF ListRow
      <4>4. Account!Rows \subseteq Nat
        BY <1>2
      <4> QED
        BY <3>1, <4>3, <4>4
    <3> QED
      BY <1>2, <3>1
  <2>5. CASE Account!Fail
    <3>1. <<>> \in Seq(ListRow) /\ Owned(<<>>)
      BY DEF Owned
    <3> QED
      BY <1>5, <2>5, <3>1
  <2>6. CASE ~Account!Fail
    <3>1. Adds(items)
      BY <1>2, <2>2, <2>3, <2>4, <2>6 DEF Adds, EndsWhole, GoesOn
    <3>2. Owned(items)
      <4>1. \A n \in DOMAIN items : items[n] \in ListRow
        BY <2>2, LenProperties, ElementOfSeq
      <4>2. \A n \in DOMAIN items : items[n][1] = Account!Answering
        BY <4>1 DEF ListRow
      <4> QED
        BY <2>3, <2>6, <4>2 DEF Owned
    <3> QED
      BY <2>2, <3>1, <3>2
  <2> QED
    BY <2>5, <2>6
<1>11. CASE Account!PlexPage
  <2> DEFINE items == Account!Page(place)
             n == place + Len(items)
  <2>1. items \in Seq(ListRow) /\ reader = "plex"
    BY <1>2, <1>3, <1>11 DEF Account!PlexPage, Account!Reading
  <2>2. /\ Len(items) \in Nat /\ Len(out) \in Nat /\ Len(out \o items) = Len(out) + Len(items)
        /\ n \in Nat
    BY <1>1, <1>2, <2>1, Appended
  <2>3. manner # "offsets" => place = Len(out)
    BY <1>1, <2>1 DEF ReadInv, Counting, Account!CountsAll
  <2>4. manner = "whole" => ~Account!TotalChanged /\ Len(out \o items) = Account!N
    <3>1. SUFFICES ASSUME manner = "whole"
                   PROVE  ~Account!TotalChanged /\ Len(out \o items) = Account!N
      OBVIOUS
    <3>2. Len(out) = 0 /\ total = Account!None
      BY <1>1, <2>1, <3>1 DEF ReadInv, Counting, Fresh, Account!CountsAll
    <3>3. Len(items) = Account!N
      BY <1>2, <3>1, WholePage DEF Account!Page
    <3> QED
      BY <2>2, <3>2, <3>3 DEF Account!TotalChanged
  <2>5. \/ Account!Fail
        \/ ~Account!Repeating(items)
           /\ \/ manner = "whole" /\ Account!Finish(items)
              \/ manner = "offsets" /\ (Account!Finish(items) \/ Account!Continue(items, n, Account!None))
              \/ /\ manner \notin {"whole", "offsets"} /\ ~Account!TotalChanged
                 /\ \/ n = Account!N /\ Account!Finish(items)
                    \/ Account!Continue(items, n, Account!N)
    BY <1>11 DEF Account!PlexPage
  <2>6. Adds(items)
    BY <1>2, <2>1, <2>2, <2>3, <2>4, <2>5 DEF Adds, EndsWhole, GoesOn, Account!CountsAll
  <2> QED
    BY <2>1, <2>6 DEF Owned
<1>12. CASE Account!ShikimoriRates
  <2> DEFINE items == [n \in 1..Account!N |-> <<Account!Answering, Account!Listing[n]>>]
  <2>1. items \in Seq(ListRow) /\ Len(items) = Account!N /\ Account!IsInjective(items)
    BY <1>2, WholePage
  <2>2. reader = "shikimori"
    BY <1>12 DEF Account!ShikimoriRates, Account!Reading
  <2>3. out = <<>> /\ total = Account!None
    BY <1>1, <2>2 DEF ReadInv, Counting, Fresh, Account!CountsAll
  <2>4. <<>> \o items = items
    BY <2>1, ConcatEmptySeq
  <2>5. \/ Account!Fail
        \/ (Account!Answering = identity \/ Account!Rows = {}) /\ Account!Finish(items)
    BY <1>12 DEF Account!ShikimoriRates
  <2>6. CASE Account!Fail
    <3>1. <<>> \in Seq(ListRow) /\ Owned(<<>>)
      BY DEF Owned
    <3> QED
      BY <1>5, <2>6, <3>1
  <2>7. CASE ~Account!Fail
    <3>1. EndsWhole(items)
      BY <2>1, <2>3, <2>4 DEF EndsWhole, Account!TotalChanged, Account!Repeating
    <3>2. \A n \in DOMAIN items : items[n] \in ListRow
      BY <2>1, LenProperties, ElementOfSeq
    <3>3. \A n \in DOMAIN items : items[n][1] = Account!Answering /\ Account!Rows # {}
      BY <3>2 DEF ListRow
    <3>4. Owned(items)
      BY <2>5, <2>7, <3>3 DEF Owned
    <3> QED
      BY <2>1, <2>5, <2>7, <3>1, <3>4 DEF Adds
  <2> QED
    BY <2>6, <2>7
<1>13. CASE Account!MovaryPage \/ Account!TraktPage \/ Account!TmdbPage
  <2> DEFINE items == Account!Page(place * Account!Size)
  <2>1. items \in Seq(ListRow) /\ reader \in {"movary", "trakt", "tmdb"}
    BY <1>3, <1>4, <1>13 DEF Account!MovaryPage, Account!TraktPage, Account!TmdbPage, Account!Reading
  <2>2. Account!PageCount \in Nat
    <3>1. \A n \in Nat, m \in Nat \ {0} : (n + m - 1) \div m \in Nat
      OBVIOUS
    <3> QED
      BY <1>2, <3>1, ListSizes DEF Account!PageCount
  <2>3. \/ Account!Fail \/ Account!Finish(items)
        \/ Account!Continue(items, place + 1, Account!PageCount)
        \/ Account!Continue(items, place + 1, Account!None)
    BY <1>13 DEF Account!MovaryPage, Account!TraktPage, Account!TmdbPage
  <2>4. Adds(items)
    BY <1>2, <1>4, <2>1, <2>2, <2>3 DEF Adds, EndsWhole, GoesOn, Account!CountsAll
  <2> QED
    BY <2>1, <2>4 DEF Owned
<1>14. CASE Account!MalPage
  <2> DEFINE items == Account!Page(place)
             next == IF manner = "stuck" THEN place ELSE place + Account!Size
  <2>1. items \in Seq(ListRow) /\ reader = "myanimelist" /\ next \in Nat
    BY <1>2, <1>3, <1>4, <1>14 DEF Account!MalPage, Account!Reading
  <2>2. Account!Fail \/ Account!Finish(items) \/ Account!Continue(items, next, Account!None)
    BY <1>14 DEF Account!MalPage
  <2>3. Adds(items)
    BY <1>2, <2>1, <2>2 DEF Adds, EndsWhole, GoesOn, Account!CountsAll
  <2> QED
    BY <2>1, <2>3 DEF Owned
<1>15. CASE Account!AniListPage
  <2> DEFINE items == Account!Page(place * Account!Size)
  <2>1. items \in Seq(ListRow) /\ reader = "anilist"
    BY <1>3, <1>4, <1>15 DEF Account!AniListPage, Account!Reading
  <2>2. Account!Fail \/ Account!Finish(items) \/ Account!Continue(items, place + 1, Account!None)
    BY <1>15 DEF Account!AniListPage
  <2>3. Adds(items)
    BY <1>2, <1>4, <2>1, <2>2 DEF Adds, EndsWhole, GoesOn, Account!CountsAll
  <2> QED
    BY <2>1, <2>3 DEF Owned
<1> QED
  BY <1>6, <1>7, <1>8, <1>9, <1>10, <1>11, <1>12, <1>13, <1>14, <1>15 DEF Account!Read

-----------------------------------------------------------------------------
(* The invariant is kept. *)

\* What the steps of a read depend on.
LEMMA ReadStateFrames ==
  /\ UNCHANGED <<rows, leads, base>> =>
       /\ Account!Answering' = Account!Answering /\ Account!Rows' = Account!Rows
       /\ Account!N' = Account!N /\ ListRow' = ListRow
  /\ UNCHANGED <<reader, manner>> => (Account!CountsAll' <=> Account!CountsAll)
BY DEF Account!Answering, Account!Rows, Account!N, ListRow, Account!CountsAll

LEMMA FailedReadKeeps ==
  ASSUME ReadInv, Account!Fail
  PROVE  ReadInv'
<1> USE DEF Account!Fail, Account!session, Account!world, Account!reading
<1>1. Account!ReadingTypeOK' /\ IsFiniteSet(visited')
  BY DEF ReadInv, Account!ReadingTypeOK
<1>2. Connecting' /\ Fresh' /\ Counting' /\ Account!OneServer'
  BY DEF Connecting, Fresh, Counting, Account!OneServer
<1> QED
  BY <1>1, <1>2 DEF ReadInv

LEMMA FinishKeeps ==
  ASSUME ReadInv, readPc = "reading", NEW items \in Seq(ListRow),
         Account!Finish(items), ~Account!Fail, EndsWhole(items), Owned(items)
  PROVE  ReadInv'
<1>1. /\ readPc' = "done" /\ out' = out \o items
      /\ UNCHANGED <<reader, manner, base, identity, evidence, rows, leads, changes, swaps,
                     place, visited, total>>
  BY DEF Account!Finish, Account!session, Account!world
<1>2. out' \in Seq(Account!Server \X (1..MaxRow))
  BY <1>1, Appended
<1>3. Account!ReadingTypeOK' /\ IsFiniteSet(visited')
  BY <1>1, <1>2 DEF ReadInv, Account!ReadingTypeOK
<1>4. Connecting'
  BY <1>1, ReadStateFrames DEF ReadInv, Connecting
<1>5. Fresh' /\ Counting'
  BY <1>1 DEF Fresh, Counting
<1>6. Account!OneServer'
  <2>1. ASSUME reader \in {"records", "shikimori", "emby", "jellyfin"}
        PROVE  \A n \in DOMAIN out' : out'[n][1] = identity
    <3>1. \A n \in DOMAIN out : out[n][1] = identity
      BY <2>1 DEF ReadInv, Account!OneServer
    <3>2. \A n \in DOMAIN items : items[n][1] = identity
      BY <2>1 DEF Owned
    <3>3. out \in Seq(Account!Server \X (1..MaxRow)) /\ items \in Seq(Account!Server \X (1..MaxRow))
      BY ReadingState, SeqMonotonic
    <3> QED
      BY <1>1, <3>1, <3>2, <3>3, AppendedOwners
  <2> QED
    BY <1>1, <2>1 DEF ReadInv, Account!OneServer
<1>7. ASSUME Account!CountsAll PROVE Account!IsTheList'
  <2>1. /\ ~Account!TotalChanged /\ Len(out') = Account!N /\ Account!IsInjective(out')
    BY <1>1, <1>7 DEF EndsWhole, Account!Repeating
  <2>2. ASSUME changes <= 1, swaps = 0
        PROVE  {out'[n][2] : n \in DOMAIN out'} = Account!Rows
    <3>1. changes \in Nat
      BY ReadingConstants DEF ReadInv, Account!ReadingTypeOK, Account!ReadingAssumption
    <3>2. changes # 1
      BY <1>7, <2>1, <2>2 DEF ReadInv, Counting, Fresh, Account!TotalChanged
    <3>3. changes = 0
      BY <2>2, <3>1, <3>2
    <3>4. out \in Seq(ListRow)
      BY <1>7, <2>2, <3>3 DEF ReadInv, Counting
    <3>5. out' \in Seq(ListRow)
      BY <1>1, <3>4, ConcatProperties
    <3> QED
      BY <2>1, <3>5, ReadingState, AllRows
  <2> QED
    BY <1>1, <2>1, <2>2, ReadStateFrames DEF Account!IsTheList
<1> QED
  BY <1>1, <1>3, <1>4, <1>5, <1>6, <1>7, ReadStateFrames DEF ReadInv

LEMMA ContinueKeeps ==
  ASSUME ReadInv, readPc = "reading", NEW items \in Seq(ListRow),
         NEW next \in Nat, NEW declared \in Nat,
         Account!Continue(items, next, declared), ~Account!Fail,
         GoesOn(items, next, declared), Owned(items)
  PROVE  ReadInv'
<1>1. /\ out' = out \o items /\ place' = next /\ visited' = visited \cup {place}
      /\ total' = declared /\ readPc' = "reading" /\ Account!Pages + 1 < MaxPages
      /\ UNCHANGED <<reader, manner, base, identity, evidence, rows, leads, changes, swaps>>
  <2>1. /\ out' = out \o items /\ place' = next /\ visited' = visited \cup {place}
        /\ total' = declared /\ readPc' = "reading" /\ ~(Account!Pages + 1 >= MaxPages)
        /\ UNCHANGED <<reader, manner, base, identity, evidence, rows, leads, changes, swaps>>
    BY DEF Account!Continue, Account!session, Account!world
  <2>2. Account!Pages \in Nat
    BY FS_CardinalityType, Library DEF ReadInv, Account!Pages
  <2> QED
    BY <2>1, <2>2, ListSizes
<1>2. out' \in Seq(Account!Server \X (1..MaxRow))
  BY <1>1, Appended
<1>3. IsFiniteSet(visited') /\ Account!Cardinality(visited') <= MaxPages /\ visited' \subseteq Nat
  <2>1. IsFiniteSet(visited) /\ visited \subseteq Nat /\ place \in Nat
    BY DEF ReadInv, Account!ReadingTypeOK
  <2>2. /\ IsFiniteSet(visited') /\ Cardinality(visited) \in Nat
        /\ Cardinality(visited') \in {Cardinality(visited), Cardinality(visited) + 1}
    BY <1>1, <2>1, FS_AddElement, FS_CardinalityType
  <2>3. Cardinality(visited) + 1 < MaxPages
    BY <1>1, Library DEF Account!Pages
  <2>4. Cardinality(visited') <= MaxPages
    BY <2>2, <2>3, ListSizes
  <2> QED
    BY <1>1, <2>1, <2>2, <2>4, Library
<1>4. Account!ReadingTypeOK'
  BY <1>1, <1>2, <1>3 DEF ReadInv, Account!ReadingTypeOK
<1>5. Connecting'
  BY <1>1, ReadStateFrames DEF ReadInv, Connecting
<1>6. Fresh'
  BY <1>1 DEF Fresh
<1>7. Account!OneServer'
  <2>1. ASSUME reader \in {"records", "shikimori", "emby", "jellyfin"}
        PROVE  \A n \in DOMAIN out' : out'[n][1] = identity
    <3>1. \A n \in DOMAIN out : out[n][1] = identity
      BY <2>1 DEF ReadInv, Account!OneServer
    <3>2. \A n \in DOMAIN items : items[n][1] = identity
      BY <2>1 DEF Owned
    <3>3. out \in Seq(Account!Server \X (1..MaxRow)) /\ items \in Seq(Account!Server \X (1..MaxRow))
      BY ReadingState, SeqMonotonic
    <3> QED
      BY <1>1, <3>1, <3>2, <3>3, AppendedOwners
  <2> QED
    BY <1>1, <2>1 DEF ReadInv, Account!OneServer
<1>8. ASSUME Account!CountsAll
      PROVE  /\ reader # "bangumi" => Account!IsInjective(out')
             /\ total' # Account!None
             /\ reader # "shikimori" /\ (reader = "plex" => manner # "whole" /\ place' = Len(out'))
             /\ swaps = 0 /\ changes = 0 => total' = Account!N /\ out' \in Seq(ListRow)
             /\ ~(swaps = 0 /\ changes = 1)
  <2>1. GoesOn(items, next, declared) /\ ~Account!TotalChanged /\ declared = Account!N
    BY <1>8 DEF GoesOn
  <2>2. total' # Account!None
    BY <1>1, <2>1, ReadingState, ListSizes
  <2>3. swaps = 0 /\ changes = 0 => out' \in Seq(ListRow)
    BY <1>1, <1>8, ConcatProperties DEF ReadInv, Counting
  <2>4. ~(swaps = 0 /\ changes = 1)
    BY <1>8, <2>1 DEF ReadInv, Counting, Fresh, Account!TotalChanged
  <2>5. /\ reader # "bangumi" => Account!IsInjective(out')
        /\ reader # "shikimori" /\ (reader = "plex" => manner # "whole" /\ place' = Len(out'))
    BY <1>1, <1>8 DEF GoesOn, Account!Repeating
  <2> QED
    BY <1>1, <2>1, <2>2, <2>3, <2>4, <2>5
<1>9. Counting'
  BY <1>1, <1>8, ReadStateFrames DEF Counting
<1> QED
  BY <1>1, <1>3, <1>4, <1>5, <1>6, <1>7, <1>9 DEF ReadInv

LEMMA PageKeeps ==
  ASSUME ReadInv, Account!Read
  PROVE  ReadInv'
<1>1. readPc = "reading"
  BY DEF Account!Read, Account!Reading, Account!KodiPage, Account!JellyfinPage, Account!EmbyPage,
     Account!BangumiPage, Account!WorksPage, Account!RecordsPage, Account!PlexPage,
     Account!ShikimoriRates, Account!MovaryPage, Account!TraktPage, Account!TmdbPage,
     Account!MalPage, Account!AniListPage
<1>2. PICK items \in Seq(ListRow) : Adds(items) /\ Owned(items)
  BY ReadAdds
<1>3. CASE Account!Fail
  BY <1>3, FailedReadKeeps
<1>4. CASE ~Account!Fail
  BY <1>1, <1>2, <1>4, FinishKeeps, ContinueKeeps DEF Adds
<1> QED
  BY <1>3, <1>4

\* An answer of the connection that is accepted.
LEMMA AcceptKeeps ==
  ASSUME ReadInv, NEW s \in Account!Server, NEW next, Account!Accept(s, next),
         readPc \notin {"reading", "done", "failed"}, next \notin {"done", "failed"},
         Connecting', Account!OneServer'
  PROVE  ReadInv'
<1>1. /\ readPc' = next /\ identity' = s /\ evidence' = evidence \cup {Account!Answering}
      /\ UNCHANGED <<reader, manner, base, rows, leads, changes, swaps, out, place, visited, total>>
  BY DEF Account!Accept, Account!world, Account!reading
<1>2. /\ visited = {} /\ out = <<>> /\ place = 0 /\ total = Account!None /\ changes = 0
  BY DEF ReadInv, Fresh
<1>3. CASE Account!Answering \in Account!Server
  <2>1. Account!ReadingTypeOK' /\ IsFiniteSet(visited')
    BY <1>1, <1>3 DEF ReadInv, Account!ReadingTypeOK
  <2>2. Fresh'
    BY <1>1, <1>2 DEF Fresh
  <2>3. Counting'
    <3>1. Account!IsInjective(<<>>) /\ <<>> \in Seq(ListRow) /\ Len(<<>>) = 0
      BY DEF Account!IsInjective
    <3> QED
      BY <1>1, <1>2, <3>1, ReadStateFrames DEF Counting
  <2>4. readPc' # "done"
    BY <1>1
  <2> QED
    BY <2>1, <2>2, <2>3, <2>4 DEF ReadInv
<1>4. CASE Account!Answering \notin Account!Server
  <2>1. readPc \in {"resources", "identity"}
    BY <1>4 DEF ReadInv, Connecting
  <2>2. Account!Answering \in Account!Server
    BY <1>1, <1>4, <2>1, ReadStateFrames DEF Connecting, Account!OneServer
  <2> QED
    BY <1>4, <2>2
<1> QED
  BY <1>3, <1>4

\* The connection of each connector.
LEMMA ConnectKeeps ==
  ASSUME ReadInv, Account!Connect
  PROVE  ReadInv'
<1>1. ASSUME NEW s \in Account!Server, NEW next, Account!Accept(s, next), Account!Answering = s,
             \/ readPc = "token" /\ next = "user id"
             \/ readPc = "user id" /\ next = "viewer" /\ s = identity
             \/ readPc = "viewer" /\ next = "reading" /\ s = identity
             \/ readPc \in {"whoami", "viewer of the list"} /\ next = "reading" /\ s = Account!Configured
             \/ readPc \in {"me", "rpc"} /\ next = "reading"
             \/ readPc = "system" /\ next = "server user"
             \/ readPc = "server user" /\ next = "reading" /\ s = identity
             \/ readPc = "identity" /\ next = "root" /\ s = Account!Configured
             \/ readPc = "root" /\ next = "providers" /\ s = identity
             \/ readPc = "providers" /\ next = "reading" /\ s = identity
      PROVE  ReadInv'
  <2>1. /\ readPc' = next /\ identity' = s /\ evidence' = evidence \cup {s}
        /\ UNCHANGED <<reader, manner, base, rows, leads, changes, swaps, out, place, visited, total>>
    BY <1>1 DEF Account!Accept, Account!world, Account!reading
  <2>2. Account!Answering' = s
    BY <1>1, <2>1, ReadStateFrames
  <2>3. Connecting /\ out = <<>>
    BY <1>1 DEF ReadInv, Fresh
  <2>4. Connecting'
    BY <1>1, <2>1, <2>2, <2>3 DEF Connecting
  <2>5. Account!OneServer'
    <3>1. next = "reading" => evidence' = {s} \/ reader = "kodi"
      BY <1>1, <2>1, <2>3 DEF Connecting
    <3>2. next = "reading" /\ reader \in {"plex", "shikimori", "anilist"} => s = Account!Configured
      BY <1>1, <2>3 DEF Connecting
    <3>3. next # "done"
      BY <1>1
    <3>4. \A n \in DOMAIN out' : FALSE
      BY <2>1, <2>3
    <3> QED
      BY <2>1, <3>1, <3>2, <3>3, <3>4 DEF Account!OneServer
  <2>6. readPc \notin {"reading", "done", "failed"} /\ next \notin {"done", "failed"}
    BY <1>1
  <2> QED
    BY <1>1, <2>4, <2>5, <2>6, AcceptKeeps
<1>2. ASSUME readPc \in {"resources", "identity"}, readPc' \in {"identity"}, base' \in Account!Address,
             UNCHANGED <<reader, manner, identity, evidence, rows, leads, changes, swaps,
                         out, place, visited, total>>
      PROVE  ReadInv'
  <2>1. Account!ReadingTypeOK' /\ IsFiniteSet(visited')
    BY <1>2 DEF ReadInv, Account!ReadingTypeOK
  <2>2. Connecting' /\ Fresh' /\ Counting' /\ Account!OneServer'
    BY <1>2 DEF ReadInv, Connecting, Fresh, Counting, Account!OneServer
  <2> QED
    BY <1>2, <2>1, <2>2 DEF ReadInv
<1>3. Account!Configured \in Account!Server /\ base \in Account!Address
  BY DEF Account!Configured, Account!Server, ReadInv, Account!ReadingTypeOK
<1>4. /\ readPc \notin {"resources", "identity", "failed"} => Account!Answering \in Account!Server
      /\ readPc \in {"root", "providers"} => identity = Account!Configured
  BY DEF ReadInv, Connecting
<1>5. CASE Account!AnnictToken
  BY <1>1, <1>4, <1>5 DEF Account!AnnictToken
<1>6. CASE Account!AnnictMe
  BY <1>1, <1>4, <1>6, FailedReadKeeps DEF Account!AnnictMe
<1>7. CASE Account!AnnictViewer
  BY <1>1, <1>4, <1>7, FailedReadKeeps DEF Account!AnnictViewer
<1>8. CASE Account!ShikimoriWhoAmI
  BY <1>1, <1>4, <1>8, FailedReadKeeps DEF Account!ShikimoriWhoAmI
<1>9. CASE Account!JellyfinMe \/ Account!BangumiMe
  BY <1>1, <1>4, <1>9 DEF Account!JellyfinMe, Account!BangumiMe
<1>10. CASE Account!AniListViewer
  BY <1>1, <1>4, <1>10, FailedReadKeeps DEF Account!AniListViewer
<1>11. CASE Account!EmbySystem
  BY <1>1, <1>4, <1>11 DEF Account!EmbySystem
<1>12. CASE Account!EmbyUser
  BY <1>1, <1>4, <1>12, FailedReadKeeps DEF Account!EmbyUser
<1>13. CASE Account!KodiHandshake
  BY <1>1, <1>4, <1>13 DEF Account!KodiHandshake
<1>14. CASE Account!PlexResources
  BY <1>2, <1>3, <1>14 DEF Account!PlexResources, Account!session, Account!world, Account!reading
<1>15. CASE Account!PlexIdentity
  <2>1. CASE Account!Answering = Account!Configured
    BY <1>1, <1>3, <1>15, <2>1 DEF Account!PlexIdentity
  <2>2. CASE Account!Answering # Account!Configured /\ base + 1 \in Account!Address
    <3>1. /\ readPc' = readPc /\ base' = base + 1 /\ readPc = "identity"
          /\ UNCHANGED <<reader, manner, identity, evidence, rows, leads, changes, swaps,
                         out, place, visited, total>>
      BY <1>15, <2>2 DEF Account!PlexIdentity, Account!world, Account!reading
    <3> QED
      BY <1>2, <2>2, <3>1
  <2>3. CASE Account!Answering # Account!Configured /\ base + 1 \notin Account!Address
    BY <1>15, <2>3, FailedReadKeeps DEF Account!PlexIdentity
  <2> QED
    BY <2>1, <2>2, <2>3
<1>16. CASE Account!PlexRoot
  BY <1>1, <1>4, <1>16, FailedReadKeeps DEF Account!PlexRoot
<1>17. CASE Account!PlexProviders
  BY <1>1, <1>4, <1>17, FailedReadKeeps DEF Account!PlexProviders
<1> QED
  BY <1>5, <1>6, <1>7, <1>8, <1>9, <1>10, <1>11, <1>12, <1>13, <1>14, <1>15, <1>16, <1>17
  DEF Account!Connect

\* A row comes or goes: the size of the list is another one.
LEMMA ChangeKeeps ==
  ASSUME ReadInv, NEW r \in 1..MaxRow, Account!Change(r)
  PROVE  ReadInv'
<1>1. /\ readPc = "reading" /\ readPc' = "reading" /\ visited # {} /\ changes < MaxChanges
      /\ changes' = changes + 1
      /\ rows' = [rows EXCEPT ![Account!Answering] =
                    IF r \in @ THEN @ \ {r} ELSE @ \cup {r}]
      /\ UNCHANGED <<reader, manner, base, identity, evidence, leads, swaps, out, place, visited, total>>
  BY DEF Account!Change, Account!session, Account!reading
<1>2. /\ Account!Answering \in Account!Server /\ Account!Answering' = Account!Answering
      /\ rows \in [Account!Server -> SUBSET (1..MaxRow)]
      /\ changes \in Nat /\ MaxChanges \in Nat /\ changes <= MaxChanges
  BY <1>1, ReadingConstants DEF ReadInv, Connecting, Account!ReadingTypeOK,
     Account!ReadingAssumption, Account!Answering
<1>3. rows' \in [Account!Server -> SUBSET (1..MaxRow)] /\ changes' \in 0..MaxChanges /\ changes' # 0
  BY <1>1, <1>2
<1>4. Account!ReadingTypeOK' /\ IsFiniteSet(visited')
  BY <1>1, <1>3 DEF ReadInv, Account!ReadingTypeOK
<1>5. Connecting' /\ Fresh'
  BY <1>1, <1>2 DEF ReadInv, Connecting, Fresh
<1>6. Account!OneServer'
  BY <1>1 DEF ReadInv, Account!OneServer
<1>7. Account!N' # Account!N
  <2>1. /\ Account!Rows \in SUBSET (1..MaxRow)
        /\ Account!Rows' = IF r \in Account!Rows THEN Account!Rows \ {r} ELSE Account!Rows \cup {r}
    BY <1>1, <1>2 DEF Account!Rows
  <2>2. IsFiniteSet(Account!Rows) /\ Cardinality(Account!Rows) \in Nat
    BY <2>1, RanksCount
  <2>3. /\ r \in Account!Rows => Cardinality(Account!Rows \ {r}) = Cardinality(Account!Rows) - 1
        /\ r \notin Account!Rows => Cardinality(Account!Rows \cup {r}) = Cardinality(Account!Rows) + 1
    BY <2>2, FS_AddElement, FS_RemoveElement
  <2>4. Cardinality(Account!Rows') # Cardinality(Account!Rows)
    BY <2>1, <2>2, <2>3
  <2>5. Account!N = Cardinality(Account!Rows) /\ Account!N' = Cardinality(Account!Rows')
    BY Library DEF Account!N
  <2> QED
    BY <2>4, <2>5
<1>8. ASSUME Account!CountsAll, swaps = 0, changes' = 1 PROVE total # Account!N'
  <2>1. changes = 0
    BY <1>1, <1>2, <1>8
  <2>2. total = Account!N
    BY <1>1, <1>8, <2>1 DEF ReadInv, Counting
  <2> QED
    BY <1>7, <2>2
<1>9. Counting'
  BY <1>1, <1>3, <1>8, ReadStateFrames DEF ReadInv, Counting
<1> QED
  BY <1>1, <1>4, <1>5, <1>6, <1>9 DEF ReadInv

\* The address leads elsewhere.
LEMMA SwapKeeps ==
  ASSUME ReadInv, NEW s \in Account!Server, Account!Swap(s)
  PROVE  ReadInv'
<1>1. /\ readPc \notin {"done", "failed"} /\ readPc' = readPc /\ swaps < MaxSwaps
      /\ swaps' = swaps + 1 /\ leads' = [leads EXCEPT ![base] = s]
      /\ UNCHANGED <<reader, manner, base, identity, evidence, rows, changes, out, place, visited, total>>
  BY DEF Account!Swap, Account!session, Account!reading
<1>2. /\ base \in Account!Address /\ leads \in [Account!Address -> Account!Server \cup {0}]
      /\ swaps \in 0..MaxSwaps /\ MaxSwaps \in Nat
  BY ReadingConstants DEF ReadInv, Account!ReadingTypeOK, Account!ReadingAssumption
<1>3. /\ leads' \in [Account!Address -> Account!Server \cup {0}] /\ Account!Answering' = s
      /\ swaps' \in 0..MaxSwaps /\ swaps' # 0
  BY <1>1, <1>2 DEF Account!Answering
<1>4. Account!ReadingTypeOK' /\ IsFiniteSet(visited')
  BY <1>1, <1>3 DEF ReadInv, Account!ReadingTypeOK
<1>5. Connecting' /\ Fresh'
  BY <1>1, <1>3 DEF ReadInv, Connecting, Fresh
<1>6. Account!OneServer'
  BY <1>1 DEF ReadInv, Account!OneServer
<1>7. Counting'
  BY <1>1, <1>3, ReadStateFrames DEF ReadInv, Counting
<1> QED
  BY <1>1, <1>4, <1>5, <1>6, <1>7 DEF ReadInv

LEMMA ReadNextKeeps ==
  ASSUME ReadInv, [Account!Next]_Account!vars
  PROVE  ReadInv'
<1>1. CASE Account!Connect
  BY <1>1, ConnectKeeps
<1>2. CASE Account!Read
  BY <1>2, PageKeeps
<1>3. CASE Account!RequestFails
  BY <1>3, FailedReadKeeps DEF Account!RequestFails
<1>4. CASE \E r \in 1..MaxRow : Account!Change(r)
  BY <1>4, ChangeKeeps
<1>5. CASE \E s \in Account!Server : Account!Swap(s)
  BY <1>5, SwapKeeps
<1>6. CASE UNCHANGED Account!vars
  <2>1. UNCHANGED <<reader, manner, rows, leads, base, readPc, identity, evidence, out, place,
                    visited, total, changes, swaps>>
    BY <1>6 DEF Account!vars
  <2>2. Account!ReadingTypeOK' /\ IsFiniteSet(visited')
    BY <2>1 DEF ReadInv, Account!ReadingTypeOK
  <2>3. Connecting' /\ Fresh' /\ Counting' /\ Account!OneServer'
    <3>1. Connecting'
      BY <2>1, ReadStateFrames DEF ReadInv, Connecting
    <3>2. Fresh'
      BY <2>1 DEF ReadInv, Fresh
    <3>3. Counting'
      BY <2>1, ReadStateFrames DEF ReadInv, Counting
    <3>4. Account!OneServer'
      BY <2>1 DEF ReadInv, Account!OneServer, Account!Configured
    <3> QED
      BY <3>1, <3>2, <3>3, <3>4
  <2>4. readPc' = "done" /\ Account!CountsAll' => Account!IsTheList'
    BY <2>1, ReadStateFrames DEF ReadInv, Account!IsTheList
  <2> QED
    BY <2>2, <2>3, <2>4 DEF ReadInv
<1> QED
  BY <1>1, <1>2, <1>3, <1>4, <1>5, <1>6 DEF Account!Next

LEMMA ReadStarts ==
  ASSUME Account!Init
  PROVE  ReadInv
<1> USE DEF Account!Init
<1>1. reader # "plex" => Account!Answering \in Account!Server
  BY DEF Account!Answering, Account!Configured, Account!Address, Account!Server
<1>2. Connecting
  <2>1. \/ readPc = "token" /\ reader \in {"works", "records"}
        \/ readPc = "whoami" /\ reader = "shikimori"
        \/ readPc = "resources" /\ reader = "plex"
        \/ readPc = "me" /\ reader \in {"bangumi", "jellyfin"}
        \/ readPc = "viewer of the list" /\ reader = "anilist"
        \/ readPc = "system" /\ reader = "emby"
        \/ readPc = "rpc" /\ reader = "kodi"
        \/ readPc = "reading" /\ reader # "plex"
    BY DEF Account!Handshake
  <2>2. readPc # "resources" => Account!Answering \in Account!Server
    BY <1>1, <2>1
  <2>3. evidence = {}
    OBVIOUS
  <2> QED
    BY <2>1, <2>2, <2>3 DEF Connecting
<1>3. readPc # "done" /\ readPc # "failed"
  BY DEF Account!Handshake
<1>4. IsFiniteSet(visited) /\ Account!Cardinality(visited) = 0
  BY FS_EmptySet, Library
<1>5. Account!ReadingTypeOK
  <2>1. rows \in [Account!Server -> SUBSET (1..MaxRow)]
    OBVIOUS
  <2>2. total \in Nat /\ changes \in 0..MaxChanges /\ swaps \in 0..MaxSwaps
    BY ListSizes, ReadingConstants DEF Account!ReadingAssumption
  <2>3. out \in Seq(Account!Server \X (1..MaxRow))
    OBVIOUS
  <2>4. visited \subseteq Nat /\ place \in Nat /\ Account!Cardinality(visited) <= MaxPages
    BY <1>4, ListSizes
  <2> QED
    BY <2>1, <2>2, <2>3, <2>4 DEF Account!ReadingTypeOK, Account!Address, Account!Server
<1>6. Fresh
  BY DEF Fresh
<1>7. Counting
  <2>1. Account!IsInjective(<<>>) /\ <<>> \in Seq(ListRow) /\ Len(<<>>) = 0
    BY DEF Account!IsInjective
  <2> QED
    BY <2>1 DEF Counting
<1>8. Account!OneServer
  BY <1>3 DEF Account!OneServer, Account!Handshake
<1> QED
  BY <1>2, <1>3, <1>4, <1>5, <1>6, <1>7, <1>8 DEF ReadInv

(***************************************************************************)
(* For lists, pages, limits and numbers of changes of any size: what a     *)
(* reader that counts hands out has no row twice, and is the list as it is *)
(* at the end if at most one row came or went meanwhile; and a connector   *)
(* that is told who answers has one server's or account's answers only,    *)
(* from the first request of connect to the last page.                     *)
(***************************************************************************)
THEOREM ReadsTakeTheWholeList == Account!Spec => []ReadsAreWhole
<1>1. Account!Init => ReadInv
  BY ReadStarts
<1>2. ReadInv /\ [Account!Next]_Account!vars => ReadInv'
  BY ReadNextKeeps
<1>3. ReadInv => ReadsAreWhole
  BY DEF ReadInv, ReadsAreWhole, Account!ReadsAreWhole
<1> QED
  BY <1>1, <1>2, <1>3, PTL DEF Account!Spec

-----------------------------------------------------------------------------
(***************************************************************************)
(* The importers, for accounts, calls and bounds of any size: what they    *)
(* plan concerns requested items only, one write is on its way at a time,  *)
(* and the ones that reread before they write find what they planned from. *)
(***************************************************************************)

LEMMA SortedIsAll ==
  ASSUME NEW S, IsFiniteSet(S), NEW key, \A x \in S : key[x] \in Nat,
         \A x, y \in S : key[x] = key[y] => x = y
  PROVE  /\ Sorted(S, key) \in Seq(S) /\ Len(Sorted(S, key)) = Cardinality(S)
         /\ \A j, k \in DOMAIN Sorted(S, key) : Sorted(S, key)[j] = Sorted(S, key)[k] => j = k
         /\ \A x \in S : \E k \in DOMAIN Sorted(S, key) : Sorted(S, key)[k] = x
<1> DEFINE s == Sorted(S, key)
<1>1. /\ Cardinality(S) \in Nat
      /\ \A k \in 1..Cardinality(S) : \E x \in S : Place(S, key, x) = k
      /\ \A x \in S : Place(S, key, x) \in 1..Cardinality(S)
      /\ \A x, y \in S : Place(S, key, x) = Place(S, key, y) => x = y
  BY KeyRanks
<1>2. s = [k \in 1..Cardinality(S) |-> CHOOSE x \in S : Place(S, key, x) = k]
  BY DEF Sorted, Place
<1> HIDE DEF s
<1>3. \A k \in 1..Cardinality(S) : s[k] \in S /\ Place(S, key, s[k]) = k
  BY <1>1, <1>2
<1>4. s \in Seq(S) /\ Len(s) = Cardinality(S) /\ DOMAIN s = 1..Cardinality(S)
  BY <1>1, <1>2, <1>3
<1>5. \A j, k \in DOMAIN s : s[j] = s[k] => j = k
  BY <1>3, <1>4
<1>6. \A x \in S : \E k \in DOMAIN s : s[k] = x
  BY <1>1, <1>3, <1>4
<1> QED
  BY <1>4, <1>5, <1>6 DEF s

\* What the calls are about.
LEMMA CallState ==
  ASSUME call \in Calls
  PROVE  /\ call.dryRun \in BOOLEAN
         /\ Len(Entries) \in Nat /\ DOMAIN Entries = 1..Len(Entries)
         /\ \A n \in DOMAIN Entries :
              /\ Entries[n].item \in Item
              /\ Entries[n].want \in Wants(call.service, call.feature, Entries[n].item)
         /\ Requested = {Entries[n].item : n \in DOMAIN Entries}
         /\ Requested \subseteq Item /\ IsFiniteSet(Requested)
         /\ \A i \in Requested : /\ Want(i) \in Wants(call.service, call.feature, i)
                                 /\ ~AnyUnsupported => Want(i) # Unsupported
<1> DEFINE W == UNION {[item : {i}, want : Wants(call.service, call.feature, i)] : i \in Item}
<1>1. call.dryRun \in BOOLEAN /\ Entries \in Seq(W)
  BY CallsAssumption DEF Entries
<1>2. Len(Entries) \in Nat /\ DOMAIN Entries = 1..Len(Entries) /\ \A n \in DOMAIN Entries : Entries[n] \in W
  <2> HIDE DEF W
  <2> QED
    BY <1>1, LenProperties, ElementOfSeq
<1>3. \A n \in DOMAIN Entries :
        /\ Entries[n].item \in Item
        /\ Entries[n].want \in Wants(call.service, call.feature, Entries[n].item)
  BY <1>2
<1>4. Range(Entries) = {Entries[n] : n \in DOMAIN Entries}
  BY DEF Range
<1>5. Requested = {Entries[n].item : n \in DOMAIN Entries}
  BY <1>4 DEF Requested
<1>6. IsFiniteSet(Requested)
  <2> DEFINE f == [n \in DOMAIN Entries |-> Entries[n].item]
  <2>1. IsFiniteSet(DOMAIN Entries)
    BY <1>2, FS_Interval
  <2>2. f \in Surjection(DOMAIN Entries, Requested)
    BY <1>5 DEF Surjection
  <2> QED
    BY <2>1, <2>2, FS_Surjection
<1>7. ASSUME NEW i \in Requested
      PROVE  /\ Want(i) \in Wants(call.service, call.feature, i)
             /\ ~AnyUnsupported => Want(i) # Unsupported
  <2>1. Wanted(i) # {}
    BY <1>4, <1>5 DEF Wanted
  <2>2. Want(i) \in Wanted(i)
    BY <2>1 DEF Want
  <2>3. PICK e \in Range(Entries) : e.item = i /\ e.want = Want(i)
    BY <2>2 DEF Wanted
  <2>4. ~AnyUnsupported => Want(i) # Unsupported
    BY <2>3 DEF AnyUnsupported
  <2> QED
    BY <1>3, <1>4, <2>3, <2>4
<1> QED
  BY <1>1, <1>2, <1>3, <1>5, <1>6, <1>7

\* The first entry of each requested item.
LEMMA FirstEntries ==
  ASSUME call \in Calls, NEW i \in Requested
  PROVE  FirstEntry[i] \in DOMAIN Entries /\ Entries[FirstEntry[i]].item = i
<1> DEFINE S == {n \in DOMAIN Entries : Entries[n].item = i}
           key == [n \in S |-> n]
<1>1. Len(Entries) \in Nat /\ DOMAIN Entries = 1..Len(Entries) /\ S # {}
  BY CallState
<1>2. IsFiniteSet(S) /\ S \in SUBSET (1..Len(Entries))
  <2>1. S \in SUBSET (1..Len(Entries)) /\ IsFiniteSet(1..Len(Entries))
    BY <1>1, FS_Interval
  <2> QED
    BY <2>1, FS_Subset
<1>3. \A n \in S : key[n] = n /\ n \in Nat
  BY <1>1, <1>2
<1>4. Cardinality(S) \in Nat /\ Cardinality(S) # 0
  BY <1>1, <1>2, FS_CardinalityType, FS_EmptySet
<1>5. PICK n \in S : Place(S, key, n) = 1
  <2> HIDE DEF S, key
  <2>1. IsFiniteSet(S) /\ (\A x \in S : key[x] \in Nat) /\ \A x, y \in S : key[x] = key[y] => x = y
    BY <1>2, <1>3
  <2>2. \A k \in 1..Cardinality(S) : \E x \in S : Place(S, key, x) = k
    BY <2>1, KeyRanks
  <2> QED
    BY <1>4, <2>2
<1>6. ASSUME NEW m \in 1..(n - 1) PROVE Entries[m].item # i
  <2> DEFINE Before == {x \in S : key[x] <= key[n]}
  <2>1. SUFFICES ASSUME m \in S PROVE FALSE
    BY <1>1, <1>3
  <2>2. m \in Before /\ n \in Before /\ m # n
    BY <1>3, <2>1
  <2>3. IsFiniteSet(Before) /\ Cardinality(Before) = 1
    BY <1>2, <1>5, FS_Subset DEF Place
  <2> HIDE DEF Before
  <2>4. \E x : Before = {x}
    BY <2>3, FS_Singleton
  <2> QED
    BY <2>2, <2>4
<1>7. \E k \in DOMAIN Entries : Entries[k].item = i /\ \A m \in 1..(k - 1) : Entries[m].item # i
  BY <1>6
<1> QED
  BY <1>7 DEF FirstEntry

LEMMA InOrderIsAll ==
  ASSUME call \in Calls, NEW S \in SUBSET Requested
  PROVE  /\ InOrder(S) \in Seq(S) /\ Len(InOrder(S)) = Cardinality(S) /\ IsFiniteSet(S)
         /\ DOMAIN InOrder(S) = 1..Len(InOrder(S)) /\ Len(InOrder(S)) \in Nat
         /\ \A j, k \in DOMAIN InOrder(S) : InOrder(S)[j] = InOrder(S)[k] => j = k
         /\ \A i \in S : \E k \in DOMAIN InOrder(S) : InOrder(S)[k] = i
<1>1. IsFiniteSet(S)
  BY CallState, FS_Subset
<1>2. \A i \in S : FirstEntry[i] \in Nat /\ Entries[FirstEntry[i]].item = i
  BY CallState, FirstEntries
<1> QED
  BY <1>1, <1>2, SortedIsAll, LenProperties DEF InOrder

-----------------------------------------------------------------------------
(* The course of an import. *)

\* The rows that an account comes to have: a user followed twice over is followed -1 times.
RowSet == [status : Int, plays : Nat, rating : Nat, rest : Nat]

\* A write of requested items.
Proper(w) ==
  /\ DOMAIN w.rows \subseteq Requested
  /\ \A i \in DOMAIN w.rows : \A f \in DOMAIN w.rows[i] \cap DOMAIN Absent : w.rows[i][f] \in Nat

Planned(s) == \E W : s \in Seq(W) /\ \A n \in DOMAIN s : Proper(s[n])

LEMMA PlannedTail ==
  ASSUME NEW s, Planned(s), s # <<>>
  PROVE  /\ Planned(Tail(s)) /\ Head(s) = s[1] /\ 1 \in DOMAIN s
         /\ Len(s) \in Nat \ {0} /\ Len(Tail(s)) = Len(s) - 1
         /\ DOMAIN s = 1..Len(s) /\ DOMAIN Tail(s) = 1..(Len(s) - 1)
         /\ \A n \in DOMAIN Tail(s) : Tail(s)[n] = s[n + 1] /\ n + 1 \in DOMAIN s
         /\ Len(s) # 1 => Tail(s) # <<>>
<1>1. PICK W : s \in Seq(W) /\ \A n \in DOMAIN s : Proper(s[n])
  BY DEF Planned
<1>2. /\ Tail(s) \in Seq(W) /\ Len(Tail(s)) = Len(s) - 1 /\ Head(s) = s[1]
      /\ \A n \in 1..Len(Tail(s)) : Tail(s)[n] = s[n + 1]
  BY <1>1, HeadTailProperties
<1>3. Len(s) \in Nat /\ Len(s) # 0 /\ DOMAIN s = 1..Len(s) /\ DOMAIN Tail(s) = 1..Len(Tail(s))
  BY <1>1, <1>2, LenProperties, EmptySeq
<1>4. \A n \in DOMAIN Tail(s) : Tail(s)[n] = s[n + 1] /\ n + 1 \in DOMAIN s
  BY <1>2, <1>3
<1>5. Planned(Tail(s))
  BY <1>1, <1>2, <1>4 DEF Planned
<1>6. Len(s) # 1 => Tail(s) # <<>>
  <2>1. Len(s) # 1 => Len(Tail(s)) # 0
    BY <1>2, <1>3
  <2>2. Len(<<>>) = 0
    OBVIOUS
  <2> QED
    BY <2>1, <2>2
<1> QED
  BY <1>2, <1>3, <1>4, <1>5, <1>6

Writing == {"checking", "rechecking", "sending", "waiting", "verifying", "final"}

\* The labels at which the connector has a next write.
HasNext(label) ==
  \/ label \in {"checking", "sending", "waiting", "verifying"}
  \/ label = "rechecking" /\ call.service = "annict"

\* The connector is to act, and nothing of this call is on its way.
Acting == pc # "done" /\ ~(pc = "waiting" /\ answer = "none")

Flow ==
  /\ call \in Calls /\ calls \in Nat /\ Planned(todo)
  /\ outcome \in {"running", "ok", "failed"} /\ (pc = "done") = (outcome # "running")
  /\ pc \in Writing => ~call.dryRun
  /\ pc \notin {"validating", "done"} => ~AnyUnsupported
  /\ HasNext(pc) => todo # <<>>
  /\ account \in [Item -> RowSet]
  /\ \A m \in wire : m.call \in Nat /\ m.call <= calls /\ Proper(m.write)
  /\ \A m \in wire : m.call = calls =>
       outcome = "failed" \/ (pc = "waiting" /\ answer = "none" /\ m.write = Head(todo))
  /\ \A m, n \in wire : m.call = calls /\ n.call = calls => m = n

Pending == UNION {DOMAIN m.write.rows : m \in {x \in wire : x.call = calls}}
Late == UNION {DOMAIN m.write.rows : m \in {x \in wire : x.call < calls}}

\* What a step means to AccountImport.
Means == [Abstract!Next]_Abstract!vars

LEMMA CallFrame ==
  UNCHANGED call => /\ Requested' = Requested /\ Entries' = Entries
                    /\ AnyUnsupported' = AnyUnsupported
                    /\ \A w : Proper(w)' <=> Proper(w)
                    /\ \A s : Planned(s)' <=> Planned(s)
                    /\ \A label : HasNext(label)' <=> HasNext(label)
BY DEF Requested, Entries, AnyUnsupported, Proper, Planned, HasNext

LEMMA WireFrame ==
  UNCHANGED <<wire, calls>> => Pending' = Pending /\ Late' = Late
BY DEF Pending, Late

LEMMA NothingPending ==
  ASSUME Flow, Acting
  PROVE  Pending = {} /\ \A m \in wire : m.call # calls
<1>1. \A m \in wire : m.call # calls
  BY DEF Flow, Acting
<1> QED
  BY <1>1 DEF Pending

\* A handler that ends the import with an error.
LEMMA EndsFailed ==
  ASSUME Flow, Fail, pc # "done"
  PROVE  Flow' /\ Means
<1>1. /\ pc' = "done" /\ outcome' = "failed" /\ outcome = "running"
      /\ UNCHANGED <<call, account, wire, answer, seen, todo, moved, edits, calls>>
  BY DEF Fail, provider, counters, Flow
<1>2. Flow'
  BY <1>1, CallFrame DEF Flow, Writing, HasNext
<1>3. Abstract!Fail
  BY <1>1, CallFrame, WireFrame DEF Abstract!Fail, Pending, Late
<1> QED
  BY <1>2, <1>3 DEF Means, Abstract!Next

\* One that ends it with success, or goes on.
LEMMA EndsOk ==
  ASSUME Flow, Acting, pc' = "done", outcome' = "ok", Planned(todo'),
         UNCHANGED <<call, account, wire, answer, edits, calls>>
  PROVE  Flow' /\ Means
<1>1. outcome = "running"
  BY DEF Flow, Acting
<1>2. \A m \in wire : m.call # calls
  BY NothingPending
<1>3. Planned(todo)' <=> Planned(todo')
  BY CallFrame DEF Planned, Proper
<1>4. Flow'
  BY <1>1, <1>2, <1>3, CallFrame DEF Flow, Writing, HasNext
<1>5. Abstract!Succeed
  BY <1>1, NothingPending, CallFrame, WireFrame DEF Abstract!Succeed, Pending, Late
<1> QED
  BY <1>4, <1>5 DEF Means, Abstract!Next

LEMMA GoesOnAt ==
  ASSUME Flow, Acting, pc' \notin {"done", "waiting"}, outcome' = outcome, Planned(todo'),
         pc = "validating" => ~AnyUnsupported,
         pc' \in Writing => ~call.dryRun, HasNext(pc') => todo' # <<>>,
         UNCHANGED <<call, account, wire, answer, edits, calls>>
  PROVE  Flow' /\ Means
<1>1. outcome = "running"
  BY DEF Flow, Acting
<1>2. \A m \in wire : m.call # calls
  BY NothingPending
<1>3. (Planned(todo)' <=> Planned(todo')) /\ (HasNext(pc)' <=> HasNext(pc'))
  BY CallFrame DEF Planned, Proper, HasNext
<1>4. Flow'
  BY <1>1, <1>2, <1>3, CallFrame DEF Flow
<1>5. UNCHANGED Abstract!vars
  BY CallFrame, WireFrame DEF Abstract!vars, Pending, Late
<1> QED
  BY <1>4, <1>5 DEF Means

LEMMA Succeeding ==
  ASSUME Flow, Acting, NEW items, Succeed(items)
  PROVE  Flow' /\ Means
BY EndsOk DEF Succeed, provider, counters, Flow

LEMMA Going ==
  ASSUME Flow, Acting, NEW label, label \notin {"done", "waiting"},
         Goto(label), pc = "validating" => ~AnyUnsupported,
         label \in Writing => ~call.dryRun, HasNext(label) => todo # <<>>
  PROVE  Flow' /\ Means
<1>1. /\ pc' = label /\ outcome' = outcome /\ todo' = todo
      /\ UNCHANGED <<call, account, wire, answer, edits, calls>>
  BY DEF Goto, provider, counters
<1> QED
  BY <1>1, GoesOnAt DEF Flow

LEMMA Looking ==
  ASSUME Flow, Acting, NEW items, Look(items, "sending"), pc \in Writing, todo # <<>>
  PROVE  Flow' /\ Means
<1>1. /\ pc' = "sending" /\ outcome' = outcome /\ todo' = todo
      /\ UNCHANGED <<call, account, wire, answer, edits, calls>>
  BY DEF Look, provider, counters
<1>2. ~call.dryRun /\ pc # "validating"
  BY DEF Flow, Writing
<1> QED
  BY <1>1, <1>2, GoesOnAt DEF Flow

LEMMA Planning ==
  ASSUME Flow, Acting, NEW writes, NEW label, Plan(writes, label), Planned(writes),
         pc = "validating" => ~AnyUnsupported,
         label \in {"checking", "rechecking", "sending"},
         label = "sending" \/ (HasNext(label) => writes # <<>>)
  PROVE  Flow' /\ Means
<1>1. /\ todo' = writes /\ UNCHANGED <<call, account, wire, answer, edits, calls>>
  BY DEF Plan, provider, counters
<1>2. CASE call.dryRun \/ (writes = <<>> /\ label = "sending")
  BY <1>1, <1>2, EndsOk DEF Plan
<1>3. CASE ~call.dryRun /\ ~(writes = <<>> /\ label = "sending")
  <2>1. pc' = label /\ outcome' = outcome
    BY <1>3 DEF Plan
  <2> QED
    BY <1>1, <1>3, <2>1, GoesOnAt DEF HasNext
<1> QED
  BY <1>2, <1>3

LEMMA Advancing ==
  ASSUME Flow, Acting, NEW items, NEW next, NEW last, Advance(items, next, last),
         pc \in Writing, todo # <<>>,
         next \in {"sending", "checking", "rechecking"}, last \in {"done", "final"}
  PROVE  Flow' /\ Means
<1>1. todo' = Tail(todo) /\ UNCHANGED <<call, account, wire, answer, edits, calls>>
  BY DEF Advance, provider, counters
<1>2. ~call.dryRun /\ pc # "validating"
  BY DEF Flow, Writing
<1>3. Planned(todo') /\ (Len(todo) # 1 => todo' # <<>>)
  BY <1>1, PlannedTail DEF Flow
<1>4. CASE Len(todo) = 1 /\ last = "done"
  BY <1>1, <1>3, <1>4, EndsOk DEF Advance
<1>5. CASE Len(todo) = 1 /\ last = "final"
  <2>1. pc' = "final" /\ outcome' = outcome
    BY <1>5 DEF Advance
  <2> QED
    BY <1>1, <1>2, <1>3, <2>1, GoesOnAt DEF HasNext
<1>6. CASE Len(todo) # 1
  <2>1. pc' = next /\ outcome' = outcome
    BY <1>6 DEF Advance
  <2> QED
    BY <1>1, <1>2, <1>3, <1>6, <2>1, GoesOnAt
<1> QED
  BY <1>4, <1>5, <1>6

LEMMA Sending ==
  ASSUME Flow, Send
  PROVE  Flow' /\ Means
<1> DEFINE new == [call |-> calls, write |-> Head(todo)]
<1>1. /\ pc = "sending" /\ pc' = "waiting" /\ answer' = "none" /\ wire' = wire \cup {new}
      /\ UNCHANGED <<call, account, seen, todo, moved, outcome, edits, calls>>
  BY DEF Send, counters
<1>2. Pending = {} /\ \A m \in wire : m.call # calls
  BY <1>1, NothingPending DEF Acting
<1>3. todo # <<>> /\ ~call.dryRun /\ outcome = "running"
  BY <1>1 DEF Flow, Writing, HasNext
<1>7. Proper(Head(todo))
  BY <1>3, PlannedTail DEF Flow, Planned
<1>4. Flow'
  BY <1>1, <1>2, <1>3, <1>7, CallFrame DEF Flow, Writing, HasNext
<1>5. Pending' = DOMAIN Head(todo).rows
  <2>1. {x \in wire' : x.call = calls} = {new}
    BY <1>1, <1>2
  <2>2. Pending' = UNION {DOMAIN x.write.rows : x \in {new}}
    BY <1>1, <2>1 DEF Pending
  <2>3. new.write = Head(todo)
    OBVIOUS
  <2> HIDE DEF new
  <2> QED
    BY <2>2, <2>3
<1>6. Late' = Late
  <2>1. {x \in wire' : x.call < calls} = {x \in wire : x.call < calls}
    BY <1>1 DEF Flow
  <2> QED
    BY <1>1, <2>1 DEF Late
<1>8. Abstract!Send
  BY <1>1, <1>2, <1>3, <1>5, <1>6, <1>7, CallFrame DEF Abstract!Send, Pending, Late, Proper
<1> QED
  BY <1>4, <1>8 DEF Means, Abstract!Next

\* A write leaves the wire, carried out or not.
LEMMA Settling ==
  ASSUME Flow, NEW m \in wire, wire' = wire \ {m},
         UNCHANGED <<call, pc, seen, todo, outcome, edits, calls>>,
         Current(m) \/ answer' = answer, account' \in [Item -> RowSet]
  PROVE  Flow' /\ Means
<1>1. Flow'
  <2>1. \A n \in wire' : n.call = calls =>
          outcome = "failed" \/ (pc = "waiting" /\ answer' = "none" /\ n.write = Head(todo))
    BY DEF Flow, Current
  <2> QED
    BY <2>1, CallFrame DEF Flow
<1>2. Pending' \subseteq Pending /\ Late' \subseteq Late
  BY DEF Pending, Late
<1>3. Abstract!Settle
  BY <1>2, CallFrame DEF Abstract!Settle, Pending, Late
<1> QED
  BY <1>1, <1>3 DEF Means, Abstract!Next

LEMMA EffectIsRow ==
  ASSUME NEW row \in RowSet, NEW how, NEW fields,
         \A f \in DOMAIN fields \cap DOMAIN Absent : fields[f] \in Nat
  PROVE  Effect(row, how, fields) \in RowSet
<1>1. CASE how = "play"
  BY <1>1 DEF Effect, RowSet
<1>2. CASE how = "toggle"
  BY <1>2 DEF Effect, RowSet
<1>3. CASE how \notin {"play", "toggle"}
  <2> DEFINE new == [f \in DOMAIN row |-> IF f \in DOMAIN fields THEN fields[f] ELSE row[f]]
  <2>1. DOMAIN row = {"status", "plays", "rating", "rest"} /\ DOMAIN Absent = DOMAIN row
    BY DEF RowSet, Absent
  <2>2. new = [status |-> new.status, plays |-> new.plays, rating |-> new.rating, rest |-> new.rest]
    BY <2>1
  <2>3. new.status \in Int /\ new.plays \in Nat /\ new.rating \in Nat /\ new.rest \in Nat
    BY <2>1 DEF RowSet
  <2>4. Effect(row, how, fields) = new
    BY <1>3 DEF Effect
  <2> HIDE DEF new
  <2> QED
    BY <2>2, <2>3, <2>4 DEF RowSet
<1> QED
  BY <1>1, <1>2, <1>3

LEMMA Arriving ==
  ASSUME Flow, NEW m \in wire, NEW done \in SUBSET DOMAIN m.write.rows, NEW derived \in 2..3,
         Arrive(m, done, derived)
  PROVE  Flow' /\ Means
<1> DEFINE w == m.write
           titles == IF w.kind = "episodes" THEN {Parent[e] : e \in done} ELSE {}
<1>1. /\ wire' = wire \ {m} /\ UNCHANGED <<call, pc, seen, todo, outcome, edits, calls>>
      /\ Current(m) \/ answer' = answer
      /\ account' = [i \in Item |->
           IF i \in done THEN Effect(account[i], w.kind, w.rows[i])
           ELSE IF i \in titles THEN [account[i] EXCEPT !.status = derived] ELSE account[i]]
  BY DEF Arrive, counters
<1>2. account \in [Item -> RowSet] /\ Proper(w)
  BY DEF Flow
<1>3. ASSUME NEW i \in Item
      PROVE  (IF i \in done THEN Effect(account[i], w.kind, w.rows[i])
              ELSE IF i \in titles THEN [account[i] EXCEPT !.status = derived] ELSE account[i]) \in RowSet
  <2>1. account[i] \in RowSet /\ [account[i] EXCEPT !.status = derived] \in RowSet
    <3>1. account[i] \in RowSet
      BY <1>2
    <3> QED
      BY <3>1 DEF RowSet
  <2>2. i \in done => Effect(account[i], w.kind, w.rows[i]) \in RowSet
    BY <1>2, <2>1, EffectIsRow DEF Proper
  <2> QED
    BY <2>1, <2>2
<1>4. account' \in [Item -> RowSet]
  BY <1>1, <1>3
<1> QED
  BY <1>1, <1>4, Settling

LEMMA Vanishing ==
  ASSUME Flow, NEW m \in wire, Vanish(m)
  PROVE  Flow' /\ Means
<1>1. /\ wire' = wire \ {m} /\ UNCHANGED <<call, pc, account, seen, todo, outcome, edits, calls>>
      /\ Current(m) \/ answer' = answer
  BY DEF Vanish, counters
<1> QED
  BY <1>1, Settling DEF Flow

LEMMA Editing ==
  ASSUME Flow, NEW i \in Item, NEW row \in RowSet, Edit(i, row)
  PROVE  Flow' /\ Means
<1>1. UNCHANGED <<call, pc, todo, wire, answer, outcome, calls>> /\ account' \in [Item -> RowSet]
  BY DEF Edit, Flow
<1>2. Flow'
  BY <1>1, CallFrame DEF Flow
<1>3. UNCHANGED Abstract!vars
  BY <1>1, CallFrame, WireFrame DEF Abstract!vars, Pending, Late
<1> QED
  BY <1>2, <1>3 DEF Means

LEMMA CallingAgain ==
  ASSUME Flow, Again
  PROVE  Flow' /\ Means
<1>1. /\ outcome = "failed" /\ outcome' = "running" /\ pc' = "validating" /\ todo' = <<>>
      /\ calls' = calls + 1 /\ UNCHANGED <<call, account, wire>>
  BY DEF Again
<1>2. Planned(<<>>)
  BY DEF Planned
<1>3. \A m \in wire : m.call \in Nat /\ m.call <= calls /\ m.call < calls' /\ m.call <= calls' /\ m.call # calls'
  BY <1>1 DEF Flow
<1>4. Flow'
  BY <1>1, <1>2, <1>3, CallFrame DEF Flow, Writing, HasNext
<1>5. Late' = Late \cup Pending /\ Pending' = {}
  <2>1. {x \in wire' : x.call = calls'} = {} /\ {x \in wire' : x.call < calls'} = wire
    BY <1>1, <1>3
  <2>2. wire = {x \in wire : x.call = calls} \cup {x \in wire : x.call < calls}
    BY <1>3 DEF Flow
  <2> QED
    BY <2>1, <2>2 DEF Late, Pending
<1>6. Abstract!Again
  BY <1>1, <1>5, CallFrame DEF Abstract!Again, Pending, Late
<1> QED
  BY <1>4, <1>6 DEF Means, Abstract!Next

-----------------------------------------------------------------------------
(* The handlers of each connector. *)

FieldsOk(want) == \A f \in DOMAIN want \cap DOMAIN Absent : want[f] \in Nat

\* One write for each of some requested items.
LEMMA EachPlanned ==
  ASSUME call \in Calls, NEW S \in SUBSET Requested, NEW s,
         s = [n \in DOMAIN InOrder(S) |-> s[n]],
         \A n \in DOMAIN InOrder(S) :
           /\ DOMAIN s[n].rows = {InOrder(S)[n]}
           /\ FieldsOk(s[n].rows[InOrder(S)[n]])
  PROVE  Planned(s) /\ DOMAIN s = DOMAIN InOrder(S) /\ (s = <<>> <=> S = {})
<1> DEFINE order == InOrder(S)
           W == {s[n] : n \in DOMAIN order}
<1>1. /\ Len(order) \in Nat /\ DOMAIN order = 1..Len(order) /\ order \in Seq(S)
      /\ Len(order) = Cardinality(S) /\ IsFiniteSet(S)
      /\ \A n \in DOMAIN order : order[n] \in S
  BY InOrderIsAll, ElementOfSeq
<1>2. s \in Seq(W) /\ DOMAIN s = DOMAIN order /\ Len(s) = Len(order)
  <2>1. \A n \in DOMAIN order : s[n] \in W
    OBVIOUS
  <2>2. s = [n \in 1..Len(order) |-> s[n]]
    BY <1>1
  <2>3. \A n \in 1..Len(order) : s[n] \in W
    BY <1>1, <2>1
  <2> HIDE DEF W, order
  <2>4. s \in [1..Len(order) -> W]
    BY <2>2, <2>3
  <2>5. s \in Seq(W)
    BY <1>1, <2>4, SeqDef
  <2> QED
    BY <1>1, <2>4, <2>5, LenProperties
<1>3. \A n \in DOMAIN s : Proper(s[n])
  BY <1>1, <1>2 DEF Proper, FieldsOk
<1>4. s = <<>> <=> S = {}
  BY <1>1, <1>2, FS_EmptySet, EmptySeq
<1> QED
  BY <1>2, <1>3, <1>4 DEF Planned

LEMMA PlannedBoth ==
  ASSUME NEW s, NEW t, Planned(s), Planned(t)
  PROVE  /\ Planned(s \o t) /\ DOMAIN s = 1..Len(s) /\ DOMAIN t = 1..Len(t)
         /\ Len(s) \in Nat /\ Len(t) \in Nat
         /\ Len(s \o t) = Len(s) + Len(t) /\ DOMAIN (s \o t) = 1..(Len(s) + Len(t))
         /\ \A n \in DOMAIN (s \o t) :
              /\ (s \o t)[n] = IF n <= Len(s) THEN s[n] ELSE t[n - Len(s)]
              /\ n <= Len(s) => n \in DOMAIN s
              /\ n > Len(s) => n - Len(s) \in DOMAIN t
         /\ s \o t = <<>> <=> s = <<>> /\ t = <<>>
         /\ s = <<>> => s \o t = t
<1>1. PICK V : s \in Seq(V) /\ \A n \in DOMAIN s : Proper(s[n])
  BY DEF Planned
<1>2. PICK W : t \in Seq(W) /\ \A n \in DOMAIN t : Proper(t[n])
  BY DEF Planned
<1>3. s \in Seq(V \cup W) /\ t \in Seq(V \cup W)
  BY <1>1, <1>2, SeqMonotonic
<1>4. /\ s \o t \in Seq(V \cup W) /\ Len(s \o t) = Len(s) + Len(t)
      /\ \A n \in 1..(Len(s) + Len(t)) : (s \o t)[n] = IF n <= Len(s) THEN s[n] ELSE t[n - Len(s)]
  BY <1>3, ConcatProperties
<1>5. /\ Len(s) \in Nat /\ Len(t) \in Nat /\ DOMAIN s = 1..Len(s) /\ DOMAIN t = 1..Len(t)
      /\ DOMAIN (s \o t) = 1..(Len(s) + Len(t))
  BY <1>3, <1>4, LenProperties
<1>6. \A n \in DOMAIN (s \o t) : /\ n <= Len(s) => n \in DOMAIN s
                                 /\ n > Len(s) => n - Len(s) \in DOMAIN t
  BY <1>5
<1>7. \A n \in DOMAIN (s \o t) : Proper((s \o t)[n])
  BY <1>1, <1>2, <1>4, <1>5, <1>6
<1>8. s \o t = <<>> <=> s = <<>> /\ t = <<>>
  BY <1>3, <1>4, <1>5, EmptySeq
<1>9. s = <<>> => s \o t = t
  BY <1>3, ConcatEmptySeq
<1> QED
  BY <1>4, <1>5, <1>6, <1>7, <1>8, <1>9 DEF Planned

LEMMA PlannedOne ==
  ASSUME NEW w, Proper(w)
  PROVE  Planned(<<w>>) /\ <<w>> # <<>>
<1>1. <<w>> \in Seq({w}) /\ <<w>> # <<>>
  OBVIOUS
<1>2. \A n \in DOMAIN <<w>> : <<w>>[n] = w
  OBVIOUS
<1> QED
  BY <1>1, <1>2 DEF Planned

LEMMA PlannedNone == Planned(<<>>)
<1>1. <<>> \in Seq({}) /\ DOMAIN <<>> = {}
  OBVIOUS
<1> QED
  BY <1>1 DEF Planned

LEMMA WriteRows ==
  ASSUME NEW i, NEW fields
  PROVE  /\ DOMAIN Put(i, fields).rows = {i} /\ Put(i, fields).rows[i] = fields
         /\ DOMAIN Play(i).rows = {i} /\ Play(i).rows[i] = <<>>
         /\ DOMAIN Toggle(i).rows = {i} /\ Toggle(i).rows[i] = <<>>
         /\ FieldsOk(<<>>)
BY DEF Put, Play, Toggle, FieldsOk

\* The values of the fields that the entries of each service want.
LEMMA WantFields ==
  ASSUME call \in Calls
  PROVE  /\ \A i \in Requested : FieldsOk(Want(i))
         /\ \A n \in DOMAIN Entries : FieldsOk(Entries[n].want)
<1>1. DOMAIN Absent = {"status", "plays", "rating", "rest"} /\ Full \in Nat
  BY ShikimoriAssumption DEF Absent
<1>2. ASSUME NEW feature, NEW i, NEW w, \/ w \in AnnictWants(feature, i) \/ w \in PlexWants(feature)
                                        \/ w \in JellyfinWants(feature) \/ w \in EmbyWants
      PROVE  FieldsOk(w)
  BY <1>1, <1>2 DEF FieldsOk, Unsupported, AnnictWants, PlexWants, JellyfinWants, EmbyWants
<1>3. ASSUME NEW feature \in {"ratings", "watchlist", "watched"}, NEW i, NEW w,
             \/ w \in ShikimoriWants(feature) \/ w \in KodiWants(feature, i) \/ w \in SimklWants(feature)
      PROVE  FieldsOk(w)
  <2>1. CASE w \in ShikimoriWants(feature)
    BY <1>1, <2>1 DEF FieldsOk, Unsupported, ShikimoriWants
  <2>2. CASE w \in KodiWants(feature, i)
    BY <1>1, <2>2 DEF FieldsOk, Unsupported, KodiWants
  <2>3. CASE w \in SimklWants(feature)
    <3>1. \/ w = Unsupported \/ w = [rating |-> 1] \/ w = [rating |-> 2] \/ w = [status |-> 1]
          \/ w \in [status : {3}, at : {1, 2}] \/ w \in [rewatch : {TRUE}, at : {1, 2}]
      BY <2>3 DEF SimklWants
    <3>2. w \in [status : {3}, at : {1, 2}] => FieldsOk(w)
      BY <1>1 DEF FieldsOk
    <3>3. w \in [rewatch : {TRUE}, at : {1, 2}] => FieldsOk(w)
      BY <1>1 DEF FieldsOk
    <3>4. /\ FieldsOk(Unsupported) /\ FieldsOk([rating |-> 1]) /\ FieldsOk([rating |-> 2])
          /\ FieldsOk([status |-> 1])
      BY <1>1 DEF FieldsOk, Unsupported
    <3> QED
      BY <3>1, <3>2, <3>3, <3>4
  <2> QED
    BY <1>3, <2>1, <2>2, <2>3
<1>4. ASSUME NEW feature \in {"ratings", "watchlist", "watched"}, NEW i, NEW w \in BangumiWants(feature, i)
      PROVE  FieldsOk(w)
  BY <1>1 DEF FieldsOk, Unsupported, BangumiWants
<1>5. ASSUME NEW feature \in {"ratings", "watchlist", "watched", "reviews", "following"}, NEW service, NEW w,
             \/ w \in TraktWants(feature) \/ w \in ListWants(service, feature)
      PROVE  FieldsOk(w)
  <2>1. CASE w \in TraktWants(feature)
    BY <1>1, <2>1 DEF FieldsOk, Unsupported, TraktWants
  <2>2. CASE w \in ListWants(service, feature)
    BY <1>1, <2>2 DEF FieldsOk, Unsupported, ListWants
  <2> QED
    BY <1>5, <2>1, <2>2
<1>6. ASSUME NEW i, NEW w \in Wants(call.service, call.feature, i) PROVE FieldsOk(w)
  <2>2. call.service \in Services /\ call.feature \in Imports(call.service)
    BY CallsAssumption
  <2>3. call.service \notin {"annict", "plex", "jellyfin", "emby"} =>
          call.feature \in {"ratings", "watchlist", "watched", "reviews", "following"}
    BY <2>2 DEF Services, Imports, ListServices
  <2>4. call.service \in {"shikimori", "kodi", "simkl", "bangumi"} =>
          call.feature \in {"ratings", "watchlist", "watched"}
    BY <2>2 DEF Imports
  <2> DEFINE W == Wants(call.service, call.feature, i)
  <2>5. /\ call.service = "annict" => W = AnnictWants(call.feature, i)
        /\ call.service = "plex" => W = PlexWants(call.feature)
        /\ call.service = "jellyfin" => W = JellyfinWants(call.feature)
        /\ call.service = "emby" => W = EmbyWants
        /\ call.service = "shikimori" => W = ShikimoriWants(call.feature)
        /\ call.service = "kodi" => W = KodiWants(call.feature, i)
        /\ call.service = "simkl" => W = SimklWants(call.feature)
        /\ call.service = "bangumi" => W = BangumiWants(call.feature, i)
        /\ call.service = "trakt" => W = TraktWants(call.feature)
        /\ call.service \in ListServices => W = ListWants(call.service, call.feature)
    BY DEF Wants, ListServices
  <2> HIDE DEF W
  <2>6. w \in W
    BY DEF W
  <2>7. CASE call.service \in {"annict", "plex", "jellyfin", "emby"}
    BY <1>2, <2>5, <2>6, <2>7
  <2>8. CASE call.service \in {"shikimori", "kodi", "simkl"}
    BY <1>3, <2>4, <2>5, <2>6, <2>8
  <2>9. CASE call.service = "bangumi"
    BY <1>4, <2>4, <2>5, <2>6, <2>9
  <2>10. CASE call.service \in {"trakt"} \cup ListServices
    BY <1>5, <2>3, <2>5, <2>6, <2>10 DEF ListServices
  <2> QED
    BY <2>2, <2>7, <2>8, <2>9, <2>10 DEF Services
<1>7. \A i \in Requested : Want(i) \in Wants(call.service, call.feature, i)
  BY CallState
<1>8. \A n \in DOMAIN Entries : Entries[n].want \in Wants(call.service, call.feature, Entries[n].item)
  BY CallState
<1> QED
  BY <1>6, <1>7, <1>8

\* Two numbers in one: what is above a base, and what is below it.
LEMMA Digits ==
  ASSUME NEW top \in Nat, NEW p \in Nat, NEW q \in Nat, NEW x \in 1..top, NEW y \in 1..top,
         p * (top + 1) + x = q * (top + 1) + y
  PROVE  p = q /\ x = y
<1>1. ASSUME NEW c \in Nat, NEW d \in Nat, c < d PROVE c * (top + 1) + (top + 1) <= d * (top + 1)
  <2>1. PICK e \in Nat : d = c + 1 + e
    <3>1. d - c - 1 \in Nat /\ d = c + 1 + (d - c - 1)
      BY <1>1
    <3> QED
      BY <3>1
  <2>2. d * (top + 1) = c * (top + 1) + (top + 1) + e * (top + 1) /\ e * (top + 1) \in Nat
    BY <2>1
  <2> QED
    BY <2>2
<1>2. p * (top + 1) \in Nat /\ q * (top + 1) \in Nat
  OBVIOUS
<1>3. ~(p < q)
  BY <1>1, <1>2
<1>4. ~(q < p)
  BY <1>1, <1>2
<1>5. p = q
  BY <1>3, <1>4
<1> QED
  BY <1>2, <1>5

LEMMA PutsPlanned ==
  ASSUME call \in Calls, NEW S \in SUBSET Requested, NEW f, NEW s,
         s = [n \in DOMAIN InOrder(S) |-> Put(InOrder(S)[n], f[InOrder(S)[n]])],
         \A i \in S : FieldsOk(f[i])
  PROVE  /\ Planned(s) /\ DOMAIN s = DOMAIN InOrder(S) /\ (s = <<>> <=> S = {})
         /\ \A n \in DOMAIN s : s[n] = Put(InOrder(S)[n], f[InOrder(S)[n]]) /\ InOrder(S)[n] \in S
<1>1. \A n \in DOMAIN InOrder(S) : InOrder(S)[n] \in S
  BY InOrderIsAll, ElementOfSeq
<1>2. \A n \in DOMAIN InOrder(S) : s[n] = Put(InOrder(S)[n], f[InOrder(S)[n]])
  OBVIOUS
<1>3. \A n \in DOMAIN InOrder(S) : /\ DOMAIN s[n].rows = {InOrder(S)[n]}
                                   /\ FieldsOk(s[n].rows[InOrder(S)[n]])
  BY <1>1, <1>2, WriteRows
<1> QED
  BY <1>1, <1>2, <1>3, EachPlanned

\* The records that the episodes of a call are to get.
LEMMA RecordsFinite ==
  ASSUME call \in Calls, \A i \in Requested \cap Episode : Missing(i) \in Int /\ Missing(i) <= 2
  PROVE  IsFiniteSet(NewRecords) /\ Cardinality(NewRecords) \in Nat
<1>1. IsFiniteSet(Requested \X (1..2))
  <2> DEFINE two == 2
  <2>1. IsFiniteSet(1..2)
    <3>1. 1 \in Int /\ two \in Int
      OBVIOUS
    <3> HIDE DEF two
    <3>2. IsFiniteSet(1..two)
      BY <3>1, FS_Interval
    <3> QED
      BY <3>2 DEF two
  <2>2. IsFiniteSet(Requested)
    BY CallState
  <2> QED
    BY <2>1, <2>2, FS_Product
<1>2. NewRecords \in SUBSET (Requested \X (1..2))
  <2>1. ASSUME NEW i \in Requested \cap Episode, NEW r \in {i} \X (1..Missing(i))
        PROVE  r \in Requested \X (1..2)
    OBVIOUS
  <2> QED
    BY <2>1 DEF NewRecords
<1> QED
  BY <1>1, <1>2, FS_Subset, FS_CardinalityType

LEMMA RecordsOrdered ==
  ASSUME call \in Calls, Cardinality(NewRecords) <= MaxNewPlays,
         \A i \in Requested \cap Episode : Missing(i) \in Int /\ Missing(i) <= 2
  PROVE  /\ Sorted(NewRecords, RecordKey) \in Seq(NewRecords)
         /\ \A r \in NewRecords : /\ r[1] \in Requested \cap Episode
                                 /\ \E k \in DOMAIN Sorted(NewRecords, RecordKey) :
                                      Sorted(NewRecords, RecordKey)[k] = r
<1>1. IsFiniteSet(NewRecords) /\ Cardinality(NewRecords) \in Nat
  BY RecordsFinite
<1>2. ASSUME NEW r \in NewRecords
      PROVE  /\ r[1] \in Requested \cap Episode /\ r[2] \in 1..MaxNewPlays /\ r = <<r[1], r[2]>>
             /\ FirstEntry[r[1]] \in Nat /\ Entries[FirstEntry[r[1]]].item = r[1]
  <2>1. PICK i \in Requested \cap Episode : r \in {i} \X (1..Missing(i))
    BY DEF NewRecords
  <2>2. r[1] = i /\ r = <<r[1], r[2]>> /\ r[2] \in 1..Missing(i) /\ r[2] \in Nat
    BY <2>1
  <2>3. r[2] <= Cardinality(NewRecords)
    <3> DEFINE x == r[2]
               f == [n \in 1..x |-> <<i, n>>]
    <3>1. x \in Nat /\ x >= 1 /\ x \in Int /\ 1 \in Int /\ \A n \in 1..x : <<i, n>> \in NewRecords
      BY <2>1, <2>2 DEF NewRecords
    <3> HIDE DEF x
    <3>2. f \in Injection(1..x, NewRecords)
      BY <3>1 DEF Injection, IsInjective
    <3>3. Cardinality(1..x) = x
      BY <3>1, FS_Interval
    <3> HIDE DEF f
    <3>4. Cardinality(1..x) <= Cardinality(NewRecords)
      BY <1>1, <3>2, FS_Injection
    <3> QED
      BY <3>3, <3>4 DEF x
  <2>4. r[2] \in 1..MaxNewPlays
    BY <1>1, <2>2, <2>3, AnnictAssumption
  <2>5. FirstEntry[i] \in Nat /\ Entries[FirstEntry[i]].item = i
    BY CallState, FirstEntries
  <2> QED
    BY <2>1, <2>2, <2>4, <2>5
<1>3. \A r \in NewRecords : RecordKey[r] = FirstEntry[r[1]] * (MaxNewPlays + 1) + r[2]
  BY DEF RecordKey
<1>4. ASSUME NEW r \in NewRecords PROVE RecordKey[r] \in Nat
  <2>1. FirstEntry[r[1]] \in Nat /\ r[2] \in Nat /\ MaxNewPlays \in Nat
    BY <1>2, AnnictAssumption
  <2>2. FirstEntry[r[1]] * (MaxNewPlays + 1) \in Nat
    BY <2>1
  <2> QED
    BY <1>3, <2>1, <2>2
<1>5. ASSUME NEW r \in NewRecords, NEW t \in NewRecords, RecordKey[r] = RecordKey[t] PROVE r = t
  <2> DEFINE p == FirstEntry[r[1]]
             q == FirstEntry[t[1]]
             x == r[2]
             y == t[2]
  <2>1. p * (MaxNewPlays + 1) + x = q * (MaxNewPlays + 1) + y
    BY <1>3, <1>5
  <2>2. MaxNewPlays \in Nat /\ p \in Nat /\ q \in Nat /\ x \in 1..MaxNewPlays /\ y \in 1..MaxNewPlays
    BY <1>2, AnnictAssumption
  <2>3. p = q => r[1] = t[1]
    BY <1>2
  <2>4. r = <<r[1], x>> /\ t = <<t[1], y>>
    BY <1>2
  <2> HIDE DEF p, q, x, y
  <2>5. p = q /\ x = y
    BY <2>1, <2>2, Digits
  <2> QED
    BY <2>3, <2>4, <2>5
<1>6. /\ Sorted(NewRecords, RecordKey) \in Seq(NewRecords)
      /\ \A r \in NewRecords : \E k \in DOMAIN Sorted(NewRecords, RecordKey) :
           Sorted(NewRecords, RecordKey)[k] = r
  <2>1. /\ \A r \in NewRecords : RecordKey[r] \in Nat
        /\ \A r, t \in NewRecords : RecordKey[r] = RecordKey[t] => r = t
    BY <1>4, <1>5
  <2> QED
    BY <1>1, <2>1, SortedIsAll
<1> QED
  BY <1>2, <1>6

\* Plays of some requested items.
LEMMA PlaysPlanned ==
  ASSUME NEW R, NEW new \in Seq(R), \A r \in R : r[1] \in Requested,
         NEW plays, plays = [n \in DOMAIN new |-> Play(new[n][1])]
  PROVE  /\ Planned(plays) /\ DOMAIN plays = DOMAIN new
         /\ \A n \in DOMAIN new : plays[n] = Play(new[n][1]) /\ new[n] \in R
<1> DEFINE W == {Play(i) : i \in Requested}
<1>1. Len(new) \in Nat /\ DOMAIN new = 1..Len(new) /\ \A n \in DOMAIN new : new[n] \in R
  BY LenProperties, ElementOfSeq
<1>2. DOMAIN plays = DOMAIN new /\ \A n \in DOMAIN new : plays[n] = Play(new[n][1]) /\ new[n][1] \in Requested
  BY <1>1
<1>3. plays \in Seq(W)
  <2>1. \A n \in 1..Len(new) : Play(new[n][1]) \in W
    BY <1>1, <1>2
  <2>2. plays = [n \in 1..Len(new) |-> Play(new[n][1])]
    BY <1>1
  <2> HIDE DEF W
  <2>3. plays \in [1..Len(new) -> W]
    BY <2>1, <2>2
  <2> QED
    BY <1>1, <2>3, SeqDef
<1>4. \A n \in DOMAIN plays : Proper(plays[n])
  <2>1. ASSUME NEW i \in Requested PROVE Proper(Play(i))
    <3>1. DOMAIN Play(i).rows = {i} /\ Play(i).rows[i] = <<>>
      BY WriteRows
    <3>2. DOMAIN <<>> = {}
      OBVIOUS
    <3> QED
      BY <3>1, <3>2 DEF Proper
  <2> QED
    BY <1>2, <2>1
<1> QED
  BY <1>1, <1>2, <1>3, <1>4 DEF Planned

\* What AnnictWatched plans: statuses of works first, then records of episodes.
LEMMA AnnictWatchedPlanned ==
  ASSUME Flow, AnnictWatched, ~Fail
  PROVE  /\ Planned(NewStatuses) /\ Planned(NewPlays)
         /\ \A n \in DOMAIN NewStatuses : \E i \in Requested \ Episode :
              NewStatuses[n] = Put(i, [status |-> Want(i).status])
         /\ \A i \in Requested \ Episode : account[i].status # Want(i).status =>
              \E n \in DOMAIN NewStatuses : NewStatuses[n] = Put(i, [status |-> Want(i).status])
         /\ \A n \in DOMAIN NewPlays : \E i \in Requested \cap Episode : NewPlays[n] = Play(i)
         /\ \A i \in Requested \cap Episode : Missing(i) # 0 => \E n \in DOMAIN NewPlays : NewPlays[n] = Play(i)
         /\ Plan(NewStatuses \o NewPlays,
                 IF NewStatuses # <<>> THEN "checking"
                 ELSE IF NewPlays # <<>> THEN "rechecking" ELSE "sending")
<1>1. call \in Calls /\ ~AnyUnsupported /\ call.service = "annict" /\ call.feature = "watched"
  BY DEF Flow, AnnictWatched, Doing
<1>2. ASSUME NEW i \in Requested PROVE Want(i) \in AnnictWants("watched", i) /\ Want(i) # Unsupported
  <2>1. Wants(call.service, call.feature, i) = AnnictWants("watched", i)
    BY <1>1 DEF Wants, ListServices
  <2>2. Want(i) \in Wants(call.service, call.feature, i) /\ Want(i) # Unsupported
    BY <1>1, CallState
  <2> QED
    BY <2>1, <2>2
<1>3. /\ ~(Cardinality(NewRecords) > MaxNewPlays)
      /\ Plan(NewStatuses \o NewPlays,
              IF NewStatuses # <<>> THEN "checking"
              ELSE IF NewPlays # <<>> THEN "rechecking" ELSE "sending")
  BY DEF AnnictWatched
<1>4. ASSUME NEW i \in Requested \cap Episode PROVE Missing(i) \in Int /\ Missing(i) <= 2
  <2>1. account[i].plays \in Nat
    <3>1. account[i] \in RowSet
      BY CallState, <1>1 DEF Flow
    <3> QED
      BY <3>1 DEF RowSet
  <2>2. Want(i) = [atLeast |-> 1] \/ Want(i) = [plays |-> 1] \/ Want(i) = [plays |-> 2]
    BY <1>2 DEF AnnictWants
  <2>3. Plays(i, account[i].plays) \in {1, 2, account[i].plays}
    BY <2>2 DEF Plays
  <2> QED
    BY <2>1, <2>3 DEF Missing
<1>5. /\ Planned(NewStatuses)
      /\ \A n \in DOMAIN NewStatuses : \E i \in Requested \ Episode :
           NewStatuses[n] = Put(i, [status |-> Want(i).status])
      /\ \A i \in Requested \ Episode : account[i].status # Want(i).status =>
           \E n \in DOMAIN NewStatuses : NewStatuses[n] = Put(i, [status |-> Want(i).status])
  <2> DEFINE works == {i \in Requested \ Episode : account[i].status # Want(i).status}
             f == [i \in works |-> [status |-> Want(i).status]]
  <2>1. works \in SUBSET Requested
    OBVIOUS
  <2>2. \A n \in DOMAIN InOrder(works) : InOrder(works)[n] \in works
    <3> HIDE DEF works
    <3> QED
      BY <1>1, <2>1, InOrderIsAll, ElementOfSeq
  <2>3. NewStatuses = [n \in DOMAIN InOrder(works) |-> Put(InOrder(works)[n], f[InOrder(works)[n]])]
    BY <2>2 DEF NewStatuses, Each
  <2>4. \A i \in works : FieldsOk(f[i]) /\ f[i] = [status |-> Want(i).status] /\ i \in Requested \ Episode
    <3> SUFFICES ASSUME NEW i \in works PROVE FieldsOk([status |-> Want(i).status])
      OBVIOUS
    <3>1. Want(i) = [status |-> 2] \/ Want(i) = [status |-> 3]
      BY <1>2 DEF AnnictWants
    <3>2. Want(i).status \in Nat
      BY <3>1
    <3> QED
      BY <3>2 DEF FieldsOk
  <2>5. \A i \in Requested \ Episode : account[i].status # Want(i).status => i \in works
    OBVIOUS
  <2> HIDE DEF works, f
  <2>6. Planned(NewStatuses) /\ DOMAIN NewStatuses = DOMAIN InOrder(works)
    <3>1. call \in Calls /\ \A i \in works : FieldsOk(f[i])
      BY <1>1, <2>4
    <3> QED
      BY ONLY <2>1, <2>3, <3>1, PutsPlanned
  <2>7. ASSUME NEW i \in works
        PROVE  \E n \in DOMAIN NewStatuses : NewStatuses[n] = Put(i, [status |-> Want(i).status])
    <3>1. PICK n \in DOMAIN InOrder(works) : InOrder(works)[n] = i
      BY <1>1, <2>1, InOrderIsAll
    <3>2. NewStatuses[n] = Put(i, f[i])
      BY <2>3, <3>1
    <3> QED
      BY <2>4, <2>6, <3>1, <3>2
  <2>8. \A n \in DOMAIN NewStatuses : NewStatuses[n] = Put(InOrder(works)[n], f[InOrder(works)[n]])
    BY <2>3, <2>6
  <2> QED
    BY <2>2, <2>4, <2>5, <2>6, <2>7, <2>8
<1>6. /\ Planned(NewPlays) /\ \A n \in DOMAIN NewPlays : \E i \in Requested \cap Episode : NewPlays[n] = Play(i)
      /\ \A i \in Requested \cap Episode : Missing(i) # 0 => \E n \in DOMAIN NewPlays : NewPlays[n] = Play(i)
  <2> DEFINE new == Sorted(NewRecords, RecordKey)
  <2>1. Cardinality(NewRecords) <= MaxNewPlays
    <3>1. Cardinality(NewRecords) \in Nat /\ MaxNewPlays \in Nat
      BY <1>1, <1>4, RecordsFinite, AnnictAssumption
    <3> QED
      BY <1>3, <3>1
  <2>2. /\ new \in Seq(NewRecords)
        /\ \A r \in NewRecords : r[1] \in Requested \cap Episode /\ \E k \in DOMAIN new : new[k] = r
    BY <1>1, <1>4, <2>1, RecordsOrdered
  <2>3. NewPlays = [n \in DOMAIN new |-> Play(new[n][1])]
    BY DEF NewPlays
  <2>4. ASSUME NEW i \in Requested \cap Episode, Missing(i) # 0 PROVE <<i, 1>> \in NewRecords
    <3>1. Missing(i) \in Int /\ ~(Missing(i) < 0)
      BY <1>4 DEF AnnictWatched
    <3>2. 1 \in 1..Missing(i)
      BY <2>4, <3>1
    <3> QED
      BY <3>2 DEF NewRecords
  <2> HIDE DEF new
  <2>5. /\ Planned(NewPlays) /\ DOMAIN NewPlays = DOMAIN new
        /\ \A n \in DOMAIN new : NewPlays[n] = Play(new[n][1]) /\ new[n] \in NewRecords
    BY <2>2, <2>3, PlaysPlanned
  <2>6. ASSUME NEW i \in Requested \cap Episode, Missing(i) # 0
        PROVE  \E n \in DOMAIN NewPlays : NewPlays[n] = Play(i)
    <3>1. PICK n \in DOMAIN new : new[n] = <<i, 1>>
      BY <2>2, <2>4, <2>6
    <3> QED
      BY <2>5, <3>1
  <2> QED
    BY <2>2, <2>5, <2>6
<1> QED
  BY <1>3, <1>5, <1>6

\* The importers that put one status for all.
LEMMA StatusPlanned ==
  ASSUME call \in Calls, NEW S \in SUBSET Requested, NEW v \in Nat, NEW s,
         s = [n \in DOMAIN InOrder(S) |-> Put(InOrder(S)[n], [status |-> v])]
  PROVE  /\ Planned(s) /\ DOMAIN s = DOMAIN InOrder(S) /\ (s = <<>> <=> S = {})
         /\ \A n \in DOMAIN s : s[n] = Put(InOrder(S)[n], [status |-> v]) /\ InOrder(S)[n] \in S
<1> DEFINE f == [i \in S |-> [status |-> v]]
<1>1. \A n \in DOMAIN InOrder(S) : InOrder(S)[n] \in S
  BY InOrderIsAll, ElementOfSeq
<1>2. s = [n \in DOMAIN InOrder(S) |-> Put(InOrder(S)[n], f[InOrder(S)[n]])]
  BY <1>1
<1>3. \A i \in S : FieldsOk(f[i]) /\ f[i] = [status |-> v]
  BY DEF FieldsOk
<1> HIDE DEF f
<1>4. /\ Planned(s) /\ DOMAIN s = DOMAIN InOrder(S) /\ (s = <<>> <=> S = {})
      /\ \A n \in DOMAIN s : s[n] = Put(InOrder(S)[n], f[InOrder(S)[n]]) /\ InOrder(S)[n] \in S
  BY <1>2, <1>3, PutsPlanned
<1>5. \A n \in DOMAIN s : f[InOrder(S)[n]] = [status |-> v]
  BY <1>3, <1>4
<1> QED
  BY <1>4, <1>5

LEMMA AnnictSteps ==
  ASSUME Flow, AnnictNext
  PROVE  Flow' /\ Means
<1>1. call \in Calls /\ \A i \in Requested : FieldsOk(Want(i))
  BY WantFields DEF Flow
<1>2. CASE AnnictValidate
  BY <1>2, EndsFailed, Going DEF AnnictValidate, AnnictRefuses, Acting, Writing, HasNext
<1>3. CASE AnnictResolve
  BY <1>3, Going DEF AnnictResolve, Acting, Writing, HasNext
<1>4. CASE AnnictWatchlist
  <2> DEFINE S == {i \in Requested : account[i].status = 0}
             writes == Each(LAMBDA i : Put(i, [status |-> 1]), S)
  <2>1. pc = "reading" /\ Acting
    BY <1>4 DEF AnnictWatchlist, Doing, Acting
  <2>2. Fail \/ Plan(writes, IF writes = <<>> THEN "sending" ELSE "checking")
    BY <1>4 DEF AnnictWatchlist
  <2>3. S \in SUBSET Requested
    OBVIOUS
  <2> HIDE DEF S
  <2>4. Planned(writes)
    <3>1. writes = [n \in DOMAIN InOrder(S) |-> Put(InOrder(S)[n], [status |-> 1])]
      BY DEF Each
    <3> QED
      BY <1>1, <2>3, <3>1, StatusPlanned
  <2> HIDE DEF writes
  <2> QED
    BY <2>1, <2>2, <2>4, EndsFailed, Planning
<1>5. CASE AnnictWatched
  <2>1. pc = "reading" /\ Acting
    BY <1>5 DEF AnnictWatched, Doing, Acting
  <2>2. CASE Fail
    BY <2>1, <2>2, EndsFailed
  <2>3. CASE ~Fail
    <3>1. /\ Planned(NewStatuses) /\ Planned(NewPlays)
          /\ Plan(NewStatuses \o NewPlays,
                  IF NewStatuses # <<>> THEN "checking"
                  ELSE IF NewPlays # <<>> THEN "rechecking" ELSE "sending")
      BY <1>5, <2>3, AnnictWatchedPlanned
    <3>2. /\ Planned(NewStatuses \o NewPlays)
          /\ NewStatuses \o NewPlays = <<>> <=> NewStatuses = <<>> /\ NewPlays = <<>>
      BY <3>1, PlannedBoth
    <3> QED
      BY <2>1, <3>1, <3>2, Planning
  <2> QED
    BY <2>2, <2>3
<1>6. CASE AnnictCheck
  <2>1. Acting /\ pc \in Writing /\ pc # "done" /\ todo # <<>>
    BY <1>6 DEF AnnictCheck, Acting, Flow, Writing, HasNext
  <2>2. Fail \/ \E items : Look(items, "sending")
    BY <1>6 DEF AnnictCheck
  <2> QED
    BY <2>1, <2>2, EndsFailed, Looking
<1>7. CASE AnnictRecheck
  <2>1. Acting /\ pc \in Writing /\ pc # "done" /\ todo # <<>>
    BY <1>7 DEF AnnictRecheck, Acting, Flow, Writing, HasNext
  <2>2. Fail \/ \E items : Look(items, "sending")
    BY <1>7 DEF AnnictRecheck
  <2> QED
    BY <2>1, <2>2, EndsFailed, Looking
<1>8. CASE AnnictVerify
  <2>1. pc = "verifying" /\ Acting /\ pc \in Writing /\ todo # <<>>
    BY <1>8 DEF AnnictVerify, Acting, Flow, Writing, HasNext
  <2>2. Fail \/ \E items : \E next \in {"sending", "checking", "rechecking"} :
                \E last \in {"done", "final"} : Advance(items, next, last)
    BY <1>8 DEF AnnictVerify
  <2> QED
    BY <2>1, <2>2, EndsFailed, Advancing
<1>9. CASE AnnictFinal
  BY <1>9, EndsFailed, Succeeding DEF AnnictFinal, Acting
<1> QED
  BY <1>2, <1>3, <1>4, <1>5, <1>6, <1>7, <1>8, <1>9 DEF AnnictNext

\* The importers that put what the entries want.
LEMMA WantsPlanned ==
  ASSUME call \in Calls, NEW S \in SUBSET Requested, NEW s,
         s = [n \in DOMAIN InOrder(S) |-> Put(InOrder(S)[n], Want(InOrder(S)[n]))]
  PROVE  /\ Planned(s) /\ DOMAIN s = DOMAIN InOrder(S) /\ (s = <<>> <=> S = {})
         /\ \A n \in DOMAIN s : s[n] = Put(InOrder(S)[n], Want(InOrder(S)[n])) /\ InOrder(S)[n] \in S
<1> DEFINE f == [i \in S |-> Want(i)]
<1>1. \A n \in DOMAIN InOrder(S) : InOrder(S)[n] \in S
  BY InOrderIsAll, ElementOfSeq
<1>2. s = [n \in DOMAIN InOrder(S) |-> Put(InOrder(S)[n], f[InOrder(S)[n]])]
  BY <1>1
<1>3. \A i \in S : FieldsOk(f[i]) /\ f[i] = Want(i)
  BY WantFields
<1> HIDE DEF f
<1>4. /\ Planned(s) /\ DOMAIN s = DOMAIN InOrder(S) /\ (s = <<>> <=> S = {})
      /\ \A n \in DOMAIN s : s[n] = Put(InOrder(S)[n], f[InOrder(S)[n]]) /\ InOrder(S)[n] \in S
  BY <1>2, <1>3, PutsPlanned
<1>5. \A n \in DOMAIN s : f[InOrder(S)[n]] = Want(InOrder(S)[n])
  BY <1>3, <1>4
<1> QED
  BY <1>4, <1>5

LEMMA ShikimoriSteps ==
  ASSUME Flow, ShikimoriNext
  PROVE  Flow' /\ Means
<1>1. call \in Calls
  BY DEF Flow
<1>2. CASE ShikimoriValidate
  BY <1>2, EndsFailed, Going DEF ShikimoriValidate, ShikimoriRefuses, Acting, Writing, HasNext
<1>3. CASE ShikimoriPlan
  <2> DEFINE open == {i \in Requested : ~Holds(account[i], Want(i))}
             writes == Each(LAMBDA i : Put(i, Want(i)), open)
  <2>1. pc = "reading" /\ Acting
    BY <1>3 DEF ShikimoriPlan, Acting
  <2>2. Fail \/ Plan(writes, IF writes = <<>> THEN "sending" ELSE "checking")
    BY <1>3 DEF ShikimoriPlan
  <2>3. open \in SUBSET Requested
    OBVIOUS
  <2> HIDE DEF open
  <2>4. Planned(writes)
    <3>1. writes = [n \in DOMAIN InOrder(open) |-> Put(InOrder(open)[n], Want(InOrder(open)[n]))]
      BY DEF Each
    <3> QED
      BY <1>1, <2>3, <3>1, WantsPlanned
  <2> HIDE DEF writes
  <2> QED
    BY <2>1, <2>2, <2>4, EndsFailed, Planning
<1>4. CASE ShikimoriCheck
  <2>1. Acting /\ pc \in Writing /\ pc # "done" /\ todo # <<>>
    BY <1>4 DEF ShikimoriCheck, Acting, Flow, Writing, HasNext
  <2>2. Fail \/ \E items : Look(items, "sending")
    BY <1>4 DEF ShikimoriCheck
  <2> QED
    BY <2>1, <2>2, EndsFailed, Looking
<1>5. CASE ShikimoriVerify
  <2>1. Acting /\ pc \in Writing /\ pc # "done" /\ todo # <<>>
    BY <1>5 DEF ShikimoriVerify, Acting, Flow, Writing, HasNext
  <2>2. Fail \/ \E items : Advance(items, "checking", "done")
    BY <1>5 DEF ShikimoriVerify
  <2> QED
    BY <2>1, <2>2, EndsFailed, Advancing
<1> QED
  BY <1>2, <1>3, <1>4, <1>5 DEF ShikimoriNext

LEMMA PlexSteps ==
  ASSUME Flow, PlexNext
  PROVE  Flow' /\ Means
<1>1. call \in Calls
  BY DEF Flow
<1>2. CASE PlexValidate
  BY <1>2, EndsFailed, Going DEF PlexValidate, Acting, Writing, HasNext
<1>3. CASE PlexPlan
  <2> DEFINE open == {i \in Requested : ~Holds(account[i], Want(i))}
             write(i) == IF call.feature = "ratings" THEN Put(i, Want(i)) ELSE Play(i)
             writes == Each(write, open)
  <2>1. pc = "reading" /\ Acting /\ call.service = "plex"
    BY <1>3 DEF PlexPlan, Acting
  <2>2. Fail \/ Plan(writes, "rechecking")
    BY <1>3 DEF PlexPlan
  <2>3. open \in SUBSET Requested
    OBVIOUS
  <2> HIDE DEF open
  <2>4. Planned(writes)
    <3>1. \A n \in DOMAIN InOrder(open) : InOrder(open)[n] \in open
      BY <1>1, <2>3, InOrderIsAll, ElementOfSeq
    <3>2. writes = [n \in DOMAIN InOrder(open) |-> write(InOrder(open)[n])]
      BY DEF Each
    <3>3. \A n \in DOMAIN InOrder(open) : writes[n] = write(InOrder(open)[n])
      BY <3>2
    <3>4. ASSUME NEW i \in open PROVE DOMAIN write(i).rows = {i} /\ FieldsOk(write(i).rows[i])
      <4>1. CASE call.feature = "ratings"
        <5>1. write(i) = Put(i, Want(i)) /\ FieldsOk(Want(i))
          BY <1>1, <2>3, <4>1, WantFields
        <5> QED
          BY <5>1, WriteRows
      <4>2. CASE call.feature # "ratings"
        <5>1. write(i) = Play(i)
          BY <4>2
        <5> QED
          BY <5>1, WriteRows
      <4> QED
        BY <4>1, <4>2
    <3>5. writes = [n \in DOMAIN InOrder(open) |-> writes[n]]
      BY <3>2
    <3> HIDE DEF writes, write
    <3>6. \A n \in DOMAIN InOrder(open) : /\ DOMAIN writes[n].rows = {InOrder(open)[n]}
                                          /\ FieldsOk(writes[n].rows[InOrder(open)[n]])
      BY <3>1, <3>3, <3>4
    <3> QED
      BY <1>1, <2>3, <3>5, <3>6, EachPlanned
  <2> HIDE DEF writes
  <2> QED
    BY <2>1, <2>2, <2>4, EndsFailed, Planning DEF HasNext
<1>4. CASE PlexRecheck
  <2>1. Acting /\ pc \in Writing /\ pc # "done"
    BY <1>4 DEF PlexRecheck, Acting, Writing
  <2>2. Fail \/ Succeed(Requested) \/ (todo # <<>> /\ Look(Requested, "sending"))
    BY <1>4 DEF PlexRecheck
  <2> QED
    BY <2>1, <2>2, EndsFailed, Succeeding, Looking
<1>5. CASE PlexVerify
  <2>1. Acting /\ pc \in Writing /\ pc # "done" /\ todo # <<>>
    BY <1>5 DEF PlexVerify, Acting, Flow, Writing, HasNext
  <2>2. Fail \/ \E items : Advance(items, "sending", "done")
    BY <1>5 DEF PlexVerify
  <2> QED
    BY <2>1, <2>2, EndsFailed, Advancing
<1> QED
  BY <1>2, <1>3, <1>4, <1>5 DEF PlexNext

\* The next write after an answer that was looked at, or not looked at.
LEMMA Written ==
  ASSUME Flow, Answered, Fail \/ \E items : \E last \in {"done", "final"} : Advance(items, "sending", last)
  PROVE  Flow' /\ Means
<1>1. Acting /\ pc \in Writing /\ pc # "done" /\ todo # <<>>
  BY DEF Answered, Acting, Flow, Writing, HasNext
<1> QED
  BY <1>1, EndsFailed, Advancing

\* The statuses, or the episodes, of some titles.
LEMMA BangumiParts ==
  ASSUME Flow, BangumiWatched, NEW S \in SUBSET Titles
  PROVE  Planned(Each(writeCollection, S)) /\ Planned(Each(writeEpisodes, S))
<1>1. /\ call \in Calls /\ ~AnyUnsupported /\ call.service = "bangumi" /\ call.feature = "watched"
      /\ Titles \in SUBSET Requested
  BY DEF Flow, BangumiWatched, Doing, Titles
<1>2. ASSUME NEW t \in Titles PROVE Want(t).status \in Nat
  <2>1. Wants(call.service, call.feature, t) = BangumiWants("watched", t)
    BY <1>1 DEF Wants, ListServices
  <2>2. Want(t) \in Wants(call.service, call.feature, t) /\ Want(t) # Unsupported
    BY <1>1, CallState
  <2>3. t \notin Episode
    BY DEF Titles
  <2>4. Want(t) \in [status : {2, 3}] \/ Want(t) \in [status : {2, 3}, progress : {0, 1}]
    BY <2>1, <2>2, <2>3 DEF BangumiWants
  <2> QED
    BY <2>4
<1>3. Planned(Each(writeCollection, S))
  <2> DEFINE f == [t \in S |-> [status |-> Want(t).status]]
             s == Each(writeCollection, S)
  <2>1. \A n \in DOMAIN InOrder(S) : InOrder(S)[n] \in S
    BY <1>1, InOrderIsAll, ElementOfSeq
  <2>2. s = [n \in DOMAIN InOrder(S) |-> Put(InOrder(S)[n], f[InOrder(S)[n]])]
    BY <2>1 DEF Each, writeCollection
  <2>3. \A t \in S : FieldsOk(f[t])
    BY <1>2 DEF FieldsOk
  <2> HIDE DEF f, s
  <2>4. Planned(s)
    BY <1>1, <2>2, <2>3, PutsPlanned
  <2> QED
    BY <2>4 DEF s
<1>4. Planned(Each(writeEpisodes, S))
  <2> DEFINE s == Each(writeEpisodes, S)
             order == InOrder(S)
  <2>1. /\ \A n \in DOMAIN order : order[n] \in S
        /\ Len(order) \in Nat /\ DOMAIN order = 1..Len(order)
    BY <1>1, InOrderIsAll, ElementOfSeq
  <2>2. s = [n \in DOMAIN order |-> writeEpisodes(order[n])]
    BY DEF Each
  <2>3. ASSUME NEW t PROVE Proper(writeEpisodes(t))
    BY DEF Proper, writeEpisodes, doneIds
  <2> DEFINE W == {writeEpisodes(t) : t \in S}
  <2> HIDE DEF s, order
  <2>4. s \in [1..Len(order) -> W]
    BY <2>1, <2>2
  <2>5. s \in Seq(W) /\ DOMAIN s = DOMAIN order
    <3> HIDE DEF W
    <3>1. s \in Seq(W)
      BY <2>1, <2>4, SeqDef
    <3> QED
      BY <2>2, <3>1
  <2>6. \A n \in DOMAIN s : Proper(s[n])
    BY <2>2, <2>3, <2>5
  <2>7. Planned(s)
    BY <2>5, <2>6 DEF Planned
  <2> QED
    BY <2>7 DEF s
<1> QED
  BY <1>3, <1>4

\* The statuses, the episodes and the statuses again.
LEMMA BangumiPlanned ==
  ASSUME Flow, BangumiWatched
  PROVE  Planned(BangumiWrites)
<1> DEFINE withEpisodes == {t \in Titles : doneIds(t) # {}}
<1>1. withEpisodes \in SUBSET Titles
  OBVIOUS
<1>2. BangumiWrites = Each(writeCollection, Titles) \o Each(writeEpisodes, withEpisodes)
                        \o Each(writeCollection, withEpisodes)
  BY DEF BangumiWrites
<1> HIDE DEF withEpisodes
<1> QED
  BY <1>1, <1>2, BangumiParts, PlannedBoth

LEMMA BangumiSteps ==
  ASSUME Flow, BangumiNext
  PROVE  Flow' /\ Means
<1>1. call \in Calls
  BY DEF Flow
<1>2. CASE BangumiValidate
  BY <1>2, EndsFailed, Going DEF BangumiValidate, BangumiRefuses, Acting, Writing, HasNext
<1>3. CASE BangumiRatings
  <2> DEFINE writes == Each(LAMBDA t : Put(t, Want(t)), Titles)
  <2>1. pc = "reading" /\ Acting
    BY <1>3 DEF BangumiRatings, Doing, Acting
  <2>2. Fail \/ Plan(writes, "sending")
    BY <1>3 DEF BangumiRatings
  <2>3. Titles \in SUBSET Requested
    BY DEF Titles
  <2>4. Planned(writes)
    <3>1. writes = [n \in DOMAIN InOrder(Titles) |-> Put(InOrder(Titles)[n], Want(InOrder(Titles)[n]))]
      BY DEF Each
    <3> QED
      BY <1>1, <2>3, <3>1, WantsPlanned
  <2> HIDE DEF writes
  <2> QED
    BY <2>1, <2>2, <2>4, EndsFailed, Planning
<1>4. CASE BangumiWatchlist
  <2> DEFINE S == {t \in Titles : account[t].status = 0}
             writes == Each(LAMBDA t : Put(t, [status |-> 1]), S)
  <2>1. pc = "reading" /\ Acting
    BY <1>4 DEF BangumiWatchlist, Doing, Acting
  <2>2. Fail \/ Plan(writes, "sending")
    BY <1>4 DEF BangumiWatchlist
  <2>3. S \in SUBSET Requested
    BY DEF Titles
  <2> HIDE DEF S
  <2>4. Planned(writes)
    <3>1. writes = [n \in DOMAIN InOrder(S) |-> Put(InOrder(S)[n], [status |-> 1])]
      BY DEF Each
    <3> QED
      BY <1>1, <2>3, <3>1, StatusPlanned
  <2> HIDE DEF writes
  <2> QED
    BY <2>1, <2>2, <2>4, EndsFailed, Planning
<1>5. CASE BangumiWatched
  <2>1. pc = "reading" /\ Acting
    BY <1>5 DEF BangumiWatched, Doing, Acting
  <2>2. Fail \/ Plan(BangumiWrites, "sending")
    BY <1>5 DEF BangumiWatched
  <2>3. Planned(BangumiWrites)
    BY <1>5, BangumiPlanned
  <2> QED
    BY <2>1, <2>2, <2>3, EndsFailed, Planning
<1>6. CASE BangumiWritten
  BY <1>6, Written DEF BangumiWritten
<1> QED
  BY <1>2, <1>3, <1>4, <1>5, <1>6 DEF BangumiNext

LEMMA KodiSteps ==
  ASSUME Flow, KodiNext
  PROVE  Flow' /\ Means
<1>1. call \in Calls
  BY DEF Flow
<1> DEFINE open == {i \in Requested : ~Holds(account[i], Want(i))}
<1>2. open \in SUBSET Requested
  OBVIOUS
<1>3. CASE KodiValidate
  BY <1>3, EndsFailed, Going DEF KodiValidate, KodiRefuses, Acting, Writing, HasNext
<1>4. CASE KodiRatings
  <2> DEFINE writes == Each(LAMBDA i : Put(i, Want(i)), open)
  <2>1. pc = "reading" /\ Acting
    BY <1>4 DEF KodiRatings, Doing, Acting
  <2>2. Fail \/ Plan(writes, "sending")
    BY <1>4 DEF KodiRatings
  <2> HIDE DEF open
  <2>3. Planned(writes)
    <3>1. writes = [n \in DOMAIN InOrder(open) |-> Put(InOrder(open)[n], Want(InOrder(open)[n]))]
      BY DEF Each
    <3> QED
      BY <1>1, <1>2, <3>1, WantsPlanned
  <2> HIDE DEF writes
  <2> QED
    BY <2>1, <2>2, <2>3, EndsFailed, Planning
<1>5. CASE KodiWatched
  <2> DEFINE playCount(i) == IF "atLeast" \in DOMAIN Want(i) THEN 1 ELSE Want(i).plays
             writes == Each(LAMBDA i : Put(i, [plays |-> playCount(i)]), open)
             f == [i \in open |-> [plays |-> playCount(i)]]
  <2>1. pc = "reading" /\ Acting /\ call.service = "kodi" /\ call.feature = "watched" /\ ~AnyUnsupported
    BY <1>5 DEF KodiWatched, Doing, Acting, Flow
  <2>2. Fail \/ Plan(writes, "sending")
    BY <1>5 DEF KodiWatched
  <2>3. ASSUME NEW i \in Requested PROVE playCount(i) \in Nat
    <3>1. Wants(call.service, call.feature, i) = KodiWants("watched", i)
      BY <2>1 DEF Wants, ListServices
    <3>2. Want(i) \in Wants(call.service, call.feature, i) /\ Want(i) # Unsupported
      BY <1>1, <2>1, CallState
    <3>3. Want(i) = [atLeast |-> 1] \/ Want(i) = [plays |-> 1] \/ Want(i) = [plays |-> 2]
      BY <3>1, <3>2 DEF KodiWants
    <3> QED
      BY <3>3
  <2> HIDE DEF open
  <2>4. \A n \in DOMAIN InOrder(open) : InOrder(open)[n] \in open
    BY <1>1, <1>2, InOrderIsAll, ElementOfSeq
  <2>5. writes = [n \in DOMAIN InOrder(open) |-> Put(InOrder(open)[n], f[InOrder(open)[n]])]
    BY <2>4 DEF Each
  <2>6. \A i \in open : FieldsOk(f[i])
    <3> HIDE DEF playCount
    <3> QED
      BY <1>2, <2>3 DEF FieldsOk
  <2> HIDE DEF f, writes, playCount
  <2>7. Planned(writes)
    BY <1>1, <1>2, <2>5, <2>6, PutsPlanned
  <2> QED
    BY <2>1, <2>2, <2>7, EndsFailed, Planning
<1>6. CASE KodiWatchlist
  <2> DEFINE S == {i \in Requested : account[i].status = 0}
             writes == Each(LAMBDA i : Put(i, [status |-> 1, rest |-> account[i].rest]), S)
             f == [i \in S |-> [status |-> 1, rest |-> account[i].rest]]
  <2>1. pc = "reading" /\ Acting
    BY <1>6 DEF KodiWatchlist, Doing, Acting
  <2>2. Plan(writes, "sending")
    BY <1>6 DEF KodiWatchlist
  <2>3. ASSUME NEW i \in Requested PROVE account[i].rest \in Nat
    <3>1. account[i] \in RowSet
      BY <1>1, CallState DEF Flow
    <3> QED
      BY <3>1 DEF RowSet
  <2>4. S \in SUBSET Requested
    OBVIOUS
  <2> HIDE DEF S
  <2>5. \A n \in DOMAIN InOrder(S) : InOrder(S)[n] \in S
    BY <1>1, <2>4, InOrderIsAll, ElementOfSeq
  <2>6. writes = [n \in DOMAIN InOrder(S) |-> Put(InOrder(S)[n], f[InOrder(S)[n]])]
    BY <2>5 DEF Each
  <2>7. \A i \in S : FieldsOk(f[i])
    BY <2>3, <2>4 DEF FieldsOk
  <2> HIDE DEF f, writes
  <2>8. Planned(writes)
    BY <1>1, <2>4, <2>6, <2>7, PutsPlanned
  <2> QED
    BY <2>1, <2>2, <2>8, Planning
<1>7. CASE KodiVerify
  <2>1. Acting /\ pc \in Writing /\ pc # "done" /\ todo # <<>>
    BY <1>7 DEF KodiVerify, Acting, Flow, Writing, HasNext
  <2>2. Fail \/ \E items : Advance(items, "sending", "done")
    BY <1>7 DEF KodiVerify
  <2> QED
    BY <2>1, <2>2, EndsFailed, Advancing
<1> QED
  BY <1>3, <1>4, <1>5, <1>6, <1>7 DEF KodiNext

LEMMA MediaServerSteps ==
  ASSUME Flow, MediaServerNext
  PROVE  Flow' /\ Means
<1>1. call \in Calls
  BY DEF Flow
<1> DEFINE open == {i \in Requested : ~Holds(account[i], Want(i))}
           wanted(S) == Each(LAMBDA i : Put(i, Want(i)), S)
<1>2. ASSUME NEW S \in SUBSET Requested PROVE Planned(wanted(S))
  <2> DEFINE writes == wanted(S)
  <2>1. writes = [n \in DOMAIN InOrder(S) |-> Put(InOrder(S)[n], Want(InOrder(S)[n]))]
    BY DEF Each
  <2> HIDE DEF writes
  <2>2. Planned(writes)
    BY <1>1, <2>1, WantsPlanned
  <2> QED
    BY <2>2 DEF writes
<1>3. CASE JellyfinValidate
  BY <1>3, EndsFailed, Going DEF JellyfinValidate, Acting, Writing, HasNext
<1>4. CASE JellyfinRatings
  <2>1. pc = "reading" /\ Acting
    BY <1>4 DEF JellyfinRatings, Doing, Acting
  <2>2. Fail \/ Plan(wanted(Requested), "sending")
    BY <1>4 DEF JellyfinRatings
  <2> HIDE DEF wanted
  <2> QED
    BY <1>2, <2>1, <2>2, EndsFailed, Planning
<1>5. CASE JellyfinWatched
  <2>1. pc = "reading" /\ Acting
    BY <1>5 DEF JellyfinWatched, Doing, Acting
  <2>2. Fail \/ Plan(wanted(open), "sending")
    BY <1>5 DEF JellyfinWatched
  <2>3. open \in SUBSET Requested
    OBVIOUS
  <2> HIDE DEF wanted, open
  <2> QED
    BY <1>2, <2>1, <2>2, <2>3, EndsFailed, Planning
<1>6. CASE JellyfinWritten
  BY <1>6, Written DEF JellyfinWritten
<1>7. CASE EmbyValidate
  BY <1>7, EndsFailed, Going DEF EmbyValidate, Acting, Writing, HasNext
<1>8. CASE EmbyWatched
  <2> DEFINE S == {i \in Requested : account[i].status # 3}
             writes == Each(LAMBDA i : Put(i, [status |-> 3]), S)
  <2>1. pc = "reading" /\ Acting
    BY <1>8 DEF EmbyWatched, Doing, Acting
  <2>2. Plan(writes, "sending")
    BY <1>8 DEF EmbyWatched
  <2>3. S \in SUBSET Requested
    OBVIOUS
  <2> HIDE DEF S
  <2>4. Planned(writes)
    <3>1. writes = [n \in DOMAIN InOrder(S) |-> Put(InOrder(S)[n], [status |-> 3])]
      BY DEF Each
    <3> QED
      BY <1>1, <2>3, <3>1, StatusPlanned
  <2> HIDE DEF writes
  <2> QED
    BY <2>1, <2>2, <2>4, Planning
<1>9. CASE EmbyVerify
  <2>1. Acting /\ pc \in Writing /\ pc # "done" /\ todo # <<>>
    BY <1>9 DEF EmbyVerify, Acting, Flow, Writing, HasNext
  <2>2. Fail \/ \E items : Advance(items, "sending", "done")
    BY <1>9 DEF EmbyVerify
  <2> QED
    BY <2>1, <2>2, EndsFailed, Advancing
<1> QED
  BY <1>3, <1>4, <1>5, <1>6, <1>7, <1>8, <1>9 DEF MediaServerNext

\* One request for all.
LEMMA BatchProper ==
  ASSUME call \in Calls, NEW how
  PROVE  LET w == [kind |-> how, rows |-> [i \in Requested |-> Want(i)]]
         IN  Proper(w) /\ Planned(<<w>>) /\ <<w>> # <<>>
<1> DEFINE w == [kind |-> how, rows |-> [i \in Requested |-> Want(i)]]
<1>1. DOMAIN w.rows = Requested /\ \A i \in Requested : w.rows[i] = Want(i)
  OBVIOUS
<1> HIDE DEF w
<1>2. Proper(w)
  BY <1>1, WantFields DEF Proper, FieldsOk
<1>3. Planned(<<w>>) /\ <<w>> # <<>>
  BY <1>2, PlannedOne
<1> QED
  BY <1>2, <1>3 DEF w

LEMMA HistoryPlanned ==
  ASSUME call \in Calls, call.service = "simkl", call.feature = "watched", ~AnyUnsupported
  PROVE  LET normal == [kind |-> "put", rows |-> [i \in FirstViews |-> [status |-> 3]]]
             byTime == [n \in Rewatches |-> Entries[n].want.at * (Len(Entries) + 1) + n]
             oldestFirst == Sorted(Rewatches, byTime)
             sessions == [n \in DOMAIN oldestFirst |-> Play(Entries[oldestFirst[n]].item)]
             first == IF FirstViews = {} THEN <<>> ELSE <<normal>>
         IN  Planned(first) /\ Planned(sessions) /\ Planned(first \o sessions)
<1> DEFINE normal == [kind |-> "put", rows |-> [i \in FirstViews |-> [status |-> 3]]]
           byTime == [n \in Rewatches |-> Entries[n].want.at * (Len(Entries) + 1) + n]
           oldestFirst == Sorted(Rewatches, byTime)
           sessions == [n \in DOMAIN oldestFirst |-> Play(Entries[oldestFirst[n]].item)]
           first == IF FirstViews = {} THEN <<>> ELSE <<normal>>
<1>1. /\ Len(Entries) \in Nat /\ DOMAIN Entries = 1..Len(Entries)
      /\ Requested = {Entries[n].item : n \in DOMAIN Entries}
  BY CallState
<1>2. Planned(first)
  <2>1. FirstViews \subseteq Requested
    BY DEF FirstViews, Requested
  <2>2. DOMAIN normal.rows = FirstViews /\ \A i \in FirstViews : normal.rows[i] = [status |-> 3]
    OBVIOUS
  <2> HIDE DEF normal
  <2>3. Proper(normal)
    BY <2>1, <2>2 DEF Proper
  <2> QED
    BY <2>3, PlannedOne, PlannedNone
<1>3. Rewatches \in SUBSET (1..Len(Entries)) /\ IsFiniteSet(Rewatches)
  <2>1. Rewatches \in SUBSET (1..Len(Entries))
    BY <1>1 DEF Rewatches
  <2>2. IsFiniteSet(1..Len(Entries))
    <3> DEFINE size == Len(Entries)
    <3>1. size \in Int /\ 1 \in Int
      BY <1>1
    <3> HIDE DEF size
    <3>2. IsFiniteSet(1..size)
      BY <3>1, FS_Interval
    <3> QED
      BY <3>2 DEF size
  <2> QED
    BY <2>1, <2>2, FS_Subset
<1>4. ASSUME NEW n \in Rewatches PROVE Entries[n].want.at \in Nat
  <2>1. n \in DOMAIN Entries /\ "rewatch" \in DOMAIN Entries[n].want
    BY DEF Rewatches, IsRewatch
  <2>2. Wants(call.service, call.feature, Entries[n].item) = SimklWants("watched")
    BY DEF Wants, ListServices
  <2>3. Entries[n].want \in SimklWants("watched") /\ Entries[n].want # Unsupported
    BY <2>1, <2>2, CallState DEF AnyUnsupported, Range
  <2> DEFINE w == Entries[n].want
  <2> HIDE DEF w
  <2>4. w \in [status : {3}, at : {1, 2}] \/ w \in [rewatch : {TRUE}, at : {1, 2}]
    BY <2>3 DEF SimklWants, w
  <2>5. w.at \in Nat
    <3>1. CASE w \in [status : {3}, at : {1, 2}]
      <4>1. w.at \in {1, 2}
        BY <3>1
      <4> QED
        BY <4>1
    <3>2. CASE w \in [rewatch : {TRUE}, at : {1, 2}]
      <4>1. w.at \in {1, 2}
        BY <3>2
      <4> QED
        BY <4>1
    <3> QED
      BY <2>4, <3>1, <3>2
  <2> QED
    BY <2>5 DEF w
<1>5. /\ \A n \in Rewatches : byTime[n] \in Nat
      /\ \A m, n \in Rewatches : byTime[m] = byTime[n] => m = n
  <2>1. ASSUME NEW n \in Rewatches PROVE byTime[n] = Entries[n].want.at * (Len(Entries) + 1) + n
    OBVIOUS
  <2> DEFINE size == Len(Entries)
  <2>2. ASSUME NEW n \in Rewatches PROVE byTime[n] \in Nat
    <3> DEFINE p == Entries[n].want.at
    <3>1. p \in Nat /\ n \in 1..size /\ size \in Nat /\ byTime[n] = p * (size + 1) + n
      BY <1>1, <1>3, <1>4, <2>1
    <3> HIDE DEF p, size, byTime
    <3>2. p * (size + 1) \in Nat
      BY <3>1
    <3> QED
      BY <3>1, <3>2
  <2>3. ASSUME NEW m \in Rewatches, NEW n \in Rewatches, byTime[m] = byTime[n] PROVE m = n
    <3> DEFINE p == Entries[m].want.at
               q == Entries[n].want.at
    <3>1. p \in Nat /\ q \in Nat /\ m \in 1..size /\ n \in 1..size /\ size \in Nat
      BY <1>1, <1>3, <1>4
    <3>2. p * (size + 1) + m = q * (size + 1) + n
      BY <2>1, <2>3
    <3> HIDE DEF p, q, size, byTime
    <3> QED
      BY <3>1, <3>2, Digits
  <2> QED
    BY <2>2, <2>3
<1> HIDE DEF byTime
<1>6. oldestFirst \in Seq(Rewatches)
  BY <1>3, <1>5, SortedIsAll
<1> HIDE DEF oldestFirst
<1>7. /\ Len(oldestFirst) \in Nat /\ DOMAIN oldestFirst = 1..Len(oldestFirst)
      /\ \A n \in DOMAIN oldestFirst : oldestFirst[n] \in Rewatches
  BY <1>6, LenProperties, ElementOfSeq
<1>8. \A n \in DOMAIN oldestFirst : Entries[oldestFirst[n]].item \in Requested
  BY <1>1, <1>7 DEF Rewatches
<1>9. Planned(sessions)
  <2> DEFINE W == {Play(i) : i \in Requested}
  <2>1. \A n \in 1..Len(oldestFirst) : Play(Entries[oldestFirst[n]].item) \in W
    BY <1>7, <1>8
  <2>2. sessions = [n \in 1..Len(oldestFirst) |-> Play(Entries[oldestFirst[n]].item)]
    BY <1>7
  <2>3. ASSUME NEW i \in Requested PROVE Proper(Play(i))
    <3>1. DOMAIN Play(i).rows = {i} /\ Play(i).rows[i] = <<>>
      BY WriteRows
    <3>2. DOMAIN <<>> = {}
      OBVIOUS
    <3> QED
      BY <3>1, <3>2 DEF Proper
  <2>4. \A w \in W : Proper(w)
    BY <2>3
  <2> HIDE DEF W, sessions
  <2>5. sessions \in [1..Len(oldestFirst) -> W]
    BY <2>1, <2>2
  <2>6. sessions \in Seq(W)
    BY <1>7, <2>5, SeqDef
  <2> QED
    BY <2>4, <2>5, <2>6 DEF Planned
<1> HIDE DEF first, sessions
<1>10. Planned(first \o sessions)
  BY <1>2, <1>9, PlannedBoth
<1> QED
  BY <1>2, <1>9, <1>10 DEF first, sessions, oldestFirst, byTime

LEMMA SimklSteps ==
  ASSUME Flow, SimklNext
  PROVE  Flow' /\ Means
<1>1. call \in Calls
  BY DEF Flow
<1>2. CASE SimklLists
  <2>1. pc = "validating" /\ Acting
    BY <1>2 DEF SimklLists, Acting
  <2>2. Fail \/ (~AnyUnsupported /\ Plan(<<OneRequest>>, "sending"))
    BY <1>2 DEF SimklLists, SimklRefuses
  <2>3. Planned(<<OneRequest>>)
    BY <1>1, BatchProper DEF OneRequest
  <2> QED
    BY <2>1, <2>2, <2>3, EndsFailed, Planning
<1>3. CASE SimklValidate
  BY <1>3, EndsFailed, Going DEF SimklValidate, SimklRefuses, Doing, Acting, Writing, HasNext
<1>4. CASE SimklHistory
  <2>1. /\ pc = "reading" /\ Acting /\ call.service = "simkl" /\ call.feature = "watched"
        /\ ~AnyUnsupported
    BY <1>4 DEF SimklHistory, Doing, Acting, Flow
  <2>2. Fail \/ \E writes : Planned(writes) /\ Plan(writes, "sending")
    BY <1>1, <1>4, <2>1, HistoryPlanned DEF SimklHistory
  <2> QED
    BY <2>1, <2>2, EndsFailed, Planning
<1>5. CASE SimklWritten
  BY <1>5, Written DEF SimklWritten
<1> QED
  BY <1>2, <1>3, <1>4, <1>5 DEF SimklNext

\* Plays or toggles of some requested items, one for each.
LEMMA PlaysOfEach ==
  ASSUME call \in Calls, NEW S \in SUBSET Requested, NEW s,
         \/ s = [n \in DOMAIN InOrder(S) |-> Play(InOrder(S)[n])]
         \/ s = [n \in DOMAIN InOrder(S) |-> Toggle(InOrder(S)[n])]
  PROVE  Planned(s)
<1>1. s = [n \in DOMAIN InOrder(S) |-> s[n]]
  OBVIOUS
<1>2. \A n \in DOMAIN InOrder(S) : s[n] = Play(InOrder(S)[n]) \/ s[n] = Toggle(InOrder(S)[n])
  OBVIOUS
<1>3. \A n \in DOMAIN InOrder(S) : /\ DOMAIN s[n].rows = {InOrder(S)[n]}
                                   /\ FieldsOk(s[n].rows[InOrder(S)[n]])
  BY <1>2, WriteRows
<1> QED
  BY <1>1, <1>3, EachPlanned

LEMMA TraktSteps ==
  ASSUME Flow, TraktNext
  PROVE  Flow' /\ Means
<1>1. call \in Calls
  BY DEF Flow
<1>2. CASE TraktBatch
  <2> DEFINE how == IF call.feature = "watched" THEN "play" ELSE "put"
             writes == <<[kind |-> how, rows |-> [i \in Requested |-> Want(i)]]>>
  <2>1. pc = "validating" /\ Acting
    BY <1>2 DEF TraktBatch, Acting
  <2>2. Fail \/ (~AnyUnsupported /\ Plan(writes, "sending"))
    BY <1>2 DEF TraktBatch
  <2>3. Planned(writes)
    BY <1>1, BatchProper
  <2> HIDE DEF writes
  <2> QED
    BY <2>1, <2>2, <2>3, EndsFailed, Planning
<1>3. CASE TraktValidate
  BY <1>3, EndsFailed, Succeeding, Going DEF TraktValidate, Acting, Writing, HasNext
<1>4. CASE TraktReviews
  <2> DEFINE S == {i \in Requested : account[i].plays = 0}
             writes == Each(Play, S)
  <2>1. pc = "reading" /\ Acting
    BY <1>4 DEF TraktReviews, Doing, Acting
  <2>2. Fail \/ Plan(writes, "sending")
    BY <1>4 DEF TraktReviews
  <2>3. S \in SUBSET Requested
    OBVIOUS
  <2> HIDE DEF S
  <2>4. writes = [n \in DOMAIN InOrder(S) |-> Play(InOrder(S)[n])]
    BY DEF Each
  <2> HIDE DEF writes
  <2>5. Planned(writes)
    BY <1>1, <2>3, <2>4, PlaysOfEach
  <2> QED
    BY <2>1, <2>2, <2>5, EndsFailed, Planning
<1>5. CASE TraktFollowing
  <2> DEFINE S == {i \in Requested : account[i].status = 0}
             writes == Each(LAMBDA i : Put(i, [status |-> 1]), S)
  <2>1. pc = "reading" /\ Acting
    BY <1>5 DEF TraktFollowing, Doing, Acting
  <2>2. Fail \/ Plan(writes, IF S = {} THEN "sending" ELSE "checking")
    BY <1>5 DEF TraktFollowing
  <2>3. S \in SUBSET Requested
    OBVIOUS
  <2> HIDE DEF S
  <2>4. writes = [n \in DOMAIN InOrder(S) |-> Put(InOrder(S)[n], [status |-> 1])]
    BY DEF Each
  <2> HIDE DEF writes
  <2>5. Planned(writes) /\ (writes = <<>> <=> S = {})
    BY <1>1, <2>3, <2>4, StatusPlanned
  <2> QED
    BY <2>1, <2>2, <2>5, EndsFailed, Planning
<1>6. CASE TraktProfiles
  <2>1. pc = "checking" /\ Acting /\ ~call.dryRun /\ todo # <<>>
    BY <1>6 DEF TraktProfiles, Doing, Acting, Flow, Writing, HasNext
  <2>2. Fail \/ Goto("sending")
    BY <1>6 DEF TraktProfiles
  <2> QED
    BY <2>1, <2>2, EndsFailed, Going
<1>7. CASE TraktWritten
  BY <1>7, Written DEF TraktWritten
<1>8. CASE TraktFinal
  BY <1>8, EndsFailed, Succeeding DEF TraktFinal, Acting
<1> QED
  BY <1>2, <1>3, <1>4, <1>5, <1>6, <1>7, <1>8 DEF TraktNext

LEMMA ListSteps ==
  ASSUME Flow, ListNext
  PROVE  Flow' /\ Means
<1>1. call \in Calls
  BY DEF Flow
<1>2. CASE ListImport
  <2>1. pc = "validating" /\ Acting
    BY <1>2 DEF ListImport, Acting
  <2>2. Fail \/ (~AnyUnsupported /\ Plan(ListWrites, "sending"))
    BY <1>2 DEF ListImport
  <2>3. Planned(ListWrites)
    <3>1. CASE call.service # "movary"
      <4> DEFINE W == {Put(Entries[n].item, Entries[n].want) : n \in DOMAIN Entries}
      <4>1. ListWrites = [n \in DOMAIN Entries |-> Put(Entries[n].item, Entries[n].want)]
        BY <3>1 DEF ListWrites
      <4>2. Len(Entries) \in Nat /\ DOMAIN Entries = 1..Len(Entries)
        BY <1>1, CallState
      <4>3. ListWrites \in [1..Len(Entries) -> W]
        BY <4>1, <4>2
      <4>4. ASSUME NEW n \in DOMAIN Entries PROVE Proper(Put(Entries[n].item, Entries[n].want))
        <5> DEFINE w == Put(Entries[n].item, Entries[n].want)
        <5>1. DOMAIN w.rows = {Entries[n].item} /\ w.rows[Entries[n].item] = Entries[n].want
          BY WriteRows
        <5>2. Entries[n].item \in Requested /\ FieldsOk(Entries[n].want)
          BY <1>1, CallState, WantFields
        <5> HIDE DEF w
        <5>3. Proper(w)
          BY <5>1, <5>2 DEF Proper, FieldsOk
        <5> QED
          BY <5>3 DEF w
      <4>5. \A w \in W : Proper(w)
        BY <4>4
      <4> HIDE DEF W
      <4>6. ListWrites \in Seq(W)
        BY <4>2, <4>3, SeqDef
      <4> QED
        BY <4>3, <4>5, <4>6 DEF Planned
    <3>2. CASE call.service = "movary"
      BY <1>1, <3>2, BatchProper DEF ListWrites
    <3> QED
      BY <3>1, <3>2
  <2> QED
    BY <2>1, <2>2, <2>3, EndsFailed, Planning
<1>3. CASE AniListFollowing
  <2> DEFINE S == {i \in Requested : account[i].status = 0}
             writes == Each(Toggle, S)
  <2>1. pc = "validating" /\ Acting
    BY <1>3 DEF AniListFollowing, Acting
  <2>2. Fail \/ (~AnyUnsupported /\ Plan(writes, "sending"))
    BY <1>3 DEF AniListFollowing
  <2>3. S \in SUBSET Requested
    OBVIOUS
  <2> HIDE DEF S
  <2>4. writes = [n \in DOMAIN InOrder(S) |-> Toggle(InOrder(S)[n])]
    BY DEF Each
  <2> HIDE DEF writes
  <2>5. Planned(writes)
    BY <1>1, <2>3, <2>4, PlaysOfEach
  <2> QED
    BY <2>1, <2>2, <2>5, EndsFailed, Planning
<1>4. CASE ListWritten
  BY <1>4, Written DEF ListWritten
<1> QED
  BY <1>2, <1>3, <1>4 DEF ListNext

\* The rows that the accounts of each service can have.
LEMMA RowsAreRows ==
  ASSUME call \in Calls, NEW i, NEW row \in Rows(call.service, call.feature, i)
  PROVE  row \in RowSet
<1>1. Full \in Nat /\ 0..3 \subseteq Nat /\ 0..2 \subseteq Nat /\ 0..1 \subseteq Nat /\ Nat \subseteq Int
  BY ShikimoriAssumption
<1>2. Absent \in RowSet
  BY DEF Absent, RowSet
<1>3. ASSUME NEW s \in Nat, NEW p \in Nat, NEW r \in Nat, NEW t \in Nat
      PROVE  [status |-> s, plays |-> p, rating |-> r, rest |-> t] \in RowSet
  BY DEF RowSet
<1>4. ASSUME NEW v \in Nat
      PROVE  /\ [Absent EXCEPT !.status = v] \in RowSet
             /\ [Absent EXCEPT !.plays = v] \in RowSet
             /\ [Absent EXCEPT !.rating = v] \in RowSet
  <2>1. [Absent EXCEPT !.status = v] = [status |-> v, plays |-> 0, rating |-> 0, rest |-> 0]
    BY DEF Absent
  <2>2. [Absent EXCEPT !.plays = v] = [status |-> 0, plays |-> v, rating |-> 0, rest |-> 0]
    BY DEF Absent
  <2>3. [Absent EXCEPT !.rating = v] = [status |-> 0, plays |-> 0, rating |-> v, rest |-> 0]
    BY DEF Absent
  <2> QED
    BY <1>3, <2>1, <2>2, <2>3
<1>6. call.service \in Services /\ call.feature \in Imports(call.service)
  BY CallsAssumption
<1>7. CASE call.service = "annict"
  <2>1. row \in AnnictRows(i)
    BY <1>7 DEF Rows, ListServices
  <2> QED
    BY <1>1, <2>1 DEF AnnictRows, Row, RowSet
<1>8. CASE call.service = "shikimori"
  <2>1. row \in ShikimoriRows(call.feature)
    BY <1>8 DEF Rows, ListServices
  <2> QED
    BY <1>1, <1>2, <1>3, <2>1 DEF ShikimoriRows
<1>9. CASE call.service = "plex"
  <2>1. row \in PlexRows(call.feature)
    BY <1>9 DEF Rows, ListServices
  <2> QED
    BY <1>1, <2>1 DEF PlexRows, RowSet
<1>10. CASE call.service = "bangumi"
  <2>1. row \in BangumiRows(call.feature, i)
    BY <1>10 DEF Rows, ListServices
  <2> QED
    <3>1. \/ \E v \in {0, 1, 3} \cup 0..3 : row = [Absent EXCEPT !.status = v]
          \/ row = [status |-> 2, plays |-> 0, rating |-> 2, rest |-> 0]
      BY <2>1 DEF BangumiRows
    <3>2. CASE \E v \in {0, 1, 3} \cup 0..3 : row = [Absent EXCEPT !.status = v]
      <4>1. PICK v \in {0, 1, 3} \cup 0..3 : row = [Absent EXCEPT !.status = v]
        BY <3>2
      <4>2. v \in Nat
        OBVIOUS
      <4> QED
        BY <1>4, <4>1, <4>2
    <3>3. CASE row = [status |-> 2, plays |-> 0, rating |-> 2, rest |-> 0]
      BY <1>3, <3>3
    <3> QED
      BY <3>1, <3>2, <3>3
<1>11. CASE call.service = "kodi"
  <2>1. row \in KodiRows(call.feature) /\ call.feature \in {"ratings", "watched", "watchlist"}
    BY <1>6, <1>11 DEF Rows, Imports, ListServices
  <2> QED
    <3>1. CASE call.feature = "ratings"
      <4>1. PICK v \in 0..2 : row = [Absent EXCEPT !.rating = v]
        BY <2>1, <3>1 DEF KodiRows
      <4> QED
        BY <1>1, <1>4, <4>1
    <3>2. CASE call.feature = "watched"
      <4>1. PICK v \in 0..2 : row = [Absent EXCEPT !.plays = v]
        BY <2>1, <3>2 DEF KodiRows
      <4> QED
        BY <1>1, <1>4, <4>1
    <3>3. CASE call.feature = "watchlist"
      BY <1>1, <1>3, <2>1, <3>3 DEF KodiRows
    <3> QED
      BY <2>1, <3>1, <3>2, <3>3
<1>12. CASE call.service = "jellyfin"
  <2>1. row \in JellyfinRows(call.feature)
    BY <1>12 DEF Rows, ListServices
  <2> QED
    BY <1>1, <1>2, <1>3, <1>4, <2>1 DEF JellyfinRows, RowSet
<1>13. CASE call.service = "emby"
  <2>1. row \in EmbyRows
    BY <1>13 DEF Rows, ListServices
  <2> QED
    BY <1>1, <1>2, <1>3, <1>4, <2>1 DEF EmbyRows
<1>14. CASE call.service = "simkl"
  <2>1. row \in SimklRows
    BY <1>14 DEF Rows, ListServices
  <2> QED
    BY <1>1, <1>2, <1>3, <1>4, <2>1 DEF SimklRows
<1>15. CASE call.service = "trakt"
  <2>1. /\ row \in TraktRows(call.feature)
        /\ call.feature \in Batches \cup {"reviews", "following"}
    BY <1>6, <1>15 DEF Rows, Imports, ListServices, Batches
  <2> QED
    BY <1>1, <1>2, <1>3, <1>4, <2>1 DEF TraktRows, Batches
<1>16. CASE call.service \in ListServices
  <2>1. row \in ListRows(call.feature)
    BY <1>16 DEF Rows, ListServices
  <2> QED
    <3>1. [Absent EXCEPT !.status = 1] \in RowSet /\ [status |-> 2, plays |-> 1, rating |-> 1, rest |-> 0] \in RowSet
      BY <1>3, <1>4
    <3>2. \/ row = Absent \/ row = [Absent EXCEPT !.status = 1]
          \/ row = [status |-> 2, plays |-> 1, rating |-> 1, rest |-> 0]
      BY <2>1 DEF ListRows
    <3> QED
      BY <1>2, <3>1, <3>2
<1> QED
  BY <1>6, <1>7, <1>8, <1>9, <1>10, <1>11, <1>12, <1>13, <1>14, <1>15, <1>16 DEF Services

LEMMA FlowInit ==
  Init => Flow /\ Abstract!Init
<1> SUFFICES ASSUME Init PROVE Flow /\ Abstract!Init
  OBVIOUS
<1>1. /\ call \in Calls /\ pc = "validating" /\ todo = <<>> /\ wire = {} /\ outcome = "running"
      /\ calls = 1
  BY DEF Init
<1>2. account \in [Item -> RowSet]
  <2>1. ASSUME NEW i \in Item PROVE account[i] \in RowSet
    <3>1. account[i] \in Rows(call.service, call.feature, i) \/ account[i] = Absent
      BY DEF Init
    <3>2. Absent \in RowSet
      BY DEF Absent, RowSet
    <3> QED
      BY <1>1, <3>1, <3>2, RowsAreRows
  <2>2. account = [i \in Item |-> account[i]]
    BY DEF Init
  <2> QED
    BY <2>1, <2>2
<1>3. Flow
  BY <1>1, <1>2, PlannedNone DEF Flow, Writing, HasNext
<1>4. Pending = {} /\ Late = {}
  BY <1>1 DEF Pending, Late
<1> QED
  BY <1>1, <1>3, <1>4, CallState DEF Abstract!Init, Pending, Late

\* Every step keeps Flow, and is one of AccountImport or none.
LEMMA ImportStep ==
  ASSUME Flow, [Next]_vars
  PROVE  Flow' /\ Means
<1>1. CASE AnnictNext \/ ShikimoriNext \/ PlexNext \/ BangumiNext \/ KodiNext
  BY <1>1, AnnictSteps, ShikimoriSteps, PlexSteps, BangumiSteps, KodiSteps
<1>2. CASE MediaServerNext \/ SimklNext \/ TraktNext \/ ListNext
  BY <1>2, MediaServerSteps, SimklSteps, TraktSteps, ListSteps
<1>3. CASE Send
  BY <1>3, Sending
<1>4. CASE Reread
  <2>1. Acting /\ pc # "validating" /\ ~call.dryRun /\ todo # <<>> /\ Goto("verifying")
    BY <1>4 DEF Reread, Answered, Acting, Flow, Writing, HasNext
  <2> QED
    BY <2>1, Going
<1>5. CASE WriteFails
  BY <1>5, EndsFailed DEF WriteFails
<1>6. CASE ReadFails
  BY <1>6, EndsFailed DEF ReadFails
<1>7. ASSUME NEW m \in wire, NEW done \in SUBSET DOMAIN m.write.rows, NEW derived \in 2..3,
             Arrive(m, done, derived)
      PROVE  Flow' /\ Means
  BY <1>7, Arriving
<1>8. ASSUME NEW m \in wire, Vanish(m) PROVE Flow' /\ Means
  BY <1>8, Vanishing
<1>9. ASSUME NEW i \in Item, NEW row \in Rows(call.service, call.feature, i), Edit(i, row)
      PROVE  Flow' /\ Means
  BY <1>9, RowsAreRows, Editing DEF Flow
<1>10. CASE Again
  BY <1>10, CallingAgain
<1>11. CASE UNCHANGED vars
  <2>1. UNCHANGED <<call, pc, account, todo, wire, answer, outcome, calls>>
    BY <1>11 DEF vars
  <2>2. Flow'
    BY <2>1, CallFrame DEF Flow
  <2>3. UNCHANGED Abstract!vars
    BY <2>1, CallFrame, WireFrame DEF Abstract!vars, Pending, Late
  <2> QED
    BY <2>2, <2>3 DEF Means
<1> QED
  BY <1>1, <1>2, <1>3, <1>4, <1>5, <1>6, <1>7, <1>8, <1>9, <1>10, <1>11 DEF Next, Connector

\* Every importer is an AccountImport.
THEOREM ImporterIsAccountImport == Spec => ImplementsAccountImport
<1>1. Init => Flow /\ Abstract!Init
  BY FlowInit
<1>2. Flow /\ [Next]_vars => Flow' /\ [Abstract!Next]_Abstract!vars
  BY ImportStep DEF Means
<1> QED
  BY <1>1, <1>2, PTL DEF Spec, ImplementsAccountImport, Abstract!Spec

-----------------------------------------------------------------------------
(* The connectors that reread before they write. *)

\* The fields of a write of one item are, at the provider, those the plan was made from.
Untouched(w, current, before, others) ==
  \A i \in DOMAIN w.rows \ others : \A f \in DOMAIN w.rows[i] : current[i][f] = before[i][f]

\* Their plans: writes of one item each; Annict's are of a status, or of a record, these
\* last; Plex's are of different items, and of the rating or of nothing that is compared.
Single(w, service, feature) ==
  \E i, fields :
    /\ w = Put(i, fields) \/ (w = Play(i) /\ fields = <<>>)
    /\ service = "annict" => DOMAIN fields \subseteq {"status"}
    /\ service = "plex" => DOMAIN fields \subseteq (IF feature = "ratings" THEN {"rating"} ELSE {})

Fits(s, service, feature) ==
  /\ \A n \in DOMAIN s : Single(s[n], service, feature)
  /\ service = "annict" => \A m, n \in DOMAIN s : m < n /\ IsRecord(s[m]) => IsRecord(s[n])
  /\ service = "plex" => \A m, n \in DOMAIN s : m # n => DOMAIN s[m].rows \cap DOMAIN s[n].rows = {}

\* Before a write is sent and until it arrives, nobody has changed what it overwrites, other
\* than after the reread; Plex rereads everything once, before its first write.
Guarded ==
  call.service \in Rechecking =>
    /\ Fits(todo, call.service, call.feature)
    /\ pc = "rechecking" /\ call.service = "annict" /\ todo # <<>> => IsRecord(todo[1])
    /\ pc = "sending" \/ (pc = "waiting" /\ answer = "none") =>
         Untouched(todo[1], account, seen, moved)
    /\ call.service = "plex" /\ pc \in {"sending", "waiting", "verifying"} =>
         \A n \in DOMAIN todo : n # 1 => Untouched(todo[n], account, seen, moved)

LEMMA SingleWrites ==
  ASSUME NEW w, NEW service, NEW feature, Single(w, service, feature)
  PROVE  /\ \E i : DOMAIN w.rows = {i} /\ Target(w) = i
         /\ IsRecord(w) => \A i \in DOMAIN w.rows : DOMAIN w.rows[i] = {}
         /\ service = "annict" => \A i \in DOMAIN w.rows : DOMAIN w.rows[i] \subseteq {"status"}
         /\ service = "plex" => \A i \in DOMAIN w.rows :
              DOMAIN w.rows[i] \subseteq (IF feature = "ratings" THEN {"rating"} ELSE {})
         /\ w.kind # "episodes"
<1>1. PICK i, fields :
        /\ w = Put(i, fields) \/ (w = Play(i) /\ fields = <<>>)
        /\ service = "annict" => DOMAIN fields \subseteq {"status"}
        /\ service = "plex" => DOMAIN fields \subseteq (IF feature = "ratings" THEN {"rating"} ELSE {})
  BY DEF Single
<1>2. DOMAIN w.rows = {i} /\ w.rows[i] = fields /\ w.kind \in {"put", "play"}
  BY <1>1 DEF Put, Play
<1>3. IsRecord(w) => DOMAIN fields = {}
  <2>1. DOMAIN <<>> = {}
    OBVIOUS
  <2> QED
    BY <1>1, <2>1 DEF IsRecord, Put, Play
<1>4. Target(w) = i
  BY <1>2 DEF Target
<1> QED
  BY <1>1, <1>2, <1>3, <1>4

LEMMA FitsTail ==
  ASSUME NEW s, NEW service, NEW feature, Fits(s, service, feature), Planned(s), s # <<>>
  PROVE  /\ Fits(Tail(s), service, feature)
         /\ service = "annict" /\ IsRecord(s[1]) => \A n \in DOMAIN Tail(s) : IsRecord(Tail(s)[n])
         /\ service = "plex" => \A n \in DOMAIN Tail(s) : DOMAIN Tail(s)[n].rows \cap DOMAIN s[1].rows = {}
<1>1. /\ 1 \in DOMAIN s /\ Len(s) \in Nat \ {0} /\ DOMAIN s = 1..Len(s) /\ DOMAIN Tail(s) = 1..(Len(s) - 1)
      /\ \A n \in DOMAIN Tail(s) : Tail(s)[n] = s[n + 1] /\ n + 1 \in DOMAIN s
  BY PlannedTail
<1>2. \A n \in DOMAIN Tail(s) : n + 1 # 1 /\ 1 < n + 1 /\ \A m \in DOMAIN Tail(s) : (m < n <=> m + 1 < n + 1)
  BY <1>1
<1>3. \A n \in DOMAIN Tail(s) : Single(Tail(s)[n], service, feature)
  BY <1>1 DEF Fits
<1>4. ASSUME service = "annict"
      PROVE  /\ \A m, n \in DOMAIN Tail(s) : m < n /\ IsRecord(Tail(s)[m]) => IsRecord(Tail(s)[n])
             /\ IsRecord(s[1]) => \A n \in DOMAIN Tail(s) : IsRecord(Tail(s)[n])
  BY <1>1, <1>2, <1>4 DEF Fits
<1>5. ASSUME service = "plex"
      PROVE  /\ \A m, n \in DOMAIN Tail(s) : m # n => DOMAIN Tail(s)[m].rows \cap DOMAIN Tail(s)[n].rows = {}
             /\ \A n \in DOMAIN Tail(s) : DOMAIN Tail(s)[n].rows \cap DOMAIN s[1].rows = {}
  BY <1>1, <1>2, <1>5 DEF Fits
<1> QED
  BY <1>3, <1>4, <1>5 DEF Fits

\* What others do meanwhile is among what they moved.
LEMMA UntouchedKept ==
  ASSUME NEW w, NEW current, NEW later, NEW before, NEW others, NEW more,
         Untouched(w, current, before, others), others \subseteq more,
         \A i \in DOMAIN w.rows : later[i] = current[i] \/ i \in more
  PROVE  Untouched(w, later, before, more)
BY DEF Untouched

LEMMA RecordsUntouched ==
  ASSUME NEW w, NEW service, NEW feature, Single(w, service, feature), IsRecord(w),
         NEW current, NEW before, NEW others
  PROVE  Untouched(w, current, before, others)
BY SingleWrites DEF Untouched

LEMMA GuardedPlan ==
  ASSUME NEW writes, NEW label, Plan(writes, label), Fits(writes, call.service, call.feature),
         label \in {"checking", "rechecking"} \/ (label = "sending" /\ writes = <<>>),
         label = "rechecking" /\ call.service = "annict" /\ writes # <<>> => IsRecord(writes[1])
  PROVE  Guarded'
<1>1. todo' = writes /\ call' = call /\ pc' \in {"done", "checking", "rechecking"}
      /\ (pc' = "rechecking" => label = "rechecking")
  BY DEF Plan
<1> QED
  BY <1>1 DEF Guarded

\* The import is over, or is to go on with a check of its next write.
LEMMA GuardedRest ==
  ASSUME Guarded, UNCHANGED call, todo' = todo \/ Fits(todo', call.service, call.feature),
         pc' \notin {"rechecking", "sending", "waiting", "verifying"}
  PROVE  Guarded'
BY DEF Guarded

LEMMA SinglePuts ==
  ASSUME NEW i, NEW fields, NEW feature
  PROVE  /\ ~IsRecord(Put(i, fields)) /\ Single(Put(i, fields), "shikimori", feature)
         /\ DOMAIN fields \subseteq {"status"} => Single(Put(i, fields), "annict", feature)
         /\ DOMAIN fields \subseteq {"rating"} => Single(Put(i, fields), "plex", "ratings")
<1>1. ~IsRecord(Put(i, fields))
  BY DEF IsRecord, Put
<1> QED
  BY <1>1 DEF Single

LEMMA SinglePlays ==
  ASSUME NEW i, NEW service, NEW feature
  PROVE  IsRecord(Play(i)) /\ Single(Play(i), service, feature)
<1>1. IsRecord(Play(i))
  BY DEF IsRecord, Play
<1>2. DOMAIN <<>> = {}
  OBVIOUS
<1> QED
  BY <1>1, <1>2 DEF Single

LEMMA FitsPuts ==
  ASSUME NEW S, NEW order, NEW f, NEW s, NEW feature, DOMAIN s = DOMAIN order,
         \A n \in DOMAIN s : s[n] = Put(order[n], f[order[n]]) /\ order[n] \in S
  PROVE  /\ Fits(s, "shikimori", feature)
         /\ (\A i \in S : DOMAIN f[i] \subseteq {"status"}) => Fits(s, "annict", feature)
<1>1. \A n \in DOMAIN s : ~IsRecord(s[n]) /\ Single(s[n], "shikimori", feature)
  BY SinglePuts
<1>2. Fits(s, "shikimori", feature)
  BY <1>1 DEF Fits
<1>3. ASSUME \A i \in S : DOMAIN f[i] \subseteq {"status"} PROVE Fits(s, "annict", feature)
  <2>1. \A n \in DOMAIN s : Single(s[n], "annict", feature)
    BY <1>3, SinglePuts
  <2> QED
    BY <1>1, <2>1 DEF Fits
<1> QED
  BY <1>2, <1>3

LEMMA AnnictGuarded ==
  ASSUME Flow, Guarded, AnnictNext
  PROVE  Guarded'
<1>1. call.service = "annict" /\ call.service \in Rechecking /\ call \in Calls
  BY DEF Flow, AnnictNext, AnnictValidate, AnnictResolve, AnnictWatchlist, AnnictWatched, AnnictCheck,
         AnnictRecheck, AnnictVerify, AnnictFinal, Doing, Rechecking
<1>2. CASE Fail
  BY <1>2, GuardedRest DEF Fail
<1>3. CASE AnnictValidate \/ AnnictResolve \/ AnnictFinal
  BY <1>2, <1>3, GuardedRest DEF AnnictValidate, AnnictResolve, AnnictFinal, Goto, Succeed
<1>4. CASE AnnictWatchlist /\ ~Fail
  <2> DEFINE S == {i \in Requested : account[i].status = 0}
             writes == Each(LAMBDA i : Put(i, [status |-> 1]), S)
             f == [i \in S |-> [status |-> 1]]
  <2>1. Plan(writes, IF writes = <<>> THEN "sending" ELSE "checking")
    BY <1>4 DEF AnnictWatchlist
  <2>2. S \in SUBSET Requested
    OBVIOUS
  <2> HIDE DEF S
  <2>3. writes = [n \in DOMAIN InOrder(S) |-> Put(InOrder(S)[n], [status |-> 1])]
    BY DEF Each
  <2> HIDE DEF writes
  <2>4. /\ DOMAIN writes = DOMAIN InOrder(S)
        /\ \A n \in DOMAIN writes : writes[n] = Put(InOrder(S)[n], [status |-> 1]) /\ InOrder(S)[n] \in S
    BY <1>1, <2>2, <2>3, StatusPlanned
  <2>5. \A i \in S : f[i] = [status |-> 1] /\ DOMAIN f[i] \subseteq {"status"}
    OBVIOUS
  <2> HIDE DEF f
  <2>6. \A n \in DOMAIN writes : writes[n] = Put(InOrder(S)[n], f[InOrder(S)[n]]) /\ InOrder(S)[n] \in S
    BY <2>4, <2>5
  <2>7. Fits(writes, call.service, call.feature)
    <3>1. \A i \in S : DOMAIN f[i] \subseteq {"status"}
      BY <2>5
    <3>2. Fits(writes, "annict", call.feature)
      BY <2>4, <2>6, <3>1, FitsPuts
    <3> QED
      BY <1>1, <3>2
  <2> QED
    BY <2>1, <2>7, GuardedPlan
<1>5. CASE AnnictWatched /\ ~Fail
  <2> DEFINE writes == NewStatuses \o NewPlays
  <2>1. /\ Planned(NewStatuses) /\ Planned(NewPlays)
        /\ \A n \in DOMAIN NewStatuses : \E i \in Requested \ Episode :
             NewStatuses[n] = Put(i, [status |-> Want(i).status])
        /\ \A n \in DOMAIN NewPlays : \E i \in Requested \cap Episode : NewPlays[n] = Play(i)
        /\ Plan(NewStatuses \o NewPlays,
                IF NewStatuses # <<>> THEN "checking"
                ELSE IF NewPlays # <<>> THEN "rechecking" ELSE "sending")
    BY <1>5, AnnictWatchedPlanned
  <2>2. /\ Len(NewStatuses) \in Nat /\ Len(NewPlays) \in Nat
        /\ DOMAIN writes = 1..(Len(NewStatuses) + Len(NewPlays))
        /\ \A n \in DOMAIN writes :
             /\ writes[n] = IF n <= Len(NewStatuses) THEN NewStatuses[n] ELSE NewPlays[n - Len(NewStatuses)]
             /\ n <= Len(NewStatuses) => n \in DOMAIN NewStatuses
             /\ n > Len(NewStatuses) => n - Len(NewStatuses) \in DOMAIN NewPlays
        /\ writes = <<>> <=> NewStatuses = <<>> /\ NewPlays = <<>>
        /\ NewStatuses = <<>> => writes = NewPlays
        /\ DOMAIN NewPlays = 1..Len(NewPlays)
    BY <2>1, PlannedBoth
  <2> HIDE DEF writes
  <2>3. ASSUME NEW n \in DOMAIN writes
        PROVE  Single(writes[n], "annict", call.feature) /\ (IsRecord(writes[n]) <=> n > Len(NewStatuses))
    <3>1. CASE n <= Len(NewStatuses)
      <4>1. n \in DOMAIN NewStatuses /\ writes[n] = NewStatuses[n]
        BY <2>2, <3>1
      <4>2. PICK i, v : NewStatuses[n] = Put(i, [status |-> v])
        BY <2>1, <4>1
      <4>3. DOMAIN [status |-> v] \subseteq {"status"}
        OBVIOUS
      <4>4. Single(writes[n], "annict", call.feature) /\ ~IsRecord(writes[n])
        BY <4>1, <4>2, <4>3, SinglePuts
      <4>5. ~(n > Len(NewStatuses))
        BY <2>2, <3>1
      <4> QED
        BY <4>4, <4>5
    <3>2. CASE n > Len(NewStatuses)
      <4>1. /\ n - Len(NewStatuses) \in DOMAIN NewPlays
            /\ writes[n] = NewPlays[n - Len(NewStatuses)]
        BY <2>2, <3>2
      <4>2. PICK i : writes[n] = Play(i)
        BY <2>1, <4>1
      <4> QED
        BY <3>2, <4>2, SinglePlays
    <3> QED
      BY <2>2, <3>1, <3>2
  <2>4. Fits(writes, call.service, call.feature)
    <3>1. ASSUME NEW m \in DOMAIN writes, NEW n \in DOMAIN writes, m < n, IsRecord(writes[m])
          PROVE  IsRecord(writes[n])
      BY <2>2, <2>3, <3>1
    <3> QED
      BY <1>1, <2>3, <3>1 DEF Fits
  <2>5. NewStatuses = <<>> /\ NewPlays # <<>> => IsRecord(writes[1])
    <3> SUFFICES ASSUME NewStatuses = <<>>, NewPlays # <<>> PROVE IsRecord(writes[1])
      OBVIOUS
    <3>1. Len(NewPlays) # 0
      BY <2>1, EmptySeq DEF Planned
    <3>2. 1 \in DOMAIN NewPlays /\ writes = NewPlays
      BY <2>2, <3>1
    <3> QED
      BY <2>1, <3>2, SinglePlays
  <2>6. Plan(writes, IF NewStatuses # <<>> THEN "checking"
                     ELSE IF NewPlays # <<>> THEN "rechecking" ELSE "sending")
    BY <2>1 DEF writes
  <2> QED
    BY <2>2, <2>4, <2>5, <2>6, GuardedPlan
<1>6. CASE (AnnictCheck \/ AnnictRecheck) /\ ~Fail
  <2>1. /\ todo # <<>> /\ UNCHANGED <<call, account, seen, todo>> /\ pc' = "sending" /\ moved' \subseteq moved
        /\ Head(todo) = todo[1] /\ 1 \in DOMAIN todo
    BY <1>6, PlannedTail DEF AnnictCheck, AnnictRecheck, Look, provider, Flow, HasNext
  <2>2. Fits(todo, call.service, call.feature) /\ Single(todo[1], "annict", call.feature)
    BY <1>1, <2>1 DEF Guarded, Fits
  <2>3. Untouched(todo[1], account, seen, moved')
    <3>1. CASE AnnictCheck
      <4>1. account[Target(todo[1])].status = seen[Target(todo[1])].status
        BY <1>6, <2>1, <3>1 DEF AnnictCheck
      <4> QED
        BY <2>2, <4>1, SingleWrites DEF Untouched
    <3>2. CASE AnnictRecheck
      <4>1. IsRecord(todo[1])
        BY <1>1, <2>1, <3>2 DEF AnnictRecheck, Guarded
      <4> QED
        BY <2>2, <4>1, RecordsUntouched
    <3> QED
      BY <1>6, <3>1, <3>2
  <2> QED
    BY <1>1, <2>1, <2>2, <2>3 DEF Guarded
<1>7. CASE AnnictVerify /\ ~Fail
  <2>1. pc = "verifying" /\ todo # <<>> /\ Planned(todo) /\ Head(todo) = todo[1]
    BY <1>7, PlannedTail DEF AnnictVerify, Flow, HasNext
  <2>2. /\ Fits(Tail(todo), call.service, call.feature)
        /\ IsRecord(todo[1]) => \A n \in DOMAIN Tail(todo) : IsRecord(Tail(todo)[n])
        /\ Len(todo) # 1 => Tail(todo) # <<>>
        /\ Len(todo) \in Nat /\ DOMAIN Tail(todo) = 1..(Len(todo) - 1) /\ Planned(Tail(todo))
    BY <1>1, <2>1, FitsTail, PlannedTail DEF Guarded
  <2>3. Tail(todo) # <<>> => Head(Tail(todo)) = Tail(todo)[1] /\ 1 \in DOMAIN Tail(todo)
    BY <2>2, PlannedTail
  <2>4. \E items :
          \/ IsRecord(todo[1]) /\ Advance(items, "sending", "final")
          \/ Advance(items, "checking", "done")
          \/ Tail(todo) # <<>> /\ IsRecord(Head(Tail(todo))) /\ Advance(items, "rechecking", "done")
    BY <1>7, <2>1 DEF AnnictVerify
  <2>5. CASE IsRecord(todo[1]) /\ pc' = "sending" /\ Tail(todo) # <<>> /\ UNCHANGED call /\ todo' = Tail(todo)
    <3>1. Single(Tail(todo)[1], "annict", call.feature) /\ IsRecord(Tail(todo)[1])
      BY <1>1, <2>2, <2>3, <2>5 DEF Fits
    <3>2. Untouched(Tail(todo)[1], account', seen', moved')
      BY <3>1, RecordsUntouched
    <3> QED
      BY <1>1, <2>2, <2>5, <3>2 DEF Guarded
  <2>6. /\ UNCHANGED call /\ todo' = Tail(todo)
        /\ \/ pc' \in {"done", "final", "checking"}
           \/ pc' = "rechecking" /\ IsRecord(Tail(todo)[1])
           \/ pc' = "sending" /\ IsRecord(todo[1]) /\ Tail(todo) # <<>>
    BY <2>2, <2>3, <2>4 DEF Advance
  <2> QED
    BY <1>1, <2>2, <2>5, <2>6 DEF Guarded
<1> QED
  BY <1>2, <1>3, <1>4, <1>5, <1>6, <1>7 DEF AnnictNext

LEMMA ShikimoriGuarded ==
  ASSUME Flow, Guarded, ShikimoriNext
  PROVE  Guarded'
<1>1. call.service = "shikimori" /\ call.service \in Rechecking /\ call \in Calls
  BY DEF Flow, ShikimoriNext, ShikimoriValidate, ShikimoriPlan, ShikimoriCheck, ShikimoriVerify, Rechecking
<1>2. CASE Fail
  BY <1>2, GuardedRest DEF Fail
<1>3. CASE ShikimoriValidate
  BY <1>2, <1>3, GuardedRest DEF ShikimoriValidate, Goto
<1>4. CASE ShikimoriPlan /\ ~Fail
  <2> DEFINE S == {i \in Requested : ~Holds(account[i], Want(i))}
             writes == Each(LAMBDA i : Put(i, Want(i)), S)
             f == [i \in S |-> Want(i)]
  <2>1. Plan(writes, IF writes = <<>> THEN "sending" ELSE "checking")
    BY <1>4 DEF ShikimoriPlan
  <2>2. S \in SUBSET Requested
    OBVIOUS
  <2> HIDE DEF S
  <2>3. writes = [n \in DOMAIN InOrder(S) |-> Put(InOrder(S)[n], Want(InOrder(S)[n]))]
    BY DEF Each
  <2> HIDE DEF writes
  <2>4. /\ DOMAIN writes = DOMAIN InOrder(S)
        /\ \A n \in DOMAIN writes : writes[n] = Put(InOrder(S)[n], Want(InOrder(S)[n])) /\ InOrder(S)[n] \in S
    BY <1>1, <2>2, <2>3, WantsPlanned
  <2>5. \A i \in S : f[i] = Want(i)
    OBVIOUS
  <2> HIDE DEF f
  <2>6. \A n \in DOMAIN writes : writes[n] = Put(InOrder(S)[n], f[InOrder(S)[n]]) /\ InOrder(S)[n] \in S
    BY <2>4, <2>5
  <2>7. Fits(writes, call.service, call.feature)
    <3>1. Fits(writes, "shikimori", call.feature)
      BY <2>4, <2>6, FitsPuts
    <3> QED
      BY <1>1, <3>1
  <2> QED
    BY <2>1, <2>7, GuardedPlan
<1>5. CASE ShikimoriCheck /\ ~Fail
  <2>1. /\ todo # <<>> /\ UNCHANGED <<call, account, seen, todo>> /\ pc' = "sending"
        /\ Head(todo) = todo[1] /\ 1 \in DOMAIN todo
        /\ account[Target(todo[1])] = seen[Target(todo[1])]
    BY <1>5, PlannedTail DEF ShikimoriCheck, Look, provider, Flow, HasNext
  <2>2. Fits(todo, call.service, call.feature) /\ Single(todo[1], call.service, call.feature)
    BY <1>1, <2>1 DEF Guarded, Fits
  <2>3. Untouched(todo[1], account, seen, moved')
    BY <2>1, <2>2, SingleWrites DEF Untouched
  <2> QED
    BY <1>1, <2>1, <2>2, <2>3 DEF Guarded
<1>6. CASE ShikimoriVerify /\ ~Fail
  <2>1. todo # <<>> /\ Planned(todo) /\ UNCHANGED call /\ todo' = Tail(todo) /\ pc' \in {"checking", "done"}
    BY <1>6 DEF ShikimoriVerify, Advance, Flow, HasNext
  <2>2. Fits(Tail(todo), call.service, call.feature)
    BY <1>1, <2>1, FitsTail DEF Guarded
  <2> QED
    BY <2>1, <2>2, GuardedRest
<1> QED
  BY <1>2, <1>3, <1>4, <1>5, <1>6 DEF ShikimoriNext

\* Behind the first of several there is another.
LEMMA NextOfMany ==
  ASSUME NEW n \in Nat \ {0}
  PROVE  n # 1 => 1 \in 1..(n - 1)
OBVIOUS

LEMMA PlexGuarded ==
  ASSUME Flow, Guarded, PlexNext
  PROVE  Guarded'
<1>1. call.service = "plex" /\ call.service \in Rechecking /\ call \in Calls /\ "plex" # "annict"
  BY DEF Flow, PlexNext, PlexValidate, PlexPlan, PlexRecheck, PlexVerify, Rechecking
<1>2. CASE Fail
  BY <1>2, GuardedRest DEF Fail
<1>3. CASE PlexValidate
  BY <1>2, <1>3, GuardedRest DEF PlexValidate, Goto
<1>4. CASE PlexPlan /\ ~Fail
  <2> DEFINE S == {i \in Requested : ~Holds(account[i], Want(i))}
             write(i) == IF call.feature = "ratings" THEN Put(i, Want(i)) ELSE Play(i)
             writes == Each(write, S)
  <2>1. Plan(writes, "rechecking") /\ ~AnyUnsupported
    BY <1>4 DEF PlexPlan, Flow
  <2>2. S \in SUBSET Requested
    OBVIOUS
  <2> HIDE DEF S
  <2>3. writes = [n \in DOMAIN InOrder(S) |-> write(InOrder(S)[n])]
    BY DEF Each
  <2>4. /\ \A n \in DOMAIN InOrder(S) : InOrder(S)[n] \in S
        /\ \A m, n \in DOMAIN InOrder(S) : InOrder(S)[m] = InOrder(S)[n] => m = n
    BY <1>1, <2>2, InOrderIsAll, ElementOfSeq
  <2>5. ASSUME NEW i \in S
        PROVE  DOMAIN write(i).rows = {i} /\ Single(write(i), "plex", call.feature)
    <3>1. CASE call.feature = "ratings"
      <4>1. Wants(call.service, call.feature, i) = PlexWants("ratings")
        BY <1>1, <3>1 DEF Wants, ListServices
      <4>2. Want(i) \in Wants(call.service, call.feature, i) /\ Want(i) # Unsupported
        BY <1>1, <2>1, <2>2, CallState
      <4>3. DOMAIN Want(i) \subseteq {"rating"}
        BY <4>1, <4>2 DEF PlexWants
      <4>4. write(i) = Put(i, Want(i))
        BY <3>1
      <4> QED
        BY <3>1, <4>3, <4>4, SinglePuts, WriteRows
    <3>2. CASE call.feature # "ratings"
      <4>1. write(i) = Play(i) /\ DOMAIN Play(i).rows = {i}
        BY <3>2 DEF Play
      <4> QED
        BY <4>1, SinglePlays
    <3> QED
      BY <3>1, <3>2
  <2>6. \A n \in DOMAIN InOrder(S) : writes[n] = write(InOrder(S)[n])
    BY <2>3
  <2>7. DOMAIN writes = DOMAIN InOrder(S)
    BY <2>3
  <2> HIDE DEF writes, write
  <2>8. \A n \in DOMAIN writes : Single(writes[n], "plex", call.feature)
    BY <2>4, <2>5, <2>6, <2>7
  <2>9. ASSUME NEW m \in DOMAIN writes, NEW n \in DOMAIN writes, m # n
        PROVE  DOMAIN writes[m].rows \cap DOMAIN writes[n].rows = {}
    <3>1. DOMAIN writes[m].rows = {InOrder(S)[m]} /\ DOMAIN writes[n].rows = {InOrder(S)[n]}
      BY <2>4, <2>5, <2>6, <2>7
    <3> QED
      BY <2>4, <2>7, <2>9, <3>1
  <2>10. Fits(writes, call.service, call.feature)
    BY <1>1, <2>8, <2>9 DEF Fits
  <2> QED
    BY <1>1, <2>1, <2>10, GuardedPlan
<1>5. CASE PlexRecheck /\ ~Fail
  <2>1. CASE Succeed(Requested)
    BY <2>1, GuardedRest DEF Succeed
  <2>2. CASE ~Succeed(Requested)
    <3>1. /\ todo # <<>> /\ UNCHANGED <<call, account, seen, todo>> /\ pc' = "sending"
          /\ \A i \in Requested : Unchanged(i)
          /\ Planned(todo) /\ 1 \in DOMAIN todo
      BY <1>5, <2>2, PlannedTail DEF PlexRecheck, Look, provider, Flow
    <3>2. Fits(todo, call.service, call.feature)
      BY <1>1 DEF Guarded
    <3>3. ASSUME NEW n \in DOMAIN todo PROVE Untouched(todo[n], account, seen, moved')
      <4>1. Single(todo[n], call.service, call.feature)
        BY <3>2 DEF Fits
      <4>2. DOMAIN todo[n].rows \subseteq Requested
        BY <3>1 DEF Planned, Proper
      <4>3. \A i \in DOMAIN todo[n].rows :
              DOMAIN todo[n].rows[i] \subseteq (IF call.feature = "ratings" THEN {"rating"} ELSE {})
        BY <1>1, <4>1, SingleWrites
      <4> QED
        BY <3>1, <4>2, <4>3 DEF Untouched, Unchanged
    <3> QED
      BY <1>1, <3>1, <3>2, <3>3 DEF Guarded
  <2> QED
    BY <2>1, <2>2
<1>6. CASE PlexVerify /\ ~Fail
  <2> DEFINE i == Target(Head(todo))
  <2>1. /\ todo # <<>> /\ Planned(todo) /\ pc = "verifying" /\ Advance({i}, "sending", "done")
    BY <1>6 DEF PlexVerify, Flow, HasNext
  <2>2. /\ 1 \in DOMAIN todo /\ Head(todo) = todo[1] /\ Len(todo) \in Nat
        /\ \A n \in DOMAIN Tail(todo) : Tail(todo)[n] = todo[n + 1] /\ n + 1 \in DOMAIN todo /\ n + 1 # 1
        /\ Planned(Tail(todo)) /\ DOMAIN Tail(todo) = 1..(Len(todo) - 1)
    BY <2>1, PlannedTail
  <2>3. /\ Fits(Tail(todo), call.service, call.feature)
        /\ \A n \in DOMAIN Tail(todo) : DOMAIN Tail(todo)[n].rows \cap DOMAIN todo[1].rows = {}
    BY <1>1, <2>1, FitsTail DEF Guarded
  <2>4. DOMAIN todo[1].rows = {i}
    <3>1. Single(todo[1], call.service, call.feature)
      BY <1>1, <2>2 DEF Guarded, Fits
    <3> QED
      BY <2>2, <3>1, SingleWrites
  <2>5. /\ UNCHANGED <<call, account, seen>> /\ todo' = Tail(todo) /\ moved' = moved \ {i}
        /\ pc' = "done" \/ (pc' = "sending" /\ Len(todo) # 1)
    BY <2>1 DEF Advance, provider
  <2>6. ASSUME NEW n \in DOMAIN Tail(todo) PROVE Untouched(Tail(todo)[n], account, seen, moved')
    <3>1. Untouched(Tail(todo)[n], account, seen, moved)
      BY <1>1, <2>1, <2>2 DEF Guarded
    <3>2. i \notin DOMAIN Tail(todo)[n].rows
      BY <2>3, <2>4
    <3> HIDE DEF i
    <3> QED
      BY <2>5, <3>1, <3>2 DEF Untouched
  <2>7. Len(todo) # 1 => 1 \in DOMAIN Tail(todo)
    <3>1. Len(todo) \in Nat \ {0} /\ DOMAIN Tail(todo) = 1..(Len(todo) - 1)
      BY <2>1, PlannedTail
    <3>2. Len(todo) # 1 => 1 \in 1..(Len(todo) - 1)
      BY <3>1, NextOfMany
    <3>3. DOMAIN Tail(todo) = 1..(Len(todo) - 1)
      BY <3>1, Zenon
    <3> QED
      BY <3>2, <3>3, Zenon
  <2> HIDE DEF i
  <2> QED
    BY <1>1, <2>3, <2>5, <2>6, <2>7 DEF Guarded
<1> QED
  BY <1>2, <1>3, <1>4, <1>5, <1>6 DEF PlexNext

\* What a handler does to the import; the call and the provider it leaves alone.
LEMMA HandlersFrame ==
  ASSUME \/ AnnictNext \/ ShikimoriNext \/ PlexNext \/ BangumiNext \/ KodiNext
         \/ MediaServerNext \/ SimklNext \/ TraktNext \/ ListNext
  PROVE  Acting /\ UNCHANGED <<call, account, wire, answer>>
<1> USE DEF Acting, Fail, Succeed, Goto, Plan, Look, Advance, provider, Doing, Answered
<1>1. CASE AnnictNext
  BY <1>1 DEF AnnictNext, AnnictValidate, AnnictResolve, AnnictWatchlist, AnnictWatched, AnnictCheck,
              AnnictRecheck, AnnictVerify, AnnictFinal
<1>2. CASE ShikimoriNext
  BY <1>2 DEF ShikimoriNext, ShikimoriValidate, ShikimoriPlan, ShikimoriCheck, ShikimoriVerify
<1>3. CASE PlexNext
  BY <1>3 DEF PlexNext, PlexValidate, PlexPlan, PlexRecheck, PlexVerify
<1>4. CASE BangumiNext
  BY <1>4 DEF BangumiNext, BangumiValidate, BangumiRatings, BangumiWatchlist, BangumiWatched, BangumiWritten
<1>5. CASE KodiNext
  BY <1>5 DEF KodiNext, KodiValidate, KodiRatings, KodiWatched, KodiWatchlist, KodiVerify
<1>6. CASE MediaServerNext
  BY <1>6 DEF MediaServerNext, JellyfinValidate, JellyfinRatings, JellyfinWatched, JellyfinWritten,
              EmbyValidate, EmbyWatched, EmbyVerify
<1>7. CASE SimklNext
  BY <1>7 DEF SimklNext, SimklLists, SimklValidate, SimklHistory, SimklWritten
<1>8. CASE TraktNext
  BY <1>8 DEF TraktNext, TraktBatch, TraktValidate, TraktReviews, TraktFollowing, TraktProfiles,
              TraktWritten, TraktFinal
<1>9. CASE ListNext
  BY <1>9 DEF ListNext, ListImport, AniListFollowing, ListWritten
<1> QED
  BY <1>1, <1>2, <1>3, <1>4, <1>5, <1>6, <1>7, <1>8, <1>9

LEMMA GuardedStep ==
  ASSUME Flow, Guarded, [Next]_vars
  PROVE  Guarded'
<1> SUFFICES ASSUME call.service \in Rechecking PROVE Guarded'
  <2>1. call' = call
    BY HandlersFrame DEF Next, Connector, Send, Reread, WriteFails, ReadFails, Arrive, Vanish, Edit, Again,
                         Fail, Goto, vars
  <2> QED
    BY <2>1 DEF Guarded
<1>1. Fits(todo, call.service, call.feature)
  BY DEF Guarded
<1>2. CASE AnnictNext \/ ShikimoriNext \/ PlexNext
  BY <1>2, AnnictGuarded, ShikimoriGuarded, PlexGuarded
<1>3. CASE BangumiNext \/ KodiNext \/ MediaServerNext \/ SimklNext \/ TraktNext \/ ListNext
  <2>1. call.service \notin Rechecking
    BY <1>3 DEF Rechecking, ListServices, Doing,
         BangumiNext, BangumiValidate, BangumiRatings, BangumiWatchlist, BangumiWatched, BangumiWritten,
         KodiNext, KodiValidate, KodiRatings, KodiWatched, KodiWatchlist, KodiVerify,
         MediaServerNext, JellyfinValidate, JellyfinRatings, JellyfinWatched, JellyfinWritten,
         EmbyValidate, EmbyWatched, EmbyVerify,
         SimklNext, SimklLists, SimklValidate, SimklHistory, SimklWritten,
         TraktNext, TraktBatch, TraktValidate, TraktReviews, TraktFollowing, TraktProfiles,
         TraktWritten, TraktFinal, ListNext, ListImport, AniListFollowing, ListWritten
  <2> QED
    BY <2>1
<1>4. CASE Send
  BY <1>4 DEF Send, Guarded
<1>5. CASE Reread
  BY <1>5 DEF Reread, Answered, Goto, provider, Guarded
<1>6. CASE WriteFails \/ ReadFails
  BY <1>1, <1>6, GuardedRest DEF WriteFails, ReadFails, Fail
<1>7. ASSUME NEW m \in wire, NEW done \in SUBSET DOMAIN m.write.rows, NEW derived \in 2..3,
             Arrive(m, done, derived)
      PROVE  Guarded'
  <2> DEFINE w == m.write
             titles == IF w.kind = "episodes" THEN {Parent[e] : e \in done} ELSE {}
  <2>1. /\ UNCHANGED <<call, pc, seen, todo>>
        /\ \A i \in Item : i \notin done /\ i \notin titles => account'[i] = account[i]
        /\ IF Current(m) THEN answer' # "none" /\ moved' = moved
           ELSE answer' = answer /\ moved' = moved \cup done \cup titles
    BY <1>7 DEF Arrive
  <2>2. \A n \in DOMAIN todo : DOMAIN todo[n].rows \subseteq Item
    BY CallState DEF Flow, Planned, Proper
  <2>3. HasNext(pc) => 1 \in DOMAIN todo /\ Head(todo) = todo[1]
    BY PlannedTail DEF Flow
  <2>4. CASE ~Current(m)
    <3>1. ASSUME NEW n \in DOMAIN todo, Untouched(todo[n], account, seen, moved)
          PROVE  Untouched(todo[n], account', seen, moved')
      <4>1. \A i \in DOMAIN todo[n].rows : account'[i] = account[i] \/ i \in moved'
        BY <2>1, <2>2, <2>4
      <4>2. moved \subseteq moved'
        BY <2>1, <2>4
      <4> QED
        BY <3>1, <4>1, <4>2, UntouchedKept
    <3> QED
      BY <2>1, <2>3, <2>4, <3>1 DEF Guarded, HasNext
  <2>5. CASE Current(m)
    <3>1. pc = "waiting" /\ answer = "none" /\ w = todo[1] /\ 1 \in DOMAIN todo
      BY <2>3, <2>5 DEF Flow, Current, HasNext
    <3>2. CASE call.service = "plex"
      <4>1. w.kind # "episodes"
        BY <1>1, <3>1, SingleWrites DEF Fits
      <4>2. ASSUME NEW n \in DOMAIN todo, n # 1 PROVE Untouched(todo[n], account', seen, moved')
        <5>1. Untouched(todo[n], account, seen, moved)
          BY <3>1, <3>2, <4>2 DEF Guarded
        <5>2. DOMAIN todo[n].rows \cap DOMAIN todo[1].rows = {}
          BY <1>1, <3>1, <3>2, <4>2 DEF Fits
        <5>3. \A i \in DOMAIN todo[n].rows : account'[i] = account[i]
          BY <2>1, <2>2, <3>1, <4>1, <5>2
        <5> QED
          BY <2>1, <2>5, <5>1, <5>3, UntouchedKept
      <4> QED
        BY <1>1, <2>1, <2>5, <3>1, <3>2, <4>2 DEF Guarded
    <3>3. CASE call.service # "plex"
      BY <1>1, <2>1, <2>5, <3>1, <3>3 DEF Guarded
    <3> QED
      BY <3>2, <3>3
  <2> QED
    BY <2>4, <2>5
<1>8. ASSUME NEW m \in wire, Vanish(m) PROVE Guarded'
  <2>1. /\ UNCHANGED <<call, pc, account, seen, todo, moved>>
        /\ answer' = answer \/ answer' \in {"refused", "lost", "ignored", "partial"}
    BY <1>8 DEF Vanish
  <2> QED
    BY <2>1 DEF Guarded
<1>9. ASSUME NEW j \in Item, NEW row, Edit(j, row) PROVE Guarded'
  <2>1. /\ UNCHANGED <<call, pc, seen, todo, answer>> /\ moved' = moved \cup {j}
        /\ account' = [account EXCEPT ![j] = row]
    BY <1>9 DEF Edit
  <2>2. ASSUME NEW n \in DOMAIN todo, Untouched(todo[n], account, seen, moved)
        PROVE  Untouched(todo[n], account', seen, moved')
    <3>1. \A i \in DOMAIN todo[n].rows : account'[i] = account[i] \/ i \in moved'
      BY <2>1
    <3> QED
      BY <2>1, <2>2, <3>1, UntouchedKept
  <2>3. HasNext(pc) => 1 \in DOMAIN todo
    BY PlannedTail DEF Flow
  <2> QED
    BY <2>1, <2>2, <2>3 DEF Guarded, HasNext
<1>10. CASE Again
  <2>1. call' = call /\ pc' = "validating" /\ todo' = <<>>
    BY <1>10 DEF Again
  <2>2. Fits(<<>>, call.service, call.feature)
    BY DEF Fits
  <2> QED
    BY <2>1, <2>2, GuardedRest
<1>11. CASE UNCHANGED vars
  BY <1>11 DEF vars, Guarded
<1> QED
  BY <1>2, <1>3, <1>4, <1>5, <1>6, <1>7, <1>8, <1>9, <1>10, <1>11 DEF Next, Connector

\* A connector that rereads overwrites only what it planned from, or what changed after that.
THEOREM OthersChangesAreKept == Spec => OthersChangesSurvive
<1> DEFINE Kept ==
      \A m \in wire \ wire' :
        call.service \in Rechecking /\ Current(m) /\ answer' = "applied" =>
          \A i \in DOMAIN m.write.rows \ moved :
            \A f \in DOMAIN m.write.rows[i] : account[i][f] = seen[i][f]
<1>1. Init => Flow /\ Guarded
  <2>1. Init => pc = "validating" /\ todo = <<>>
    BY DEF Init
  <2>2. \A service, feature : Fits(<<>>, service, feature)
    BY DEF Fits
  <2> QED
    BY <2>1, <2>2, FlowInit DEF Guarded
<1>2. Flow /\ Guarded /\ [Next]_vars => Flow' /\ Guarded'
  BY ImportStep, GuardedStep
<1>3. Flow /\ Guarded => Kept
  <2> SUFFICES ASSUME Flow, Guarded, NEW m \in wire, call.service \in Rechecking, Current(m)
               PROVE  \A i \in DOMAIN m.write.rows \ moved :
                        \A f \in DOMAIN m.write.rows[i] : account[i][f] = seen[i][f]
    OBVIOUS
  <2>1. pc = "waiting" /\ answer = "none" /\ m.write = Head(todo) /\ todo # <<>>
    BY DEF Flow, Current, HasNext
  <2>2. Head(todo) = todo[1]
    BY <2>1, PlannedTail DEF Flow
  <2>3. Untouched(todo[1], account, seen, moved)
    BY <2>1 DEF Guarded
  <2> QED
    BY <2>1, <2>2, <2>3 DEF Untouched
<1> QED
  BY <1>1, <1>2, <1>3, PTL DEF Spec, OthersChangesSurvive

-----------------------------------------------------------------------------
(***************************************************************************)
(* Success means what it says.  What no look at the account shows at once  *)
(* is carried along: a planned write makes its item as the call wants it,  *)
(* the plan covers every item that is not, and what an answer tells of the *)
(* write is so; the other program's changes are among what it moved.       *)
(***************************************************************************)

\* What the call c is about, and all that it wants of an item.
Asked(c) == {e.item : e \in Range(c.entries)}
AllHold(c, row, i) == \A e \in Range(c.entries) : e.item = i => Holds(row, e.want)

\* The item is as the call wants it, or others changed it since it was last read.
SettledAt(c, current, others, i) == i \in others \/ AllHold(c, current[i], i)

\* The write has been carried out on the row.
Done(row, how, fields) ==
  CASE how = "play" -> row.plays >= 1
    [] how = "toggle" -> row.status # 0
    [] OTHER -> \A f \in DOMAIN fields \cap DOMAIN row : row[f] = fields[f]

\* The accounts whose items are on a list or not, and have no other status.
Binary(c) == c.feature = "following" \/ c.service = "kodi"
Statuses(c) == IF Binary(c) THEN {0, 1} ELSE Nat

\* A write after which its items are as the call wants them; Annict's records are counted at
\* the end, and Simkl's rewatches are additional.
Serves(c, w) ==
  \/ w.kind = "play" /\ c.service \in {"annict", "simkl"}
  \/ \A i \in DOMAIN w.rows : \A row \in RowSet :
       row.status \in Statuses(c) /\ Done(row, w.kind, w.rows[i]) => AllHold(c, row, i)

Tame(c, w) ==
  /\ w.kind = "toggle" => c.service = "anilist" /\ c.feature = "following"
  /\ Binary(c) => /\ w.kind # "episodes"
                  /\ \A i \in DOMAIN w.rows : "status" \in DOMAIN w.rows[i] => w.rows[i].status \in {0, 1}

\* The connectors that look up every write that was answered.
Verifying == {"annict", "shikimori", "plex", "kodi", "emby"}

\* A planned write, and a plan made from what the account was before.
Apt(c, w, before) ==
  /\ Serves(c, w) /\ Tame(c, w)
  /\ c.service \in Verifying => \E i : DOMAIN w.rows = {i}
  /\ IsRecord(w) => c.service \notin {"shikimori", "kodi", "emby"}
  /\ IsRecord(w) /\ c.service = "annict" => DOMAIN w.rows \subseteq Episode
  /\ c.service = "trakt" => \A i \in DOMAIN w.rows : ~AllHold(c, before[i], i)

Orderly(c, s, before) ==
  \A n \in DOMAIN s :
    /\ Apt(c, s[n], before)
    /\ s[n].kind = "episodes" =>
         \A e \in DOMAIN s[n].rows : Parent[e] \in Asked(c) =>
           c.service = "bangumi" /\ \E k \in DOMAIN s : n < k /\ Parent[e] \in DOMAIN s[k].rows

\* The plan still has a write of the item, or a check of it at the end.
Remains(c, s, i) == \E n \in DOMAIN s : i \in DOMAIN s[n].rows /\ (c.service = "simkl" => s[n].kind # "play")

Ahead(c, s, label, before, i) ==
  IF c.service = "trakt" THEN ~AllHold(c, before[i], i)
  ELSE \/ Remains(c, s, i)
       \/ /\ c.service = "annict" /\ i \in Episode
          /\ label = "final" \/ \E n \in DOMAIN s : IsRecord(s[n])

\* Once the entries are checked.
Validated ==
  pc \notin {"validating", "done"} =>
    /\ call.service = "annict" => ~AnnictRefuses
    /\ call.service = "bangumi" => ~BangumiRefuses
    /\ call.service \in {"shikimori", "trakt"} => Agreeing(call)

\* What an answer tells of the write under way.
Told ==
  pc = "waiting" =>
    /\ answer = "applied" => \A i \in DOMAIN todo[1].rows :
         i \in moved \/ Done(account[i], todo[1].kind, todo[1].rows[i])
    /\ answer = "ignored" => ReadsBack \/ todo[1].kind = "toggle"
    /\ answer = "partial" => TellsNotFound

\* The rows of the account, and the writes that may still reach it.
Statused ==
  /\ \A i \in Item : account[i].status \in Statuses(call)
  /\ \A m \in wire : Tame(call, m.write)

Agreed == pc \in Writing /\ call.service # "simkl" => Agreeing(call)

\* Every requested item is as the call wants it, moved by others, or still to be dealt with.
Covered ==
  /\ pc = "final" => todo = <<>>
  /\ pc = "rechecking" /\ call.service = "plex" =>
       \A i \in Requested : Remains(call, todo, i) \/ (seen[i] \in RowSet /\ AllHold(call, seen[i], i))
  /\ pc \in Writing => \A i \in Requested :
       Ahead(call, todo, pc, seen, i) \/ SettledAt(call, account, moved, i)

Successful ==
  outcome = "ok" /\ ~call.dryRun => \A i \in Requested : SettledAt(call, account, moved, i)

Sound ==
  ~Unread =>
    /\ Statused /\ Orderly(call, todo, seen)
    /\ Validated /\ Told /\ Agreed /\ Covered /\ Successful

LEMMA SoundFrame ==
  UNCHANGED call => /\ Requested' = Requested /\ Requested = Asked(call)
                    /\ (Unread' <=> Unread) /\ (ReadsBack' <=> ReadsBack)
                    /\ (TellsNotFound' <=> TellsNotFound)
                    /\ (AnnictRefuses' <=> AnnictRefuses) /\ (BangumiRefuses' <=> BangumiRefuses)
BY DEF Requested, Asked, Entries, Unread, ReadsBack, TellsNotFound, AnnictRefuses, BangumiRefuses,
       AnyUnsupported, Repeated, Conflicting, Wanted

\* What a handler leaves of the import, when it does not send.
LEMMA HandlerSound ==
  ASSUME Sound, UNCHANGED <<call, account, wire, answer>>, pc' # "waiting",
         ~Unread => /\ Orderly(call, todo', seen')
                    /\ Validated' /\ Agreed' /\ Covered' /\ Successful'
  PROVE  Sound'
<1>1. Unread' <=> Unread
  BY SoundFrame
<1>2. SUFFICES ASSUME ~Unread
               PROVE  Statused' /\ Orderly(call, todo, seen)' /\ Validated' /\ Told' /\ Agreed' /\ Covered' /\ Successful'
  BY <1>1 DEF Sound
<1>3. Statused'
  BY <1>2 DEF Sound, Statused
<1>4. Told'
  BY DEF Told
<1>5. Orderly(call, todo, seen)'
  BY <1>2
<1> QED
  BY <1>2, <1>3, <1>4, <1>5

LEMMA FailSound ==
  ASSUME Sound, Fail
  PROVE  Sound'
<1>1. /\ pc' = "done" /\ outcome' = "failed"
      /\ UNCHANGED <<call, account, wire, answer, seen, todo, moved>>
  BY DEF Fail, provider
<1> QED
  BY <1>1, HandlerSound DEF Sound, Validated, Agreed, Covered, Successful, Writing

\* The entries are checked, or the items looked up.
LEMMA ValidSound ==
  ASSUME Flow, Sound, NEW label \in {"resolving", "reading"}, Goto(label), pc \in {"validating", "resolving"},
         pc = "validating" => /\ call.service = "annict" => ~AnnictRefuses
                              /\ call.service = "bangumi" => ~BangumiRefuses
                              /\ call.service \in {"shikimori", "trakt"} => Agreeing(call)
  PROVE  Sound'
<1>1. /\ pc' = label /\ outcome' = outcome /\ outcome = "running"
      /\ UNCHANGED <<call, account, wire, answer, seen, todo, moved>>
  BY DEF Goto, provider, Flow
<1>2. ~Unread => Validated'
  BY <1>1, SoundFrame DEF Sound, Validated
<1> QED
  BY <1>1, <1>2, HandlerSound DEF Sound, Agreed, Covered, Successful, Writing

\* The connector goes on to send or to verify what it planned.
LEMMA GoingSound ==
  ASSUME Flow, Sound, NEW label \in {"sending", "verifying"}, Goto(label), pc \in Writing \ {"final"}
  PROVE  Sound'
<1>1. /\ pc' = label /\ outcome' = outcome /\ outcome = "running" /\ pc' \in Writing
      /\ UNCHANGED <<call, account, wire, answer, seen, todo, moved>>
  BY DEF Goto, provider, Flow, Writing
<1>2. ~Unread => Validated'
  BY <1>1, SoundFrame DEF Sound, Validated, Writing
<1>3. ~Unread => Covered'
  BY <1>1, SoundFrame DEF Sound, Covered, Ahead, Writing
<1> QED
  BY <1>1, <1>2, <1>3, HandlerSound DEF Sound, Agreed, Successful, Writing

\* What it read once more is as the call wants it, or it is still to be written.
LEMMA LookSound ==
  ASSUME Flow, Sound, NEW items, Look(items, "sending"), pc \in Writing \ {"final"},
         ~Unread => \A i \in Requested \cap items :
           Ahead(call, todo, "sending", seen, i) \/ AllHold(call, account[i], i)
  PROVE  Sound'
<1>1. /\ pc' = "sending" /\ outcome' = outcome /\ outcome = "running" /\ moved' = moved \ items
      /\ UNCHANGED <<call, account, wire, answer, seen, todo>>
  BY DEF Look, provider, Flow, Writing
<1>2. ~Unread => Validated'
  BY <1>1, SoundFrame DEF Sound, Validated, Writing
<1>3. ~Unread => Covered'
  BY <1>1, SoundFrame DEF Sound, Covered, Ahead, SettledAt, Writing
<1> QED
  BY <1>1, <1>2, <1>3, HandlerSound DEF Sound, Agreed, Successful, Writing

LEMMA SucceedSound ==
  ASSUME Sound, NEW items, Succeed(items),
         ~Unread /\ ~call.dryRun => \A i \in Requested :
           AllHold(call, account[i], i) \/ (i \in moved /\ i \notin items)
  PROVE  Sound'
<1>1. /\ pc' = "done" /\ outcome' = "ok" /\ moved' = moved \ items
      /\ UNCHANGED <<call, account, wire, answer, seen, todo>>
  BY DEF Succeed, provider
<1>2. ~Unread => Successful'
  BY <1>1, SoundFrame DEF Successful, SettledAt
<1> QED
  BY <1>1, <1>2, HandlerSound DEF Sound, Validated, Agreed, Covered, Writing

\* The account is read: what the plan leaves out is as the call wants it.
LEMMA PlanSound ==
  ASSUME Flow, Sound, pc \in {"validating", "reading"}, NEW writes, NEW label, Plan(writes, label),
         label \in {"checking", "rechecking", "sending"},
         pc = "validating" => call.service \notin {"annict", "bangumi", "shikimori", "trakt"} \/ Unread,
         ~Unread => /\ Orderly(call, writes, account)
                    /\ call.service # "simkl" => Agreeing(call)
                    /\ \A i \in Requested : Remains(call, writes, i) \/ AllHold(call, account[i], i)
  PROVE  Sound'
<1>1. /\ todo' = writes /\ seen' = account /\ moved' = {} /\ outcome = "running"
      /\ UNCHANGED <<call, account, wire, answer>>
      /\ \/ pc' = "done" /\ outcome' = "ok" /\ (call.dryRun \/ writes = <<>>)
         \/ pc' = label /\ outcome' = outcome
  BY DEF Plan, provider, counters, Flow
<1>2. ~Unread => Validated' /\ Agreed'
  BY <1>1, SoundFrame DEF Sound, Validated, Agreed, Writing
<1>3. ~Unread => Covered'
  <2>1. \A i \in Requested : account[i] \in RowSet
    BY CallState DEF Flow
  <2> QED
    BY <1>1, <2>1, SoundFrame DEF Covered, Ahead, SettledAt, Writing
<1>4. ASSUME ~Unread, writes = <<>> PROVE \A i \in Requested : AllHold(call, account[i], i)
  <2>1. DOMAIN writes = {}
    BY <1>4
  <2> QED
    BY <1>4, <2>1 DEF Remains
<1>5. ~Unread => Successful'
  BY <1>1, <1>4, SoundFrame DEF Successful, SettledAt
<1> QED
  BY <1>1, <1>2, <1>3, <1>5, HandlerSound

\* The items of a write that is done with are as the call wants them, or others changed them.
LEMMA AdvanceSound ==
  ASSUME Flow, Sound, NEW items, NEW next, NEW last, Advance(items, next, last),
         pc \in Writing, todo # <<>>, next \in {"sending", "checking", "rechecking"},
         last = "done" \/ (last = "final" /\ call.service \in {"trakt", "annict"}),
         next = "rechecking" => call.service = "annict",
         ~Unread =>
           /\ \A i \in items : AllHold(call, account[i], i)
           /\ IF call.service = "trakt" THEN last = "final"
              ELSE IF call.service = "annict" /\ IsRecord(todo[1])
              THEN last = "final" /\ \A n \in DOMAIN Tail(todo) : IsRecord(Tail(todo)[n])
              ELSE \A i \in DOMAIN todo[1].rows :
                     i \in moved \/ AllHold(call, account[i], i) \/ (call.service = "simkl" /\ todo[1].kind = "play")
  PROVE  Sound'
<1>1. /\ todo' = Tail(todo) /\ moved' = moved \ items /\ outcome = "running"
      /\ UNCHANGED <<call, account, wire, answer, seen>>
      /\ \/ Len(todo) = 1 /\ last = "done" /\ pc' = "done" /\ outcome' = "ok"
         \/ Len(todo) = 1 /\ last = "final" /\ pc' = "final" /\ outcome' = outcome
         \/ Len(todo) # 1 /\ pc' = next /\ outcome' = outcome
  BY DEF Advance, provider, counters, Flow, Writing
<1>2. /\ 1 \in DOMAIN todo /\ Len(todo) \in Nat \ {0} /\ DOMAIN todo = 1..Len(todo)
      /\ DOMAIN Tail(todo) = 1..(Len(todo) - 1) /\ Planned(Tail(todo))
      /\ \A n \in DOMAIN Tail(todo) : Tail(todo)[n] = todo[n + 1] /\ n + 1 \in DOMAIN todo
  BY PlannedTail DEF Flow
<1>3. SUFFICES ASSUME ~Unread
               PROVE  /\ Orderly(call, todo', seen')
                      /\ Validated' /\ Agreed' /\ Covered' /\ Successful'
  BY <1>1, HandlerSound
<1>4. \A n \in DOMAIN todo : n # 1 => n - 1 \in DOMAIN Tail(todo) /\ Tail(todo)[n - 1] = todo[n]
  BY <1>2
<1>5. Orderly(call, Tail(todo), seen)
  <2>1. Orderly(call, todo, seen)
    BY <1>3 DEF Sound
  <2>2. ASSUME NEW n \in DOMAIN Tail(todo)
        PROVE  /\ n + 1 \in DOMAIN todo /\ Tail(todo)[n] = todo[n + 1]
               /\ \A k \in DOMAIN todo : n + 1 < k =>
                    n < k - 1 /\ k - 1 \in DOMAIN Tail(todo) /\ Tail(todo)[k - 1] = todo[k]
    BY <1>2
  <2>3. ASSUME NEW n \in DOMAIN Tail(todo), Tail(todo)[n].kind = "episodes",
               NEW e \in DOMAIN Tail(todo)[n].rows, Parent[e] \in Asked(call)
        PROVE  /\ call.service = "bangumi"
               /\ \E k \in DOMAIN Tail(todo) : n < k /\ Parent[e] \in DOMAIN Tail(todo)[k].rows
    <3>1. PICK k \in DOMAIN todo : n + 1 < k /\ Parent[e] \in DOMAIN todo[k].rows /\ call.service = "bangumi"
      BY <2>1, <2>2, <2>3 DEF Orderly
    <3> QED
      BY <2>2, <3>1
  <2>4. \A n \in DOMAIN Tail(todo) : Apt(call, Tail(todo)[n], seen)
    BY <2>1, <2>2 DEF Orderly
  <2> QED
    BY <2>3, <2>4 DEF Orderly
<1>6. Validated' /\ Agreed'
  BY <1>1, <1>3, SoundFrame DEF Sound, Validated, Agreed, Writing
<1>7. Len(todo) = 1 => Tail(todo) = <<>> /\ DOMAIN Tail(todo) = {}
  <2>1. Len(Tail(todo)) = Len(todo) - 1
    BY PlannedTail DEF Flow
  <2> QED
    BY <1>2, <2>1, EmptySeq DEF Planned
<1>8. ASSUME NEW i \in Requested
      PROVE  Ahead(call, todo', pc', seen', i) \/ SettledAt(call, account, moved', i)
  <2>1. pc # "final" /\ (Ahead(call, todo, pc, seen, i) \/ SettledAt(call, account, moved, i))
    BY <1>3 DEF Sound, Covered
  <2>2. CASE SettledAt(call, account, moved, i)
    BY <1>1, <1>3, <2>2 DEF SettledAt
  <2>3. CASE call.service = "trakt"
    BY <1>1, <2>1, <2>2, <2>3 DEF Ahead
  <2>4. CASE call.service # "trakt" /\ Remains(call, todo, i)
    <3>1. PICK n \in DOMAIN todo : i \in DOMAIN todo[n].rows /\ (call.service = "simkl" => todo[n].kind # "play")
      BY <2>4 DEF Remains
    <3>2. CASE n # 1
      BY <1>1, <1>4, <2>4, <3>1, <3>2 DEF Remains, Ahead
    <3>3. CASE n = 1 /\ ~(call.service = "annict" /\ IsRecord(todo[1]))
      BY <1>1, <1>3, <2>4, <3>1, <3>3 DEF SettledAt
    <3>4. CASE n = 1 /\ call.service = "annict" /\ IsRecord(todo[1])
      <4>1. i \in Episode
        BY <1>2, <1>3, <3>1, <3>4 DEF Sound, Orderly, Apt
      <4>2. last = "final" /\ \A k \in DOMAIN Tail(todo) : IsRecord(Tail(todo)[k])
        BY <1>3, <3>4
      <4>3. Len(todo) # 1 => 1 \in DOMAIN Tail(todo)
        BY <1>2, NextOfMany
      <4> QED
        BY <1>1, <2>4, <3>4, <4>1, <4>2, <4>3 DEF Ahead
    <3> QED
      BY <3>2, <3>3, <3>4
  <2>5. CASE call.service = "annict" /\ i \in Episode /\ \E n \in DOMAIN todo : IsRecord(todo[n])
    <3>1. PICK n \in DOMAIN todo : IsRecord(todo[n])
      BY <2>5
    <3>2. CASE n # 1
      BY <1>1, <1>4, <2>5, <3>1, <3>2 DEF Ahead
    <3>3. CASE n = 1
      <4>1. last = "final" /\ \A k \in DOMAIN Tail(todo) : IsRecord(Tail(todo)[k])
        BY <1>3, <2>5, <3>1, <3>3
      <4>2. Len(todo) # 1 => 1 \in DOMAIN Tail(todo)
        BY <1>2, NextOfMany
      <4> QED
        BY <1>1, <2>5, <4>1, <4>2 DEF Ahead
    <3> QED
      BY <3>2, <3>3
  <2> QED
    BY <2>1, <2>2, <2>3, <2>4, <2>5 DEF Ahead
<1>9. Covered'
  <2>1. pc' = "final" => todo' = <<>>
    BY <1>1, <1>7
  <2>2. ~(pc' = "rechecking" /\ call.service = "plex")
    BY <1>1
  <2>3. \A i \in Requested : Ahead(call, todo', pc', seen', i) \/ SettledAt(call, account', moved', i)
    BY <1>1, <1>8
  <2> QED
    BY <1>1, <2>1, <2>2, <2>3, SoundFrame DEF Covered
<1>10. Successful'
  <2>1. ASSUME Len(todo) = 1, last = "done", pc' = "done", NEW i \in Requested
        PROVE  SettledAt(call, account, moved', i)
    BY <1>1, <1>3, <1>7, <1>8, <2>1 DEF Ahead, Remains
  <2> QED
    BY <1>1, <2>1, SoundFrame DEF Successful
<1> QED
  BY <1>1, <1>5, <1>6, <1>9, <1>10

\* What a write does to the row of one of its items.
LEMMA EffectDone ==
  ASSUME NEW c, NEW w, Tame(c, w), NEW i \in DOMAIN w.rows, NEW row \in RowSet, row.status \in Statuses(c),
         \A f \in DOMAIN w.rows[i] \cap DOMAIN Absent : w.rows[i][f] \in Nat
  PROVE  /\ Effect(row, w.kind, w.rows[i]).status \in Statuses(c)
         /\ w.kind # "toggle" => Done(Effect(row, w.kind, w.rows[i]), w.kind, w.rows[i])
<1> DEFINE new == Effect(row, w.kind, w.rows[i])
<1>1. DOMAIN row = {"status", "plays", "rating", "rest"} /\ DOMAIN Absent = DOMAIN row /\ row.plays \in Nat
  BY DEF RowSet, Absent
<1>2. CASE w.kind = "play"
  <2>1. new = [row EXCEPT !.plays = @ + 1]
    BY <1>2 DEF Effect
  <2>2. new.status = row.status /\ new.plays = row.plays + 1
    BY <1>1, <2>1
  <2>3. new.plays >= 1
    BY <1>1, <2>2
  <2> HIDE DEF new
  <2>4. new.status \in Statuses(c) /\ Done(new, w.kind, w.rows[i])
    BY <1>2, <2>2, <2>3 DEF Done
  <2> QED
    BY <2>4 DEF new
<1>3. CASE w.kind = "toggle"
  <2>1. Binary(c) /\ row.status \in {0, 1}
    BY <1>3 DEF Tame, Binary, Statuses
  <2>2. new = [row EXCEPT !.status = 1 - @]
    BY <1>3 DEF Effect
  <2>3. new.status = 1 - row.status
    BY <1>1, <2>2
  <2>4. new.status \in {0, 1}
    BY <2>1, <2>3
  <2> HIDE DEF new
  <2>5. new.status \in Statuses(c)
    BY <2>1, <2>4 DEF Statuses
  <2> QED
    BY <1>3, <2>5 DEF new
<1>4. CASE w.kind \notin {"play", "toggle"}
  <2>1. new = [f \in DOMAIN row |-> IF f \in DOMAIN w.rows[i] THEN w.rows[i][f] ELSE row[f]]
    BY <1>4 DEF Effect
  <2> HIDE DEF new
  <2>2. /\ DOMAIN new = DOMAIN row
        /\ \A f \in DOMAIN row : new[f] = IF f \in DOMAIN w.rows[i] THEN w.rows[i][f] ELSE row[f]
    BY <2>1
  <2>3. Done(new, w.kind, w.rows[i])
    BY <1>4, <2>2 DEF Done
  <2>4. "status" \in DOMAIN w.rows[i] => w.rows[i].status \in Statuses(c)
    BY <1>1 DEF Tame, Statuses
  <2>5. new.status \in Statuses(c)
    BY <1>1, <2>2, <2>4
  <2> QED
    BY <2>3, <2>5 DEF new
<1> QED
  BY <1>2, <1>3, <1>4

\* A play more takes nothing from what Simkl's entries want.
LEMMA ViewsStay ==
  ASSUME call \in Calls, call.service = "simkl", call.feature = "watched", ~AnyUnsupported,
         NEW i, NEW row \in RowSet, AllHold(call, row, i), NEW fields
  PROVE  AllHold(call, Effect(row, "play", fields), i)
<1> DEFINE new == Effect(row, "play", fields)
<1>1. DOMAIN row = {"status", "plays", "rating", "rest"}
  BY DEF RowSet
<1>2. new = [row EXCEPT !.plays = @ + 1]
  BY DEF Effect
<1> HIDE DEF new
<1>3. DOMAIN new = DOMAIN row /\ \A f \in DOMAIN row : f # "plays" => new[f] = row[f]
  BY <1>2
<1>4. ASSUME NEW e \in Range(call.entries) PROVE "plays" \notin DOMAIN e.want /\ "atLeast" \notin DOMAIN e.want
  <2>1. PICK n \in DOMAIN Entries : e = Entries[n]
    BY DEF Range, Entries
  <2>2. e.want \in SimklWants("watched")
    <3>1. Wants(call.service, call.feature, e.item) = SimklWants("watched")
      BY DEF Wants, ListServices
    <3> QED
      BY <2>1, <3>1, CallState
  <2>3. e.want # Unsupported
    BY DEF AnyUnsupported, Entries
  <2>4. e.want \in [status : {3}, at : {1, 2}] \/ e.want \in [rewatch : {TRUE}, at : {1, 2}]
    BY <2>2, <2>3 DEF SimklWants
  <2> QED
    BY <2>4
<1>5. AllHold(call, new, i)
  BY <1>3, <1>4 DEF AllHold, Holds
<1> QED
  BY <1>5 DEF new

LEMMA ReadFeatures ==
  ASSUME call \in Calls, ~Unread
  PROVE  /\ call.service = "simkl" => call.feature = "watched"
         /\ call.service = "trakt" => call.feature \in {"reviews", "following"}
         /\ call.service # "simkl" => ~TellsNotFound
<1>1. call.feature \in Imports(call.service)
  BY CallsAssumption
<1>2. call.service = "simkl" => call.feature \in {"ratings", "watched", "watchlist"}
  BY <1>1 DEF Imports
<1>3. call.service = "trakt" => call.feature \in {"ratings", "watched", "watchlist", "reviews", "following"}
  BY <1>1 DEF Imports
<1> QED
  BY <1>2, <1>3 DEF Unread, TellsNotFound

\* What others do is added to what they moved.
LEMMA MovedSound ==
  ASSUME Flow, Sound, NEW more, moved' = moved \cup more,
         \A i \in Item : account'[i] = account[i] \/ i \in more,
         UNCHANGED <<call, pc, seen, todo, answer, outcome>>,
         ~Unread => Statused'
  PROVE  Sound'
<1>1. SUFFICES ASSUME ~Unread
               PROVE  Statused' /\ Orderly(call, todo, seen)' /\ Validated' /\ Told' /\ Agreed' /\ Covered' /\ Successful'
  BY SoundFrame DEF Sound
<1>2. Requested \subseteq Item
  BY CallState DEF Flow
<1>3. ASSUME NEW i \in Requested, SettledAt(call, account, moved, i)
      PROVE  SettledAt(call, account', moved', i)
  BY <1>2, <1>3 DEF SettledAt
<1>4. Orderly(call, todo, seen)' /\ Validated' /\ Agreed'
  BY <1>1, SoundFrame DEF Sound, Validated, Agreed
<1>5. Told'
  <2>1. pc = "waiting" => DOMAIN todo[1].rows \subseteq Requested
    <3>1. pc = "waiting" => todo # <<>> /\ 1 \in DOMAIN todo
      BY PlannedTail DEF Flow, HasNext
    <3> QED
      BY <3>1 DEF Flow, Planned, Proper
  <2> QED
    BY <1>1, <1>2, <2>1, SoundFrame DEF Sound, Told
<1>6. Covered' /\ Successful'
  BY <1>1, <1>3, SoundFrame DEF Sound, Covered, Successful
<1> QED
  BY <1>1, <1>4, <1>5, <1>6

LEMMA ArriveSound ==
  ASSUME Flow, Sound, NEW m \in wire, NEW done \in SUBSET DOMAIN m.write.rows, NEW derived \in 2..3,
         Arrive(m, done, derived)
  PROVE  Sound'
<1> DEFINE w == m.write
           titles == IF w.kind = "episodes" THEN {Parent[e] : e \in done} ELSE {}
<1>1. /\ done = DOMAIN w.rows \/ TellsNotFound
      /\ UNCHANGED <<call, pc, seen, todo, outcome>> /\ wire' = wire \ {m}
      /\ account' = [i \in Item |->
           IF i \in done THEN Effect(account[i], w.kind, w.rows[i])
           ELSE IF i \in titles THEN [account[i] EXCEPT !.status = derived] ELSE account[i]]
  BY DEF Arrive
<1>2. call \in Calls /\ account \in [Item -> RowSet] /\ Proper(w) /\ Requested \subseteq Item
  BY CallState DEF Flow
<1>3. SUFFICES ASSUME ~Unread PROVE Sound'
  BY <1>1, SoundFrame DEF Sound
<1>4. Tame(call, w) /\ Statused /\ Orderly(call, todo, seen) /\ Covered
  BY <1>3 DEF Sound, Statused
<1>5. ASSUME NEW i \in done
      PROVE  /\ i \in Item /\ account'[i] = Effect(account[i], w.kind, w.rows[i])
             /\ account'[i].status \in Statuses(call)
             /\ w.kind # "toggle" => Done(account'[i], w.kind, w.rows[i])
  <2>1. i \in Item /\ account[i] \in RowSet /\ i \in DOMAIN w.rows
    BY <1>2 DEF Proper
  <2>2. account[i].status \in Statuses(call)
    BY <1>4, <2>1 DEF Statused
  <2>3. \A f \in DOMAIN w.rows[i] \cap DOMAIN Absent : w.rows[i][f] \in Nat
    BY <1>2, <2>1 DEF Proper
  <2>4. account'[i] = Effect(account[i], w.kind, w.rows[i])
    BY <1>1, <2>1
  <2> QED
    BY <1>4, <2>1, <2>2, <2>3, <2>4, EffectDone
<1>6. Statused'
  <2>1. ASSUME NEW i \in Item PROVE account'[i].status \in Statuses(call)
    <3>1. CASE i \in done
      BY <1>5, <3>1
    <3>2. CASE i \notin done /\ i \in titles
      <4>1. account'[i] = [account[i] EXCEPT !.status = derived] /\ account[i] \in RowSet
        BY <1>1, <1>2, <3>2
      <4>2. account'[i].status = derived
        BY <4>1 DEF RowSet
      <4>3. ~Binary(call)
        BY <1>4, <3>2 DEF Tame
      <4> QED
        BY <4>2, <4>3 DEF Statuses
    <3>3. CASE i \notin done /\ i \notin titles
      BY <1>1, <1>4, <3>3 DEF Statused
    <3> QED
      BY <3>1, <3>2, <3>3
  <2> QED
    BY <1>1, <1>4, <2>1 DEF Statused
<1>7. CASE ~Current(m)
  <2>1. answer' = answer /\ moved' = moved \cup (done \cup titles)
    BY <1>7 DEF Arrive
  <2>2. \A i \in Item : account'[i] = account[i] \/ i \in done \cup titles
    BY <1>1
  <2> HIDE DEF titles, w
  <2> QED
    BY <1>1, <1>6, <2>1, <2>2, MovedSound
<1>8. CASE Current(m)
  <2>1. /\ pc = "waiting" /\ todo # <<>> /\ outcome = "running" /\ w = todo[1] /\ 1 \in DOMAIN todo
    <3>1. pc = "waiting" /\ w = Head(todo) /\ todo # <<>> /\ outcome = "running"
      BY <1>8 DEF Flow, Current, HasNext
    <3> QED
      BY <3>1, PlannedTail DEF Flow
  <2>2. /\ moved' = moved
        /\ answer' \in {IF done # DOMAIN w.rows THEN "partial"
                        ELSE IF w.kind = "toggle" /\ \E i \in done : account'[i].status = 0
                        THEN "ignored" ELSE "applied", "lost"}
    BY <1>8 DEF Arrive
  <2>3. Told'
    <3>1. ASSUME answer' = "applied", NEW i \in DOMAIN w.rows
          PROVE  Done(account'[i], w.kind, w.rows[i])
      <4>1. i \in done /\ (w.kind = "toggle" => account'[i].status # 0)
        BY <2>2, <3>1
      <4> QED
        BY <1>5, <4>1 DEF Done
    <3>2. answer' = "ignored" => w.kind = "toggle"
      BY <2>2
    <3>3. answer' = "partial" => TellsNotFound
      BY <1>1, <2>2
    <3> HIDE DEF w
    <3> QED
      BY <1>1, <2>1, <3>1, <3>2, <3>3, SoundFrame DEF Told
  <2>4. ASSUME NEW i \in Requested
        PROVE  Ahead(call, todo, pc, seen, i) \/ SettledAt(call, account', moved, i)
    <3>1. Ahead(call, todo, pc, seen, i) \/ SettledAt(call, account, moved, i)
      BY <1>4, <2>1 DEF Covered, Writing
    <3>2. CASE i \in done
      <4>1. i \in DOMAIN todo[1].rows
        BY <2>1, <3>2
      <4>2. CASE call.service = "trakt"
        BY <1>4, <2>1, <4>1, <4>2 DEF Orderly, Apt, Ahead
      <4>3. CASE call.service = "simkl" /\ w.kind = "play"
        <5>1. CASE i \in moved
          BY <5>1 DEF SettledAt
        <5>2. CASE AllHold(call, account[i], i)
          <6>1. ~AnyUnsupported /\ call.feature = "watched" /\ account[i] \in RowSet
            BY <1>2, <1>3, <2>1, <4>3, ReadFeatures DEF Flow
          <6>2. AllHold(call, Effect(account[i], "play", w.rows[i]), i)
            BY <1>2, <4>3, <5>2, <6>1, ViewsStay
          <6> QED
            BY <1>5, <3>2, <4>3, <6>2 DEF SettledAt
        <5> QED
          BY <3>1, <5>1, <5>2 DEF SettledAt
      <4>4. CASE call.service # "trakt" /\ ~(call.service = "simkl" /\ w.kind = "play")
        BY <2>1, <4>1, <4>4 DEF Ahead, Remains
      <4> QED
        BY <4>2, <4>3, <4>4
    <3>3. CASE i \notin done /\ i \in titles
      <4>1. PICK e \in done : w.kind = "episodes" /\ i = Parent[e]
        BY <3>3
      <4>2. i \in Asked(call)
        BY SoundFrame DEF Requested, Asked, Entries
      <4>3. call.service = "bangumi" /\ \E k \in DOMAIN todo : i \in DOMAIN todo[k].rows
        BY <1>4, <2>1, <4>1, <4>2 DEF Orderly
      <4> QED
        BY <4>3 DEF Ahead, Remains
    <3>4. CASE i \notin done /\ i \notin titles
      <4>1. account'[i] = account[i]
        BY <1>1, <1>2, <3>4
      <4> QED
        BY <3>1, <4>1 DEF SettledAt
    <3> QED
      BY <3>2, <3>3, <3>4
  <2>5. Covered' /\ Successful'
    BY <1>1, <2>1, <2>2, <2>4, SoundFrame DEF Covered, Successful
  <2>6. Orderly(call, todo, seen)' /\ Validated' /\ Agreed'
    BY <1>1, <1>3, SoundFrame DEF Sound, Validated, Agreed
  <2> QED
    BY <1>6, <2>3, <2>5, <2>6 DEF Sound
<1> QED
  BY <1>7, <1>8

LEMMA VanishSound ==
  ASSUME Flow, Sound, NEW m \in wire, Vanish(m)
  PROVE  Sound'
<1>1. /\ wire' = wire \ {m} /\ UNCHANGED <<call, pc, account, seen, todo, moved, outcome>>
      /\ \/ answer' = answer
         \/ answer' \in {"refused", "lost"}
         \/ answer' = "ignored" /\ ReadsBack
         \/ answer' = "partial" /\ TellsNotFound
  BY DEF Vanish
<1>2. ASSUME ~Unread PROVE Told'
  BY <1>1, <1>2, SoundFrame DEF Sound, Told
<1>3. ASSUME ~Unread PROVE Statused' /\ Orderly(call, todo, seen)' /\ Validated' /\ Agreed' /\ Covered' /\ Successful'
  BY <1>1, <1>3, SoundFrame DEF Sound, Statused, Validated, Agreed, Covered, Successful
<1> QED
  BY <1>1, <1>2, <1>3, SoundFrame DEF Sound

LEMMA EditSound ==
  ASSUME Flow, Sound, NEW i \in Item, NEW row, Edit(i, row), ~Unread => row.status \in Statuses(call)
  PROVE  Sound'
<1>1. /\ UNCHANGED <<call, pc, seen, todo, wire, answer, outcome>> /\ moved' = moved \cup {i}
      /\ account' = [account EXCEPT ![i] = row] /\ account \in [Item -> RowSet]
  BY DEF Edit, Flow
<1>2. \A j \in Item : account'[j] = IF j = i THEN row ELSE account[j]
  BY <1>1
<1>3. ~Unread => Statused'
  BY <1>1, <1>2 DEF Sound, Statused
<1>4. \A j \in Item : account'[j] = account[j] \/ j \in {i}
  BY <1>2
<1> QED
  BY <1>1, <1>3, <1>4, MovedSound

LEMMA SendSound ==
  ASSUME Flow, Sound, Send
  PROVE  Sound'
<1>1. /\ pc = "sending" /\ pc' = "waiting" /\ answer' = "none"
      /\ wire' = wire \cup {[call |-> calls, write |-> Head(todo)]}
      /\ UNCHANGED <<call, account, seen, todo, moved, outcome>>
  BY DEF Send
<1>2. 1 \in DOMAIN todo /\ Head(todo) = todo[1] /\ outcome = "running"
  BY <1>1, PlannedTail DEF Flow, HasNext
<1>3. SUFFICES ASSUME ~Unread PROVE Sound'
  BY <1>1, SoundFrame DEF Sound
<1>4. Statused'
  <2>1. Tame(call, todo[1])
    BY <1>2, <1>3 DEF Sound, Orderly, Apt
  <2> QED
    BY <1>1, <1>2, <1>3, <2>1 DEF Sound, Statused
<1>5. Told'
  BY <1>1 DEF Told
<1>6. Orderly(call, todo, seen)' /\ Validated' /\ Agreed' /\ Successful'
  BY <1>1, <1>2, <1>3, SoundFrame DEF Sound, Validated, Agreed, Successful, Writing
<1>7. Covered'
  BY <1>1, <1>3, SoundFrame DEF Sound, Covered, Ahead, Writing
<1> QED
  BY <1>4, <1>5, <1>6, <1>7 DEF Sound

LEMMA AgainSound ==
  ASSUME Sound, Again
  PROVE  Sound'
<1>1. /\ pc' = "validating" /\ todo' = <<>> /\ outcome' = "running"
      /\ UNCHANGED <<call, account, wire>>
  BY DEF Again
<1>2. \A before : Orderly(call, <<>>, before)
  BY DEF Orderly
<1> QED
  BY <1>1, <1>2, SoundFrame DEF Sound, Statused, Validated, Told, Agreed, Covered, Successful, Writing

-----------------------------------------------------------------------------
(* What the entries of each service want. *)

\* The statuses that the rows of each service can have.
LEMMA RowStatus ==
  ASSUME call \in Calls, NEW i, NEW row \in Rows(call.service, call.feature, i)
  PROVE  row.status \in Statuses(call)
<1>1. call.service \in Services /\ call.feature \in Imports(call.service)
  BY CallsAssumption
<1>2. /\ Absent.status = 0
      /\ \A v : row = [Absent EXCEPT !.rating = v] => row.status = 0
      /\ \A v : row = [Absent EXCEPT !.plays = v] => row.status = 0
      /\ \A v : row = [Absent EXCEPT !.status = v] => row.status = v
  BY DEF Absent
<1>3. SUFFICES row.status \in Nat /\ (Binary(call) => row.status \in {0, 1})
  BY DEF Statuses
<1>4. CASE call.service = "annict"
  <2>1. row \in AnnictRows(i) /\ ~Binary(call)
    BY <1>1, <1>4 DEF Rows, Imports, Binary, ListServices
  <2> QED
    BY <2>1 DEF AnnictRows, Row
<1>5. CASE call.service = "shikimori"
  <2>1. row \in ShikimoriRows(call.feature) /\ ~Binary(call)
    BY <1>1, <1>5 DEF Rows, Imports, Binary, ListServices
  <2> QED
    BY <1>2, <2>1 DEF ShikimoriRows
<1>6. CASE call.service = "plex"
  <2>1. row \in PlexRows(call.feature) /\ ~Binary(call)
    BY <1>1, <1>6 DEF Rows, Imports, Binary, ListServices
  <2> QED
    BY <2>1 DEF PlexRows
<1>7. CASE call.service = "bangumi"
  <2>1. row \in BangumiRows(call.feature, i) /\ ~Binary(call)
    BY <1>1, <1>7 DEF Rows, Imports, Binary, ListServices
  <2>2. \/ \E v \in 0..3 : row = [Absent EXCEPT !.status = v]
        \/ row = [status |-> 2, plays |-> 0, rating |-> 2, rest |-> 0]
    BY <2>1 DEF BangumiRows
  <2>3. row.status \in 0..3
    BY <1>2, <2>2
  <2> QED
    BY <2>1, <2>3
<1>8. CASE call.service = "kodi"
  <2>1. row \in KodiRows(call.feature) /\ call.feature \in {"ratings", "watched", "watchlist"}
    BY <1>1, <1>8 DEF Rows, Imports, ListServices
  <2>2. \/ \E v : row = [Absent EXCEPT !.rating = v] \/ row = [Absent EXCEPT !.plays = v]
        \/ row.status \in 0..1
    BY <2>1 DEF KodiRows
  <2>3. row.status \in {0, 1}
    BY <1>2, <2>2
  <2> QED
    BY <2>3
<1>9. CASE call.service = "jellyfin"
  <2>1. row \in JellyfinRows(call.feature) /\ ~Binary(call)
    BY <1>1, <1>9 DEF Rows, Imports, Binary, ListServices
  <2>2. \/ \E v : row = [Absent EXCEPT !.rating = v]
        \/ row = Absent \/ row.status = 3
    BY <2>1 DEF JellyfinRows
  <2> QED
    BY <1>2, <2>1, <2>2
<1>10. CASE call.service = "emby"
  <2>1. row \in EmbyRows /\ ~Binary(call)
    BY <1>1, <1>10 DEF Rows, Imports, Binary, ListServices
  <2> QED
    BY <1>2, <2>1 DEF EmbyRows
<1>11. CASE call.service = "simkl"
  <2>1. row \in SimklRows /\ ~Binary(call)
    BY <1>1, <1>11 DEF Rows, Imports, Binary, ListServices
  <2> QED
    BY <1>2, <2>1 DEF SimklRows
<1>12. CASE call.service = "trakt"
  <2>1. row \in TraktRows(call.feature) /\ call.feature \in Batches \cup {"reviews", "following"}
    BY <1>1, <1>12 DEF Rows, Imports, ListServices, Batches
  <2>2. row.status \in {0, 1}
    BY <1>2, <2>1 DEF TraktRows, Batches
  <2> QED
    BY <2>2
<1>13. CASE call.service \in ListServices
  <2>1. row \in ListRows(call.feature) /\ (Binary(call) => call.feature = "following")
    BY <1>13 DEF Rows, Binary, ListServices
  <2>2. \/ row = Absent \/ (call.feature = "following" /\ row = [Absent EXCEPT !.status = 1])
        \/ (call.feature # "following" /\ row.status = 2)
    BY <2>1 DEF ListRows
  <2> QED
    BY <1>2, <2>1, <2>2
<1> QED
  BY <1>1, <1>4, <1>5, <1>6, <1>7, <1>8, <1>9, <1>10, <1>11, <1>12, <1>13 DEF Services

LEMMA EntryWants ==
  ASSUME call \in Calls, NEW e \in Range(call.entries)
  PROVE  /\ e.item \in Requested /\ e.want \in Wants(call.service, call.feature, e.item)
         /\ ~AnyUnsupported => e.want # Unsupported
         /\ \E n \in DOMAIN Entries : e = Entries[n]
<1>1. PICK n \in DOMAIN Entries : e = Entries[n]
  BY DEF Range, Entries
<1> QED
  BY <1>1, CallState DEF AnyUnsupported, Entries

\* What an item is to be is what its first entry wants, if no two entries differ.
LEMMA WantOfAll ==
  ASSUME call \in Calls, Agreeing(call), NEW i \in Requested
  PROVE  /\ \A e \in Range(call.entries) : e.item = i => e.want = Want(i)
         /\ \A row : AllHold(call, row, i) <=> Holds(row, Want(i))
<1>1. PICK d \in Range(call.entries) : d.item = i
  BY DEF Requested, Entries
<1>2. Wanted(i) # {}
  BY <1>1 DEF Wanted, Entries
<1>3. Want(i) \in Wanted(i)
  BY <1>2 DEF Want
<1>4. PICK f \in Range(call.entries) : f.item = i /\ f.want = Want(i)
  BY <1>3 DEF Wanted, Entries
<1>5. \A e \in Range(call.entries) : e.item = i => e.want = Want(i)
  BY <1>4 DEF Agreeing
<1> QED
  BY <1>4, <1>5 DEF AllHold

LEMMA NothingContradicts ==
  ASSUME call \in Calls, ~Repeated \/ ~Conflicting
  PROVE  Agreeing(call)
<1> SUFFICES ASSUME NEW d \in Range(call.entries), NEW e \in Range(call.entries), d.item = e.item
             PROVE  d.want = e.want
  BY DEF Agreeing
<1>1. CASE ~Repeated
  <2>1. PICK m \in DOMAIN Entries : d = Entries[m]
    BY EntryWants
  <2>2. PICK n \in DOMAIN Entries : e = Entries[n]
    BY EntryWants
  <2>3. m = n
    BY <1>1, <2>1, <2>2 DEF Repeated
  <2> QED
    BY <2>1, <2>2, <2>3
<1>2. CASE ~Conflicting
  <2> DEFINE i == d.item
  <2>1. i \in Requested /\ d.want \in Wanted(i) /\ e.want \in Wanted(i)
    BY EntryWants DEF Wanted, Entries
  <2>2. IsFiniteSet(Wanted(i))
    <3> DEFINE N == {n \in DOMAIN Entries : Entries[n].item = i}
               f == [n \in N |-> Entries[n].want]
    <3>1. IsFiniteSet(DOMAIN Entries)
      <4>1. Len(Entries) \in Nat /\ DOMAIN Entries = 1..Len(Entries)
        BY CallState
      <4> QED
        BY <4>1, FS_Interval
    <3>2. IsFiniteSet(N)
      BY <3>1, FS_Subset
    <3>3. Wanted(i) = {Entries[n].want : n \in N}
      BY DEF Wanted, Range
    <3>4. f \in Surjection(N, Wanted(i))
      BY <3>3 DEF Surjection
    <3> QED
      BY <3>2, <3>4, FS_Surjection
  <2>3. Cardinality(Wanted(i)) \in Nat /\ ~(Cardinality(Wanted(i)) > 1)
    BY <1>2, <2>1, <2>2, FS_CardinalityType DEF Conflicting
  <2>4. Cardinality(Wanted(i)) # 0
    BY <2>1, <2>2, FS_EmptySet
  <2>5. Cardinality(Wanted(i)) = 1
    BY <2>3, <2>4
  <2>6. \E x : Wanted(i) = {x}
    BY <2>2, <2>5, FS_Singleton
  <2> QED
    BY <2>1, <2>6
<1> QED
  BY <1>1, <1>2

\* The services that can be asked for one thing only.
LEMMA OneWant ==
  ASSUME call \in Calls, NEW w, \A e \in Range(call.entries) : e.want = w
  PROVE  Agreeing(call) /\ \A i \in Requested : Want(i) = w
<1>1. Agreeing(call)
  BY DEF Agreeing
<1>2. ASSUME NEW i \in Requested PROVE Want(i) = w
  <2>1. PICK e \in Range(call.entries) : e.item = i
    BY DEF Requested, Entries
  <2> QED
    BY <1>1, <2>1, WantOfAll
<1> QED
  BY <1>1, <1>2

-----------------------------------------------------------------------------
(* The plans. *)

\* A plan of one write for each of some items, the others being as the call wants them.
LEMMA EachSound ==
  ASSUME Flow, Sound, pc \in {"validating", "reading"}, NEW S \in SUBSET Requested, NEW s, NEW g, NEW label,
         Plan(s, label), label \in {"checking", "rechecking", "sending"},
         DOMAIN s = DOMAIN InOrder(S), \A n \in DOMAIN InOrder(S) : s[n] = g[InOrder(S)[n]],
         call.service # "simkl",
         pc = "validating" => call.service \notin {"annict", "bangumi", "shikimori", "trakt"},
         ~Unread => /\ Agreeing(call)
                    /\ \A i \in S : DOMAIN g[i].rows = {i} /\ g[i].kind # "episodes" /\ Apt(call, g[i], account)
                    /\ \A i \in Requested \ S : AllHold(call, account[i], i)
  PROVE  Sound'
<1>1. /\ \A n \in DOMAIN InOrder(S) : InOrder(S)[n] \in S
      /\ \A i \in S : \E n \in DOMAIN InOrder(S) : InOrder(S)[n] = i
  BY InOrderIsAll, ElementOfSeq DEF Flow
<1>2. ASSUME ~Unread PROVE Orderly(call, s, account)
  BY <1>1, <1>2 DEF Orderly
<1>3. ASSUME ~Unread, NEW i \in Requested PROVE Remains(call, s, i) \/ AllHold(call, account[i], i)
  <2>1. CASE i \in S
    <3>1. PICK n \in DOMAIN InOrder(S) : InOrder(S)[n] = i
      BY <1>1, <2>1
    <3>2. i \in DOMAIN s[n].rows
      BY <1>3, <2>1, <3>1
    <3> QED
      BY <3>1, <3>2 DEF Remains
  <2> QED
    BY <1>3, <2>1
<1> QED
  BY <1>2, <1>3, PlanSound

\* After a put of these fields, or a play, the item is as the call wants it.
LEMMA PutServes ==
  ASSUME call \in Calls, Agreeing(call), NEW i \in Requested, NEW fields,
         \A row \in RowSet :
           (\A f \in DOMAIN fields \cap DOMAIN row : row[f] = fields[f]) => Holds(row, Want(i)),
         Binary(call) /\ "status" \in DOMAIN fields => fields.status \in {0, 1},
         call.service = "trakt" => ~Holds(account[i], Want(i))
  PROVE  /\ DOMAIN Put(i, fields).rows = {i} /\ Put(i, fields).kind # "episodes"
         /\ Apt(call, Put(i, fields), account)
<1> DEFINE w == Put(i, fields)
<1>1. w.kind = "put" /\ DOMAIN w.rows = {i} /\ w.rows[i] = fields
  BY WriteRows DEF Put
<1> HIDE DEF w
<1>2. \A row : AllHold(call, row, i) <=> Holds(row, Want(i))
  BY WantOfAll
<1>3. Serves(call, w)
  BY <1>1, <1>2 DEF Serves, Done
<1>4. Tame(call, w) /\ ~IsRecord(w)
  BY <1>1 DEF Tame, IsRecord
<1>5. Apt(call, w, account)
  BY <1>1, <1>2, <1>3, <1>4 DEF Apt
<1> QED
  BY <1>1, <1>5 DEF w

LEMMA PlayServes ==
  ASSUME call \in Calls, Agreeing(call), NEW i \in Requested, Want(i) = [atLeast |-> 1],
         call.service \notin {"shikimori", "kodi", "emby", "annict"},
         call.service = "trakt" => ~Holds(account[i], Want(i))
  PROVE  /\ DOMAIN Play(i).rows = {i} /\ Play(i).kind # "episodes"
         /\ Apt(call, Play(i), account)
<1> DEFINE w == Play(i)
<1>1. w.kind = "play" /\ DOMAIN w.rows = {i} /\ w.rows[i] = <<>>
  BY WriteRows DEF Play
<1> HIDE DEF w
<1>2. \A row : AllHold(call, row, i) <=> row.plays >= 1
  BY WantOfAll DEF Holds
<1>3. Serves(call, w)
  BY <1>1, <1>2 DEF Serves, Done
<1>4. Tame(call, w)
  <2>1. DOMAIN <<>> = {}
    OBVIOUS
  <2> QED
    BY <1>1, <2>1 DEF Tame
<1>5. Apt(call, w, account)
  BY <1>1, <1>2, <1>3, <1>4, WantOfAll DEF Apt
<1> QED
  BY <1>1, <1>5 DEF w

\* What was put is what was wanted, if that is not a least number of plays.
LEMMA WantsServe ==
  ASSUME call \in Calls, Agreeing(call), NEW i \in Requested, "atLeast" \notin DOMAIN Want(i),
         Binary(call) /\ "status" \in DOMAIN Want(i) => Want(i).status \in {0, 1},
         call.service = "trakt" => ~Holds(account[i], Want(i))
  PROVE  /\ DOMAIN Put(i, Want(i)).rows = {i} /\ Put(i, Want(i)).kind # "episodes"
         /\ Apt(call, Put(i, Want(i)), account)
<1>1. ASSUME NEW row, \A f \in DOMAIN Want(i) \cap DOMAIN row : row[f] = Want(i)[f]
      PROVE  Holds(row, Want(i))
  BY <1>1 DEF Holds
<1> QED
  BY <1>1, PutServes

\* A plan of what the entries want.
LEMMA WantsSound ==
  ASSUME Flow, Sound, pc = "reading", NEW S \in SUBSET Requested, NEW s, NEW label,
         Plan(s, label), label \in {"checking", "rechecking", "sending"},
         s = [n \in DOMAIN InOrder(S) |-> Put(InOrder(S)[n], Want(InOrder(S)[n]))],
         call.service \notin {"simkl", "trakt"},
         Agreeing(call), \A i \in Requested \ S : Holds(account[i], Want(i)),
         \A i \in S : /\ "atLeast" \notin DOMAIN Want(i)
                      /\ Binary(call) /\ "status" \in DOMAIN Want(i) => Want(i).status \in {0, 1}
  PROVE  Sound'
<1> DEFINE g == [i \in S |-> Put(i, Want(i))]
<1>1. call \in Calls /\ \A n \in DOMAIN InOrder(S) : InOrder(S)[n] \in S
  BY InOrderIsAll, ElementOfSeq DEF Flow
<1>2. \A n \in DOMAIN InOrder(S) : s[n] = g[InOrder(S)[n]]
  BY <1>1
<1>3. \A i \in S : DOMAIN g[i].rows = {i} /\ g[i].kind # "episodes" /\ Apt(call, g[i], account)
  BY <1>1, WantsServe
<1>4. \A i \in Requested \ S : AllHold(call, account[i], i)
  BY <1>1, WantOfAll
<1>5. DOMAIN s = DOMAIN InOrder(S)
  OBVIOUS
<1> HIDE DEF g
<1> QED
  BY <1>2, <1>3, <1>4, <1>5, EachSound

\* A plan of one status for all.
LEMMA StatusSound ==
  ASSUME Flow, Sound, pc = "reading", NEW S \in SUBSET Requested, NEW s, NEW label, NEW v \in Nat,
         Plan(s, label), label \in {"checking", "rechecking", "sending"},
         s = [n \in DOMAIN InOrder(S) |-> Put(InOrder(S)[n], [status |-> v])],
         call.service # "simkl", \A e \in Range(call.entries) : e.want = [status |-> v],
         v \in {0, 1} \/ ~Binary(call),
         \A i \in Requested \ S : account[i].status = v,
         call.service = "trakt" => \A i \in S : account[i].status # v
  PROVE  Sound'
<1> DEFINE g == [i \in S |-> Put(i, [status |-> v])]
<1>1. call \in Calls /\ \A n \in DOMAIN InOrder(S) : InOrder(S)[n] \in S
  BY InOrderIsAll, ElementOfSeq DEF Flow
<1>2. Agreeing(call) /\ \A i \in Requested : Want(i) = [status |-> v]
  BY <1>1, OneWant
<1>3. \A n \in DOMAIN InOrder(S) : s[n] = g[InOrder(S)[n]]
  BY <1>1
<1>4. \A row \in RowSet : Holds(row, [status |-> v]) <=> row.status = v
  BY DEF Holds, RowSet
<1>5. \A i \in Requested : account[i] \in RowSet
  BY <1>1, CallState DEF Flow
<1>6. ASSUME NEW i \in S
      PROVE  DOMAIN g[i].rows = {i} /\ g[i].kind # "episodes" /\ Apt(call, g[i], account)
  <2>1. \A row \in RowSet : (\A f \in DOMAIN [status |-> v] \cap DOMAIN row : row[f] = [status |-> v][f])
                              => Holds(row, Want(i))
    BY <1>2, <1>4 DEF RowSet
  <2>2. Binary(call) => [status |-> v].status \in {0, 1}
    OBVIOUS
  <2>3. call.service = "trakt" => ~Holds(account[i], Want(i))
    BY <1>2, <1>4, <1>5
  <2> QED
    BY <1>1, <1>2, <2>1, <2>2, <2>3, PutServes
<1>7. \A i \in Requested \ S : AllHold(call, account[i], i)
  BY <1>1, <1>2, <1>4, <1>5, WantOfAll
<1>8. DOMAIN s = DOMAIN InOrder(S)
  OBVIOUS
<1> HIDE DEF g
<1> QED
  BY <1>2, <1>3, <1>6, <1>7, <1>8, EachSound DEF Sound, Validated

-----------------------------------------------------------------------------
(* What is known of a write that was answered, or looked up. *)

LEMMA DoneHolds ==
  ASSUME Flow, Sound, ~Unread, todo # <<>>, NEW i \in DOMAIN todo[1].rows,
         Done(account[i], todo[1].kind, todo[1].rows[i])
  PROVE  AllHold(call, account[i], i) \/ (todo[1].kind = "play" /\ call.service \in {"annict", "simkl"})
<1>1. 1 \in DOMAIN todo /\ call \in Calls
  BY PlannedTail DEF Flow
<1>2. i \in Item
  BY <1>1, CallState DEF Flow, Planned, Proper
<1>3. account[i] \in RowSet /\ account[i].status \in Statuses(call)
  BY <1>2 DEF Flow, Sound, Statused
<1> QED
  BY <1>1, <1>3 DEF Sound, Orderly, Apt, Serves

LEMMA VerifiedHolds ==
  ASSUME Flow, Sound, ~Unread, todo # <<>>, NEW i \in DOMAIN todo[1].rows,
         todo[1].kind \notin {"play", "toggle"}, Holds(account[i], todo[1].rows[i])
  PROVE  AllHold(call, account[i], i)
<1>1. 1 \in DOMAIN todo /\ call \in Calls
  BY PlannedTail DEF Flow
<1>2. i \in Item
  BY <1>1, CallState DEF Flow, Planned, Proper
<1>3. account[i] \in RowSet
  BY <1>2 DEF Flow
<1>4. "atLeast" \notin DOMAIN account[i]
  BY <1>3 DEF RowSet
<1>5. Done(account[i], todo[1].kind, todo[1].rows[i])
  BY <1>4 DEF Done, Holds
<1> QED
  BY <1>5, DoneHolds

LEMMA AppliedHolds ==
  ASSUME Flow, Sound, ~Unread, pc = "waiting", answer = "applied", NEW i \in DOMAIN todo[1].rows
  PROVE  i \in moved \/ AllHold(call, account[i], i)
           \/ (todo[1].kind = "play" /\ call.service \in {"annict", "simkl"})
<1>1. todo # <<>>
  BY DEF Flow, HasNext
<1>2. i \in moved \/ Done(account[i], todo[1].kind, todo[1].rows[i])
  BY DEF Sound, Told
<1> QED
  BY <1>1, <1>2, DoneHolds

\* Where nothing is compared, the answer says what was done.
LEMMA AnswerIsApplied ==
  ASSUME Flow, Sound, ~Unread, Answered, ~ReadsBack, call.service = "simkl" => answer # "partial"
  PROVE  answer = "applied"
<1>1. pc = "waiting" /\ answer \in {"applied", "ignored", "partial"} /\ call \in Calls
  BY DEF Answered, Flow
<1>2. 1 \in DOMAIN todo
  BY <1>1, PlannedTail DEF Flow, HasNext
<1>3. todo[1].kind # "toggle"
  BY <1>2 DEF Sound, Orderly, Apt, Tame, ReadsBack
<1>4. answer # "ignored"
  BY <1>1, <1>3 DEF Sound, Told
<1>5. answer # "partial"
  BY <1>1, ReadFeatures DEF Sound, Told
<1> QED
  BY <1>1, <1>4, <1>5

\* The importers that look at nothing but the answer.
LEMMA WrittenSound ==
  ASSUME Flow, Sound, Answered, Advance({}, "sending", "done"),
         call.service \in {"bangumi", "jellyfin", "simkl"} \cup ListServices,
         ~Unread => answer = "applied"
  PROVE  Sound'
<1>1. pc = "waiting" /\ pc \in Writing /\ todo # <<>>
  BY DEF Answered, Flow, Writing, HasNext
<1>2. call.service \notin {"annict", "trakt"}
  BY DEF ListServices
<1>3. ASSUME ~Unread
      PROVE  \A i \in DOMAIN todo[1].rows :
               i \in moved \/ AllHold(call, account[i], i) \/ (call.service = "simkl" /\ todo[1].kind = "play")
  BY <1>1, <1>2, <1>3, AppliedHolds
<1> QED
  BY <1>1, <1>2, <1>3, AdvanceSound

\* The importers that look up each write.
LEMMA LookedUpSound ==
  ASSUME Flow, Sound, pc = "verifying", NEW next \in {"checking", "rechecking", "sending"},
         Advance({Target(todo[1])}, next, "done"), next = "rechecking" => call.service = "annict",
         call.service \in Verifying, call.service = "annict" => ~IsRecord(todo[1]),
         ~Unread => \A i \in DOMAIN todo[1].rows : AllHold(call, account[i], i)
  PROVE  Sound'
<1>1. pc \in Writing /\ todo # <<>> /\ 1 \in DOMAIN todo
  BY PlannedTail DEF Flow, Writing, HasNext
<1>2. ASSUME ~Unread PROVE Target(todo[1]) \in DOMAIN todo[1].rows
  <2>1. \E i : DOMAIN todo[1].rows = {i}
    BY <1>1, <1>2 DEF Sound, Orderly, Apt
  <2> QED
    BY <2>1 DEF Target
<1>3. call.service # "trakt"
  BY DEF Verifying
<1> QED
  BY <1>1, <1>2, <1>3, AdvanceSound

\* A write of a connector that looks up every one of them.
LEMMA LookedUpWrite ==
  ASSUME Flow, Sound, ~Unread, todo # <<>>, call.service \in Verifying
  PROVE  /\ DOMAIN todo[1].rows = {Target(todo[1])} /\ todo[1].kind # "toggle" /\ Head(todo) = todo[1]
         /\ call.service \in {"shikimori", "kodi", "emby"} => todo[1].kind # "play"
         /\ \E n \in DOMAIN todo : Target(todo[1]) \in DOMAIN todo[n].rows
<1>1. 1 \in DOMAIN todo /\ Head(todo) = todo[1]
  BY PlannedTail DEF Flow
<1>2. Apt(call, todo[1], seen)
  BY <1>1 DEF Sound, Orderly
<1>3. PICK i : DOMAIN todo[1].rows = {i}
  BY <1>2 DEF Apt
<1>4. Target(todo[1]) = i
  BY <1>3 DEF Target
<1> QED
  BY <1>1, <1>2, <1>3, <1>4 DEF Apt, Tame, Verifying, IsRecord

\* The item of the next write is read before it is sent.
LEMMA CheckSound ==
  ASSUME Flow, Sound, pc = "checking", Look({Target(Head(todo))}, "sending"), call.service \in Verifying
  PROVE  Sound'
<1>1. todo # <<>> /\ call.service # "trakt" /\ call.service # "simkl"
  BY DEF Flow, HasNext, Verifying
<1>2. ~Unread => Remains(call, todo, Target(Head(todo)))
  BY <1>1, LookedUpWrite DEF Remains
<1> QED
  BY <1>1, <1>2, LookSound DEF Ahead, Writing

LEMMA ReadWhatIsNotFound ==
  call.service \notin {"simkl", "trakt"} => ~Unread
BY DEF Unread, TellsNotFound

LEMMA ShikimoriSound ==
  ASSUME Flow, Sound, ShikimoriNext
  PROVE  Sound'
<1>1. /\ call.service = "shikimori" /\ call \in Calls /\ ~Unread /\ call.service \in Verifying
      /\ call.feature \in {"ratings", "watched", "watchlist"}
  <2>1. call.service = "shikimori" /\ call \in Calls
    BY DEF Flow, ShikimoriNext, ShikimoriValidate, ShikimoriPlan, ShikimoriCheck, ShikimoriVerify
  <2> QED
    BY <2>1, CallsAssumption, ReadWhatIsNotFound DEF Imports, Verifying
<1>2. CASE Fail
  BY <1>2, FailSound
<1>3. CASE ShikimoriValidate /\ ~Fail
  <2>1. pc = "validating" /\ Goto("reading") /\ ~Repeated
    BY <1>3 DEF ShikimoriValidate, ShikimoriRefuses
  <2>2. Agreeing(call)
    BY <1>1, <2>1, NothingContradicts
  <2> QED
    BY <1>1, <2>1, <2>2, ValidSound
<1>4. CASE ShikimoriPlan /\ ~Fail
  <2> DEFINE S == {i \in Requested : ~Holds(account[i], Want(i))}
             writes == Each(LAMBDA i : Put(i, Want(i)), S)
  <2>1. pc = "reading" /\ Plan(writes, IF writes = <<>> THEN "sending" ELSE "checking") /\ ~AnyUnsupported
    BY <1>4 DEF ShikimoriPlan, Flow
  <2>2. S \in SUBSET Requested /\ \A i \in Requested \ S : Holds(account[i], Want(i))
    OBVIOUS
  <2> HIDE DEF S
  <2>3. writes = [n \in DOMAIN InOrder(S) |-> Put(InOrder(S)[n], Want(InOrder(S)[n]))]
    BY DEF Each
  <2> HIDE DEF writes
  <2>4. Agreeing(call)
    BY <1>1, <2>1 DEF Sound, Validated
  <2>5. ASSUME NEW i \in S PROVE "atLeast" \notin DOMAIN Want(i)
    <3>1. Wants(call.service, call.feature, i) = ShikimoriWants(call.feature)
      BY <1>1 DEF Wants, ListServices
    <3>2. Want(i) \in Wants(call.service, call.feature, i)
      BY <1>1, <2>2, CallState
    <3> QED
      BY <1>1, <3>1, <3>2 DEF ShikimoriWants, Unsupported
  <2>6. ~Binary(call)
    BY <1>1 DEF Binary
  <2> QED
    BY <1>1, <2>1, <2>2, <2>3, <2>4, <2>5, <2>6, WantsSound
<1>5. CASE ShikimoriCheck /\ ~Fail
  BY <1>1, <1>5, CheckSound DEF ShikimoriCheck
<1>6. CASE ShikimoriVerify /\ ~Fail
  <2>1. pc = "verifying" /\ todo # <<>>
    BY <1>6 DEF ShikimoriVerify, Flow, HasNext
  <2>2. /\ DOMAIN todo[1].rows = {Target(todo[1])} /\ todo[1].kind \notin {"play", "toggle"}
        /\ Head(todo) = todo[1]
    BY <1>1, <2>1, LookedUpWrite
  <2>3. Holds(account[Target(todo[1])], todo[1].rows[Target(todo[1])]) /\ Advance({Target(todo[1])}, "checking", "done")
    BY <1>6, <2>2 DEF ShikimoriVerify, assertPostWrite
  <2>4. \A i \in DOMAIN todo[1].rows : AllHold(call, account[i], i)
    BY <1>1, <2>1, <2>2, <2>3, VerifiedHolds
  <2> QED
    BY <1>1, <2>1, <2>3, <2>4, LookedUpSound
<1> QED
  BY <1>2, <1>3, <1>4, <1>5, <1>6 DEF ShikimoriNext

LEMMA KodiSound ==
  ASSUME Flow, Sound, KodiNext
  PROVE  Sound'
<1>1. /\ call.service = "kodi" /\ call \in Calls /\ ~Unread /\ call.service \in Verifying
      /\ call.feature \in {"ratings", "watched", "watchlist"}
  <2>1. call.service = "kodi" /\ call \in Calls
    BY DEF Flow, KodiNext, KodiValidate, KodiRatings, KodiWatched, KodiWatchlist, KodiVerify, Doing
  <2> QED
    BY <2>1, CallsAssumption, ReadWhatIsNotFound DEF Imports, Verifying
<1>2. CASE Fail
  BY <1>2, FailSound
<1>3. CASE KodiValidate /\ ~Fail
  BY <1>1, <1>3, ValidSound DEF KodiValidate
<1>4. \A i : Wants(call.service, call.feature, i) = KodiWants(call.feature, i)
  BY <1>1 DEF Wants, ListServices
<1> DEFINE open == {i \in Requested : ~Holds(account[i], Want(i))}
<1>5. open \in SUBSET Requested /\ \A i \in Requested \ open : Holds(account[i], Want(i))
  OBVIOUS
<1>6. CASE KodiRatings /\ ~Fail
  <2> DEFINE writes == Each(LAMBDA i : Put(i, Want(i)), open)
  <2>1. pc = "reading" /\ call.feature = "ratings" /\ ~AnyUnsupported /\ ~Conflicting /\ Plan(writes, "sending")
    BY <1>6 DEF KodiRatings, Doing, Flow
  <2> HIDE DEF open
  <2>2. writes = [n \in DOMAIN InOrder(open) |-> Put(InOrder(open)[n], Want(InOrder(open)[n]))]
    BY DEF Each
  <2> HIDE DEF writes
  <2>3. Agreeing(call)
    BY <1>1, <2>1, NothingContradicts
  <2>4. ASSUME NEW i \in open PROVE "atLeast" \notin DOMAIN Want(i) /\ "status" \notin DOMAIN Want(i)
    <3>1. Want(i) \in KodiWants("ratings", i) /\ Want(i) # Unsupported
      BY <1>1, <1>4, <1>5, <2>1, CallState
    <3> QED
      BY <3>1 DEF KodiWants
  <2> QED
    BY <1>1, <1>5, <2>1, <2>2, <2>3, <2>4, WantsSound
<1>7. CASE KodiWatched /\ ~Fail
  <2> DEFINE playCount(i) == IF "atLeast" \in DOMAIN Want(i) THEN 1 ELSE Want(i).plays
             s == Each(LAMBDA i : Put(i, [plays |-> playCount(i)]), open)
             g == [i \in open |-> Put(i, [plays |-> playCount(i)])]
  <2>1. pc = "reading" /\ call.feature = "watched" /\ ~AnyUnsupported /\ ~Conflicting /\ Plan(s, "sending")
    BY <1>7 DEF KodiWatched, Doing, Flow
  <2>2. \A n \in DOMAIN InOrder(open) : InOrder(open)[n] \in open
    <3> HIDE DEF open
    <3> QED
      BY <1>1, <1>5, InOrderIsAll, ElementOfSeq
  <2> HIDE DEF open
  <2>3. DOMAIN s = DOMAIN InOrder(open) /\ \A n \in DOMAIN InOrder(open) : s[n] = g[InOrder(open)[n]]
    BY <2>2 DEF Each
  <2>4. Agreeing(call)
    BY <1>1, <2>1, NothingContradicts
  <2>5. ASSUME NEW i \in open
        PROVE  DOMAIN g[i].rows = {i} /\ g[i].kind # "episodes" /\ Apt(call, g[i], account)
    <3>1. Want(i) \in KodiWants("watched", i) /\ Want(i) # Unsupported
      BY <1>1, <1>4, <1>5, <2>1, CallState
    <3>2. Want(i) = [atLeast |-> 1] \/ Want(i) = [plays |-> 1] \/ Want(i) = [plays |-> 2]
      BY <3>1 DEF KodiWants
    <3>3. \A row \in RowSet : row.plays = playCount(i) => Holds(row, Want(i))
      BY <3>2 DEF Holds, RowSet
    <3> HIDE DEF playCount
    <3>4. \A row \in RowSet : (\A f \in DOMAIN [plays |-> playCount(i)] \cap DOMAIN row :
                                 row[f] = [plays |-> playCount(i)][f]) => Holds(row, Want(i))
      BY <3>3 DEF RowSet
    <3>5. g[i] = Put(i, [plays |-> playCount(i)]) /\ "status" \notin DOMAIN [plays |-> playCount(i)]
      OBVIOUS
    <3>6. i \in Requested /\ call.service # "trakt"
      BY <1>1, <1>5
    <3> HIDE DEF g
    <3> QED
      BY <1>1, <2>4, <3>4, <3>5, <3>6, PutServes
  <2>6. \A i \in Requested \ open : AllHold(call, account[i], i)
    BY <1>1, <1>5, <2>4, WantOfAll
  <2> HIDE DEF g, s
  <2> QED
    BY <1>1, <1>5, <2>1, <2>3, <2>4, <2>5, <2>6, EachSound
<1>8. ASSUME call.feature = "watchlist", ~AnyUnsupported
      PROVE  \A e \in Range(call.entries) : e.want = [status |-> 1]
  BY <1>1, <1>4, <1>8, EntryWants DEF KodiWants
<1>9. CASE KodiWatchlist
  <2> DEFINE S == {i \in Requested : account[i].status = 0}
             s == Each(LAMBDA i : Put(i, [status |-> 1, rest |-> account[i].rest]), S)
             g == [i \in S |-> Put(i, [status |-> 1, rest |-> account[i].rest])]
  <2>1. pc = "reading" /\ call.feature = "watchlist" /\ ~AnyUnsupported /\ Plan(s, "sending")
    BY <1>9 DEF KodiWatchlist, Doing, Flow
  <2>2. S \in SUBSET Requested /\ \A i \in Requested \ S : account[i].status # 0
    OBVIOUS
  <2> HIDE DEF S
  <2>3. \A n \in DOMAIN InOrder(S) : InOrder(S)[n] \in S
    BY <1>1, <2>2, InOrderIsAll, ElementOfSeq
  <2>4. DOMAIN s = DOMAIN InOrder(S) /\ \A n \in DOMAIN InOrder(S) : s[n] = g[InOrder(S)[n]]
    BY <2>3 DEF Each
  <2>5. Agreeing(call) /\ \A i \in Requested : Want(i) = [status |-> 1]
    BY <1>1, <1>8, <2>1, OneWant
  <2>6. \A row \in RowSet : row.status = 1 => Holds(row, [status |-> 1])
    BY DEF Holds, RowSet
  <2>7. ASSUME NEW i \in S
        PROVE  DOMAIN g[i].rows = {i} /\ g[i].kind # "episodes" /\ Apt(call, g[i], account)
    <3> DEFINE fields == [status |-> 1, rest |-> account[i].rest]
    <3>1. DOMAIN fields = {"status", "rest"} /\ fields.status = 1 /\ g[i] = Put(i, fields)
      OBVIOUS
    <3> HIDE DEF fields, g
    <3>2. \A row \in RowSet : (\A f \in DOMAIN fields \cap DOMAIN row : row[f] = fields[f]) => Holds(row, Want(i))
      BY <2>2, <2>5, <2>6, <3>1 DEF RowSet
    <3>3. i \in Requested /\ call.service # "trakt"
      BY <1>1, <2>2
    <3> QED
      BY <1>1, <2>5, <3>1, <3>2, <3>3, PutServes
  <2>8. ASSUME NEW i \in Requested \ S PROVE AllHold(call, account[i], i)
    <3>1. account[i] \in RowSet /\ account[i].status \in {0, 1}
      BY <1>1, CallState DEF Flow, Sound, Statused, Statuses, Binary
    <3> QED
      BY <1>1, <2>2, <2>5, <2>6, <3>1, WantOfAll
  <2> HIDE DEF g, s
  <2> QED
    BY <1>1, <2>1, <2>2, <2>4, <2>5, <2>7, <2>8, EachSound
<1>10. CASE KodiVerify /\ ~Fail
  <2>1. pc = "verifying" /\ todo # <<>> /\ ~AnyUnsupported
    BY <1>10 DEF KodiVerify, Flow, HasNext
  <2>2. /\ DOMAIN todo[1].rows = {Target(todo[1])} /\ todo[1].kind \notin {"play", "toggle"}
        /\ Head(todo) = todo[1]
    BY <1>1, <2>1, LookedUpWrite
  <2>3. /\ Advance({Target(todo[1])}, "sending", "done")
        /\ IF call.feature = "watchlist" THEN account[Target(todo[1])].status = 1
           ELSE Holds(account[Target(todo[1])], todo[1].rows[Target(todo[1])])
    BY <1>10, <2>2 DEF KodiVerify
  <2>4. ASSUME NEW i \in DOMAIN todo[1].rows PROVE AllHold(call, account[i], i)
    <3>1. CASE call.feature = "watchlist"
      <4>1. 1 \in DOMAIN todo
        BY <2>1, PlannedTail DEF Flow
      <4>2. i \in Requested /\ account[i] \in RowSet /\ account[i].status = 1
        BY <1>1, <2>2, <2>3, <3>1, <4>1, CallState DEF Flow, Planned, Proper
      <4>3. Agreeing(call) /\ Want(i) = [status |-> 1]
        BY <1>1, <1>8, <2>1, <3>1, <4>2, OneWant
      <4>4. Holds(account[i], [status |-> 1])
        BY <4>2 DEF Holds, RowSet
      <4> QED
        BY <1>1, <4>2, <4>3, <4>4, WantOfAll
    <3>2. CASE call.feature # "watchlist"
      BY <1>1, <2>1, <2>2, <2>3, <3>2, VerifiedHolds
    <3> QED
      BY <3>1, <3>2
  <2> QED
    BY <1>1, <2>1, <2>3, <2>4, LookedUpSound
<1> QED
  BY <1>2, <1>3, <1>6, <1>7, <1>9, <1>10 DEF KodiNext

LEMMA MediaServerSound ==
  ASSUME Flow, Sound, MediaServerNext
  PROVE  Sound'
<1>1. /\ call.service \in {"jellyfin", "emby"} /\ call \in Calls /\ ~Unread
      /\ call.feature \in Imports(call.service)
  <2>1. call.service \in {"jellyfin", "emby"} /\ call \in Calls
    BY DEF Flow, MediaServerNext, JellyfinValidate, JellyfinRatings, JellyfinWatched, JellyfinWritten,
           EmbyValidate, EmbyWatched, EmbyVerify, Doing
  <2> QED
    BY <2>1, CallsAssumption, ReadWhatIsNotFound
<1>2. /\ call.service = "jellyfin" => \A i : Wants(call.service, call.feature, i) = JellyfinWants(call.feature)
      /\ call.service = "emby" => \A i : Wants(call.service, call.feature, i) = EmbyWants
      /\ ~Binary(call)
  BY <1>1 DEF Wants, Binary, Imports, ListServices
<1>3. CASE Fail
  BY <1>3, FailSound
<1>4. CASE (JellyfinValidate \/ EmbyValidate) /\ ~Fail
  BY <1>1, <1>4, ValidSound DEF JellyfinValidate, EmbyValidate
<1> DEFINE wanted(S) == Each(LAMBDA i : Put(i, Want(i)), S)
<1>5. ASSUME call.service = "jellyfin", pc = "reading", ~AnyUnsupported, ~Conflicting, NEW S \in SUBSET Requested,
             Plan(wanted(S), "sending"), \A i \in Requested \ S : Holds(account[i], Want(i))
      PROVE  Sound'
  <2> DEFINE s == wanted(S)
  <2>1. s = [n \in DOMAIN InOrder(S) |-> Put(InOrder(S)[n], Want(InOrder(S)[n]))]
    BY DEF Each
  <2>2. Plan(s, "sending")
    BY <1>5
  <2> HIDE DEF s
  <2>3. ASSUME NEW i \in S PROVE "atLeast" \notin DOMAIN Want(i)
    <3>1. Want(i) \in JellyfinWants(call.feature) /\ Want(i) # Unsupported
      BY <1>1, <1>2, <1>5, CallState
    <3> QED
      BY <3>1 DEF JellyfinWants
  <2>4. Agreeing(call)
    BY <1>1, <1>5, NothingContradicts
  <2> QED
    BY <1>2, <1>5, <2>1, <2>2, <2>3, <2>4, WantsSound
<1>6. CASE JellyfinRatings /\ ~Fail
  <2>1. /\ call.service = "jellyfin" /\ pc = "reading" /\ ~AnyUnsupported /\ ~Conflicting
        /\ Plan(wanted(Requested), "sending")
    BY <1>6 DEF JellyfinRatings, Doing, Flow
  <2> HIDE DEF wanted
  <2> QED
    BY <1>5, <2>1
<1>7. CASE JellyfinWatched /\ ~Fail
  <2> DEFINE open == {i \in Requested : ~Holds(account[i], Want(i))}
  <2>1. /\ call.service = "jellyfin" /\ pc = "reading" /\ ~AnyUnsupported /\ ~Conflicting
        /\ Plan(wanted(open), "sending")
    BY <1>7 DEF JellyfinWatched, Doing, Flow
  <2>2. open \in SUBSET Requested /\ \A i \in Requested \ open : Holds(account[i], Want(i))
    OBVIOUS
  <2> HIDE DEF wanted, open
  <2> QED
    BY <1>5, <2>1, <2>2
<1>8. CASE JellyfinWritten /\ ~Fail
  BY <1>8, WrittenSound DEF JellyfinWritten
<1>9. ASSUME call.service = "emby", ~AnyUnsupported
      PROVE  \A e \in Range(call.entries) : e.want = [status |-> 3]
  BY <1>1, <1>2, <1>9, EntryWants DEF EmbyWants
<1>10. CASE EmbyWatched
  <2> DEFINE S == {i \in Requested : account[i].status # 3}
             s == Each(LAMBDA i : Put(i, [status |-> 3]), S)
  <2>1. call.service = "emby" /\ pc = "reading" /\ ~AnyUnsupported /\ Plan(s, "sending")
    BY <1>10 DEF EmbyWatched, Doing, Flow
  <2>2. S \in SUBSET Requested /\ \A i \in Requested \ S : account[i].status = 3
    OBVIOUS
  <2> HIDE DEF S
  <2>3. s = [n \in DOMAIN InOrder(S) |-> Put(InOrder(S)[n], [status |-> 3])]
    BY DEF Each
  <2> HIDE DEF s
  <2> QED
    BY <1>2, <1>9, <2>1, <2>2, <2>3, StatusSound
<1>11. CASE EmbyVerify /\ ~Fail
  <2>1. call.service = "emby" /\ pc = "verifying" /\ todo # <<>> /\ ~AnyUnsupported /\ call.service \in Verifying
    BY <1>11 DEF EmbyVerify, Flow, HasNext, Verifying
  <2>2. DOMAIN todo[1].rows = {Target(todo[1])} /\ Head(todo) = todo[1] /\ 1 \in DOMAIN todo
    BY <1>1, <2>1, LookedUpWrite, PlannedTail DEF Flow
  <2>3. Advance({Target(todo[1])}, "sending", "done") /\ account[Target(todo[1])].status = 3
    BY <1>11, <2>2 DEF EmbyVerify
  <2>4. ASSUME NEW i \in DOMAIN todo[1].rows PROVE AllHold(call, account[i], i)
    <3>1. i \in Requested /\ account[i] \in RowSet /\ account[i].status = 3
      BY <1>1, <2>2, <2>3, CallState DEF Flow, Planned, Proper
    <3>2. Agreeing(call) /\ Want(i) = [status |-> 3]
      BY <1>1, <1>9, <2>1, <3>1, OneWant
    <3>3. Holds(account[i], [status |-> 3])
      BY <3>1 DEF Holds, RowSet
    <3> QED
      BY <1>1, <3>1, <3>2, <3>3, WantOfAll
  <2> QED
    BY <1>1, <2>1, <2>3, <2>4, LookedUpSound
<1> QED
  BY <1>3, <1>4, <1>6, <1>7, <1>8, <1>10, <1>11 DEF MediaServerNext

LEMMA PlexSound ==
  ASSUME Flow, Sound, PlexNext
  PROVE  Sound'
<1>1. /\ call.service = "plex" /\ call \in Calls /\ ~Unread /\ call.service \in Verifying
      /\ call.feature \in {"ratings", "watched"} /\ ~Binary(call)
  <2>1. call.service = "plex" /\ call \in Calls
    BY DEF Flow, PlexNext, PlexValidate, PlexPlan, PlexRecheck, PlexVerify
  <2> QED
    BY <2>1, CallsAssumption, ReadWhatIsNotFound DEF Imports, Verifying, Binary
<1>2. CASE Fail
  BY <1>2, FailSound
<1>3. CASE PlexValidate /\ ~Fail
  BY <1>1, <1>3, ValidSound DEF PlexValidate
<1>4. ASSUME ~AnyUnsupported, NEW i \in Requested
      PROVE  /\ call.feature = "ratings" => Want(i) = [rating |-> 1] \/ Want(i) = [rating |-> 2]
             /\ call.feature # "ratings" => Want(i) = [atLeast |-> 1]
  <2>1. Wants(call.service, call.feature, i) = PlexWants(call.feature)
    BY <1>1 DEF Wants, ListServices
  <2>2. Want(i) \in Wants(call.service, call.feature, i) /\ Want(i) # Unsupported
    BY <1>1, <1>4, CallState
  <2> QED
    BY <2>1, <2>2 DEF PlexWants
<1>5. CASE PlexPlan /\ ~Fail
  <2> DEFINE S == {i \in Requested : ~Holds(account[i], Want(i))}
             write(i) == IF call.feature = "ratings" THEN Put(i, Want(i)) ELSE Play(i)
             s == Each(write, S)
             g == [i \in S |-> write(i)]
  <2>1. pc = "reading" /\ ~AnyUnsupported /\ ~Conflicting /\ Plan(s, "rechecking")
    BY <1>5 DEF PlexPlan, Flow
  <2>2. S \in SUBSET Requested /\ \A i \in Requested \ S : Holds(account[i], Want(i))
    OBVIOUS
  <2> HIDE DEF S
  <2>3. \A n \in DOMAIN InOrder(S) : InOrder(S)[n] \in S
    BY <1>1, <2>2, InOrderIsAll, ElementOfSeq
  <2>4. DOMAIN s = DOMAIN InOrder(S) /\ \A n \in DOMAIN InOrder(S) : s[n] = g[InOrder(S)[n]]
    BY <2>3 DEF Each
  <2>5. Agreeing(call)
    BY <1>1, <2>1, NothingContradicts
  <2>6. ASSUME NEW i \in S
        PROVE  DOMAIN g[i].rows = {i} /\ g[i].kind # "episodes" /\ Apt(call, g[i], account)
    <3>1. i \in Requested /\ call.service \notin {"trakt", "shikimori", "kodi", "emby", "annict"}
      BY <1>1, <2>2
    <3>2. CASE call.feature = "ratings"
      <4>1. g[i] = Put(i, Want(i))
        BY <3>2
      <4>2. "atLeast" \notin DOMAIN Want(i)
        BY <1>4, <2>1, <3>1, <3>2
      <4> HIDE DEF g
      <4> QED
        BY <1>1, <2>5, <3>1, <4>1, <4>2, WantsServe
    <3>3. CASE call.feature # "ratings"
      <4>1. g[i] = Play(i)
        BY <3>3
      <4>2. Want(i) = [atLeast |-> 1]
        BY <1>4, <2>1, <3>1, <3>3
      <4> HIDE DEF g
      <4> QED
        BY <1>1, <2>5, <3>1, <4>1, <4>2, PlayServes
    <3> QED
      BY <3>2, <3>3
  <2>7. \A i \in Requested \ S : AllHold(call, account[i], i)
    BY <1>1, <2>2, <2>5, WantOfAll
  <2> HIDE DEF g, s
  <2> QED
    BY <1>1, <2>1, <2>2, <2>4, <2>5, <2>6, <2>7, EachSound
<1>6. CASE PlexRecheck /\ ~Fail
  <2>1. pc = "rechecking" /\ pc \in Writing /\ ~AnyUnsupported /\ \A i \in Requested : Unchanged(i)
    BY <1>6 DEF PlexRecheck, Flow, Writing
  <2>2. Agreeing(call)
    BY <1>1, <2>1 DEF Sound, Agreed
  <2>3. ASSUME NEW i \in Requested PROVE Remains(call, todo, i) \/ AllHold(call, account[i], i)
    <3>1. SUFFICES ASSUME seen[i] \in RowSet, AllHold(call, seen[i], i) PROVE AllHold(call, account[i], i)
      BY <1>1, <2>1 DEF Sound, Covered
    <3>2. account[i] \in RowSet /\ Unchanged(i) /\ Holds(seen[i], Want(i))
      BY <1>1, <2>1, <2>2, <3>1, CallState, WantOfAll DEF Flow
    <3>3. Holds(account[i], Want(i))
      <4>1. CASE call.feature = "ratings"
        <5>1. account[i].rating = seen[i].rating /\ (Want(i) = [rating |-> 1] \/ Want(i) = [rating |-> 2])
          BY <1>4, <2>1, <3>2, <4>1 DEF Unchanged
        <5> QED
          BY <3>1, <3>2, <5>1 DEF Holds, RowSet
      <4>2. CASE call.feature # "ratings"
        <5>1. account[i].plays = seen[i].plays /\ Want(i) = [atLeast |-> 1]
          BY <1>4, <2>1, <3>2, <4>2 DEF Unchanged
        <5> QED
          BY <3>1, <3>2, <5>1 DEF Holds, RowSet
      <4> QED
        BY <4>1, <4>2
    <3> QED
      BY <1>1, <2>2, <3>3, WantOfAll
  <2>4. CASE todo = <<>>
    <3>1. Succeed(Requested)
      BY <1>6, <2>1, <2>4 DEF PlexRecheck
    <3>2. \A i \in Requested : AllHold(call, account[i], i)
      BY <2>3, <2>4 DEF Remains
    <3> QED
      BY <3>1, <3>2, SucceedSound
  <2>5. CASE todo # <<>>
    <3>1. Look(Requested, "sending")
      BY <1>6, <2>1, <2>5 DEF PlexRecheck
    <3>2. \A i \in Requested : Ahead(call, todo, "sending", seen, i) \/ AllHold(call, account[i], i)
      BY <1>1, <2>3 DEF Ahead
    <3>3. pc # "final"
      BY <2>1
    <3> QED
      BY <2>1, <3>1, <3>2, <3>3, LookSound
  <2> QED
    BY <2>4, <2>5
<1>7. CASE PlexVerify /\ ~Fail
  <2>1. pc = "verifying" /\ pc \in Writing /\ todo # <<>>
    BY <1>7 DEF PlexVerify, Flow, HasNext, Writing
  <2>2. DOMAIN todo[1].rows = {Target(todo[1])} /\ Head(todo) = todo[1] /\ 1 \in DOMAIN todo
    BY <1>1, <2>1, LookedUpWrite, PlannedTail DEF Flow
  <2>3. /\ Advance({Target(todo[1])}, "sending", "done")
        /\ Holds(account[Target(todo[1])], Want(Target(todo[1])))
    BY <1>7, <2>2 DEF PlexVerify
  <2>4. Agreeing(call)
    BY <1>1, <2>1 DEF Sound, Agreed
  <2>5. ASSUME NEW i \in DOMAIN todo[1].rows PROVE AllHold(call, account[i], i)
    <3>1. i \in Requested
      BY <2>2 DEF Flow, Planned, Proper
    <3> QED
      BY <1>1, <2>2, <2>3, <2>4, <3>1, WantOfAll
  <2> QED
    BY <1>1, <2>1, <2>3, <2>5, LookedUpSound
<1> QED
  BY <1>2, <1>3, <1>5, <1>6, <1>7 DEF PlexNext

\* The plan of the statuses, the episodes and the statuses again.
LEMMA BangumiOrdered ==
  ASSUME Flow, Sound, ~Unread, BangumiWatched, ~Fail
  PROVE  /\ Agreeing(call) /\ Orderly(call, BangumiWrites, account)
         /\ \A i \in Requested : Remains(call, BangumiWrites, i)
<1>1. /\ call \in Calls /\ ~AnyUnsupported /\ call.service = "bangumi" /\ call.feature = "watched"
      /\ ~Conflicting /\ \A e \in Requested \cap Episode : Parent[e] \in Requested
      /\ Titles \in SUBSET Requested /\ ~Binary(call)
  BY DEF Flow, Sound, Validated, BangumiRefuses, BangumiWatched, Doing, Titles, Binary
<1>2. Agreeing(call)
  BY <1>1, NothingContradicts
<1>3. ASSUME NEW i \in Requested
      PROVE  IF i \in Episode THEN Want(i) = [status |-> 3]
             ELSE \/ Want(i) \in [status : {2, 3}]
                  \/ Want(i) \in [status : {2, 3}, progress : {0, 1}]
  <2>1. Wants(call.service, call.feature, i) = BangumiWants("watched", i)
    BY <1>1 DEF Wants, ListServices
  <2>2. Want(i) \in Wants(call.service, call.feature, i) /\ Want(i) # Unsupported
    BY <1>1, CallState
  <2> QED
    BY <2>1, <2>2 DEF BangumiWants
<1>4. ASSUME NEW t \in Titles
      PROVE  /\ DOMAIN writeCollection(t).rows = {t} /\ writeCollection(t).kind # "episodes"
             /\ Apt(call, writeCollection(t), account)
  <2> DEFINE fields == [status |-> Want(t).status]
  <2>1. t \in Requested /\ t \notin Episode
    BY DEF Titles
  <2>2. \/ Want(t) \in [status : {2, 3}] \/ Want(t) \in [status : {2, 3}, progress : {0, 1}]
    BY <1>3, <2>1
  <2>3. \A row \in RowSet : row.status = Want(t).status => Holds(row, Want(t))
    BY <2>2 DEF Holds, RowSet
  <2>4. DOMAIN fields = {"status"} /\ fields.status = Want(t).status
    OBVIOUS
  <2>5. writeCollection(t) = Put(t, fields)
    BY DEF writeCollection
  <2> HIDE DEF fields
  <2>6. \A row \in RowSet : (\A f \in DOMAIN fields \cap DOMAIN row : row[f] = fields[f]) => Holds(row, Want(t))
    BY <2>3, <2>4 DEF RowSet
  <2>7. call.service # "trakt"
    BY <1>1
  <2> QED
    BY <1>1, <1>2, <2>1, <2>5, <2>6, <2>7, PutServes
<1>5. ASSUME NEW t
      PROVE  DOMAIN writeEpisodes(t).rows = doneIds(t) /\ Apt(call, writeEpisodes(t), account)
  <2> DEFINE w == writeEpisodes(t)
  <2>1. /\ w.kind = "episodes" /\ DOMAIN w.rows = doneIds(t) /\ \A e \in doneIds(t) : w.rows[e] = [status |-> 3]
        /\ doneIds(t) \subseteq Requested \cap Episode
    BY DEF writeEpisodes, doneIds, MainEpisodes
  <2> HIDE DEF w
  <2>2. ASSUME NEW e \in DOMAIN w.rows, NEW row \in RowSet, Done(row, w.kind, w.rows[e])
        PROVE  AllHold(call, row, e)
    <3>1. row.status = 3
      BY <2>1, <2>2 DEF Done, RowSet
    <3>2. e \in Requested /\ Want(e) = [status |-> 3]
      BY <1>3, <2>1
    <3>3. Holds(row, [status |-> 3])
      BY <3>1 DEF Holds, RowSet
    <3> QED
      BY <1>1, <1>2, <3>2, <3>3, WantOfAll
  <2>3. Serves(call, w)
    BY <2>2 DEF Serves
  <2>4. Tame(call, w) /\ ~IsRecord(w)
    BY <1>1, <2>1 DEF Tame, IsRecord
  <2>5. Apt(call, w, account)
    BY <1>1, <2>3, <2>4 DEF Apt, Verifying
  <2> QED
    BY <2>1, <2>5 DEF w
<1> DEFINE withEpisodes == {t \in Titles : doneIds(t) # {}}
           first == Each(writeCollection, Titles)
           middle == Each(writeEpisodes, withEpisodes)
           last == Each(writeCollection, withEpisodes)
<1>6. withEpisodes \in SUBSET Titles /\ withEpisodes \in SUBSET Requested
  BY <1>1
<1>7. /\ DOMAIN first = DOMAIN InOrder(Titles) /\ DOMAIN last = DOMAIN InOrder(withEpisodes)
      /\ DOMAIN middle = DOMAIN InOrder(withEpisodes)
      /\ \A n \in DOMAIN first : first[n] = writeCollection(InOrder(Titles)[n])
      /\ \A n \in DOMAIN middle : middle[n] = writeEpisodes(InOrder(withEpisodes)[n])
      /\ \A n \in DOMAIN last : last[n] = writeCollection(InOrder(withEpisodes)[n])
  BY DEF Each
<1>8. BangumiWrites = first \o middle \o last
  BY DEF BangumiWrites
<1>9. ASSUME NEW S \in SUBSET Requested
      PROVE  /\ \A n \in DOMAIN InOrder(S) : InOrder(S)[n] \in S
             /\ \A i \in S : \E n \in DOMAIN InOrder(S) : InOrder(S)[n] = i
             /\ Len(InOrder(S)) \in Nat /\ DOMAIN InOrder(S) = 1..Len(InOrder(S))
  BY <1>1, InOrderIsAll, ElementOfSeq
<1>10. Planned(first) /\ Planned(middle) /\ Planned(last)
  <2>1. ASSUME NEW S \in SUBSET Titles PROVE Planned(Each(writeCollection, S)) /\ Planned(Each(writeEpisodes, S))
    BY BangumiParts, <2>1
  <2> HIDE DEF withEpisodes
  <2> QED
    BY <1>6, <2>1
<1> HIDE DEF first, middle, last
<1> DEFINE both == first \o middle
           all == both \o last
           p == Len(first)
           q == Len(both)
<1>11. /\ p \in Nat /\ Len(middle) \in Nat /\ q = p + Len(middle)
       /\ DOMAIN first = 1..p /\ DOMAIN middle = 1..Len(middle) /\ DOMAIN both = 1..q
       /\ \A n \in DOMAIN both : both[n] = IF n <= p THEN first[n] ELSE middle[n - p]
       /\ Planned(both)
  BY <1>10, PlannedBoth
<1>12. /\ Len(last) \in Nat /\ DOMAIN last = 1..Len(last) /\ DOMAIN all = 1..(q + Len(last))
       /\ \A n \in DOMAIN all : all[n] = IF n <= q THEN both[n] ELSE last[n - q]
       /\ BangumiWrites = all
  BY <1>8, <1>10, <1>11, PlannedBoth
<1> DEFINE x == Len(middle)
           y == Len(last)
<1> HIDE DEF p, q, x, y, withEpisodes, both, all
<1>13. /\ p \in Nat /\ x \in Nat /\ y \in Nat /\ q = p + x
       /\ DOMAIN first = 1..p /\ DOMAIN middle = 1..x /\ DOMAIN last = 1..y /\ DOMAIN BangumiWrites = 1..(q + y)
       /\ \A n \in 1..(q + y) : BangumiWrites[n] = IF n <= p THEN first[n]
                                                    ELSE IF n <= q THEN middle[n - p] ELSE last[n - q]
  <2>1. /\ p \in Nat /\ x \in Nat /\ y \in Nat /\ q = p + x
        /\ DOMAIN first = 1..p /\ DOMAIN middle = 1..x /\ DOMAIN last = 1..y
        /\ BangumiWrites = all /\ DOMAIN all = 1..(q + y) /\ DOMAIN both = 1..q
    BY <1>11, <1>12 DEF x, y
  <2>2. \A n \in 1..q : both[n] = IF n <= p THEN first[n] ELSE middle[n - p]
    BY <1>11, <2>1
  <2>3. \A n \in 1..(q + y) : all[n] = IF n <= q THEN both[n] ELSE last[n - q]
    BY <1>12, <2>1
  <2>4. \A n \in 1..(q + y) : (n <= p => n <= q) /\ (n <= q => n \in 1..q)
    BY <2>1
  <2> QED
    BY <2>1, <2>2, <2>3, <2>4
<1>14. \A n \in DOMAIN first : n \in DOMAIN BangumiWrites /\ BangumiWrites[n] = first[n]
  BY <1>13
<1>15. \A n \in DOMAIN middle : n + p \in DOMAIN BangumiWrites /\ BangumiWrites[n + p] = middle[n]
  <2> SUFFICES ASSUME NEW n \in 1..x PROVE n + p \in 1..(q + y) /\ BangumiWrites[n + p] = middle[n]
    BY <1>13
  <2>1. n + p \in 1..(q + y) /\ ~(n + p <= p) /\ n + p <= q /\ n + p - p = n
    BY <1>13
  <2> QED
    BY <1>13, <2>1
<1>16. \A n \in DOMAIN last : n + q \in DOMAIN BangumiWrites /\ BangumiWrites[n + q] = last[n]
  <2> SUFFICES ASSUME NEW n \in 1..y PROVE n + q \in 1..(q + y) /\ BangumiWrites[n + q] = last[n]
    BY <1>13
  <2>1. n + q \in 1..(q + y) /\ ~(n + q <= p) /\ ~(n + q <= q) /\ n + q - q = n
    BY <1>13
  <2> QED
    BY <1>13, <2>1
<1>17. \A n \in DOMAIN BangumiWrites :
         \/ n \in DOMAIN first /\ BangumiWrites[n] = first[n]
         \/ n > p /\ n <= q /\ n - p \in DOMAIN middle /\ BangumiWrites[n] = middle[n - p]
         \/ n - q \in DOMAIN last /\ BangumiWrites[n] = last[n - q]
  <2> SUFFICES ASSUME NEW n \in 1..(q + y)
               PROVE  \/ n \in 1..p /\ BangumiWrites[n] = first[n]
                      \/ n > p /\ n <= q /\ n - p \in 1..x /\ BangumiWrites[n] = middle[n - p]
                      \/ n - q \in 1..y /\ BangumiWrites[n] = last[n - q]
    BY <1>13
  <2>1. CASE n <= p
    BY <1>13, <2>1
  <2>2. CASE n > p /\ n <= q
    <3>1. n - p \in 1..x /\ ~(n <= p)
      BY <1>13, <2>2
    <3> QED
      BY <1>13, <2>2, <3>1
  <2>3. CASE n > q
    <3>1. n - q \in 1..y /\ ~(n <= p) /\ ~(n <= q)
      BY <1>13, <2>3
    <3> QED
      BY <1>13, <3>1
  <2> QED
    BY <1>13, <2>1, <2>2, <2>3
<1>18. ASSUME NEW n \in DOMAIN BangumiWrites
       PROVE  /\ Apt(call, BangumiWrites[n], account)
              /\ BangumiWrites[n].kind = "episodes" =>
                   \A e \in DOMAIN BangumiWrites[n].rows :
                     \E k \in DOMAIN BangumiWrites : n < k /\ Parent[e] \in DOMAIN BangumiWrites[k].rows
  <2>1. CASE n \in DOMAIN first /\ BangumiWrites[n] = first[n]
    BY <1>1, <1>4, <1>7, <1>9, <2>1
  <2>2. CASE n > p /\ n <= q /\ n - p \in DOMAIN middle /\ BangumiWrites[n] = middle[n - p]
    <3> DEFINE t == InOrder(withEpisodes)[n - p]
    <3>1. BangumiWrites[n] = writeEpisodes(t) /\ t \in withEpisodes
      BY <1>6, <1>7, <1>9, <2>2
    <3>2. PICK j \in DOMAIN last : j = n - p
      BY <1>7, <2>2
    <3>3. last[j] = writeCollection(t) /\ DOMAIN last[j].rows = {t}
      BY <1>4, <1>6, <1>7, <3>1, <3>2
    <3>4. j + q \in DOMAIN BangumiWrites /\ BangumiWrites[j + q] = last[j] /\ n < j + q
      <4>1. j >= 1 /\ j \in Nat /\ n \in Nat
        BY <1>13, <3>2
      <4> QED
        BY <1>13, <1>16, <2>2, <3>2, <4>1
    <3>5. \A e \in DOMAIN BangumiWrites[n].rows : Parent[e] = t
      BY <1>5, <3>1 DEF doneIds, MainEpisodes
    <3> QED
      BY <1>5, <3>1, <3>3, <3>4, <3>5
  <2>3. CASE n - q \in DOMAIN last /\ BangumiWrites[n] = last[n - q]
    BY <1>4, <1>6, <1>7, <1>9, <2>3
  <2> QED
    BY <1>17, <2>1, <2>2, <2>3
<1>19. Orderly(call, BangumiWrites, account)
  BY <1>1, <1>18 DEF Orderly
<1>20. ASSUME NEW i \in Requested PROVE Remains(call, BangumiWrites, i)
  <2>1. CASE i \in Titles
    <3>1. PICK n \in DOMAIN InOrder(Titles) : InOrder(Titles)[n] = i
      BY <1>1, <1>9, <2>1
    <3>2. i \in DOMAIN first[n].rows
      BY <1>4, <1>7, <2>1, <3>1
    <3> QED
      BY <1>1, <1>7, <1>14, <1>15, <3>1, <3>2 DEF Remains
  <2>2. CASE i \notin Titles
    <3>1. /\ i \in Requested \cap Episode /\ Parent[i] \in Titles /\ i \in doneIds(Parent[i])
          /\ Parent[i] \in withEpisodes
      BY <1>1, <2>2, ImportAssumption DEF Titles, doneIds, MainEpisodes, withEpisodes
    <3>2. PICK n \in DOMAIN InOrder(withEpisodes) : InOrder(withEpisodes)[n] = Parent[i]
      BY <1>6, <1>9, <3>1
    <3>3. i \in DOMAIN middle[n].rows
      BY <1>5, <1>7, <3>1, <3>2
    <3> QED
      BY <1>1, <1>7, <1>14, <1>15, <3>2, <3>3 DEF Remains
  <2> QED
    BY <2>1, <2>2
<1> QED
  BY <1>2, <1>19, <1>20

LEMMA BangumiSound ==
  ASSUME Flow, Sound, BangumiNext
  PROVE  Sound'
<1>1. /\ call.service = "bangumi" /\ call \in Calls /\ ~Unread /\ ~Binary(call)
      /\ call.feature \in {"ratings", "watched", "watchlist"}
  <2>1. call.service = "bangumi" /\ call \in Calls
    BY DEF Flow, BangumiNext, BangumiValidate, BangumiRatings, BangumiWatchlist, BangumiWatched,
           BangumiWritten, Doing
  <2> QED
    BY <2>1, CallsAssumption, ReadWhatIsNotFound DEF Imports, Binary
<1>2. \A i : Wants(call.service, call.feature, i) = BangumiWants(call.feature, i)
  BY <1>1 DEF Wants, ListServices
<1>3. CASE Fail
  BY <1>3, FailSound
<1>4. CASE BangumiValidate /\ ~Fail
  BY <1>1, <1>4, ValidSound DEF BangumiValidate
<1>5. CASE BangumiRatings /\ ~Fail
  <2> DEFINE s == Each(LAMBDA t : Put(t, Want(t)), Titles)
  <2>1. pc = "reading" /\ call.feature = "ratings" /\ ~AnyUnsupported /\ Plan(s, "sending")
    BY <1>5 DEF BangumiRatings, Doing, Flow
  <2>2. s = [n \in DOMAIN InOrder(Titles) |-> Put(InOrder(Titles)[n], Want(InOrder(Titles)[n]))]
    BY DEF Each
  <2> HIDE DEF s
  <2>3. ~Conflicting /\ Titles = Requested
    BY <1>1, <2>1 DEF Sound, Validated, BangumiRefuses, Titles
  <2>4. Agreeing(call)
    BY <1>1, <2>3, NothingContradicts
  <2>5. ASSUME NEW i \in Requested PROVE "atLeast" \notin DOMAIN Want(i)
    <3>1. Want(i) \in BangumiWants("ratings", i) /\ Want(i) # Unsupported
      BY <1>1, <1>2, <2>1, CallState
    <3> QED
      BY <3>1 DEF BangumiWants
  <2> QED
    BY <1>1, <2>1, <2>2, <2>3, <2>4, <2>5, WantsSound
<1>6. CASE BangumiWatchlist /\ ~Fail
  <2> DEFINE S == {t \in Titles : account[t].status = 0}
             s == Each(LAMBDA t : Put(t, [status |-> 1]), S)
  <2>1. /\ pc = "reading" /\ call.feature = "watchlist" /\ ~AnyUnsupported /\ Plan(s, "sending")
        /\ \A i \in Requested : ~(account[i].status > 1)
    BY <1>6 DEF BangumiWatchlist, Doing, Flow
  <2>2. Titles = Requested
    BY <1>1, <2>1 DEF Sound, Validated, BangumiRefuses, Titles
  <2>3. S \in SUBSET Requested /\ \A i \in Requested \ S : account[i].status = 1
    <3>1. \A i \in Requested : account[i].status \in Nat
      BY <1>1, CallState DEF Sound, Statused, Statuses
    <3> QED
      BY <2>1, <2>2, <3>1
  <2> HIDE DEF S
  <2>4. s = [n \in DOMAIN InOrder(S) |-> Put(InOrder(S)[n], [status |-> 1])]
    BY DEF Each
  <2> HIDE DEF s
  <2>5. \A e \in Range(call.entries) : e.want = [status |-> 1]
    BY <1>1, <1>2, <2>1, EntryWants DEF BangumiWants
  <2> QED
    BY <1>1, <2>1, <2>3, <2>4, <2>5, StatusSound
<1>7. CASE BangumiWatched /\ ~Fail
  <2>1. pc = "reading" /\ Plan(BangumiWrites, "sending")
    BY <1>7 DEF BangumiWatched, Doing
  <2> QED
    BY <1>1, <1>7, <2>1, BangumiOrdered, PlanSound
<1>8. CASE BangumiWritten
  <2>1. Answered /\ Advance({}, "sending", "done")
    BY <1>8 DEF BangumiWritten
  <2>2. answer = "applied"
    BY <1>1, <2>1, AnswerIsApplied DEF ReadsBack
  <2> QED
    BY <1>1, <2>1, <2>2, WrittenSound
<1> QED
  BY <1>3, <1>4, <1>5, <1>6, <1>7, <1>8 DEF BangumiNext

LEMMA TraktSound ==
  ASSUME Flow, Sound, TraktNext
  PROVE  Sound'
<1>1. /\ call.service = "trakt" /\ call \in Calls /\ UNCHANGED call
      /\ call.feature \in Batches \cup {"reviews", "following"}
  <2>1. call.service = "trakt" /\ call \in Calls
    BY DEF Flow, TraktNext, TraktBatch, TraktValidate, TraktReviews, TraktFollowing, TraktProfiles,
           TraktWritten, TraktFinal, Doing
  <2> QED
    BY <2>1, CallsAssumption, HandlersFrame DEF Imports, Batches
<1>2. SUFFICES ASSUME ~Unread PROVE Sound'
  BY <1>1, SoundFrame DEF Sound
<1>3. call.feature \in {"reviews", "following"} /\ call.feature \notin Batches
  BY <1>1, <1>2, ReadFeatures DEF Batches
<1>4. CASE Fail
  BY <1>4, FailSound
<1>5. CASE TraktValidate /\ ~Fail
  <2>1. pc = "validating" /\ ~Repeated
    BY <1>5 DEF TraktValidate
  <2>2. Agreeing(call)
    BY <1>1, <2>1, NothingContradicts
  <2>3. CASE call.dryRun
    BY <1>5, <2>3, SucceedSound DEF TraktValidate
  <2>4. CASE ~call.dryRun
    BY <1>1, <1>5, <2>1, <2>2, <2>4, ValidSound DEF TraktValidate
  <2> QED
    BY <2>3, <2>4
<1>6. ASSUME ~AnyUnsupported, NEW e \in Range(call.entries)
      PROVE  e.want = IF call.feature = "reviews" THEN [atLeast |-> 1] ELSE [status |-> 1]
  <2>1. Wants(call.service, call.feature, e.item) = TraktWants(call.feature)
    BY <1>1 DEF Wants, ListServices
  <2>2. e.want \in TraktWants(call.feature) /\ e.want # Unsupported
    BY <1>1, <1>6, <2>1, EntryWants
  <2> QED
    BY <1>3, <2>2 DEF TraktWants
<1>7. CASE TraktReviews /\ ~Fail
  <2> DEFINE S == {i \in Requested : account[i].plays = 0}
             s == Each(Play, S)
             g == [i \in S |-> Play(i)]
  <2>1. pc = "reading" /\ call.feature = "reviews" /\ ~AnyUnsupported /\ Plan(s, "sending")
    BY <1>7 DEF TraktReviews, Doing, Flow
  <2>2. S \in SUBSET Requested /\ (\A i \in S : account[i].plays = 0) /\ \A i \in Requested \ S : account[i].plays # 0
    OBVIOUS
  <2> HIDE DEF S
  <2>3. \A n \in DOMAIN InOrder(S) : InOrder(S)[n] \in S
    BY <1>1, <2>2, InOrderIsAll, ElementOfSeq
  <2>4. DOMAIN s = DOMAIN InOrder(S) /\ \A n \in DOMAIN InOrder(S) : s[n] = g[InOrder(S)[n]]
    BY <2>3 DEF Each
  <2>5. Agreeing(call) /\ \A i \in Requested : Want(i) = [atLeast |-> 1]
    BY <1>1, <1>6, <2>1, OneWant
  <2>6. \A row : Holds(row, [atLeast |-> 1]) <=> row.plays >= 1
    BY DEF Holds
  <2>7. ASSUME NEW i \in S
        PROVE  DOMAIN g[i].rows = {i} /\ g[i].kind # "episodes" /\ Apt(call, g[i], account)
    <3>1. ~Holds(account[i], Want(i)) /\ i \in Requested
      BY <2>2, <2>5, <2>6
    <3>2. g[i] = Play(i)
      OBVIOUS
    <3> HIDE DEF g
    <3> QED
      BY <1>1, <2>5, <3>1, <3>2, PlayServes
  <2>8. ASSUME NEW i \in Requested \ S PROVE AllHold(call, account[i], i)
    <3>1. account[i] \in RowSet
      BY <1>1, CallState DEF Flow
    <3>2. account[i].plays >= 1
      BY <2>2, <3>1 DEF RowSet
    <3> QED
      BY <1>1, <2>5, <2>6, <3>2, WantOfAll
  <2> HIDE DEF g, s
  <2> QED
    BY <1>1, <2>1, <2>2, <2>4, <2>5, <2>7, <2>8, EachSound
<1>8. CASE TraktFollowing /\ ~Fail
  <2> DEFINE S == {i \in Requested : account[i].status = 0}
             s == Each(LAMBDA i : Put(i, [status |-> 1]), S)
  <2>1. /\ pc = "reading" /\ call.feature = "following" /\ ~AnyUnsupported
        /\ Plan(s, IF S = {} THEN "sending" ELSE "checking")
    BY <1>8 DEF TraktFollowing, Doing, Flow
  <2>2. /\ S \in SUBSET Requested /\ \A i \in S : account[i].status # 1
        /\ \A i \in Requested \ S : account[i].status = 1
    <3>1. \A i \in Requested : account[i].status \in {0, 1}
      BY <1>1, <1>2, <2>1, CallState DEF Sound, Statused, Statuses, Binary
    <3> QED
      BY <3>1
  <2> HIDE DEF S
  <2>3. s = [n \in DOMAIN InOrder(S) |-> Put(InOrder(S)[n], [status |-> 1])]
    BY DEF Each
  <2> HIDE DEF s
  <2>4. \A e \in Range(call.entries) : e.want = [status |-> 1]
    BY <1>6, <2>1
  <2> QED
    BY <1>1, <2>1, <2>2, <2>3, <2>4, StatusSound
<1>9. CASE TraktProfiles /\ ~Fail
  BY <1>9, GoingSound DEF TraktProfiles, Doing, Writing
<1>10. CASE TraktWritten /\ ~Fail
  <2>1. Advance({}, "sending", "final") /\ pc \in Writing /\ todo # <<>>
    BY <1>3, <1>10 DEF TraktWritten, Answered, Flow, HasNext, Writing
  <2> QED
    BY <1>1, <2>1, AdvanceSound
<1>11. CASE TraktFinal /\ ~Fail
  <2> DEFINE created == {i \in Requested : ~Holds(seen[i], Want(i))}
  <2>1. /\ pc = "final" /\ pc \in Writing /\ Succeed(created)
        /\ \A i \in created : Holds(account[i], Want(i))
    BY <1>11 DEF TraktFinal, Writing
  <2>2. Agreeing(call)
    BY <1>1, <1>2, <2>1 DEF Sound, Agreed
  <2>3. ASSUME NEW i \in Requested
        PROVE  AllHold(call, account[i], i) \/ (i \in moved /\ i \notin created)
    <3>1. CASE i \in created
      BY <1>1, <2>1, <2>2, <3>1, WantOfAll
    <3>2. CASE i \notin created
      <4>1. AllHold(call, seen[i], i)
        BY <1>1, <2>2, <3>2, WantOfAll
      <4>2. Ahead(call, todo, pc, seen, i) \/ SettledAt(call, account, moved, i)
        BY <1>2, <2>1 DEF Sound, Covered
      <4> QED
        BY <1>1, <3>2, <4>1, <4>2 DEF Ahead, SettledAt
    <3> QED
      BY <3>1, <3>2
  <2> HIDE DEF created
  <2> QED
    BY <2>1, <2>3, SucceedSound
<1>12. CASE TraktBatch
  BY <1>3, <1>12 DEF TraktBatch
<1> QED
  BY <1>4, <1>5, <1>7, <1>8, <1>9, <1>10, <1>11, <1>12 DEF TraktNext

\* The services that write what they are asked, entry by entry or in one request.
LEMMA ListOrdered ==
  ASSUME call \in Calls, Agreeing(call), call.service \in ListServices, call.feature # "following",
         ~AnyUnsupported
  PROVE  Orderly(call, ListWrites, account) /\ \A i \in Requested : Remains(call, ListWrites, i)
<1>1. /\ call.service \notin {"trakt", "simkl", "annict", "kodi"} \cup Verifying
      /\ ~Binary(call)
      /\ call.feature \in {"ratings", "watched", "watchlist", "reviews"}
      /\ call.service = "movary" => call.feature \in {"watched", "watchlist"}
  BY CallsAssumption DEF ListServices, Verifying, Binary, Imports
<1>2. ASSUME NEW i \in Requested
      PROVE  \/ "atLeast" \notin DOMAIN Want(i) /\ ~(call.service = "movary" /\ call.feature = "watched")
             \/ Want(i) = [atLeast |-> 1] /\ call.service = "movary" /\ call.feature = "watched"
  <2>1. Wants(call.service, call.feature, i) = ListWants(call.service, call.feature)
    BY DEF Wants, ListServices
  <2>2. Want(i) \in ListWants(call.service, call.feature) /\ Want(i) # Unsupported
    BY <2>1, CallState
  <2> QED
    BY <1>1, <2>2 DEF ListWants
<1>3. CASE call.service # "movary"
  <2>1. /\ DOMAIN ListWrites = DOMAIN Entries
        /\ \A n \in DOMAIN Entries : ListWrites[n] = Put(Entries[n].item, Entries[n].want)
    BY <1>3 DEF ListWrites
  <2>2. ASSUME NEW n \in DOMAIN Entries
        PROVE  /\ Entries[n].item \in Requested /\ ListWrites[n] = Put(Entries[n].item, Want(Entries[n].item))
               /\ DOMAIN ListWrites[n].rows = {Entries[n].item} /\ ListWrites[n].kind # "episodes"
               /\ Apt(call, ListWrites[n], account)
    <3>1. Entries[n] \in Range(call.entries)
      BY DEF Range, Entries
    <3>2. Entries[n].item \in Requested /\ Entries[n].want = Want(Entries[n].item)
      BY <3>1, EntryWants, WantOfAll
    <3> QED
      BY <1>1, <1>2, <1>3, <2>1, <3>2, WantsServe
  <2>3. Orderly(call, ListWrites, account)
    BY <2>1, <2>2 DEF Orderly
  <2>4. ASSUME NEW i \in Requested PROVE Remains(call, ListWrites, i)
    <3>1. PICK n \in DOMAIN Entries : Entries[n].item = i
      BY CallState
    <3> QED
      BY <1>1, <2>1, <2>2, <3>1 DEF Remains
  <2> QED
    BY <2>3, <2>4
<1>4. CASE call.service = "movary"
  <2> DEFINE w == [kind |-> IF call.feature = "watched" THEN "play" ELSE "put", rows |-> [i \in Requested |-> Want(i)]]
  <2>1. ListWrites = <<w>>
    BY <1>4 DEF ListWrites
  <2>2. /\ w.kind = (IF call.feature = "watched" THEN "play" ELSE "put")
        /\ DOMAIN w.rows = Requested /\ \A i \in Requested : w.rows[i] = Want(i)
    OBVIOUS
  <2> HIDE DEF w
  <2>3. ASSUME NEW i \in Requested, NEW row \in RowSet, Done(row, w.kind, w.rows[i])
        PROVE  AllHold(call, row, i)
    <3>1. CASE call.feature = "watched"
      <4>1. row.plays >= 1 /\ Want(i) = [atLeast |-> 1]
        BY <1>2, <1>4, <2>2, <2>3, <3>1 DEF Done
      <4>2. Holds(row, [atLeast |-> 1])
        BY <4>1 DEF Holds
      <4> QED
        BY <4>1, <4>2, WantOfAll
    <3>2. CASE call.feature # "watched"
      <4>1. "atLeast" \notin DOMAIN Want(i) /\ \A f \in DOMAIN Want(i) \cap DOMAIN row : row[f] = Want(i)[f]
        BY <1>2, <2>2, <2>3, <3>2 DEF Done
      <4>2. Holds(row, Want(i))
        BY <4>1 DEF Holds
      <4> QED
        BY <4>2, WantOfAll
    <3> QED
      BY <3>1, <3>2
  <2>4. Serves(call, w)
    BY <2>2, <2>3 DEF Serves
  <2>5. Tame(call, w)
    BY <1>1, <2>2 DEF Tame
  <2>6. Apt(call, w, account)
    BY <1>1, <1>4, <2>4, <2>5 DEF Apt
  <2>7. DOMAIN ListWrites = {1} /\ ListWrites[1] = w
    BY <2>1
  <2> QED
    BY <1>1, <2>2, <2>6, <2>7 DEF Orderly, Remains
<1> QED
  BY <1>3, <1>4

LEMMA ListSound ==
  ASSUME ListsAgree, Flow, Sound, ListNext
  PROVE  Sound'
<1>1. /\ call.service \in ListServices /\ call \in Calls /\ ~Unread
      /\ call.service \notin {"trakt", "simkl", "annict", "bangumi", "shikimori"} \cup Verifying
  <2>1. call.service \in ListServices /\ call \in Calls
    BY DEF Flow, ListNext, ListImport, AniListFollowing, ListWritten, ListServices
  <2> QED
    BY <2>1, ReadWhatIsNotFound DEF ListServices, Verifying
<1>2. Agreeing(call)
  BY <1>1 DEF ListsAgree
<1>3. CASE Fail
  BY <1>3, FailSound
<1>4. CASE ListImport /\ ~Fail
  <2>1. pc = "validating" /\ call.feature # "following" /\ ~AnyUnsupported /\ Plan(ListWrites, "sending")
    BY <1>4 DEF ListImport
  <2> QED
    BY <1>1, <1>2, <2>1, ListOrdered, PlanSound
<1>5. CASE AniListFollowing /\ ~Fail
  <2> DEFINE S == {i \in Requested : account[i].status = 0}
             s == Each(Toggle, S)
             g == [i \in S |-> Toggle(i)]
  <2>1. /\ pc = "validating" /\ call.service = "anilist" /\ call.feature = "following" /\ ~AnyUnsupported
        /\ Plan(s, "sending")
    BY <1>5 DEF AniListFollowing
  <2>2. S \in SUBSET Requested /\ \A i \in Requested \ S : account[i].status # 0
    OBVIOUS
  <2> HIDE DEF S
  <2>3. \A n \in DOMAIN InOrder(S) : InOrder(S)[n] \in S
    BY <1>1, <2>2, InOrderIsAll, ElementOfSeq
  <2>4. DOMAIN s = DOMAIN InOrder(S) /\ \A n \in DOMAIN InOrder(S) : s[n] = g[InOrder(S)[n]]
    BY <2>3 DEF Each
  <2>5. \A i \in Requested : Want(i) = [status |-> 1]
    <3>1. \A i : Wants(call.service, call.feature, i) = ListWants("anilist", "following")
      BY <2>1 DEF Wants, ListServices
    <3> QED
      BY <1>1, <2>1, <3>1, CallState DEF ListWants
  <2>6. ASSUME NEW row \in RowSet, row.status \in {0, 1}, row.status # 0, NEW i \in Requested
        PROVE  AllHold(call, row, i)
    <3>1. Holds(row, [status |-> 1])
      BY <2>6 DEF Holds, RowSet
    <3> QED
      BY <1>1, <1>2, <2>5, <3>1, WantOfAll
  <2>7. Statuses(call) = {0, 1}
    BY <2>1 DEF Statuses, Binary
  <2>8. ASSUME NEW i \in S
        PROVE  DOMAIN g[i].rows = {i} /\ g[i].kind # "episodes" /\ Apt(call, g[i], account)
    <3> DEFINE w == g[i]
    <3>1. w.kind = "toggle" /\ DOMAIN w.rows = {i} /\ w.rows[i] = <<>>
      BY WriteRows DEF Toggle
    <3> HIDE DEF w, g
    <3>2. Serves(call, w)
      BY <2>2, <2>6, <2>7, <3>1 DEF Serves, Done
    <3>3. DOMAIN <<>> = {}
      OBVIOUS
    <3>4. Tame(call, w) /\ ~IsRecord(w)
      BY <2>1, <3>1, <3>3 DEF Tame, IsRecord
    <3>5. Apt(call, w, account)
      BY <1>1, <3>1, <3>2, <3>4 DEF Apt
    <3> QED
      BY <3>1, <3>5 DEF w
  <2>9. ASSUME NEW i \in Requested \ S PROVE AllHold(call, account[i], i)
    <3>1. account[i] \in RowSet /\ account[i].status \in {0, 1}
      BY <1>1, <2>7, CallState DEF Flow, Sound, Statused
    <3> QED
      BY <2>2, <2>6, <3>1
  <2> HIDE DEF g, s
  <2> QED
    BY <1>1, <1>2, <2>1, <2>2, <2>4, <2>8, <2>9, EachSound
<1>6. CASE ListWritten /\ ~Fail
  <2>1. Answered /\ Advance({}, "sending", "done") /\ (call.service = "anilist" => answer = "applied")
    BY <1>6 DEF ListWritten
  <2>2. answer = "applied"
    <3>1. CASE call.service = "anilist"
      BY <2>1, <3>1
    <3>2. CASE call.service # "anilist"
      <4>1. ~ReadsBack /\ call.service # "simkl"
        BY <1>1, <3>2 DEF ReadsBack, ListServices
      <4> QED
        BY <1>1, <2>1, <4>1, AnswerIsApplied
    <3> QED
      BY <3>1, <3>2
  <2> QED
    BY <1>1, <2>1, <2>2, WrittenSound
<1> QED
  BY <1>3, <1>4, <1>5, <1>6 DEF ListNext

\* Simkl's history: after the first views every entry has what it wants, and the rewatches add to it.
LEMMA HistoryOrdered ==
  ASSUME call \in Calls, call.service = "simkl", call.feature = "watched", ~AnyUnsupported,
         NEW first, NEW sessions, Planned(first), Planned(sessions),
         FirstViews # {} => 1 \in DOMAIN first,
         \A n \in DOMAIN first : /\ first[n].kind = "put" /\ DOMAIN first[n].rows = FirstViews
                                 /\ \A i \in FirstViews : first[n].rows[i] = [status |-> 3],
         \A n \in DOMAIN sessions : \E i : sessions[n] = Play(i)
  PROVE  /\ Orderly(call, first \o sessions, account)
         /\ \A i \in Requested : account[i] \in RowSet =>
              Remains(call, first \o sessions, i) \/ AllHold(call, account[i], i)
<1> DEFINE writes == first \o sessions
<1>1. /\ Len(first) \in Nat /\ DOMAIN first = 1..Len(first) /\ Len(sessions) \in Nat
      /\ DOMAIN writes = 1..(Len(first) + Len(sessions))
      /\ \A n \in DOMAIN writes :
           /\ writes[n] = IF n <= Len(first) THEN first[n] ELSE sessions[n - Len(first)]
           /\ n <= Len(first) => n \in DOMAIN first
           /\ n > Len(first) => n - Len(first) \in DOMAIN sessions
  BY PlannedBoth
<1> HIDE DEF writes
<1>5. ASSUME NEW e \in Range(call.entries)
      PROVE  \/ e.want \in [status : {3}, at : {1, 2}]
             \/ e.want \in [rewatch : {TRUE}, at : {1, 2}] /\ IsRewatch(e)
  <2>1. Wants(call.service, call.feature, e.item) = SimklWants("watched")
    BY DEF Wants, ListServices
  <2>2. e.want \in SimklWants("watched") /\ e.want # Unsupported
    BY <1>5, <2>1, EntryWants
  <2>3. e.want \in [status : {3}, at : {1, 2}] \/ e.want \in [rewatch : {TRUE}, at : {1, 2}]
    BY <2>2 DEF SimklWants
  <2> QED
    BY <2>3 DEF IsRewatch
<1>6. ASSUME NEW e \in Range(call.entries), NEW row \in RowSet, row.status = 3 \/ IsRewatch(e)
      PROVE  Holds(row, e.want)
  <2>1. "at" \notin DOMAIN row /\ "rewatch" \notin DOMAIN row
    BY DEF RowSet
  <2>2. CASE e.want \in [status : {3}, at : {1, 2}]
    <3>1. DOMAIN e.want = {"status", "at"} /\ e.want.status = 3
      BY <2>2
    <3>2. row.status = 3
      BY <1>6, <3>1 DEF IsRewatch
    <3> QED
      BY <2>1, <3>1, <3>2 DEF Holds
  <2>3. CASE e.want \in [rewatch : {TRUE}, at : {1, 2}]
    <3>1. DOMAIN e.want = {"rewatch", "at"}
      BY <2>3
    <3> QED
      BY <2>1, <3>1 DEF Holds
  <2> QED
    BY <1>5, <2>2, <2>3
<1>7. /\ ~Binary(call)
      /\ call.service \notin {"trakt", "annict", "bangumi", "kodi"} \cup Verifying
  BY DEF Binary, Verifying
<1>8. ASSUME NEW n \in DOMAIN first PROVE Apt(call, first[n], account)
  <2>1. ASSUME NEW i \in FirstViews, NEW row \in RowSet, Done(row, "put", [status |-> 3])
        PROVE  AllHold(call, row, i)
    <3>1. row.status = 3
      BY <2>1 DEF Done, RowSet
    <3> QED
      BY <1>6, <3>1 DEF AllHold
  <2>2. Serves(call, first[n])
    BY <1>8, <2>1 DEF Serves
  <2>3. Tame(call, first[n]) /\ ~IsRecord(first[n])
    BY <1>8, <1>7 DEF Tame, IsRecord
  <2> QED
    BY <1>7, <2>2, <2>3 DEF Apt
<1>9. ASSUME NEW i PROVE Play(i).kind = "play" /\ Apt(call, Play(i), account)
  <2>1. Play(i).kind = "play"
    BY DEF Play
  <2>2. Serves(call, Play(i)) /\ Tame(call, Play(i))
    BY <1>7, <2>1 DEF Serves, Tame
  <2> QED
    BY <1>7, <2>1, <2>2 DEF Apt
<1>10. ASSUME NEW n \in DOMAIN writes PROVE Apt(call, writes[n], account) /\ writes[n].kind # "episodes"
  <2>1. CASE n <= Len(first)
    <3>1. n \in DOMAIN first /\ writes[n] = first[n]
      BY <1>1, <2>1
    <3> QED
      BY <1>8, <3>1
  <2>2. CASE n > Len(first)
    <3>1. writes[n] = sessions[n - Len(first)] /\ n - Len(first) \in DOMAIN sessions
      BY <1>1, <2>2
    <3>2. \E i : writes[n] = Play(i)
      BY <3>1
    <3> QED
      BY <1>9, <3>2
  <2> QED
    BY <1>1, <2>1, <2>2
<1>11. ASSUME NEW i \in Requested, account[i] \in RowSet
       PROVE  Remains(call, writes, i) \/ AllHold(call, account[i], i)
  <2>1. CASE i \in FirstViews
    <3>1. 1 \in DOMAIN first /\ 1 \in DOMAIN writes /\ writes[1] = first[1]
      BY <1>1, <2>1
    <3> QED
      BY <2>1, <3>1 DEF Remains
  <2>2. CASE i \notin FirstViews
    <3>1. \A e \in Range(call.entries) : e.item = i => IsRewatch(e)
      BY <2>2 DEF FirstViews, Entries
    <3> QED
      BY <1>6, <1>11, <3>1 DEF AllHold
  <2> QED
    BY <2>1, <2>2
<1>12. Orderly(call, writes, account)
  BY <1>10 DEF Orderly
<1> QED
  BY <1>11, <1>12 DEF writes

LEMMA SimklSound ==
  ASSUME Flow, Sound, SimklNext
  PROVE  Sound'
<1>1. call.service = "simkl" /\ call \in Calls /\ UNCHANGED call
  <2>1. call.service = "simkl" /\ call \in Calls
    BY DEF Flow, SimklNext, SimklLists, SimklValidate, SimklHistory, SimklWritten, Doing
  <2> QED
    BY <2>1, HandlersFrame
<1>2. SUFFICES ASSUME ~Unread PROVE Sound'
  BY <1>1, SoundFrame DEF Sound
<1>3. call.feature = "watched"
  BY <1>1, <1>2, ReadFeatures
<1>4. CASE Fail
  BY <1>4, FailSound
<1>5. CASE SimklLists
  BY <1>3, <1>5 DEF SimklLists
<1>6. CASE SimklValidate /\ ~Fail
  BY <1>1, <1>6, ValidSound DEF SimklValidate, Doing
<1>7. CASE SimklHistory /\ ~Fail
  <2> DEFINE normal == [kind |-> "put", rows |-> [i \in FirstViews |-> [status |-> 3]]]
             byTime == [n \in Rewatches |-> Entries[n].want.at * (Len(Entries) + 1) + n]
             oldestFirst == Sorted(Rewatches, byTime)
             sessions == [n \in DOMAIN oldestFirst |-> Play(Entries[oldestFirst[n]].item)]
             first == IF FirstViews = {} THEN <<>> ELSE <<normal>>
  <2>1. pc = "reading" /\ ~AnyUnsupported
    BY <1>7 DEF SimklHistory, Doing, Flow
  <2>2. Plan(first \o sessions, "sending")
    BY <1>7 DEF SimklHistory
  <2>3. Planned(first) /\ Planned(sessions)
    BY <1>1, <1>3, <2>1, HistoryPlanned
  <2>4. /\ Orderly(call, first \o sessions, account)
        /\ \A i \in Requested : account[i] \in RowSet =>
             Remains(call, first \o sessions, i) \/ AllHold(call, account[i], i)
    <3>1. \A n \in DOMAIN sessions : \E i : sessions[n] = Play(i)
      <4> HIDE DEF oldestFirst
      <4> QED
        OBVIOUS
    <3>2. normal.kind = "put" /\ DOMAIN normal.rows = FirstViews /\ \A i \in FirstViews : normal.rows[i] = [status |-> 3]
      OBVIOUS
    <3> HIDE DEF normal, sessions
    <3>3. /\ FirstViews # {} => 1 \in DOMAIN first
          /\ \A n \in DOMAIN first : first[n] = normal
      <4>1. DOMAIN <<>> = {} /\ DOMAIN <<normal>> = {1} /\ <<normal>>[1] = normal
        OBVIOUS
      <4> QED
        BY <4>1
    <3> HIDE DEF first
    <3> QED
      BY <1>1, <1>3, <2>1, <2>3, <3>1, <3>2, <3>3, HistoryOrdered
  <2> HIDE DEF first, sessions
  <2>5. \A i \in Requested : account[i] \in RowSet
    BY CallState DEF Flow
  <2> QED
    BY <1>1, <2>1, <2>2, <2>4, <2>5, PlanSound
<1>8. CASE SimklWritten /\ ~Fail
  <2>1. Answered /\ Advance({}, "sending", "done") /\ answer # "partial"
    BY <1>3, <1>8 DEF SimklWritten
  <2>2. ~ReadsBack
    BY <1>1 DEF ReadsBack
  <2>3. answer = "applied"
    BY <1>2, <2>1, <2>2, AnswerIsApplied
  <2> QED
    BY <1>1, <2>1, <2>3, WrittenSound
<1> QED
  BY <1>4, <1>5, <1>6, <1>7, <1>8 DEF SimklNext

\* What is known of Annict's entries once they are checked.
LEMMA AnnictKnown ==
  ASSUME call \in Calls, call.service = "annict", ~AnnictRefuses
  PROVE  /\ ~AnyUnsupported /\ Agreeing(call) /\ call.feature \in {"watched", "watchlist"}
         /\ call.feature = "watchlist" => /\ Requested \cap Episode = {}
                                          /\ \A e \in Range(call.entries) : e.want = [status |-> 1]
         /\ call.feature = "watched" =>
              /\ \A i \in Requested \ Episode : Want(i) \in {[status |-> 2], [status |-> 3]}
              /\ \A i \in Requested \cap Episode : Want(i) \in {[atLeast |-> 1], [plays |-> 1], [plays |-> 2]}
<1>1. call.feature \in {"watched", "watchlist"}
  BY CallsAssumption DEF Imports
<1>2. ~AnyUnsupported /\ (call.feature = "watchlist" => ~Repeated) /\ (call.feature = "watched" => ~Conflicting)
  BY DEF AnnictRefuses
<1>3. Agreeing(call)
  BY <1>1, <1>2, NothingContradicts
<1>4. \A i : Wants(call.service, call.feature, i) = AnnictWants(call.feature, i)
  BY DEF Wants, ListServices
<1>5. call.feature = "watchlist" => /\ Requested \cap Episode = {}
                                    /\ \A e \in Range(call.entries) : e.want = [status |-> 1]
  BY <1>2, <1>4, EntryWants DEF AnnictWants, AnnictRefuses
<1>6. \A i \in Requested : Want(i) \in AnnictWants(call.feature, i) /\ Want(i) # Unsupported
  BY <1>2, <1>4, CallState
<1>7. call.feature = "watched" =>
        /\ \A i \in Requested \ Episode : Want(i) \in {[status |-> 2], [status |-> 3]}
        /\ \A i \in Requested \cap Episode : Want(i) \in {[atLeast |-> 1], [plays |-> 1], [plays |-> 2]}
  BY <1>6 DEF AnnictWants
<1> QED
  BY <1>1, <1>2, <1>3, <1>5, <1>7

\* An episode with as many plays as it is to have, given those it had.
LEMMA PlaysHold ==
  ASSUME NEW i \in Requested, Want(i) \in {[atLeast |-> 1], [plays |-> 1], [plays |-> 2]},
         NEW row \in RowSet, NEW before, row.plays = Plays(i, before)
  PROVE  Holds(row, Want(i))
<1>1. row.plays \in Nat /\ "plays" \in DOMAIN row
  BY DEF RowSet
<1>2. CASE Want(i) = [atLeast |-> 1]
  <2>1. row.plays = IF before = 0 THEN 1 ELSE before
    BY <1>2 DEF Plays
  <2>2. row.plays >= 1
    BY <1>1, <2>1
  <2> QED
    BY <1>2, <2>2 DEF Holds
<1>3. ASSUME NEW v \in {1, 2}, Want(i) = [plays |-> v] PROVE Holds(row, Want(i))
  <2>1. row.plays = v
    BY <1>3 DEF Plays
  <2> QED
    BY <1>3, <2>1 DEF Holds
<1> QED
  BY <1>2, <1>3

LEMMA AnnictSound ==
  ASSUME Flow, Guarded, Sound, AnnictNext
  PROVE  Sound'
<1>1. /\ call.service = "annict" /\ call \in Calls /\ ~Unread /\ call.service \in Verifying
      /\ call.service \in Rechecking
  <2>1. call.service = "annict" /\ call \in Calls
    BY DEF Flow, AnnictNext, AnnictValidate, AnnictResolve, AnnictWatchlist, AnnictWatched, AnnictCheck,
           AnnictRecheck, AnnictVerify, AnnictFinal, Doing
  <2> QED
    BY <2>1, ReadWhatIsNotFound DEF Verifying, Rechecking
<1>2. CASE Fail
  BY <1>2, FailSound
<1>3. CASE (AnnictValidate \/ AnnictResolve) /\ ~Fail
  BY <1>1, <1>3, ValidSound DEF AnnictValidate, AnnictResolve
<1>4. pc \notin {"validating", "done"} => ~AnnictRefuses
  BY <1>1 DEF Sound, Validated
<1>5. CASE AnnictWatchlist /\ ~Fail
  <2> DEFINE S == {i \in Requested : account[i].status = 0}
             writes == Each(LAMBDA i : Put(i, [status |-> 1]), S)
  <2>1. /\ pc = "reading" /\ call.feature = "watchlist" /\ ~\E i \in Requested : account[i].status > 1
        /\ Plan(writes, IF writes = <<>> THEN "sending" ELSE "checking")
    BY <1>5 DEF AnnictWatchlist, Doing
  <2>2. S \in SUBSET Requested /\ \A i \in Requested \ S : account[i].status = 1
    <3>1. ASSUME NEW i \in Requested, account[i].status # 0 PROVE account[i].status = 1
      <4>1. account[i].status \in Statuses(call)
        BY <1>1, CallState DEF Sound, Statused
      <4>2. account[i].status \in Nat
        BY <1>1, <4>1 DEF Statuses, Binary
      <4> QED
        BY <2>1, <3>1, <4>2
    <3> QED
      BY <3>1
  <2> HIDE DEF S
  <2>3. writes = [n \in DOMAIN InOrder(S) |-> Put(InOrder(S)[n], [status |-> 1])]
    BY DEF Each
  <2> HIDE DEF writes
  <2>4. \A e \in Range(call.entries) : e.want = [status |-> 1]
    BY <1>1, <1>4, <2>1, AnnictKnown
  <2> QED
    BY <1>1, <2>1, <2>2, <2>3, <2>4, StatusSound
<1>6. CASE AnnictWatched /\ ~Fail
  <2> DEFINE writes == NewStatuses \o NewPlays
  <2>1. pc = "reading" /\ call.feature = "watched"
    BY <1>6 DEF AnnictWatched, Doing
  <2>2. /\ Planned(NewStatuses) /\ Planned(NewPlays)
        /\ \A n \in DOMAIN NewStatuses : \E i \in Requested \ Episode :
             NewStatuses[n] = Put(i, [status |-> Want(i).status])
        /\ \A i \in Requested \ Episode : account[i].status # Want(i).status =>
             \E n \in DOMAIN NewStatuses : NewStatuses[n] = Put(i, [status |-> Want(i).status])
        /\ \A n \in DOMAIN NewPlays : \E i \in Requested \cap Episode : NewPlays[n] = Play(i)
        /\ \A i \in Requested \cap Episode : Missing(i) # 0 => \E n \in DOMAIN NewPlays : NewPlays[n] = Play(i)
        /\ Plan(NewStatuses \o NewPlays,
                IF NewStatuses # <<>> THEN "checking"
                ELSE IF NewPlays # <<>> THEN "rechecking" ELSE "sending")
    BY <1>6, AnnictWatchedPlanned
  <2>3. /\ Len(NewStatuses) \in Nat /\ Len(NewPlays) \in Nat
        /\ DOMAIN NewStatuses = 1..Len(NewStatuses) /\ DOMAIN NewPlays = 1..Len(NewPlays)
        /\ DOMAIN writes = 1..(Len(NewStatuses) + Len(NewPlays))
        /\ \A n \in DOMAIN writes :
             /\ writes[n] = IF n <= Len(NewStatuses) THEN NewStatuses[n] ELSE NewPlays[n - Len(NewStatuses)]
             /\ n <= Len(NewStatuses) => n \in DOMAIN NewStatuses
             /\ n > Len(NewStatuses) => n - Len(NewStatuses) \in DOMAIN NewPlays
    BY <2>2, PlannedBoth
  <2>4. /\ Agreeing(call) /\ ~Binary(call)
        /\ \A i \in Requested \ Episode : Want(i) \in {[status |-> 2], [status |-> 3]}
        /\ \A i \in Requested \cap Episode : Want(i) \in {[atLeast |-> 1], [plays |-> 1], [plays |-> 2]}
    BY <1>1, <1>4, <2>1, AnnictKnown DEF Binary
  <2>5. \A i \in Requested : account[i] \in RowSet /\ \A row : AllHold(call, row, i) <=> Holds(row, Want(i))
    BY <1>1, <2>4, CallState, WantOfAll DEF Flow
  <2>6. ASSUME NEW i \in Requested \ Episode, NEW row \in RowSet, row.status = Want(i).status
        PROVE  Holds(row, Want(i))
    BY <2>4, <2>6 DEF Holds, RowSet
  <2>7. ASSUME NEW i \in Requested \ Episode
        PROVE  LET w == Put(i, [status |-> Want(i).status])
               IN  i \in DOMAIN w.rows /\ w.kind # "episodes" /\ Apt(call, w, account)
    <3> DEFINE fields == [status |-> Want(i).status]
    <3>1. DOMAIN fields = {"status"} /\ fields.status = Want(i).status
      OBVIOUS
    <3> HIDE DEF fields
    <3>2. \A row \in RowSet : (\A f \in DOMAIN fields \cap DOMAIN row : row[f] = fields[f]) => Holds(row, Want(i))
      BY <2>6, <3>1 DEF RowSet
    <3>3. DOMAIN Put(i, fields).rows = {i} /\ Put(i, fields).kind # "episodes" /\ Apt(call, Put(i, fields), account)
      BY <1>1, <2>4, <3>2, PutServes
    <3> QED
      BY <3>3 DEF fields
  <2>8. ASSUME NEW i \in Requested \cap Episode
        PROVE  i \in DOMAIN Play(i).rows /\ Play(i).kind # "episodes" /\ Apt(call, Play(i), account)
    <3> DEFINE w == Play(i)
    <3>1. w.kind = "play" /\ DOMAIN w.rows = {i}
      BY WriteRows DEF Play
    <3> HIDE DEF w
    <3>2. Serves(call, w) /\ Tame(call, w)
      BY <1>1, <2>4, <3>1 DEF Serves, Tame
    <3>3. Apt(call, w, account)
      BY <1>1, <3>1, <3>2 DEF Apt
    <3> QED
      BY <3>1, <3>3 DEF w
  <2> HIDE DEF writes
  <2>9. ASSUME NEW n \in DOMAIN writes PROVE Apt(call, writes[n], account) /\ writes[n].kind # "episodes"
    <3>1. CASE n <= Len(NewStatuses)
      <4>1. writes[n] = NewStatuses[n] /\ n \in DOMAIN NewStatuses
        BY <2>3, <3>1
      <4>2. PICK i \in Requested \ Episode : NewStatuses[n] = Put(i, [status |-> Want(i).status])
        BY <2>2, <4>1
      <4> QED
        BY <2>7, <4>1, <4>2
    <3>2. CASE n > Len(NewStatuses)
      <4>1. writes[n] = NewPlays[n - Len(NewStatuses)] /\ n - Len(NewStatuses) \in DOMAIN NewPlays
        BY <2>3, <3>2
      <4>2. PICK i \in Requested \cap Episode : NewPlays[n - Len(NewStatuses)] = Play(i)
        BY <2>2, <4>1
      <4> QED
        BY <2>8, <4>1, <4>2
    <3> QED
      BY <2>3, <3>1, <3>2
  <2>10. Orderly(call, writes, account)
    BY <2>9 DEF Orderly
  <2>11. ASSUME NEW i \in Requested PROVE Remains(call, writes, i) \/ AllHold(call, account[i], i)
    <3>1. CASE i \notin Episode /\ account[i].status # Want(i).status
      <4>1. PICK n \in DOMAIN NewStatuses : NewStatuses[n] = Put(i, [status |-> Want(i).status])
        BY <2>2, <3>1
      <4>2. n \in DOMAIN writes /\ writes[n] = NewStatuses[n]
        BY <2>3
      <4>3. i \in DOMAIN writes[n].rows
        BY <2>7, <3>1, <4>1, <4>2
      <4> QED
        BY <1>1, <4>2, <4>3 DEF Remains
    <3>2. CASE i \notin Episode /\ account[i].status = Want(i).status
      BY <2>5, <2>6, <3>2
    <3>3. CASE i \in Episode /\ Missing(i) # 0
      <4>1. PICK n \in DOMAIN NewPlays : NewPlays[n] = Play(i)
        BY <2>2, <3>3
      <4>2. Len(NewStatuses) + n \in DOMAIN writes /\ writes[Len(NewStatuses) + n] = NewPlays[n]
        <5>1. /\ n \in Nat /\ n >= 1 /\ n <= Len(NewPlays)
          BY <2>3
        <5>2. Len(NewStatuses) + n \in DOMAIN writes /\ ~(Len(NewStatuses) + n <= Len(NewStatuses))
              /\ (Len(NewStatuses) + n) - Len(NewStatuses) = n
          BY <2>3, <5>1
        <5> QED
          BY <2>3, <5>2
      <4>3. i \in DOMAIN writes[Len(NewStatuses) + n].rows
        BY <2>8, <3>3, <4>1, <4>2
      <4> QED
        BY <1>1, <4>2, <4>3 DEF Remains
    <3>4. CASE i \in Episode /\ Missing(i) = 0
      <4>1. account[i] \in RowSet /\ account[i].plays \in Nat
        BY <2>5 DEF RowSet
      <4>2. Plays(i, account[i].plays) \in {1, 2, account[i].plays}
        <5>1. Want(i) = [atLeast |-> 1] \/ Want(i) = [plays |-> 1] \/ Want(i) = [plays |-> 2]
          BY <2>4, <3>4
        <5> QED
          BY <5>1 DEF Plays
      <4>3. account[i].plays = Plays(i, account[i].plays)
        BY <3>4, <4>1, <4>2 DEF Missing
      <4>4. Want(i) \in {[atLeast |-> 1], [plays |-> 1], [plays |-> 2]}
        BY <2>4, <3>4
      <4>5. Holds(account[i], Want(i))
        BY <4>1, <4>3, <4>4, PlaysHold
      <4> QED
        BY <2>5, <4>5
    <3> QED
      BY <3>1, <3>2, <3>3, <3>4
  <2>12. Plan(writes, IF NewStatuses # <<>> THEN "checking"
                      ELSE IF NewPlays # <<>> THEN "rechecking" ELSE "sending")
    BY <2>2 DEF writes
  <2> QED
    BY <1>1, <2>1, <2>4, <2>10, <2>11, <2>12, PlanSound
<1>7. CASE AnnictCheck /\ ~Fail
  BY <1>1, <1>7, CheckSound DEF AnnictCheck
<1>8. CASE AnnictRecheck /\ ~Fail
  <2>1. pc = "rechecking" /\ Look(Episode, "sending") /\ todo # <<>> /\ pc \in Writing \ {"final"}
    BY <1>8 DEF AnnictRecheck, Flow, HasNext, Writing
  <2>2. 1 \in DOMAIN todo /\ IsRecord(todo[1])
    BY <1>1, <2>1, PlannedTail DEF Flow, Guarded
  <2>3. \A i \in Requested \cap Episode : Ahead(call, todo, "sending", seen, i)
    BY <1>1, <2>2 DEF Ahead
  <2> QED
    BY <2>1, <2>3, LookSound
<1>9. CASE AnnictVerify /\ ~Fail
  <2>1. pc = "verifying" /\ todo # <<>> /\ pc \in Writing /\ Planned(todo)
    BY <1>9 DEF AnnictVerify, Flow, HasNext, Writing
  <2>2. DOMAIN todo[1].rows = {Target(todo[1])} /\ todo[1].kind # "toggle" /\ Head(todo) = todo[1]
    BY <1>1, <2>1, LookedUpWrite
  <2>3. CASE IsRecord(todo[1])
    <3>1. Advance({}, "sending", "final")
      BY <1>9, <2>2, <2>3 DEF AnnictVerify
    <3>2. Fits(todo, call.service, call.feature)
      BY <1>1 DEF Guarded
    <3>3. \A n \in DOMAIN Tail(todo) : IsRecord(Tail(todo)[n])
      BY <1>1, <2>1, <2>3, <3>2, FitsTail
    <3> QED
      BY <1>1, <2>1, <2>3, <3>1, <3>3, AdvanceSound
  <2>4. CASE ~IsRecord(todo[1])
    <3> DEFINE next == IF Tail(todo) # <<>> /\ IsRecord(Head(Tail(todo))) THEN "rechecking" ELSE "checking"
    <3>1. /\ Holds(account[Target(todo[1])], todo[1].rows[Target(todo[1])])
          /\ Advance({Target(todo[1])}, next, "done")
      BY <1>9, <2>2, <2>4 DEF AnnictVerify
    <3>2. \A i \in DOMAIN todo[1].rows : AllHold(call, account[i], i)
      BY <1>1, <2>1, <2>2, <2>4, <3>1, VerifiedHolds DEF IsRecord
    <3>3. next \in {"checking", "rechecking", "sending"}
      OBVIOUS
    <3> HIDE DEF next
    <3> QED
      BY <1>1, <2>1, <2>4, <3>1, <3>2, <3>3, LookedUpSound
  <2> QED
    BY <2>3, <2>4
<1>10. CASE AnnictFinal /\ ~Fail
  <2>1. /\ pc = "final" /\ pc \in Writing /\ Succeed(Episode) /\ ~AnnictRefuses
        /\ \A i \in Episode : account[i].plays = Plays(i, seen[i].plays)
    BY <1>4, <1>10 DEF AnnictFinal, Writing
  <2>2. /\ Agreeing(call)
        /\ \A i \in Requested \cap Episode : Want(i) \in {[atLeast |-> 1], [plays |-> 1], [plays |-> 2]}
    BY <1>1, <2>1, AnnictKnown
  <2>3. ASSUME NEW i \in Requested
        PROVE  AllHold(call, account[i], i) \/ (i \in moved /\ i \notin Episode)
    <3>1. CASE i \in Episode
      <4>1. account[i] \in RowSet /\ Want(i) \in {[atLeast |-> 1], [plays |-> 1], [plays |-> 2]}
        BY <1>1, <2>2, <3>1, CallState DEF Flow
      <4>2. Holds(account[i], Want(i))
        BY <2>1, <3>1, <4>1, PlaysHold
      <4> QED
        BY <1>1, <2>2, <4>2, WantOfAll
    <3>2. CASE i \notin Episode
      <4>1. todo = <<>> /\ (Ahead(call, todo, pc, seen, i) \/ SettledAt(call, account, moved, i))
        BY <1>1, <2>1 DEF Sound, Covered
      <4>2. DOMAIN todo = {}
        BY <4>1
      <4> QED
        BY <1>1, <3>2, <4>1, <4>2 DEF Ahead, Remains, SettledAt
    <3> QED
      BY <3>1, <3>2
  <2> QED
    BY <2>1, <2>3, SucceedSound
<1> QED
  BY <1>2, <1>3, <1>5, <1>6, <1>7, <1>8, <1>9, <1>10 DEF AnnictNext

-----------------------------------------------------------------------------
LEMMA SoundInit ==
  Init => Sound
<1> SUFFICES ASSUME Init PROVE Sound
  OBVIOUS
<1>1. /\ call \in Calls /\ pc = "validating" /\ todo = <<>> /\ wire = {} /\ outcome = "running"
  BY DEF Init
<1>2. ASSUME NEW i \in Item PROVE account[i].status \in Statuses(call)
  <2>1. account[i] \in Rows(call.service, call.feature, i) \/ account[i] = Absent
    BY DEF Init
  <2>2. Absent.status = 0 /\ 0 \in Statuses(call)
    BY DEF Absent, Statuses
  <2> QED
    BY <1>1, <2>1, <2>2, RowStatus
<1>3. Orderly(call, <<>>, seen)
  BY DEF Orderly
<1> QED
  BY <1>1, <1>2, <1>3 DEF Sound, Statused, Validated, Told, Agreed, Covered, Successful, Writing

LEMMA SoundStep ==
  ASSUME ListsAgree, Flow, Guarded, Sound, [Next]_vars
  PROVE  Sound'
<1>1. CASE AnnictNext \/ ShikimoriNext \/ PlexNext \/ BangumiNext \/ KodiNext
  BY <1>1, AnnictSound, ShikimoriSound, PlexSound, BangumiSound, KodiSound
<1>2. CASE MediaServerNext \/ SimklNext \/ TraktNext \/ ListNext
  BY <1>2, MediaServerSound, SimklSound, TraktSound, ListSound
<1>3. CASE Send
  BY <1>3, SendSound
<1>4. CASE Reread
  <2>1. pc \in Writing \ {"final"} /\ Goto("verifying")
    BY <1>4 DEF Reread, Answered, Writing
  <2> QED
    BY <2>1, GoingSound
<1>5. CASE WriteFails \/ ReadFails
  BY <1>5, FailSound DEF WriteFails, ReadFails
<1>6. ASSUME NEW m \in wire, NEW done \in SUBSET DOMAIN m.write.rows, NEW derived \in 2..3,
             Arrive(m, done, derived)
      PROVE  Sound'
  BY <1>6, ArriveSound
<1>7. ASSUME NEW m \in wire, Vanish(m) PROVE Sound'
  BY <1>7, VanishSound
<1>8. ASSUME NEW i \in Item, NEW row \in Rows(call.service, call.feature, i), Edit(i, row)
      PROVE  Sound'
  <2>1. row.status \in Statuses(call)
    BY RowStatus DEF Flow
  <2> QED
    BY <1>8, <2>1, EditSound
<1>9. CASE Again
  BY <1>9, AgainSound
<1>10. CASE UNCHANGED vars
  <2>1. UNCHANGED <<call, pc, account, seen, todo, wire, answer, moved, outcome>>
    BY <1>10 DEF vars
  <2> QED
    BY <2>1, SoundFrame DEF Sound, Statused, Validated, Told, Agreed, Covered, Successful
<1> QED
  BY <1>1, <1>2, <1>3, <1>4, <1>5, <1>6, <1>7, <1>8, <1>9, <1>10 DEF Next, Connector

\* A connector reports success only when every requested record is at the provider as it was
\* wanted, or someone else changed it after it was last read.
THEOREM SuccessIsTrue ==
  ASSUME ListsAgree
  PROVE  Spec => SuccessIsReal
<1> DEFINE Real ==
      Succeeds /\ ~Unread =>
        \A e \in Range(Entries) : Holds(account[e.item], e.want) \/ e.item \in moved'
<1>1. Init => Flow /\ Guarded /\ Sound
  <2>1. Init => pc = "validating" /\ todo = <<>>
    BY DEF Init
  <2>2. \A service, feature : Fits(<<>>, service, feature)
    BY DEF Fits
  <2> QED
    BY <2>1, <2>2, FlowInit, SoundInit DEF Guarded
<1>2. Flow /\ Guarded /\ Sound /\ [Next]_vars => Flow' /\ Guarded' /\ Sound'
  BY ImportStep, GuardedStep, SoundStep
<1>3. ASSUME Flow, Guarded, Sound, [Next]_vars PROVE Real
  <2> SUFFICES ASSUME Succeeds, ~Unread, NEW e \in Range(Entries)
               PROVE  Holds(account[e.item], e.want) \/ e.item \in moved'
    OBVIOUS
  <2>1. UNCHANGED <<call, account>>
    <3>1. outcome # "ok" /\ outcome' = "ok"
      BY DEF Succeeds
    <3> QED
      BY <1>3, <3>1, HandlersFrame DEF Next, Connector, Send, Reread, WriteFails, ReadFails, Arrive, Vanish,
                                       Edit, Again, Fail, Goto, vars
  <2>2. Sound' /\ ~Unread' /\ Requested' = Requested
    BY <1>2, <1>3, <2>1, SoundFrame
  <2>3. e.item \in Requested
    BY DEF Requested
  <2>4. SettledAt(call, account, moved', e.item)
    BY <2>1, <2>2, <2>3 DEF Sound, Successful, Succeeds
  <2> QED
    BY <2>4 DEF SettledAt, AllHold, Entries
<1> QED
  BY <1>1, <1>2, <1>3, PTL DEF Spec, SuccessIsReal
=============================================================================
