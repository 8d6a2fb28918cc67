--------------------------- MODULE AdmissionProofs ---------------------------
(***************************************************************************)
(* Proofs about AdmissionControl for any number of requests and keys and   *)
(* any limits: BudgetInvariant, which ties the two counters to the requests*)
(* that hold a slot, is inductive, and the budgets follow from it.  A      *)
(* request is answered with its slots released whichever way it leaves, so *)
(* each step changes a set of holders by one request and its counter by    *)
(* one.  The rate limit follows from the bucket of a key, which counts what*)
(* its current window admitted: an interval of the window's length meets   *)
(* two windows at most.  DevicePolling: the last question to the provider  *)
(* lies an interval before the next poll unless a late answer moved it, and*)
(* the interval is never below both the granted one and the limit; a code  *)
(* that can still be valid keeps a session or a tombstone, once its token  *)
(* was given out a tombstone.                                              *)
(***************************************************************************)
EXTENDS MCAdmissionControl, FiniteSetTheorems, TLAPS

USE AdmissionAssumption

LEMMA HoldersAreFinite ==
  ASSUME AdmissionTypeOK
  PROVE  IsFiniteSet(slots) /\ IsFiniteSet(syncSlots)
BY FS_Subset DEF AdmissionTypeOK

\* Taking a slot adds one to its counter, releasing it takes one away.
LEMMA OneMore ==
  ASSUME NEW S, IsFiniteSet(S), NEW r, r \notin S
  PROVE  Cardinality(S \cup {r}) = Cardinality(S) + 1
BY FS_AddElement

LEMMA OneLess ==
  ASSUME NEW S, IsFiniteSet(S), NEW r
  PROVE  Cardinality(S \ {r}) = IF r \in S THEN Cardinality(S) - 1 ELSE Cardinality(S)
BY FS_RemoveElement

LEMMA CountsAreNaturals ==
  ASSUME NEW S, IsFiniteSet(S)
  PROVE  Cardinality(S) \in Nat /\ (S # {} => Cardinality(S) > 0)
BY FS_CardinalityType, FS_EmptySet

LEMMA BudgetInit ==
  ASSUME Init PROVE BudgetInvariant
<1>1. AdmissionTypeOK
  BY DEF Init, AdmissionTypeOK, Phase
<1>2. Cardinality({}) = 0
  BY FS_EmptySet
<1>3. SlotsMatchHolders
  BY <1>2 DEF Init, SlotsMatchHolders
<1> QED
  BY <1>1, <1>3 DEF BudgetInvariant

\* Release keeps the request budget; the phases follow in the steps that use it.
LEMMA ReleaseKeepsCount ==
  ASSUME BudgetInvariant, NEW r \in Request, Release(r)
  PROVE  /\ activeApiRequests' \in Nat
         /\ activeApiRequests' = Cardinality(slots')
         /\ activeApiRequests' <= MaxRequests
<1>1. IsFiniteSet(slots)
  BY HoldersAreFinite DEF BudgetInvariant
<1>2. Cardinality(slots \ {r}) = IF r \in slots THEN Cardinality(slots) - 1 ELSE Cardinality(slots)
  BY <1>1, OneLess
<1>3. r \in slots => Cardinality(slots) > 0
  BY <1>1, CountsAreNaturals
<1>4. slots' = slots \ {r}
      /\ activeApiRequests' = IF r \in slots THEN activeApiRequests - 1 ELSE activeApiRequests
  BY DEF Release
<1>5. activeApiRequests \in Nat /\ activeApiRequests = Cardinality(slots)
      /\ activeApiRequests <= MaxRequests /\ MaxRequests \in Nat
  BY DEF BudgetInvariant, SlotsMatchHolders, AdmissionTypeOK
<1> QED
  BY <1>2, <1>3, <1>4, <1>5, CountsAreNaturals

LEMMA BudgetNext ==
  ASSUME BudgetInvariant, [Next]_vars
  PROVE  BudgetInvariant'
<1> USE DEF Goto, identity, requestBudget, syncBudget, rate
<1>1. CASE UNCHANGED vars
  BY <1>1 DEF vars, BudgetInvariant, AdmissionTypeOK, SlotsMatchHolders, UnderWay
<1>2. CASE Signal \/ Closed \/ Tick
  <2>1. AdmissionTypeOK'
    BY <1>2 DEF Signal, Closed, Tick, BudgetInvariant, AdmissionTypeOK
  <2>2. UNCHANGED <<phase, kind, slots, syncSlots, activeApiRequests, activeSyncExecutions>>
    BY <1>2 DEF Signal, Closed, Tick
  <2> QED
    BY <2>1, <2>2 DEF BudgetInvariant, SlotsMatchHolders
<1>3. CASE Forced
  <2>1. AdmissionTypeOK'
    BY <1>3 DEF Forced, BudgetInvariant, AdmissionTypeOK, Phase
  <2>2. /\ UNCHANGED <<kind, slots, syncSlots, activeApiRequests, activeSyncExecutions>>
        /\ \A r \in Request : phase'[r] = IF phase[r] \in {"admitted", "handling"} THEN "cut" ELSE phase[r]
    BY <1>3 DEF Forced, UnderWay
  <2> QED
    BY <2>1, <2>2 DEF BudgetInvariant, SlotsMatchHolders
<1>4. ASSUME NEW r \in Request, Unauthorized(r) \/ AtCapacity(r) \/ RateLimited(r)
      PROVE  BudgetInvariant'
  <2>1. Refuse(r)
    BY <1>4 DEF Unauthorized, AtCapacity, RateLimited
  <2>2. AdmissionTypeOK'
    BY <2>1 DEF Refuse, BudgetInvariant, AdmissionTypeOK, Phase
  <2>3. /\ UNCHANGED <<kind, slots, syncSlots, activeApiRequests, activeSyncExecutions>>
        /\ phase[r] = "new" /\ phase'[r] = "answered"
        /\ \A q \in Request : q # r => phase'[q] = phase[q]
    BY <2>1 DEF Refuse, BudgetInvariant, AdmissionTypeOK
  <2> QED
    BY <2>2, <2>3 DEF BudgetInvariant, SlotsMatchHolders
<1>5. ASSUME NEW r \in Request, Admit(r) PROVE BudgetInvariant'
  <2>1. /\ phase[r] = "new" /\ phase'[r] = "admitted" /\ phase' \in [Request -> Phase]
        /\ \A q \in Request : q # r => phase'[q] = phase[q]
        /\ UNCHANGED <<clock, server, kind, key, syncSlots, activeSyncExecutions>>
    BY <1>5 DEF Admit, BudgetInvariant, AdmissionTypeOK, Phase
  <2>2. r \notin slots
    BY <2>1 DEF BudgetInvariant, SlotsMatchHolders
  <2>3. CASE kind[r] = "metrics"
    <3>1. UNCHANGED <<slots, activeApiRequests>>
      BY <1>5, <2>3 DEF Admit, TakeSlot
    <3> QED
      BY <2>1, <2>3, <3>1 DEF BudgetInvariant, SlotsMatchHolders, AdmissionTypeOK
  <2>4. CASE kind[r] # "metrics"
    <3>1. /\ slots' = slots \cup {r} /\ activeApiRequests' = activeApiRequests + 1
          /\ activeApiRequests < MaxRequests
      BY <1>5, <2>4 DEF Admit, TakeSlot, Room
    <3>2. activeApiRequests' = Cardinality(slots') /\ activeApiRequests' <= MaxRequests
          /\ activeApiRequests' \in Nat
      <4>1. Cardinality(slots \cup {r}) = Cardinality(slots) + 1
        BY <2>2, HoldersAreFinite, OneMore DEF BudgetInvariant
      <4>2. activeApiRequests \in Nat /\ activeApiRequests = Cardinality(slots)
        BY DEF BudgetInvariant, SlotsMatchHolders, AdmissionTypeOK
      <4>3. MaxRequests \in Nat
        OBVIOUS
      <4> QED
        BY <3>1, <4>1, <4>2, <4>3
    <3>3. slots' = {q \in Request : phase'[q] \in {"admitted", "handling", "cut"}
                                    /\ kind'[q] # "metrics"}
      BY <2>1, <2>4, <3>1 DEF BudgetInvariant, SlotsMatchHolders
    <3>4. AdmissionTypeOK'
      BY <2>1, <3>1, <3>2 DEF BudgetInvariant, AdmissionTypeOK
    <3> QED
      BY <2>1, <3>2, <3>3, <3>4 DEF BudgetInvariant, SlotsMatchHolders
  <2> QED
    BY <2>3, <2>4
<1>6. ASSUME NEW r \in Request, RefuseBody(r) PROVE BudgetInvariant'
  <2>1. /\ phase[r] = "admitted" /\ phase'[r] = "answered" /\ phase' \in [Request -> Phase]
        /\ \A q \in Request : q # r => phase'[q] = phase[q]
        /\ UNCHANGED <<clock, server, kind, key, syncSlots, activeSyncExecutions>>
        /\ Release(r)
    BY <1>6 DEF RefuseBody, BudgetInvariant, AdmissionTypeOK, Phase
  <2>2. slots' = {q \in Request : phase'[q] \in {"admitted", "handling", "cut"}
                                  /\ kind'[q] # "metrics"}
    BY <2>1 DEF Release, BudgetInvariant, SlotsMatchHolders
  <2>3. AdmissionTypeOK'
    BY <2>1, ReleaseKeepsCount DEF Release, BudgetInvariant, AdmissionTypeOK
  <2> QED
    BY <2>1, <2>2, <2>3, ReleaseKeepsCount DEF BudgetInvariant, SlotsMatchHolders
<1>7. ASSUME NEW r \in Request, Start(r) PROVE BudgetInvariant'
  <2>1. /\ phase[r] = "admitted" /\ phase'[r] = "handling" /\ phase' \in [Request -> Phase]
        /\ \A q \in Request : q # r => phase'[q] = phase[q]
        /\ UNCHANGED <<clock, server, kind, key, slots, activeApiRequests>>
    BY <1>7 DEF Start, BudgetInvariant, AdmissionTypeOK, Phase
  <2>2. r \notin syncSlots
    BY <2>1 DEF BudgetInvariant, SlotsMatchHolders
  <2>3. slots' = {q \in Request : phase'[q] \in {"admitted", "handling", "cut"}
                                  /\ kind'[q] # "metrics"}
    BY <2>1 DEF BudgetInvariant, SlotsMatchHolders
  <2>4. CASE kind[r] # "sync"
    <3>1. UNCHANGED <<syncSlots, activeSyncExecutions>>
      BY <1>7, <2>4 DEF Start
    <3> QED
      BY <2>1, <2>3, <2>4, <3>1 DEF BudgetInvariant, SlotsMatchHolders, AdmissionTypeOK
  <2>5. CASE kind[r] = "sync"
    <3>1. /\ syncSlots' = syncSlots \cup {r} /\ activeSyncExecutions' = activeSyncExecutions + 1
          /\ activeSyncExecutions < MaxSyncs
      BY <1>7, <2>5 DEF Start
    <3>2. activeSyncExecutions' = Cardinality(syncSlots') /\ activeSyncExecutions' <= MaxSyncs
          /\ activeSyncExecutions' \in Nat
      BY <2>2, <3>1, HoldersAreFinite, OneMore DEF BudgetInvariant, SlotsMatchHolders, AdmissionTypeOK
    <3>3. AdmissionTypeOK'
      BY <2>1, <3>1, <3>2 DEF BudgetInvariant, AdmissionTypeOK
    <3> QED
      BY <2>1, <2>3, <2>5, <3>1, <3>2, <3>3 DEF BudgetInvariant, SlotsMatchHolders
  <2> QED
    BY <2>4, <2>5
<1>8. ASSUME NEW r \in Request, Answer(r) PROVE BudgetInvariant'
  <2>1. /\ phase[r] = "handling" /\ phase'[r] = "answered" /\ phase' \in [Request -> Phase]
        /\ \A q \in Request : q # r => phase'[q] = phase[q]
        /\ UNCHANGED <<clock, server, kind, key>>
        /\ Release(r)
    BY <1>8 DEF Answer, BudgetInvariant, AdmissionTypeOK, Phase
  <2>2. /\ syncSlots' = syncSlots \ {r}
        /\ activeSyncExecutions' =
             IF r \in syncSlots THEN activeSyncExecutions - 1 ELSE activeSyncExecutions
    BY <1>8 DEF Answer
  <2>3. Cardinality(syncSlots') = IF r \in syncSlots THEN Cardinality(syncSlots) - 1
                                  ELSE Cardinality(syncSlots)
    BY <2>2, HoldersAreFinite, OneLess DEF BudgetInvariant
  <2>4. r \in syncSlots => Cardinality(syncSlots) > 0
    BY HoldersAreFinite, CountsAreNaturals DEF BudgetInvariant
  <2>5. activeSyncExecutions' = Cardinality(syncSlots') /\ activeSyncExecutions' <= MaxSyncs
        /\ activeSyncExecutions' \in Nat
    BY <2>2, <2>3, <2>4 DEF BudgetInvariant, SlotsMatchHolders, AdmissionTypeOK
  <2>6. slots' = {q \in Request : phase'[q] \in {"admitted", "handling", "cut"}
                                  /\ kind'[q] # "metrics"}
    BY <2>1 DEF Release, BudgetInvariant, SlotsMatchHolders
  <2>7. AdmissionTypeOK'
    BY <2>1, <2>2, <2>5, ReleaseKeepsCount DEF Release, BudgetInvariant, AdmissionTypeOK
  <2> QED
    BY <2>1, <2>2, <2>5, <2>6, <2>7, ReleaseKeepsCount DEF BudgetInvariant, SlotsMatchHolders
<1> QED
  BY <1>1, <1>2, <1>3, <1>4, <1>5, <1>6, <1>7, <1>8 DEF Next, Step

\* The counters that the limits are checked against are the numbers of the
\* requests that hold a slot, and stay within their limits, in every behaviour.
THEOREM CountersMatchHolders == Spec => []BudgetInvariant
<1>1. Init => BudgetInvariant
  BY BudgetInit
<1>2. BudgetInvariant /\ [Next]_vars => BudgetInvariant'
  BY BudgetNext
<1> QED
  BY <1>1, <1>2, PTL DEF Spec

\* The invariant bounds the requests that are really under way.
LEMMA InvariantGivesBudgets ==
  ASSUME BudgetInvariant PROVE BudgetsHold
<1> DEFINE waiting == {r \in UnderWay : kind[r] # "metrics"}
           running == {r \in Request : phase[r] = "handling" /\ kind[r] = "sync"}
<1>1. waiting \subseteq slots /\ running \subseteq syncSlots
  BY DEF UnderWay, BudgetInvariant, SlotsMatchHolders
<1>2. Cardinality(waiting) <= Cardinality(slots) /\ Cardinality(running) <= Cardinality(syncSlots)
  BY <1>1, HoldersAreFinite, FS_Subset DEF BudgetInvariant
<1>3. Cardinality(waiting) \in Nat /\ Cardinality(running) \in Nat
  BY <1>1, HoldersAreFinite, FS_Subset, FS_CardinalityType DEF BudgetInvariant
<1> QED
  BY <1>2, <1>3 DEF BudgetsHold, BudgetInvariant, SlotsMatchHolders, AdmissionTypeOK

\* Whatever mix of requests arrives and however they end, the process never
\* handles more of them at once than its two budgets allow.
THEOREM BudgetsAlwaysHold == Spec => []BudgetsHold
BY CountersMatchHolders, InvariantGivesBudgets, PTL

-----------------------------------------------------------------------------
(***************************************************************************)
(* The rate limit.  A bucket counts the requests of its own window only,   *)
(* and forgets them when the next window begins; the invariant remembers   *)
(* them in counted, where every past window still has at most the limit.   *)
(* An interval as long as a window meets two windows at most.              *)
(***************************************************************************)
WindowOf(t) == (t \div Window) * Window

CountedIn(k, w) == {r \in Request : key[r] = k /\ counted[r] >= 0 /\ WindowOf(counted[r]) = w}

RateTypeOK ==
  /\ counted \in [Request -> Int]
  /\ bucket \in [Key -> [window : Int, requests : Nat]]

\* No request counts before it was admitted, nor after the present.
CountedOnce ==
  \A r \in Request :
    /\ phase[r] = "new" => counted[r] = -1
    /\ counted[r] <= clock
    /\ key[r] \in Key /\ counted[r] >= 0 => WindowOf(counted[r]) <= bucket[key[r]].window

\* The bucket counts the requests of its window, and no window has more than the limit.
WindowsAreLimited ==
  \A k \in Key :
    /\ bucket[k].window <= CurrentWindow
    /\ Cardinality(CountedIn(k, bucket[k].window)) <= bucket[k].requests
    /\ \A w \in Int : Cardinality(CountedIn(k, w)) <= RateLimit

RateInv == AdmissionTypeOK /\ RateTypeOK /\ CountedOnce /\ WindowsAreLimited

LEMMA WindowContains ==
  ASSUME NEW t \in Nat
  PROVE  /\ t \div Window \in Nat
         /\ WindowOf(t) \in Nat
         /\ WindowOf(t) <= t /\ t < WindowOf(t) + Window
BY DEF WindowOf

LEMMA MultiplesAreApart ==
  ASSUME NEW p \in Nat, NEW q \in Nat, p < q
  PROVE  p * Window + Window <= q * Window
OBVIOUS

LEMMA WindowsFollow ==
  ASSUME NEW s \in Nat, NEW t \in Nat, s <= t
  PROVE  WindowOf(s) <= WindowOf(t)
<1> DEFINE p == s \div Window
           q == t \div Window
<1>1. /\ p \in Nat /\ q \in Nat /\ WindowOf(s) = p * Window /\ WindowOf(t) = q * Window
      /\ p * Window <= s /\ t < q * Window + Window
      /\ p * Window \in Nat /\ q * Window \in Nat
  BY WindowContains DEF WindowOf
<1> HIDE DEF p, q
<1>2. ~(q < p)
  BY <1>1, MultiplesAreApart
<1>3. p = q \/ p < q
  BY <1>1, <1>2
<1>4. QED
  BY <1>1, <1>3, MultiplesAreApart

\* An interval of the length of a window meets its first window and the next one.
LEMMA TwoWindows ==
  ASSUME NEW from \in Nat, NEW t \in from .. from + Window - 1
  PROVE  WindowOf(t) \in {WindowOf(from), WindowOf(from) + Window}
<1> DEFINE p == from \div Window
           q == t \div Window
<1>1. t \in Nat
  OBVIOUS
<1>2. /\ p \in Nat /\ q \in Nat /\ WindowOf(from) = p * Window /\ WindowOf(t) = q * Window
      /\ p * Window <= from /\ from < p * Window + Window
      /\ q * Window <= t /\ t < q * Window + Window
      /\ p * Window \in Nat /\ q * Window \in Nat
  BY <1>1, WindowContains DEF WindowOf
<1> HIDE DEF p, q
<1>3. ~(q < p)
  BY <1>2, MultiplesAreApart
<1>4. ~(p + 1 < q)
  <2>1. (p + 1) * Window = p * Window + Window
    BY <1>2
  <2>2. ASSUME p + 1 < q
        PROVE  FALSE
    <3>1. (p + 1) * Window + Window <= q * Window
      BY <1>2, <2>2, MultiplesAreApart
    <3>2. QED
      BY <1>2, <2>1, <3>1
  <2>3. QED
    BY <2>2
<1>5. q = p \/ q = p + 1
  BY <1>2, <1>3, <1>4
<1>6. QED
  BY <1>2, <1>5

LEMMA RateInit ==
  ASSUME Init
  PROVE  RateInv
<1>1. AdmissionTypeOK
  BY BudgetInit DEF BudgetInvariant
<1>2. /\ bucket = [k \in Key |-> [window |-> -1, requests |-> 0]]
      /\ counted = [r \in Request |-> -1] /\ clock = 0
  BY DEF Init
<1>3. RateTypeOK
  BY <1>2 DEF RateTypeOK
<1>4. CountedOnce
  BY <1>2 DEF CountedOnce
<1>5. WindowsAreLimited
  <2>1. \A k \in Key, w \in Int : CountedIn(k, w) = {}
    BY <1>2 DEF CountedIn
  <2>2. CurrentWindow = WindowOf(0) /\ WindowOf(0) \in Nat
    BY <1>2, WindowContains DEF CurrentWindow, WindowOf
  <2>3. \A k \in Key : bucket[k].window = -1 /\ bucket[k].requests = 0
    BY <1>2
  <2>4. RateLimit \in Nat /\ Cardinality({}) = 0
    BY FS_EmptySet
  <2>5. QED
    BY <2>1, <2>2, <2>3, <2>4 DEF WindowsAreLimited
<1>6. QED
  BY <1>1, <1>3, <1>4, <1>5 DEF RateInv

\* The steps that count nothing.
LEMMA UncountedStep ==
  ASSUME RateInv, AdmissionTypeOK', UNCHANGED <<key, bucket, counted>>,
         clock' >= clock,
         \A r \in Request : phase'[r] = "new" => phase[r] = "new"
  PROVE  RateInv'
<1>1. clock \in Nat /\ clock' \in Nat
  BY DEF RateInv, AdmissionTypeOK
<1>2. RateTypeOK'
  BY DEF RateInv, RateTypeOK
<1>3. CountedOnce'
  BY <1>1 DEF RateInv, CountedOnce, RateTypeOK, WindowOf
<1>4. CurrentWindow <= CurrentWindow'
  BY <1>1, WindowsFollow DEF CurrentWindow, WindowOf
<1>5. CurrentWindow \in Int /\ CurrentWindow' \in Int
  BY <1>1, WindowContains DEF CurrentWindow, WindowOf
<1>6. \A k, w : CountedIn(k, w)' = CountedIn(k, w)
  BY DEF CountedIn, WindowOf
<1>7. WindowsAreLimited'
  BY <1>4, <1>5, <1>6 DEF RateInv, RateTypeOK, WindowsAreLimited
<1>8. QED
  BY <1>2, <1>3, <1>7 DEF RateInv

LEMMA AdmitStep ==
  ASSUME RateInv, AdmissionTypeOK', NEW r \in Request, Admit(r)
  PROVE  RateInv'
<1>0. key[r] \in Key /\ clock \in Nat /\ CurrentWindow = WindowOf(clock)
  BY DEF Admit, RateInv, AdmissionTypeOK, CurrentWindow, WindowOf
<1> PICK k \in Key : k = key[r]
  BY <1>0
<1> PICK cw \in Nat : cw = CurrentWindow
  BY <1>0, WindowContains
<1> DEFINE fresh == bucket[k].window # cw
<1>1. /\ k \in Key /\ phase[r] = "new" /\ counted[r] = -1
      /\ UNCHANGED <<clock, key>>
      /\ counted' = [counted EXCEPT ![r] = clock]
      /\ phase' = [phase EXCEPT ![r] = "admitted"]
      /\ fresh \/ bucket[k].requests < RateLimit
  BY DEF Admit, identity, Goto, UnderLimit, RateInv, CountedOnce
<1>2. bucket' = [bucket EXCEPT ![k] = [window |-> cw, requests |-> IF fresh THEN 1
                                                               ELSE bucket[k].requests + 1]]
  BY <1>1 DEF Admit, Counted, RateInv, RateTypeOK
<1>3. clock \in Nat /\ cw = WindowOf(clock) /\ WindowOf(clock)' = cw /\ CurrentWindow' = cw
  BY <1>0, <1>1 DEF CurrentWindow, WindowOf
<1>4. /\ counted \in [Request -> Int] /\ bucket \in [Key -> [window : Int, requests : Nat]]
      /\ RateLimit \in Nat /\ RateLimit > 0
  BY DEF RateInv, RateTypeOK
<1>5. /\ bucket'[k].window = cw
      /\ bucket'[k].requests = IF fresh THEN 1 ELSE bucket[k].requests + 1
      /\ \A j \in Key \ {k} : bucket'[j] = bucket[j]
      /\ bucket[k].requests \in Nat /\ bucket[k].window \in Int /\ bucket[k].window <= cw
  BY <1>1, <1>2, <1>4 DEF RateInv, WindowsAreLimited
<1>6. RateTypeOK'
  BY <1>1, <1>2, <1>3, <1>4, <1>5 DEF RateTypeOK
<1>7. CountedOnce'
  <2> SUFFICES ASSUME NEW q \in Request
               PROVE  /\ phase'[q] = "new" => counted'[q] = -1
                      /\ counted'[q] <= clock'
                      /\ key'[q] \in Key /\ counted'[q] >= 0
                           => WindowOf(counted'[q]) <= bucket'[key'[q]].window
    BY DEF CountedOnce, WindowOf
  <2>1. phase \in [Request -> Phase]
    BY DEF RateInv, AdmissionTypeOK
  <2>2. CASE q = r
    BY <1>1, <1>3, <1>4, <1>5, <2>1, <2>2
  <2>3. CASE q # r
    <3>1. phase'[q] = phase[q] /\ counted'[q] = counted[q]
      BY <1>1, <1>4, <2>1, <2>3
    <3>2. counted[q] \in Int /\ (counted[q] >= 0 => WindowOf(counted[q]) \in Nat)
      BY <1>4, WindowContains
    <3>3. /\ phase[q] = "new" => counted[q] = -1
          /\ counted[q] <= clock
          /\ key[q] \in Key /\ counted[q] >= 0 => WindowOf(counted[q]) <= bucket[key[q]].window
      BY DEF RateInv, CountedOnce
    <3>4. CASE key[q] = k
      BY <1>1, <1>3, <1>5, <3>1, <3>2, <3>3, <3>4
    <3>5. CASE key[q] # k
      BY <1>1, <1>3, <1>5, <3>1, <3>2, <3>3, <3>5
    <3>6. QED
      BY <3>4, <3>5
  <2>4. QED
    BY <2>2, <2>3
\* Only the current window of the key has one request more.
<1>8. \A q \in Request \ {r} : counted'[q] = counted[q]
  BY <1>1, <1>4
<1>9. counted'[r] = clock
  BY <1>1, <1>4
<1>10. ASSUME NEW j \in Key, NEW w \in Int, j # k \/ w # cw
       PROVE  CountedIn(j, w)' = CountedIn(j, w)
  BY <1>1, <1>3, <1>8, <1>9, <1>10 DEF CountedIn, WindowOf
<1>11. CountedIn(k, cw)' = CountedIn(k, cw) \cup {r}
  BY <1>1, <1>3, <1>8, <1>9 DEF CountedIn, WindowOf
<1>12. r \notin CountedIn(k, cw) /\ IsFiniteSet(CountedIn(k, cw))
  <2>1. CountedIn(k, cw) \subseteq Request /\ r \notin CountedIn(k, cw)
    BY <1>1 DEF CountedIn
  <2>2. QED
    BY <2>1, FS_Subset
<1>13. Cardinality(CountedIn(k, cw)') = Cardinality(CountedIn(k, cw)) + 1
       /\ Cardinality(CountedIn(k, cw)) \in Nat
  BY <1>11, <1>12, FS_AddElement, FS_CardinalityType
<1>14. Cardinality(CountedIn(k, cw)) <= IF fresh THEN 0 ELSE bucket[k].requests
  <2>1. CASE fresh
    \* The bucket has not seen this window, so nobody was admitted in it.
    <3>1. ASSUME NEW q \in CountedIn(k, cw)
          PROVE  FALSE
      <4>1. q \in Request /\ key[q] = k /\ counted[q] >= 0 /\ WindowOf(counted[q]) = cw
        BY DEF CountedIn
      <4>2. cw <= bucket[k].window
        BY <1>1, <4>1 DEF RateInv, CountedOnce
      <4>3. QED
        BY <1>3, <1>5, <2>1, <4>2
    <3>2. CountedIn(k, cw) = {}
      BY <3>1
    <3>3. QED
      BY <2>1, <3>2, FS_EmptySet
  <2>2. CASE ~fresh
    BY <1>1, <2>2 DEF RateInv, WindowsAreLimited
  <2>3. QED
    BY <2>1, <2>2
<1>15. Cardinality(CountedIn(k, cw)') <= bucket'[k].requests /\ bucket'[k].requests <= RateLimit
       /\ bucket'[k].requests \in Nat /\ Cardinality(CountedIn(k, cw)') \in Nat
  BY <1>1, <1>4, <1>5, <1>13, <1>14
<1> HIDE DEF fresh
<1>16. WindowsAreLimited'
  <2> SUFFICES ASSUME NEW j \in Key
               PROVE  /\ bucket'[j].window <= cw
                      /\ Cardinality(CountedIn(j, bucket[j].window)') <= bucket'[j].requests
                      /\ \A w \in Int : Cardinality(CountedIn(j, w)') <= RateLimit
    BY <1>3 DEF WindowsAreLimited
  <2>1. /\ bucket[j].window <= cw
        /\ Cardinality(CountedIn(j, bucket[j].window)) <= bucket[j].requests
        /\ \A w \in Int : Cardinality(CountedIn(j, w)) <= RateLimit
    BY DEF RateInv, WindowsAreLimited
  <2>2. \A w \in Int : Cardinality(CountedIn(j, w)') <= RateLimit
    <3> TAKE w \in Int
    <3>1. CASE j = k /\ w = cw
      BY <1>4, <1>15, <3>1
    <3>2. CASE j # k \/ w # cw
      BY <1>10, <2>1, <3>2
    <3>3. QED
      BY <3>1, <3>2
  <2>3. CASE j = k
    <3>1. CountedIn(j, bucket[j].window)' = CountedIn(k, cw)'
      BY <1>5, <2>3 DEF CountedIn
    <3>2. QED
      BY <1>5, <1>15, <2>2, <2>3, <3>1
  <2>4. CASE j # k
    <3>1. bucket'[j] = bucket[j] /\ bucket[j].window \in Int
      BY <1>4, <1>5, <2>4
    <3>2. PICK w \in Int : w = bucket[j].window
      BY <3>1
    <3>3. CountedIn(j, bucket[j].window)' = CountedIn(j, w)' /\ CountedIn(j, bucket[j].window) = CountedIn(j, w)
      BY <3>1, <3>2 DEF CountedIn
    <3>4. CountedIn(j, w)' = CountedIn(j, w)
      BY <1>10, <2>4
    <3>5. QED
      BY <2>1, <2>2, <3>1, <3>3, <3>4
  <2>5. QED
    BY <2>3, <2>4
<1>17. QED
  BY <1>6, <1>7, <1>16 DEF RateInv

LEMMA RateStep ==
  ASSUME BudgetInvariant', RateInv, [Next]_vars
  PROVE  RateInv'
<1> USE DEF Goto, identity, rate
<1>1. AdmissionTypeOK' /\ phase \in [Request -> Phase] /\ clock \in Nat
  BY DEF BudgetInvariant, RateInv, AdmissionTypeOK
<1>2. CASE UNCHANGED vars
  BY <1>1, <1>2, UncountedStep DEF vars
<1>3. CASE Signal \/ Closed \/ Forced \/ Tick
  BY <1>1, <1>3, UncountedStep DEF Signal, Closed, Forced, Tick
<1>4. ASSUME NEW r \in Request, Admit(r)
      PROVE  RateInv'
  BY <1>1, <1>4, AdmitStep
<1>5. ASSUME NEW r \in Request,
             Unauthorized(r) \/ AtCapacity(r) \/ RateLimited(r)
               \/ RefuseBody(r) \/ Start(r) \/ Answer(r)
      PROVE  RateInv'
  <2>1. UNCHANGED <<clock, key, bucket, counted>>
    BY <1>5 DEF Unauthorized, AtCapacity, RateLimited, Refuse, RefuseBody, Start, Answer
  <2>2. phase' = [phase EXCEPT ![r] = "answered"] \/ phase' = [phase EXCEPT ![r] = "handling"]
    BY <1>5 DEF Unauthorized, AtCapacity, RateLimited, Refuse, RefuseBody, Start, Answer
  <2>3. QED
    BY <1>1, <2>1, <2>2, UncountedStep
<1>6. QED
  BY <1>2, <1>3, <1>4, <1>5 DEF Next, Step

\* No interval of the length of the window, wherever it begins, admits more than twice
\* the limit of one key (rateLimitRetryAfterSeconds), for any limit and window.
THEOREM RateLimitHolds == Spec => []AtMostTwiceTheLimit
<1>1. ASSUME RateInv
      PROVE  AtMostTwiceTheLimit
  <2> SUFFICES ASSUME NEW k \in Key, NEW from \in 0 .. MaxTime
               PROVE  Cardinality(AdmittedIn(k, from)) <= 2 * RateLimit
    BY DEF AtMostTwiceTheLimit
  <2> DEFINE A == CountedIn(k, WindowOf(from))
             B == CountedIn(k, WindowOf(from) + Window)
  <2>1. from \in Nat /\ WindowOf(from) \in Int /\ WindowOf(from) + Window \in Int
    BY WindowContains
  <2>2. AdmittedIn(k, from) \subseteq A \cup B
    BY <2>1, TwoWindows DEF AdmittedIn, CountedIn
  <2>3. Cardinality(A) <= RateLimit /\ Cardinality(B) <= RateLimit
    BY <1>1, <2>1 DEF RateInv, WindowsAreLimited
  <2>4. IsFiniteSet(A) /\ IsFiniteSet(B)
    BY FS_Subset DEF CountedIn
  <2> HIDE DEF A, B
  <2>5. IsFiniteSet(A \cup B) /\ Cardinality(A \cup B) <= Cardinality(A) + Cardinality(B)
    <3>1. /\ IsFiniteSet(A \cup B) /\ IsFiniteSet(A \cap B)
          /\ Cardinality(A \cup B) = Cardinality(A) + Cardinality(B) - Cardinality(A \cap B)
      BY <2>4, FS_Union, FS_Intersection
    <3>2. /\ Cardinality(A) \in Nat /\ Cardinality(B) \in Nat /\ Cardinality(A \cap B) \in Nat
      BY <2>4, <3>1, FS_CardinalityType
    <3>3. QED
      BY <3>1, <3>2
  <2>6. Cardinality(AdmittedIn(k, from)) <= Cardinality(A \cup B)
        /\ IsFiniteSet(AdmittedIn(k, from))
    BY <2>2, <2>5, FS_Subset
  <2>7. QED
    <3>1. /\ Cardinality(A) \in Nat /\ Cardinality(B) \in Nat /\ Cardinality(A \cup B) \in Nat
          /\ Cardinality(AdmittedIn(k, from)) \in Nat
      BY <2>4, <2>5, <2>6, FS_CardinalityType
    <3>2. QED
      BY <2>3, <2>5, <2>6, <3>1
<1>2. Init => RateInv
  BY RateInit
<1>3. RateInv /\ BudgetInvariant' /\ [Next]_vars => RateInv'
  BY RateStep
<1>4. QED
  BY <1>1, <1>2, <1>3, CountersMatchHolders, PTL DEF Spec
-----------------------------------------------------------------------------
(***************************************************************************)
(* The interval of a device code (DevicePolling), for any codes, requests  *)
(* and times, whatever intervals the provider grants and wherever the limit*)
(* lies.  A session allows the next request an interval after the last one,*)
(* also when requests overlap: only an answer to an earlier request, late, *)
(* moves that moment back, and asking again moves it forward.  An interval *)
(* is doubled, or becomes the limit.                                       *)
(***************************************************************************)
Session ==
  [until : Nat, next : Nat, interval : Nat, granted : Nat, waiting : SUBSET Poller]

SessionTypes ==
  /\ deviceClock \in Nat /\ asked \in [Device -> Nat]
  /\ poll \in [Poller -> {Devices!Idle} \cup [device : Device, now : Nat]]
  /\ DOMAIN sessions \subseteq Device
  /\ \A d \in DOMAIN sessions : sessions[d] \in Session

Asking(p, d) == poll[p] # Devices!Idle /\ poll[p].device = d

NextIsLater ==
  \A d \in (DOMAIN sessions) \ late :
    asked[d] # 0 => sessions[d].next >= asked[d] + sessions[d].interval

NotShortened ==
  \A d \in DOMAIN sessions :
    sessions[d].interval >= sessions[d].granted \/ sessions[d].interval >= MaxInterval

IntervalInv == SessionTypes /\ NextIsLater /\ NotShortened

LEMMA UnexpiredSessions ==
  ASSUME NEW t
  PROVE  /\ \A d \in DOMAIN Devices!Unexpired(t) :
              d \in DOMAIN sessions /\ Devices!Unexpired(t)[d] = sessions[d]
         /\ \A d \in DOMAIN sessions : sessions[d].until > t => d \in DOMAIN Devices!Unexpired(t)
BY DEF Devices!Unexpired, Devices!RestrictDomain, Devices!Restrict

\* Bury keeps the sessions of other codes, or drops them.
LEMMA BuryDrops ==
  ASSUME NEW d, NEW t, Devices!Bury(d, t)
  PROVE  \A e \in DOMAIN sessions' : e # d /\ e \in DOMAIN sessions /\ sessions'[e] = sessions[e]
BY UnexpiredSessions DEF Devices!Bury, Devices!BuryUntil, Devices!RestrictDomain, Devices!Restrict

\* Open keeps the sessions of other codes, or drops them.
LEMMA OpenAdds ==
  ASSUME NEW d, NEW s, Devices!Open(d, s)
  PROVE  \A e \in DOMAIN sessions' :
           \/ e = d /\ sessions'[e] = s
           \/ e \in DOMAIN sessions /\ sessions'[e] = sessions[e]
BY UnexpiredSessions DEF Devices!Open, Devices!Put

LEMMA MinOfTwo ==
  ASSUME NEW x \in Nat, NEW y \in Nat
  PROVE  Devices!Min({x, y}) = IF x <= y THEN x ELSE y
<1>1. \E z \in {x, y} : \A w \in {x, y} : z <= w
  <2>1. CASE x <= y
    BY <2>1
  <2>2. CASE y <= x
    BY <2>2
  <2> QED
    BY <2>1, <2>2
<1> DEFINE m == Devices!Min({x, y})
<1>2. m \in {x, y} /\ \A w \in {x, y} : m <= w
  BY <1>1 DEF Devices!Min
<1> HIDE DEF m
<1>3. m = IF x <= y THEN x ELSE y
  BY <1>2
<1> QED
  BY <1>3 DEF m

\* A step in which sessions may go and nobody asks.
LEMMA FewerSessions ==
  ASSUME IntervalInv,
         \A e \in DOMAIN sessions' : e \in DOMAIN sessions /\ sessions'[e] = sessions[e],
         deviceClock' \in {deviceClock, deviceClock + 1},
         poll' = poll, asked' = asked, late' = late
  PROVE  IntervalInv'
BY DEF IntervalInv, SessionTypes, NextIsLater, NotShortened

\* An answer arrives.
LEMMA AnswerKeeps ==
  ASSUME IntervalInv, NEW p \in Poller, Devices!Answered(p),
         \A e \in DOMAIN sessions' :
           /\ e \in DOMAIN sessions /\ sessions'[e] \in Session
           /\ e \notin late' /\ asked[e] # 0 =>
                sessions'[e].next >= asked[e] + sessions'[e].interval
           /\ \/ sessions'[e].interval >= sessions'[e].granted
              \/ sessions'[e].interval >= MaxInterval
  PROVE  IntervalInv'
<1>1. SessionTypes
  BY DEF IntervalInv
<1>2. /\ poll' = [poll EXCEPT ![p] = Devices!Idle]
      /\ UNCHANGED <<deviceClock, asked>>
  BY DEF Devices!Answered
<1>3. SessionTypes'
  BY <1>1, <1>2 DEF SessionTypes
<1>4. NextIsLater' /\ NotShortened'
  BY <1>2 DEF NextIsLater, NotShortened
<1> QED
  BY <1>3, <1>4 DEF IntervalInv

\* The provider is asked about a code, whose session starts its interval anew.
LEMMA AskKeeps ==
  ASSUME IntervalInv, NEW p \in Poller, NEW d \in Device, Devices!Ask(p, d),
         deviceClock' = deviceClock,
         \A e \in DOMAIN sessions' :
           IF e = d
           THEN /\ sessions'[d] \in Session
                /\ sessions'[d].next = deviceClock + sessions'[d].interval
                /\ \/ sessions'[d].interval >= sessions'[d].granted
                   \/ sessions'[d].interval >= MaxInterval
           ELSE e \in DOMAIN sessions /\ sessions'[e] = sessions[e]
  PROVE  IntervalInv'
<1>1. SessionTypes /\ NextIsLater /\ NotShortened
  BY DEF IntervalInv
<1>2. /\ poll' = [poll EXCEPT ![p] = [device |-> d, now |-> deviceClock]]
      /\ asked' = [asked EXCEPT ![d] = deviceClock] /\ late' = late \ {d}
  BY DEF Devices!Ask
<1>3. /\ asked'[d] = deviceClock /\ \A e \in Device : e # d => asked'[e] = asked[e]
      /\ deviceClock \in Nat
  BY <1>1, <1>2 DEF SessionTypes
<1>4. SessionTypes'
  <2>1. [device |-> d, now |-> deviceClock] \in [device : Device, now : Nat]
    BY <1>3
  <2>2. /\ poll' \in [Poller -> {Devices!Idle} \cup [device : Device, now : Nat]]
        /\ asked' \in [Device -> Nat]
    BY <1>1, <1>2, <1>3, <2>1 DEF SessionTypes
  <2>3. \A e \in DOMAIN sessions' : e \in Device /\ sessions'[e] \in Session
    BY <1>1 DEF SessionTypes
  <2> QED
    BY <1>3, <2>2, <2>3 DEF SessionTypes
<1>5. NextIsLater'
  <2> SUFFICES ASSUME NEW e \in DOMAIN sessions', e \notin late', asked'[e] # 0
               PROVE  sessions'[e].next >= asked'[e] + sessions'[e].interval
    BY DEF NextIsLater
  <2>1. CASE e = d
    BY <1>3, <2>1 DEF Session
  <2>2. CASE e # d
    <3>1. e \in DOMAIN sessions /\ e \in Device /\ e \notin late
      BY <1>1, <1>2, <2>2 DEF SessionTypes
    <3> QED
      BY <1>1, <1>3, <2>2, <3>1 DEF NextIsLater
  <2> QED
    BY <2>1, <2>2
<1>6. NotShortened'
  BY <1>1 DEF NotShortened
<1> QED
  BY <1>4, <1>5, <1>6 DEF IntervalInv

LEMMA StartKeeps ==
  ASSUME Devices!DeviceAssumption, IntervalInv, NEW d \in Device, Devices!Start(d)
  PROVE  IntervalInv'
<1>1. SessionTypes /\ NextIsLater /\ NotShortened
  BY DEF IntervalInv
<1>2. /\ asked[d] = 0 /\ UNCHANGED <<deviceClock, poll, asked, late>>
  BY DEF Devices!Start
<1>3. PICK s \in Session : s.interval >= s.granted /\ Devices!Open(d, s)
  <2>1. PICK life \in Lifetimes, i \in Intervals :
          Devices!Open(d, [until |-> deviceClock + life, next |-> deviceClock + i,
                           interval |-> i, granted |-> i, waiting |-> {}])
    BY DEF Devices!Start
  <2> DEFINE started == [until |-> deviceClock + life, next |-> deviceClock + i,
                         interval |-> i, granted |-> i, waiting |-> {}]
  <2>2. deviceClock + life \in Nat /\ deviceClock + i \in Nat /\ i \in Nat
    <3>1. life \in Nat /\ i \in Nat
      BY DEF Devices!DeviceAssumption
    <3>2. deviceClock \in Nat
      BY <1>1 DEF SessionTypes
    <3> QED
      BY <3>1, <3>2
  <2>3. started \in Session /\ started.interval >= started.granted
    BY <2>2 DEF Session
  <2> HIDE DEF started
  <2> QED
    BY <2>1, <2>3, Zenon DEF started
<1>4. \A e \in DOMAIN sessions' :
        \/ e = d /\ sessions'[e] = s
        \/ e \in DOMAIN sessions /\ sessions'[e] = sessions[e]
  BY <1>3, OpenAdds
<1>5. SessionTypes'
  BY <1>1, <1>2, <1>4 DEF SessionTypes
<1>6. NextIsLater' /\ NotShortened'
  BY <1>1, <1>2, <1>3, <1>4 DEF NextIsLater, NotShortened
<1> QED
  BY <1>5, <1>6 DEF IntervalInv

LEMMA PollKeeps ==
  ASSUME IntervalInv, NEW p \in Poller, NEW d \in Device, Devices!Poll(p, d)
  PROVE  IntervalInv'
<1>1. SessionTypes /\ NotShortened
  BY DEF IntervalInv
<1>2. /\ d \in DOMAIN sessions /\ sessions[d].until > deviceClock
      /\ sessions' = [Devices!Unexpired(deviceClock) EXCEPT
                        ![d].next = deviceClock + sessions[d].interval,
                        ![d].waiting = @ \cup {p}]
      /\ Devices!Ask(p, d) /\ deviceClock' = deviceClock
  BY DEF Devices!Poll, Devices!Known
<1> DEFINE U == Devices!Unexpired(deviceClock)
           due == deviceClock + sessions[d].interval
<1>3. d \in DOMAIN U /\ U[d] = sessions[d] /\ \A e \in DOMAIN U : e \in DOMAIN sessions /\ U[e] = sessions[e]
  BY <1>2, UnexpiredSessions
<1>4. sessions[d] \in Session /\ deviceClock \in Nat /\ due \in Nat
  BY <1>1, <1>2 DEF SessionTypes, Session
<1> HIDE DEF U, due
<1>5. /\ DOMAIN sessions' = DOMAIN U /\ \A e \in DOMAIN U : e # d => sessions'[e] = U[e]
      /\ sessions'[d] = [U[d] EXCEPT !.next = due, !.waiting = @ \cup {p}]
  BY <1>2, <1>3, Zenon DEF U, due
<1>6. /\ sessions'[d] \in Session /\ sessions'[d].next = due
      /\ sessions'[d].interval = sessions[d].interval
      /\ sessions'[d].granted = sessions[d].granted
  <2> DEFINE w == sessions[d].waiting \cup {p}
             one == [sessions[d] EXCEPT !.next = due]
  <2>1. /\ one \in Session /\ one.next = due /\ one.interval = sessions[d].interval
        /\ one.granted = sessions[d].granted
    BY <1>4 DEF Session
  <2>2. w \in SUBSET Poller
    BY <1>4 DEF Session
  <2>3. sessions'[d] = [one EXCEPT !.waiting = w]
    BY <1>3, <1>4, <1>5, Zenon DEF Session
  <2> HIDE DEF one, w
  <2>4. LET two == [one EXCEPT !.waiting = w]
        IN  /\ two \in Session /\ two.next = one.next /\ two.interval = one.interval
            /\ two.granted = one.granted
    BY <2>1, <2>2 DEF Session
  <2> QED
    BY <2>1, <2>3, <2>4
<1>7. sessions'[d].interval >= sessions'[d].granted \/ sessions'[d].interval >= MaxInterval
  BY <1>1, <1>2, <1>6 DEF NotShortened
<1>8. \A e \in DOMAIN sessions' : e # d => e \in DOMAIN sessions /\ sessions'[e] = sessions[e]
  BY <1>3, <1>5
<1> QED
  BY <1>2, <1>6, <1>7, <1>8, AskKeeps DEF due

LEMMA PollUnknownKeeps ==
  ASSUME Devices!DeviceAssumption, IntervalInv, NEW p \in Poller, NEW d \in Device,
         Devices!PollUnknown(p, d)
  PROVE  IntervalInv'
<1>1. SessionTypes
  BY DEF IntervalInv
<1> DEFINE s == [until |-> deviceClock + ExternalTtl, next |-> deviceClock + Interval,
                 interval |-> Interval, granted |-> 0, waiting |-> {p}]
<1>2. /\ Devices!Open(d, s) /\ deviceClock' = deviceClock /\ d \notin DOMAIN sessions
      /\ IF d \in DOMAIN sessions' THEN Devices!Ask(p, d)
         ELSE UNCHANGED <<poll, asked, overlapped, late>>
  BY DEF Devices!PollUnknown, Devices!Opened
<1>3. s \in Session /\ s.next = deviceClock + s.interval /\ s.interval >= s.granted
  BY <1>1 DEF SessionTypes, Session, Devices!DeviceAssumption
<1> HIDE DEF s
<1>4. \A e \in DOMAIN sessions' :
        \/ e = d /\ sessions'[e] = s
        \/ e \in DOMAIN sessions /\ sessions'[e] = sessions[e]
  BY <1>2, OpenAdds
<1>5. CASE d \in DOMAIN sessions'
  <2>1. \A e \in DOMAIN sessions' : e # d => e \in DOMAIN sessions /\ sessions'[e] = sessions[e]
    BY <1>4
  <2>2. sessions'[d] = s
    BY <1>2, <1>4, <1>5
  <2> QED
    BY <1>2, <1>3, <1>5, <2>1, <2>2, AskKeeps
<1>6. CASE d \notin DOMAIN sessions'
  BY <1>2, <1>4, <1>6, FewerSessions
<1> QED
  BY <1>5, <1>6

LEMMA IntervalInit ==
  ASSUME Devices!Init PROVE IntervalInv
BY DEF Devices!Init, IntervalInv, SessionTypes, NextIsLater, NotShortened

\* A demand to slow down doubles the interval or makes it the limit, and dates the
\* next request an interval after the one it answers.
LEMMA SlowDownKeeps ==
  ASSUME Devices!DeviceAssumption, IntervalInv, NEW p \in Poller, Devices!SlowDown(p)
  PROVE  IntervalInv'
<1>1. SessionTypes /\ NextIsLater /\ NotShortened
  BY DEF IntervalInv
<1>2. /\ Devices!Answered(p) /\ DOMAIN sessions' = DOMAIN sessions
      /\ late' = late \cup {d \in Devices!Refers(p) : asked[d] # poll[p].now}
  BY DEF Devices!SlowDown
<1>3. poll[p].now \in Nat
  BY <1>1, <1>2 DEF SessionTypes, Devices!Answered
<1>4. ASSUME NEW e \in DOMAIN sessions
      PROVE  /\ sessions'[e] \in Session
             /\ e \notin late' /\ asked[e] # 0 =>
                  sessions'[e].next >= asked[e] + sessions'[e].interval
             /\ \/ sessions'[e].interval >= sessions'[e].granted
                \/ sessions'[e].interval >= MaxInterval
  <2>1. sessions[e] \in Session /\ e \in Device
    BY <1>1 DEF SessionTypes
  <2>2. CASE e \notin Devices!Refers(p)
    <3>1. sessions'[e] = sessions[e]
      BY <2>2 DEF Devices!SlowDown
    <3> QED
      BY <1>1, <1>2, <2>1, <3>1 DEF NextIsLater, NotShortened
  <2>3. CASE e \in Devices!Refers(p)
    <3> DEFINE i == sessions[e].interval
               new == Devices!Min({2 * i, MaxInterval})
    <3>1. i \in Nat /\ 2 * i \in Nat /\ MaxInterval \in Nat /\ sessions[e].granted \in Nat
      BY <2>1 DEF Session, Devices!DeviceAssumption
    <3>2. new = IF 2 * i <= MaxInterval THEN 2 * i ELSE MaxInterval
      BY <3>1, MinOfTwo
    <3>3. new \in Nat
      BY <3>1, <3>2
    <3>4. sessions'[e] = [sessions[e] EXCEPT !.waiting = @ \ {p}, !.interval = new,
                                             !.next = poll[p].now + new]
      BY <2>3 DEF Devices!SlowDown
    <3>5. new >= sessions[e].granted \/ new >= MaxInterval
      <4>1. i >= sessions[e].granted \/ i >= MaxInterval
        BY <1>1 DEF NotShortened
      <4> HIDE DEF i, new
      <4> QED
        BY <3>1, <3>2, <4>1
    <3> HIDE DEF new
    <3>6. /\ sessions'[e] \in Session /\ sessions'[e].interval = new
          /\ sessions'[e].next = poll[p].now + new
          /\ sessions'[e].granted = sessions[e].granted
      <4> DEFINE w == sessions[e].waiting \ {p}
                 next == poll[p].now + new
                 one == [sessions[e] EXCEPT !.waiting = w]
                 two == [one EXCEPT !.interval = new]
      <4>1. w \in SUBSET Poller /\ next \in Nat
        BY <1>3, <2>1, <3>3 DEF Session
      <4>2. sessions'[e] = [two EXCEPT !.next = next]
        BY <3>4, Zenon
      <4> HIDE DEF w, next
      <4>3. one \in Session /\ one.granted = sessions[e].granted
        BY <2>1, <4>1 DEF Session
      <4> HIDE DEF one
      <4>4. two \in Session /\ two.interval = new /\ two.granted = one.granted
        BY <3>3, <4>3 DEF Session
      <4> HIDE DEF two
      <4>5. LET three == [two EXCEPT !.next = next]
            IN  /\ three \in Session /\ three.interval = new
                /\ three.next = next /\ three.granted = two.granted
        BY <4>1, <4>4 DEF Session
      <4> QED
        BY <4>2, <4>3, <4>4, <4>5 DEF next
    <3>7. e \notin late' => asked[e] = poll[p].now
      BY <1>2, <2>3
    <3> QED
      BY <1>3, <3>3, <3>5, <3>6, <3>7
  <2> QED
    BY <2>2, <2>3
<1> QED
  BY <1>2, <1>4, AnswerKeeps

LEMMA IntervalNext ==
  ASSUME Devices!DeviceAssumption, IntervalInv, [Devices!Next]_(Devices!vars)
  PROVE  IntervalInv'
<1>1. SessionTypes /\ NextIsLater /\ NotShortened
  BY DEF IntervalInv
<1>2. CASE UNCHANGED Devices!vars \/ Devices!Tick
  BY <1>2, FewerSessions DEF Devices!vars, Devices!Tick
<1>3. ASSUME NEW d \in Device, Devices!Expire(d) \/ Devices!Refuse(d) PROVE IntervalInv'
  <2>1. CASE Devices!Expire(d)
    BY <2>1, BuryDrops, FewerSessions DEF Devices!Expire
  <2>2. CASE Devices!Refuse(d)
    BY <2>2, UnexpiredSessions, FewerSessions DEF Devices!Refuse
  <2> QED
    BY <1>3, <2>1, <2>2
<1>4. ASSUME NEW p \in Poller, Devices!Pending(p) PROVE IntervalInv'
  <2>1. /\ Devices!Answered(p) /\ DOMAIN sessions' = DOMAIN sessions /\ late' = late
        /\ \A e \in DOMAIN sessions : sessions'[e] = [sessions[e] EXCEPT !.waiting = @ \ {p}]
    BY <1>4 DEF Devices!Pending, Devices!Release
  <2>2. ASSUME NEW e \in DOMAIN sessions
        PROVE  /\ sessions'[e] \in Session
               /\ sessions'[e].next = sessions[e].next
               /\ sessions'[e].interval = sessions[e].interval
               /\ sessions'[e].granted = sessions[e].granted
    BY <1>1, <2>1 DEF SessionTypes, Session
  <2> QED
    BY <1>1, <2>1, <2>2, AnswerKeeps DEF NextIsLater, NotShortened
<1>5. ASSUME NEW p \in Poller, Devices!Rejected(p) \/ Devices!Authorized(p) PROVE IntervalInv'
  <2>1. /\ Devices!Answered(p) /\ Devices!Bury(poll[p].device, poll[p].now)
        /\ late' = late
    BY <1>5 DEF Devices!Rejected, Devices!Authorized
  <2>2. ASSUME NEW e \in DOMAIN sessions'
        PROVE  e \in DOMAIN sessions /\ sessions'[e] = sessions[e]
    BY <2>1, BuryDrops
  <2> QED
    BY <1>1, <2>1, <2>2, AnswerKeeps DEF NextIsLater, NotShortened, SessionTypes
<1> QED
  BY <1>2, <1>3, <1>4, <1>5, StartKeeps, PollKeeps, PollUnknownKeeps, SlowDownKeeps
     DEF Devices!Next

\* The provider is asked about a code by the two actions that poll it only.
LEMMA OnlyPollsAsk ==
  ASSUME SessionTypes, [Devices!Next]_(Devices!vars), NEW d, Devices!Asks(d)
  PROVE  \E p \in Poller :
           /\ d \in Device /\ Devices!Ask(p, d)
           /\ Devices!Poll(p, d) \/ Devices!PollUnknown(p, d)
<1>1. PICK q \in Poller : poll[q] = Devices!Idle /\ poll'[q] # Devices!Idle /\ poll'[q].device = d
  BY DEF Devices!Asks
<1>2. PICK p \in Poller, e \in Device :
        Devices!Poll(p, e) \/ (Devices!PollUnknown(p, e) /\ Devices!Ask(p, e))
  <2>1. poll' # poll
    BY <1>1
  <2>2. ASSUME NEW p \in Poller, Devices!Answered(p) PROVE FALSE
    BY <1>1, <2>2 DEF Devices!Answered, SessionTypes
  <2>3. ASSUME NEW p \in Poller, NEW e \in Device, Devices!PollUnknown(p, e)
        PROVE  Devices!Ask(p, e)
    BY <2>1, <2>3 DEF Devices!PollUnknown
  <2>4. ~(UNCHANGED Devices!vars \/ Devices!Tick)
    BY <2>1 DEF Devices!vars, Devices!Tick
  <2>5. \A e \in Device : ~(Devices!Start(e) \/ Devices!Expire(e) \/ Devices!Refuse(e))
    BY <2>1 DEF Devices!Start, Devices!Expire, Devices!Refuse
  <2>6. \A p \in Poller : ~(\/ Devices!Pending(p) \/ Devices!SlowDown(p)
                          \/ Devices!Rejected(p) \/ Devices!Authorized(p))
    BY <2>2 DEF Devices!Pending, Devices!SlowDown, Devices!Rejected, Devices!Authorized
  <2>7. Devices!Next
    BY <2>4
  <2>8. \E p \in Poller, e \in Device : Devices!Poll(p, e) \/ Devices!PollUnknown(p, e)
    BY <2>4, <2>5, <2>6, <2>7, Zenon DEF Devices!Next
  <2> QED
    BY <2>3, <2>8, Zenon
<1>3. Devices!Ask(p, e)
  BY <1>2 DEF Devices!Poll
<1>4. poll' = [poll EXCEPT ![p] = [device |-> e, now |-> deviceClock]]
  BY <1>3 DEF Devices!Ask
<1>5. q = p
  BY <1>1, <1>4 DEF SessionTypes
<1>6. poll'[p] = [device |-> e, now |-> deviceClock]
  BY <1>4 DEF SessionTypes
<1>7. e = d
  BY <1>1, <1>5, <1>6
<1> QED
  BY <1>2, <1>3, <1>7

\* A code is polled while its session is stored by an action that looks at its date.
LEMMA AsksInTime ==
  ASSUME Devices!DeviceAssumption, IntervalInv, [Devices!Next]_(Devices!vars),
         NEW d \in Device, Devices!StartedHere(d), asked[d] # 0, Devices!Asks(d)
  PROVE  /\ sessions[d].interval >= Devices!Min({sessions[d].granted, MaxInterval})
         /\ d \notin late => deviceClock >= asked[d] + sessions[d].interval
<1>1. SessionTypes /\ NextIsLater /\ NotShortened /\ d \in DOMAIN sessions
  BY DEF IntervalInv, Devices!StartedHere
<1>2. PICK p \in Poller :
        /\ Devices!Ask(p, d)
        /\ Devices!Poll(p, d) \/ Devices!PollUnknown(p, d)
  BY <1>1, OnlyPollsAsk
<1>3. sessions[d].next <= deviceClock
  BY <1>1, <1>2 DEF Devices!Poll, Devices!Due, Devices!PollUnknown
<1>4. /\ sessions[d].next \in Nat /\ sessions[d].interval \in Nat /\ asked[d] \in Nat
      /\ sessions[d].granted \in Nat /\ deviceClock \in Nat /\ MaxInterval \in Nat
  BY <1>1 DEF SessionTypes, Session, Devices!DeviceAssumption
<1>5. d \notin late => deviceClock >= asked[d] + sessions[d].interval
  <2>1. d \notin late => sessions[d].next >= asked[d] + sessions[d].interval
    BY <1>1 DEF NextIsLater
  <2> QED
    BY <1>3, <1>4, <2>1
<1>6. sessions[d].interval >= Devices!Min({sessions[d].granted, MaxInterval})
  <2>1. sessions[d].interval >= sessions[d].granted \/ sessions[d].interval >= MaxInterval
    BY <1>1 DEF NotShortened
  <2> QED
    BY <1>4, <2>1, MinOfTwo
<1> QED
  BY <1>5, <1>6

\* Whatever intervals the provider grants and however requests overlap, between
\* two requests about a code started here lies the interval the process keeps
\* for it, which is never below both the granted one and the limit; only an
\* answer that tells to slow down after a later request was made is excepted.
THEOREM IntervalsAreKept ==
  ASSUME Devices!DeviceAssumption
  PROVE  Devices!Spec => IntervalEnforced
<1>1. Devices!Init => IntervalInv
  BY IntervalInit
<1>2. IntervalInv /\ [Devices!Next]_(Devices!vars) => IntervalInv'
  BY IntervalNext
<1>3. IntervalInv /\ [Devices!Next]_(Devices!vars)
      => [\A d \in Device :
            Devices!StartedHere(d) /\ asked[d] # 0 /\ Devices!Asks(d)
              => /\ sessions[d].interval >= Devices!Min({sessions[d].granted, MaxInterval})
                 /\ d \notin late => deviceClock >= asked[d] + sessions[d].interval]_(Devices!vars)
  BY AsksInTime
<1> QED
  BY <1>1, <1>2, <1>3, PTL
     DEF Devices!Spec, Devices!IntervalEnforced, IntervalEnforced

-----------------------------------------------------------------------------
(***************************************************************************)
(* A spent device code (DevicePolling), for any codes, requests and times. *)
(* While there is room for the states of all codes, no tombstone is evicted*)
(* and no session refused.  A code that can still be valid is then stored  *)
(* until its end, as a session or as a tombstone; once its token was given *)
(* out, as a tombstone.  A single answer about it finds its session, whose *)
(* end the tombstone takes over; of two answers the later one finds none,  *)
(* and its tombstone outlives the code only if the code's life is short.   *)
(***************************************************************************)
Roomy == capacity > Cardinality(Device)

MemoryTypes ==
  /\ deviceClock > 0 /\ capacity \in Nat /\ redeemed \subseteq Device
  /\ DOMAIN tombstones \subseteq Device
  /\ \A d \in DOMAIN tombstones : tombstones[d] \in Nat
  /\ lifetime \in [Device -> Nat] /\ deadline \in [Device -> Nat]
  /\ \A p \in Poller : poll[p] # Devices!Idle => poll[p].now <= deviceClock

\* A code with a state, a request or a token is never started again.
StatesAreKnown ==
  /\ (DOMAIN sessions) \cap (DOMAIN tombstones) = {}
  /\ \A d \in (DOMAIN sessions) \cup (DOMAIN tombstones) : deadline[d] # 0 \/ asked[d] # 0
  /\ \A d \in redeemed : asked[d] # 0
  /\ \A p \in Poller, d \in Device : Asking(p, d) => asked[d] # 0

WaitingAlone ==
  \A p, q \in Poller, d \in Device : Asking(p, d) /\ Asking(q, d) /\ p # q => d \in overlapped

EndsInTime ==
  \A d \in Device :
    /\ deadline[d] <= deviceClock + lifetime[d]
    /\ \A p \in Poller : Asking(p, d) => deadline[d] <= poll[p].now + lifetime[d]

Protected(d) ==
  /\ deviceClock < deadline[d]
  /\ d \notin overlapped \/ lifetime[d] <= TombstoneTtl

Stored(d) == d \in DOMAIN sessions /\ sessions[d].until >= deadline[d]

Remembered(d) == d \in DOMAIN tombstones /\ tombstones[d] >= deadline[d]

Covered(d) ==
  Protected(d) =>
    /\ Stored(d) \/ Remembered(d)
    /\ d \in redeemed => Remembered(d)
    /\ d \notin overlapped /\ (\E p \in Poller : Asking(p, d)) => Stored(d)

MemoryInv ==
  /\ MemoryTypes /\ StatesAreKnown /\ WaitingAlone /\ EndsInTime
  /\ \A d \in Device : Covered(d)

LEMMA StandingTombstones ==
  ASSUME NEW t
  PROVE  DOMAIN Devices!Standing(t) = {d \in DOMAIN tombstones : tombstones[d] > t}
         /\ \A d \in DOMAIN Devices!Standing(t) : Devices!Standing(t)[d] = tombstones[d]
BY DEF Devices!Standing, Devices!RestrictDomain, Devices!Restrict

LEMMA MaxOfTwo ==
  ASSUME NEW x \in Int, NEW y \in Int
  PROVE  Devices!Max({x, y}) \in Int /\ Devices!Max({x, y}) >= x /\ Devices!Max({x, y}) >= y
<1>1. \E z \in {x, y} : \A w \in {x, y} : z >= w
  <2>1. CASE x >= y
    BY <2>1
  <2>2. CASE y >= x
    BY <2>2
  <2> QED
    BY <2>1, <2>2
<1> QED
  BY <1>1 DEF Devices!Max

\* The instance counts like the module of its own.
LEMMA SameCount ==
  ASSUME NEW S PROVE Devices!Cardinality(S) = Cardinality(S)
BY Zenon DEF Devices!Cardinality, Cardinality

\* Where there is room for all codes, nothing is evicted and nothing refused.
LEMMA NothingEvicted ==
  ASSUME IsFiniteSet(Device), Roomy, capacity \in Nat, NEW held, NEW kept,
         DOMAIN held \subseteq Device, DOMAIN kept \subseteq Device,
         (DOMAIN held) \cap (DOMAIN kept) = {}
  PROVE  Devices!Evict(held, kept) = kept /\ Devices!HasRoom(held, kept)
<1> DEFINE H == DOMAIN held
           K == DOMAIN kept
           room == Devices!Max({capacity - 1 - Cardinality(H), 0})
<1>1. IsFiniteSet(H) /\ IsFiniteSet(K)
  BY FS_Subset
<1>2. Cardinality(H \cup K) <= Cardinality(Device)
  <2>1. H \cup K \subseteq Device
    OBVIOUS
  <2> QED
    BY <2>1, FS_Subset
<1>3. Cardinality(H \cup K) = Cardinality(H) + Cardinality(K)
  <2>1. Cardinality(H \cup K) = Cardinality(H) + Cardinality(K) - Cardinality(H \cap K)
    BY <1>1, FS_Union
  <2>2. Cardinality(H \cap K) = 0
    BY FS_EmptySet
  <2>3. Cardinality(H) \in Nat /\ Cardinality(K) \in Nat
    BY <1>1, FS_CardinalityType
  <2> QED
    BY <2>1, <2>2, <2>3
<1>4. Cardinality(H) \in Nat /\ Cardinality(K) \in Nat /\ Cardinality(Device) \in Nat
  BY <1>1, FS_CardinalityType
<1>5. Cardinality(H) + Cardinality(K) < capacity
  BY <1>2, <1>3, <1>4 DEF Roomy
<1>6. room >= capacity - 1 - Cardinality(H) /\ room \in Int
  <2>1. capacity - 1 - Cardinality(H) \in Int /\ 0 \in Int
    BY <1>4
  <2> HIDE DEF H
  <2> QED
    BY <2>1, MaxOfTwo, Zenon
<1>7. Cardinality(K) <= room
  <2> HIDE DEF room, H, K
  <2> QED
    BY <1>4, <1>5, <1>6
<1>8. Devices!HasRoom(held, kept)
  BY <1>5, SameCount DEF Devices!HasRoom
<1>9. Devices!Evict(held, kept) = kept
  <2>1. Devices!Cardinality(DOMAIN kept) <=
          Devices!Max({capacity - 1 - Devices!Cardinality(DOMAIN held), 0})
    BY <1>7, SameCount, Zenon
  <2> QED
    BY <2>1, Zenon DEF Devices!Evict
<1> QED
  BY <1>8, <1>9

\* What a burial leaves: its tombstone, and what had not expired when the request began.
LEMMA BuryRemembers ==
  ASSUME IsFiniteSet(Device), Roomy, SessionTypes, MemoryTypes, StatesAreKnown,
         NEW d \in Device, NEW t \in Nat, Devices!Bury(d, t)
  PROVE  /\ DOMAIN sessions' = {e \in DOMAIN sessions : sessions[e].until > t /\ e # d}
         /\ \A e \in DOMAIN sessions' : sessions'[e] = sessions[e]
         /\ DOMAIN tombstones' = {e \in DOMAIN tombstones : tombstones[e] > t} \cup {d}
         /\ \A e \in DOMAIN tombstones' : e # d => tombstones'[e] = tombstones[e]
         /\ tombstones'[d] = Devices!Max({t + TombstoneTtl,
                               IF d \in DOMAIN sessions THEN sessions[d].until ELSE 0})
<1> DEFINE held == Devices!RestrictDomain(Devices!Unexpired(t), LAMBDA e : e # d)
           kept == Devices!Standing(t)
           until == Devices!Max({t + TombstoneTtl,
                      IF d \in DOMAIN sessions THEN sessions[d].until ELSE 0})
<1>1. /\ DOMAIN held = {e \in DOMAIN sessions : sessions[e].until > t /\ e # d}
      /\ \A e \in DOMAIN held : held[e] = sessions[e]
  BY DEF Devices!Unexpired, Devices!RestrictDomain, Devices!Restrict
<1>2. /\ DOMAIN kept = {e \in DOMAIN tombstones : tombstones[e] > t}
      /\ \A e \in DOMAIN kept : kept[e] = tombstones[e]
  BY StandingTombstones
<1>3. Devices!BuryUntil(d, t, until)
  BY Zenon DEF Devices!Bury
<1> HIDE DEF until
<1>4. /\ sessions' = held
      /\ tombstones' = IF Devices!HasRoom(held, Devices!Evict(held, kept))
                       THEN Devices!Put(Devices!Evict(held, kept), d, until)
                       ELSE Devices!Evict(held, kept)
  BY <1>3, Zenon DEF Devices!BuryUntil
<1> HIDE DEF held, kept
<1>5. Devices!Evict(held, kept) = kept /\ Devices!HasRoom(held, kept)
  <2>1. /\ DOMAIN held \subseteq Device /\ DOMAIN kept \subseteq Device
        /\ (DOMAIN held) \cap (DOMAIN kept) = {} /\ capacity \in Nat
    BY <1>1, <1>2 DEF SessionTypes, MemoryTypes, StatesAreKnown
  <2> QED
    BY <2>1, NothingEvicted
<1>6. tombstones' = [e \in DOMAIN kept \cup {d} |-> IF e = d THEN until ELSE kept[e]]
  BY <1>4, <1>5 DEF Devices!Put
<1> QED
  BY <1>1, <1>2, <1>4, <1>6 DEF until

\* A new session is stored, beside what has not expired.
LEMMA OpenStores ==
  ASSUME IsFiniteSet(Device), Roomy, SessionTypes, MemoryTypes, StatesAreKnown,
         NEW d \in Device, NEW s, Devices!Open(d, s)
  PROVE  /\ DOMAIN sessions' = {e \in DOMAIN sessions : sessions[e].until > deviceClock} \cup {d}
         /\ sessions'[d] = s
         /\ \A e \in DOMAIN sessions' : e # d => sessions'[e] = sessions[e]
         /\ DOMAIN tombstones' = {e \in DOMAIN tombstones : tombstones[e] > deviceClock}
         /\ \A e \in DOMAIN tombstones' : tombstones'[e] = tombstones[e]
<1> DEFINE held == Devices!Unexpired(deviceClock)
           kept == Devices!Standing(deviceClock)
<1>1. /\ DOMAIN held = {e \in DOMAIN sessions : sessions[e].until > deviceClock}
      /\ \A e \in DOMAIN held : held[e] = sessions[e]
  BY DEF Devices!Unexpired, Devices!RestrictDomain, Devices!Restrict
<1>2. /\ DOMAIN kept = {e \in DOMAIN tombstones : tombstones[e] > deviceClock}
      /\ \A e \in DOMAIN kept : kept[e] = tombstones[e]
  BY StandingTombstones
<1>3. /\ tombstones' = Devices!Evict(held, kept)
      /\ sessions' = IF Devices!HasRoom(held, Devices!Evict(held, kept))
                     THEN Devices!Put(held, d, s) ELSE held
  BY Zenon DEF Devices!Open, Devices!Keep
<1> HIDE DEF held, kept
<1>4. Devices!Evict(held, kept) = kept /\ Devices!HasRoom(held, kept)
  <2>1. /\ DOMAIN held \subseteq Device /\ DOMAIN kept \subseteq Device
        /\ (DOMAIN held) \cap (DOMAIN kept) = {} /\ capacity \in Nat
    BY <1>1, <1>2 DEF SessionTypes, MemoryTypes, StatesAreKnown
  <2> QED
    BY <2>1, NothingEvicted
<1>5. sessions' = [e \in DOMAIN held \cup {d} |-> IF e = d THEN s ELSE held[e]]
  BY <1>3, <1>4 DEF Devices!Put
<1> QED
  BY <1>1, <1>2, <1>3, <1>4, <1>5

\* A code that no answer and no start is about stays covered, while what is left
\* of its states has not expired.
LEMMA OthersStayCovered ==
  ASSUME NEW d, Covered(d),
         deadline'[d] = deadline[d], lifetime'[d] = lifetime[d],
         d \in redeemed' => d \in redeemed, d \in overlapped => d \in overlapped',
         \A p \in Poller : Asking(p, d)' => Asking(p, d),
         deviceClock \in Nat, deviceClock' \in Nat, deadline[d] \in Nat,
         deviceClock <= deviceClock',
         Stored(d) /\ deviceClock' < deadline[d] => Stored(d)',
         Remembered(d) /\ deviceClock' < deadline[d] => Remembered(d)'
  PROVE  Covered(d)'
<1>1. SUFFICES ASSUME Protected(d)' PROVE Covered(d)'
  BY DEF Covered
<1>2. Protected(d)
  BY <1>1 DEF Protected
<1>3. deviceClock' < deadline[d]
  BY <1>1 DEF Protected
<1>4. Stored(d)' \/ Remembered(d)'
  BY <1>2, <1>3 DEF Covered
<1>5. d \in redeemed' => Remembered(d)'
  BY <1>2, <1>3 DEF Covered
<1>6. (d \notin overlapped /\ \E p \in Poller : Asking(p, d)) => Stored(d)
  BY <1>2 DEF Covered
<1>7. (\E p \in Poller : Asking(p, d)') => \E p \in Poller : Asking(p, d)
  OBVIOUS
<1>8. (d \notin overlapped' /\ \E p \in Poller : Asking(p, d)') => Stored(d)'
  BY <1>3, <1>6, <1>7
<1> QED
  BY <1>4, <1>5, <1>8 DEF Covered

\* A step that buries d, about which an answer arrived or whose session is over.
LEMMA BurialKeeps ==
  ASSUME Devices!DeviceAssumption, IsFiniteSet(Device), Roomy, IntervalInv, MemoryInv,
         NEW d \in Device, NEW t \in Nat, t <= deviceClock, Devices!Bury(d, t),
         deadline[d] # 0 \/ asked[d] # 0,
         redeemed' \in {redeemed, redeemed \cup {d}}, d \in redeemed' => asked[d] # 0,
         \A p \in Poller : poll'[p] = poll[p] \/ poll'[p] = Devices!Idle,
         UNCHANGED <<deviceClock, asked, lifetime, deadline, overlapped, capacity>>,
         Protected(d) => /\ tombstones'[d] >= deadline[d]
                         /\ d \in overlapped \/ \A p \in Poller : ~Asking(p, d)'
  PROVE  MemoryInv'
<1>1. /\ SessionTypes /\ MemoryTypes /\ StatesAreKnown /\ WaitingAlone /\ EndsInTime
      /\ \A e \in Device : Covered(e)
  BY DEF IntervalInv, MemoryInv
<1>2. /\ DOMAIN sessions' = {e \in DOMAIN sessions : sessions[e].until > t /\ e # d}
      /\ \A e \in DOMAIN sessions' : sessions'[e] = sessions[e]
      /\ DOMAIN tombstones' = {e \in DOMAIN tombstones : tombstones[e] > t} \cup {d}
      /\ \A e \in DOMAIN tombstones' : e # d => tombstones'[e] = tombstones[e]
      /\ tombstones'[d] = Devices!Max({t + TombstoneTtl,
                            IF d \in DOMAIN sessions THEN sessions[d].until ELSE 0})
  BY <1>1, BuryRemembers
<1>3. tombstones'[d] \in Nat
  <2>1. t + TombstoneTtl \in Nat
    BY DEF Devices!DeviceAssumption
  <2> DEFINE x == t + TombstoneTtl
             y == IF d \in DOMAIN sessions THEN sessions[d].until ELSE 0
  <2>2. y \in Nat
    BY <1>1 DEF SessionTypes, Session
  <2> HIDE DEF x, y
  <2>3. x \in Nat
    BY <2>1 DEF x
  <2>4. Devices!Max({x, y}) \in Nat
    <3>1. x \in Int /\ y \in Int
      BY <2>2, <2>3
    <3>2. Devices!Max({x, y}) \in Int /\ Devices!Max({x, y}) >= y
      BY <3>1, MaxOfTwo, Zenon
    <3> QED
      BY <2>2, <3>2
  <2>5. tombstones'[d] = Devices!Max({x, y})
    BY <1>2, Zenon DEF x, y
  <2> QED
    BY <2>4, <2>5
<1>4. \A p \in Poller : poll'[p] # Devices!Idle => poll'[p] = poll[p]
  OBVIOUS
<1>5. \A p \in Poller, e \in Device : Asking(p, e)' => Asking(p, e)
  BY <1>4 DEF Asking
<1>6. MemoryTypes'
  BY <1>1, <1>2, <1>3, <1>4 DEF MemoryTypes
<1>7. StatesAreKnown'
  BY <1>1, <1>2, <1>5 DEF StatesAreKnown
<1>8. WaitingAlone'
  BY <1>1, <1>5 DEF WaitingAlone
<1>9. EndsInTime'
  BY <1>1, <1>4, <1>5 DEF EndsInTime, Asking
<1>10. ASSUME NEW e \in Device PROVE Covered(e)'
  <2>1. CASE e = d
    <3>1. Protected(d)' => Protected(d)
      BY DEF Protected
    <3>2. Protected(d) => Remembered(d)'
      BY <1>2 DEF Remembered
    <3> QED
      BY <2>1, <3>1, <3>2 DEF Covered
  <2>2. CASE e # d
    <3>1. Stored(e) /\ deviceClock' < deadline[e] => Stored(e)'
      BY <1>1, <1>2, <2>2 DEF Stored, SessionTypes, Session, MemoryTypes
    <3>2. Remembered(e) /\ deviceClock' < deadline[e] => Remembered(e)'
      BY <1>1, <1>2, <2>2 DEF Remembered, SessionTypes, MemoryTypes
    <3>3. deviceClock \in Nat /\ deadline[e] \in Nat /\ Covered(e)
      BY <1>1 DEF SessionTypes, MemoryTypes
    <3> QED
      BY <1>5, <2>2, <3>1, <3>2, <3>3, OthersStayCovered
  <2> QED
    BY <2>1, <2>2
<1> QED
  BY <1>6, <1>7, <1>8, <1>9, <1>10 DEF MemoryInv

\* A step that asks nobody and forgets only what has expired.
LEMMA QuietKeeps ==
  ASSUME IntervalInv, MemoryInv, IntervalInv', deviceClock <= deviceClock',
         DOMAIN sessions' \subseteq DOMAIN sessions,
         \A e \in DOMAIN sessions : sessions[e].until > deviceClock' =>
           e \in DOMAIN sessions' /\ sessions'[e].until = sessions[e].until,
         DOMAIN tombstones' \subseteq DOMAIN tombstones,
         \A e \in DOMAIN tombstones' : tombstones'[e] = tombstones[e],
         \A e \in DOMAIN tombstones : tombstones[e] > deviceClock' => e \in DOMAIN tombstones',
         \A p \in Poller : poll'[p] = poll[p] \/ poll'[p] = Devices!Idle,
         UNCHANGED <<asked, lifetime, deadline, redeemed, overlapped, capacity>>
  PROVE  MemoryInv'
<1>1. /\ SessionTypes /\ MemoryTypes /\ StatesAreKnown /\ WaitingAlone /\ EndsInTime
      /\ \A e \in Device : Covered(e)
  BY DEF IntervalInv, MemoryInv
<1>2. deviceClock \in Nat /\ deviceClock' \in Nat
  BY <1>1 DEF IntervalInv, SessionTypes
<1>3. \A p \in Poller : poll'[p] # Devices!Idle => poll'[p] = poll[p]
  OBVIOUS
<1>4. \A p \in Poller, e \in Device : Asking(p, e)' => Asking(p, e)
  BY <1>3 DEF Asking
<1>5. MemoryTypes'
  <2>1. \A p \in Poller : poll'[p] # Devices!Idle => poll'[p].now <= deviceClock'
    <3> SUFFICES ASSUME NEW p \in Poller, poll'[p] # Devices!Idle
                 PROVE  poll'[p].now <= deviceClock'
      OBVIOUS
    <3>1. poll'[p] = poll[p] /\ poll[p].now <= deviceClock
      BY <1>1, <1>3 DEF MemoryTypes
    <3>2. poll[p].now \in Nat
      BY <1>1, <1>3 DEF SessionTypes
    <3> QED
      BY <1>2, <3>1, <3>2
  <2> QED
    BY <1>1, <1>2, <2>1 DEF MemoryTypes
<1>6. StatesAreKnown'
  BY <1>1, <1>4 DEF StatesAreKnown
<1>7. WaitingAlone'
  BY <1>1, <1>4 DEF WaitingAlone
<1>8. EndsInTime'
  <2>1. \A e \in Device : deadline[e] <= deviceClock' + lifetime[e]
    BY <1>1, <1>2 DEF EndsInTime, MemoryTypes
  <2>2. \A e \in Device, p \in Poller : Asking(p, e)' => deadline[e] <= poll'[p].now + lifetime[e]
    BY <1>1, <1>3, <1>4 DEF EndsInTime, Asking
  <2> QED
    BY <2>1, <2>2 DEF EndsInTime
<1>9. ASSUME NEW e \in Device PROVE Covered(e)'
  <2>1. deadline[e] \in Nat /\ Covered(e)
    BY <1>1 DEF MemoryTypes
  <2>2. Stored(e) /\ deviceClock' < deadline[e] => Stored(e)'
    BY <1>1, <1>2, <2>1 DEF Stored, SessionTypes, Session
  <2>3. Remembered(e) /\ deviceClock' < deadline[e] => Remembered(e)'
    BY <1>1, <1>2, <2>1 DEF Remembered, MemoryTypes
  <2> QED
    BY <1>2, <1>4, <2>1, <2>2, <2>3, OthersStayCovered
<1> QED
  BY <1>5, <1>6, <1>7, <1>8, <1>9 DEF MemoryInv

\* A poll of d: if the code is protected, its session was stored and is kept.
LEMMA AskRemembers ==
  ASSUME IntervalInv, MemoryInv, NEW p \in Poller, NEW d \in Device, Devices!Ask(p, d),
         poll[p] = Devices!Idle,
         DOMAIN sessions' \subseteq (DOMAIN sessions) \cup {d},
         \A e \in DOMAIN sessions : e # d /\ sessions[e].until > deviceClock =>
           e \in DOMAIN sessions' /\ sessions'[e].until = sessions[e].until,
         DOMAIN tombstones' = {e \in DOMAIN tombstones : tombstones[e] > deviceClock},
         \A e \in DOMAIN tombstones' : tombstones'[e] = tombstones[e],
         d \notin DOMAIN tombstones',
         Protected(d) => Stored(d)' /\ d \notin redeemed,
         UNCHANGED <<deviceClock, lifetime, deadline, redeemed, capacity>>
  PROVE  MemoryInv'
<1>1. /\ SessionTypes /\ MemoryTypes /\ StatesAreKnown /\ WaitingAlone /\ EndsInTime
      /\ \A e \in Device : Covered(e)
  BY DEF IntervalInv, MemoryInv
<1>2. /\ poll' = [poll EXCEPT ![p] = [device |-> d, now |-> deviceClock]]
      /\ asked' = [asked EXCEPT ![d] = deviceClock] /\ overlapped \subseteq overlapped'
      /\ (\E q \in Poller : Asking(q, d)) => d \in overlapped'
  BY DEF Devices!Ask, Asking
<1>3. /\ poll'[p] = [device |-> d, now |-> deviceClock]
      /\ \A q \in Poller : q # p => poll'[q] = poll[q]
      /\ asked'[d] = deviceClock /\ \A e \in Device : e # d => asked'[e] = asked[e]
      /\ deviceClock \in Nat /\ deviceClock # 0
  BY <1>1, <1>2 DEF SessionTypes, MemoryTypes
<1>4. /\ poll'[p].device = d /\ poll'[p].now = deviceClock
      /\ \A q \in Poller, e \in Device : Asking(q, e)' => (q = p /\ e = d) \/ (q # p /\ Asking(q, e))
  BY <1>3 DEF Asking
<1>5. MemoryTypes'
  BY <1>1, <1>3, <1>4 DEF MemoryTypes
<1>6. StatesAreKnown'
  <2>1. (DOMAIN sessions') \cap (DOMAIN tombstones') = {}
    BY <1>1 DEF StatesAreKnown
  <2>2. \A e \in Device : asked[e] # 0 => asked'[e] # 0
    BY <1>3
  <2>3. \A e \in (DOMAIN sessions') \cup (DOMAIN tombstones') : deadline[e] # 0 \/ asked'[e] # 0
    BY <1>1, <1>3, <2>2 DEF StatesAreKnown, SessionTypes, MemoryTypes
  <2>4. \A e \in redeemed : asked'[e] # 0
    BY <1>1, <2>2 DEF StatesAreKnown, MemoryTypes
  <2>5. \A q \in Poller, e \in Device : Asking(q, e)' => asked'[e] # 0
    BY <1>1, <1>3, <1>4, <2>2 DEF StatesAreKnown
  <2> QED
    BY <2>1, <2>3, <2>4, <2>5 DEF StatesAreKnown
<1>7. WaitingAlone'
  BY <1>1, <1>2, <1>4 DEF WaitingAlone
<1>8. EndsInTime'
  <2>1. \A e \in Device, q \in Poller : Asking(q, e)' => deadline[e] <= poll'[q].now + lifetime[e]
    BY <1>1, <1>3, <1>4 DEF EndsInTime
  <2> QED
    BY <1>1, <2>1 DEF EndsInTime
<1>9. ASSUME NEW e \in Device PROVE Covered(e)'
  <2>1. CASE e = d
    <3>1. Protected(d)' => Protected(d)
      BY <1>2 DEF Protected
    <3> QED
      BY <2>1, <3>1 DEF Covered
  <2>2. CASE e # d
    <3>1. deadline[e] \in Nat /\ Covered(e)
      BY <1>1 DEF MemoryTypes
    <3>2. Stored(e) /\ deviceClock' < deadline[e] => Stored(e)'
      BY <1>1, <1>3, <2>2, <3>1 DEF Stored, SessionTypes, Session
    <3>3. Remembered(e) /\ deviceClock' < deadline[e] => Remembered(e)'
      BY <1>1, <1>3, <2>2, <3>1 DEF Remembered, MemoryTypes
    <3>4. \A q \in Poller : Asking(q, e)' => Asking(q, e)
      BY <1>4, <2>2
    <3> QED
      BY <1>2, <1>3, <3>1, <3>2, <3>3, <3>4, OthersStayCovered
  <2> QED
    BY <2>1, <2>2
<1> QED
  BY <1>5, <1>6, <1>7, <1>8, <1>9 DEF MemoryInv

\* A new code is stored until its end.
LEMMA StartRemembers ==
  ASSUME Devices!DeviceAssumption, IsFiniteSet(Device), Roomy, IntervalInv, MemoryInv,
         NEW d \in Device, Devices!Start(d)
  PROVE  MemoryInv'
<1>1. /\ SessionTypes /\ MemoryTypes /\ StatesAreKnown /\ WaitingAlone /\ EndsInTime
      /\ \A e \in Device : Covered(e)
  BY DEF IntervalInv, MemoryInv
<1>2. PICK life \in Lifetimes, i \in Intervals :
        /\ Devices!Open(d, [until |-> deviceClock + life, next |-> deviceClock + i,
                            interval |-> i, granted |-> i, waiting |-> {}])
        /\ IF d \in DOMAIN sessions'
           THEN /\ lifetime' = [lifetime EXCEPT ![d] = life]
                /\ deadline' = [deadline EXCEPT ![d] = deviceClock + life]
           ELSE UNCHANGED <<lifetime, deadline>>
  BY DEF Devices!Start, Devices!Opened
<1> DEFINE s == [until |-> deviceClock + life, next |-> deviceClock + i,
                 interval |-> i, granted |-> i, waiting |-> {}]
<1>3. /\ deadline[d] = 0 /\ asked[d] = 0
      /\ UNCHANGED <<deviceClock, poll, asked, redeemed, overlapped, capacity>>
  BY DEF Devices!Start
<1>4. life \in Nat /\ life > 0 /\ deviceClock \in Nat /\ deviceClock > 0
      /\ s.until = deviceClock + life
  <2>1. life \in Nat \ {0}
    BY DEF Devices!DeviceAssumption
  <2> QED
    BY <1>1, <2>1 DEF SessionTypes, MemoryTypes
<1> HIDE DEF s
<1>5. /\ DOMAIN sessions' = {e \in DOMAIN sessions : sessions[e].until > deviceClock} \cup {d}
      /\ sessions'[d] = s
      /\ \A e \in DOMAIN sessions' : e # d => sessions'[e] = sessions[e]
      /\ DOMAIN tombstones' = {e \in DOMAIN tombstones : tombstones[e] > deviceClock}
      /\ \A e \in DOMAIN tombstones' : tombstones'[e] = tombstones[e]
  <2>1. Devices!Open(d, s)
    BY <1>2 DEF s
  <2> QED
    BY <1>1, <2>1, OpenStores
<1>6. /\ lifetime' = [lifetime EXCEPT ![d] = life]
      /\ deadline' = [deadline EXCEPT ![d] = deviceClock + life]
  BY <1>2, <1>5
<1>7. /\ lifetime'[d] = life /\ deadline'[d] = deviceClock + life
      /\ \A e \in Device : e # d => lifetime'[e] = lifetime[e] /\ deadline'[e] = deadline[e]
      /\ lifetime' \in [Device -> Nat] /\ deadline' \in [Device -> Nat]
  BY <1>1, <1>4, <1>6 DEF MemoryTypes
<1>8. d \notin DOMAIN tombstones /\ d \notin redeemed /\ \A p \in Poller : ~Asking(p, d)
  BY <1>1, <1>3 DEF StatesAreKnown
<1>9. MemoryTypes'
  BY <1>1, <1>3, <1>5, <1>7 DEF MemoryTypes
<1>10. StatesAreKnown'
  <2>1. (DOMAIN sessions') \cap (DOMAIN tombstones') = {}
    BY <1>1, <1>5, <1>8 DEF StatesAreKnown
  <2>2. \A e \in (DOMAIN sessions') \cup (DOMAIN tombstones') : deadline'[e] # 0 \/ asked'[e] # 0
    BY <1>1, <1>3, <1>4, <1>5, <1>7 DEF StatesAreKnown, SessionTypes, MemoryTypes
  <2> QED
    BY <1>1, <1>3, <2>1, <2>2 DEF StatesAreKnown, Asking
<1>11. WaitingAlone'
  BY <1>1, <1>3 DEF WaitingAlone, Asking
<1>12. EndsInTime'
  <2>1. ASSUME NEW e \in Device PROVE deadline'[e] <= deviceClock + lifetime'[e]
    BY <1>1, <1>4, <1>7 DEF EndsInTime
  <2>2. ASSUME NEW e \in Device, NEW p \in Poller, Asking(p, e)
        PROVE  deadline'[e] <= poll[p].now + lifetime'[e]
    BY <1>1, <1>7, <1>8, <2>2 DEF EndsInTime
  <2> QED
    BY <1>3, <2>1, <2>2 DEF EndsInTime, Asking
<1>13. ASSUME NEW e \in Device PROVE Covered(e)'
  <2>1. CASE e = d
    <3>1. Stored(d)'
      BY <1>4, <1>5, <1>7 DEF Stored
    <3> QED
      BY <1>3, <1>8, <2>1, <3>1 DEF Covered
  <2>2. CASE e # d
    <3>1. deadline[e] \in Nat /\ Covered(e)
      BY <1>1 DEF MemoryTypes
    <3>2. Stored(e) /\ deviceClock' < deadline[e] => Stored(e)'
      BY <1>1, <1>3, <1>4, <1>5, <1>7, <2>2, <3>1 DEF Stored, SessionTypes, Session
    <3>3. Remembered(e) /\ deviceClock' < deadline[e] => Remembered(e)'
      BY <1>1, <1>3, <1>4, <1>5, <1>7, <2>2, <3>1 DEF Remembered, MemoryTypes
    <3>4. \A p \in Poller : Asking(p, e)' => Asking(p, e)
      BY <1>3 DEF Asking
    <3>5. deadline'[e] = deadline[e] /\ lifetime'[e] = lifetime[e]
      BY <1>7, <2>2
    <3> QED
      BY <1>3, <1>4, <3>1, <3>2, <3>3, <3>4, <3>5, OthersStayCovered
  <2> QED
    BY <2>1, <2>2
<1> QED
  BY <1>9, <1>10, <1>11, <1>12, <1>13 DEF MemoryInv

LEMMA MemoryInit ==
  ASSUME Devices!DeviceAssumption, Devices!Init
  PROVE  MemoryInv
<1>1. /\ deviceClock = 1 /\ DOMAIN sessions = {} /\ DOMAIN tombstones = {}
      /\ \A p \in Poller : poll[p] = Devices!Idle
      /\ asked = [d \in Device |-> 0] /\ deadline = asked /\ lifetime = asked
      /\ redeemed = {} /\ capacity \in Nat
  BY DEF Devices!Init, Devices!DeviceAssumption
<1>2. MemoryTypes /\ StatesAreKnown
  BY <1>1 DEF MemoryTypes, StatesAreKnown, Asking
<1>3. WaitingAlone /\ EndsInTime
  BY <1>1 DEF WaitingAlone, EndsInTime, Asking
<1>4. \A d \in Device : Covered(d)
  BY <1>1 DEF Covered, Protected
<1> QED
  BY <1>2, <1>3, <1>4 DEF MemoryInv

\* The session of an expired code: it was not protected any more.
LEMMA ExpireRemembers ==
  ASSUME Devices!DeviceAssumption, IsFiniteSet(Device), Roomy, IntervalInv, MemoryInv,
         NEW d \in Device, Devices!Expire(d)
  PROVE  MemoryInv'
<1>1. SessionTypes /\ MemoryTypes /\ StatesAreKnown /\ Covered(d)
  BY DEF IntervalInv, MemoryInv
<1>2. /\ d \in DOMAIN sessions /\ ~(sessions[d].until > deviceClock)
      /\ Devices!Bury(d, deviceClock)
      /\ UNCHANGED <<deviceClock, poll, asked, lifetime, deadline, redeemed, overlapped, capacity>>
  BY DEF Devices!Expire, Devices!Known, Devices!provider
<1>3. ~Protected(d)
  <2>1. ~Remembered(d)
    BY <1>1, <1>2 DEF StatesAreKnown, Remembered
  <2>2. deviceClock < deadline[d] => ~Stored(d)
    BY <1>1, <1>2 DEF Stored, SessionTypes, Session, MemoryTypes
  <2> QED
    BY <1>1, <2>1, <2>2 DEF Covered, Protected
<1>4. deviceClock \in Nat /\ deviceClock <= deviceClock /\ (deadline[d] # 0 \/ asked[d] # 0)
      /\ (d \in redeemed => asked[d] # 0)
  BY <1>1, <1>2 DEF SessionTypes, StatesAreKnown
<1> QED
  BY <1>2, <1>3, <1>4, BurialKeeps

\* An answer that ends the attempt.  Alone, it finds the session, whose end the
\* tombstone takes over; otherwise the code's life is short.
LEMMA EndRemembers ==
  ASSUME Devices!DeviceAssumption, IsFiniteSet(Device), Roomy, IntervalInv, MemoryInv,
         NEW p \in Poller, Devices!Rejected(p) \/ Devices!Authorized(p)
  PROVE  MemoryInv'
<1>1. /\ SessionTypes /\ MemoryTypes /\ StatesAreKnown /\ WaitingAlone /\ EndsInTime
      /\ \A e \in Device : Covered(e)
  BY DEF IntervalInv, MemoryInv
<1>2. /\ poll[p] # Devices!Idle /\ poll' = [poll EXCEPT ![p] = Devices!Idle]
      /\ UNCHANGED <<deviceClock, asked, lifetime, deadline, overlapped, capacity>>
      /\ Devices!Bury(poll[p].device, poll[p].now)
      /\ redeemed' \in {redeemed, redeemed \cup {poll[p].device}}
  BY DEF Devices!Rejected, Devices!Authorized, Devices!Answered
<1>3. poll[p].device \in Device /\ poll[p].now \in Nat
  BY <1>1, <1>2 DEF SessionTypes
<1>4. PICK d \in Device, t \in Nat : d = poll[p].device /\ t = poll[p].now
  BY <1>3
<1>5. /\ Asking(p, d) /\ asked[d] # 0 /\ t <= deviceClock /\ deadline[d] <= t + lifetime[d]
  BY <1>1, <1>2, <1>4 DEF Asking, StatesAreKnown, MemoryTypes, EndsInTime
<1>6. poll'[p] = Devices!Idle /\ \A q \in Poller : q # p => poll'[q] = poll[q]
  BY <1>1, <1>2 DEF SessionTypes
<1>7. ASSUME Protected(d)
      PROVE  /\ tombstones'[d] >= deadline[d]
             /\ d \in overlapped \/ \A q \in Poller : ~Asking(q, d)'
  <2> DEFINE x == t + TombstoneTtl
             y == IF d \in DOMAIN sessions THEN sessions[d].until ELSE 0
  <2>1. tombstones'[d] = Devices!Max({x, y})
    BY <1>1, <1>2, <1>4, BuryRemembers
  <2>2. x \in Nat /\ y \in Nat
    BY <1>1 DEF SessionTypes, Session, Devices!DeviceAssumption
  <2>3. d \notin overlapped => y >= deadline[d]
    BY <1>1, <1>5, <1>7 DEF Covered, Stored
  <2>4. lifetime[d] <= TombstoneTtl => x >= deadline[d]
    BY <1>1, <1>5 DEF MemoryTypes, Devices!DeviceAssumption
  <2>5. x >= deadline[d] \/ y >= deadline[d]
    BY <1>7, <2>3, <2>4 DEF Protected
  <2> HIDE DEF x, y
  <2>6. deadline[d] \in Nat
    BY <1>1 DEF MemoryTypes
  <2>7. Devices!Max({x, y}) >= x /\ Devices!Max({x, y}) >= y /\ Devices!Max({x, y}) \in Int
    BY <2>2, MaxOfTwo
  <2>8. tombstones'[d] >= deadline[d]
    BY <2>1, <2>2, <2>5, <2>6, <2>7
  <2>9. \A q \in Poller : Asking(q, d)' => q # p /\ Asking(q, d)
    BY <1>6 DEF Asking
  <2>10. d \in overlapped \/ \A q \in Poller : ~Asking(q, d)'
    BY <1>1, <1>5, <2>9 DEF WaitingAlone
  <2> QED
    BY <2>8, <2>10
<1>8. \A q \in Poller : poll'[q] = poll[q] \/ poll'[q] = Devices!Idle
  BY <1>6
<1> QED
  BY <1>2, <1>4, <1>5, <1>7, <1>8, BurialKeeps

LEMMA PollRemembers ==
  ASSUME IntervalInv, MemoryInv, NEW p \in Poller, NEW d \in Device, Devices!Poll(p, d)
  PROVE  MemoryInv'
<1>1. SessionTypes /\ StatesAreKnown /\ Covered(d)
  BY DEF IntervalInv, MemoryInv
<1>2. /\ d \in DOMAIN sessions /\ sessions[d].until > deviceClock
      /\ sessions' = [Devices!Unexpired(deviceClock) EXCEPT
                        ![d].next = deviceClock + sessions[d].interval,
                        ![d].waiting = @ \cup {p}]
      /\ tombstones' = Devices!Standing(deviceClock)
      /\ Devices!Ask(p, d) /\ poll[p] = Devices!Idle
      /\ UNCHANGED <<deviceClock, lifetime, deadline, redeemed, capacity>>
  BY DEF Devices!Poll, Devices!Known, Devices!Keep, Devices!provider
<1> DEFINE U == Devices!Unexpired(deviceClock)
<1>3. /\ \A e \in DOMAIN U : e \in DOMAIN sessions /\ U[e] = sessions[e]
      /\ \A e \in DOMAIN sessions : sessions[e].until > deviceClock => e \in DOMAIN U
  BY UnexpiredSessions
<1>4. sessions[d] \in Session
  BY <1>1, <1>2 DEF SessionTypes
<1> HIDE DEF U
<1>5. /\ DOMAIN sessions' = DOMAIN U /\ \A e \in DOMAIN U : e # d => sessions'[e] = U[e]
      /\ sessions'[d] = [U[d] EXCEPT !.next = deviceClock + sessions[d].interval,
                                     !.waiting = @ \cup {p}]
  BY <1>2, <1>3, Zenon DEF U
<1>6. d \in DOMAIN sessions' /\ sessions'[d].until = sessions[d].until
  BY <1>2, <1>3, <1>4, <1>5 DEF Session
<1>7. /\ DOMAIN tombstones' = {e \in DOMAIN tombstones : tombstones[e] > deviceClock}
      /\ \A e \in DOMAIN tombstones' : tombstones'[e] = tombstones[e]
  BY <1>2, StandingTombstones
<1>8. d \notin DOMAIN tombstones
  BY <1>1, <1>2 DEF StatesAreKnown
<1>9. Protected(d) => Stored(d)' /\ d \notin redeemed
  BY <1>1, <1>2, <1>6, <1>8 DEF Covered, Stored, Remembered
<1> QED
  BY <1>2, <1>3, <1>5, <1>7, <1>8, <1>9, AskRemembers

LEMMA PollUnknownRemembers ==
  ASSUME IsFiniteSet(Device), Roomy, IntervalInv, MemoryInv, NEW p \in Poller, NEW d \in Device,
         Devices!PollUnknown(p, d)
  PROVE  MemoryInv'
<1>1. SessionTypes /\ MemoryTypes /\ StatesAreKnown /\ Covered(d)
  BY DEF IntervalInv, MemoryInv
<1>2. PICK s : Devices!Open(d, s)
  BY DEF Devices!PollUnknown
<1>3. /\ DOMAIN sessions' = {e \in DOMAIN sessions : sessions[e].until > deviceClock} \cup {d}
      /\ \A e \in DOMAIN sessions' : e # d => sessions'[e] = sessions[e]
      /\ DOMAIN tombstones' = {e \in DOMAIN tombstones : tombstones[e] > deviceClock}
      /\ \A e \in DOMAIN tombstones' : tombstones'[e] = tombstones[e]
  BY <1>1, <1>2, OpenStores
<1>4. /\ poll[p] = Devices!Idle /\ d \notin DOMAIN sessions
      /\ ~(d \in DOMAIN tombstones /\ tombstones[d] > deviceClock)
      /\ d \in DOMAIN sessions' => Devices!Ask(p, d)
      /\ UNCHANGED <<deviceClock, lifetime, deadline, redeemed, capacity>>
  BY DEF Devices!PollUnknown, Devices!Opened, Devices!Buried, Devices!provider
<1>5. d \notin DOMAIN tombstones' /\ Devices!Ask(p, d)
  BY <1>3, <1>4
<1>6. ~Protected(d)
  <2>1. ~Stored(d)
    BY <1>4 DEF Stored
  <2>2. deviceClock < deadline[d] => ~Remembered(d)
    BY <1>1, <1>4 DEF Remembered, MemoryTypes, SessionTypes
  <2> QED
    BY <1>1, <2>1, <2>2 DEF Covered, Protected
<1> QED
  BY <1>3, <1>4, <1>5, <1>6, AskRemembers

LEMMA MemoryNext ==
  ASSUME Devices!DeviceAssumption, IsFiniteSet(Device), Roomy, IntervalInv, MemoryInv,
         [Devices!Next]_(Devices!vars)
  PROVE  MemoryInv'
<1> USE DEF Devices!stones, Devices!provider, Devices!Keep
<1>1. SessionTypes /\ MemoryTypes /\ IntervalInv'
  BY IntervalNext DEF IntervalInv, MemoryInv
<1>2. deviceClock \in Nat
  BY <1>1 DEF SessionTypes
<1>3. CASE UNCHANGED Devices!vars
  BY <1>1, <1>2, <1>3, QuietKeeps DEF Devices!vars
<1>4. CASE Devices!Tick
  <2>1. /\ deviceClock <= deviceClock'
        /\ UNCHANGED <<sessions, tombstones, poll, asked, lifetime, deadline, redeemed, overlapped,
                       capacity>>
    BY <1>2, <1>4 DEF Devices!Tick
  <2> QED
    BY <1>1, <2>1, QuietKeeps
<1>5. ASSUME NEW d \in Device, Devices!Refuse(d) PROVE MemoryInv'
  <2>1. /\ sessions' = Devices!Unexpired(deviceClock)
        /\ tombstones' = Devices!Standing(deviceClock)
        /\ UNCHANGED <<deviceClock, poll, asked, lifetime, deadline, redeemed, overlapped, capacity>>
    BY <1>5 DEF Devices!Refuse
  <2>2. /\ \A e \in DOMAIN sessions' : e \in DOMAIN sessions /\ sessions'[e] = sessions[e]
        /\ \A e \in DOMAIN sessions : sessions[e].until > deviceClock => e \in DOMAIN sessions'
    BY <2>1, UnexpiredSessions
  <2>3. /\ DOMAIN tombstones' = {e \in DOMAIN tombstones : tombstones[e] > deviceClock}
        /\ \A e \in DOMAIN tombstones' : tombstones'[e] = tombstones[e]
    BY <2>1, StandingTombstones
  <2> QED
    BY <1>1, <1>2, <2>1, <2>2, <2>3, QuietKeeps
<1>6. ASSUME NEW p \in Poller, Devices!Pending(p) \/ Devices!SlowDown(p) PROVE MemoryInv'
  <2>1. /\ poll' = [poll EXCEPT ![p] = Devices!Idle]
        /\ UNCHANGED <<deviceClock, tombstones, asked, lifetime, deadline, redeemed, overlapped,
                       capacity>>
        /\ DOMAIN sessions' = DOMAIN sessions
    BY <1>6 DEF Devices!Pending, Devices!SlowDown, Devices!Answered, Devices!Release
  <2>2. \A q \in Poller : poll'[q] = poll[q] \/ poll'[q] = Devices!Idle
    BY <1>1, <2>1 DEF SessionTypes
  <2>3. ASSUME NEW e \in DOMAIN sessions PROVE sessions'[e].until = sessions[e].until
    <3>1. sessions[e] \in Session
      BY <1>1 DEF SessionTypes
    <3>2. CASE Devices!Pending(p)
      BY <3>1, <3>2 DEF Devices!Pending, Devices!Release, Session
    <3>3. CASE Devices!SlowDown(p)
      BY <3>1, <3>3 DEF Devices!SlowDown, Session
    <3> QED
      BY <1>6, <3>2, <3>3
  <2> QED
    BY <1>1, <1>2, <2>1, <2>2, <2>3, QuietKeeps
<1>7. ASSUME NEW p \in Poller, Devices!Rejected(p) \/ Devices!Authorized(p) PROVE MemoryInv'
  BY <1>7, EndRemembers
<1> QED
  BY <1>3, <1>4, <1>5, <1>6, <1>7, StartRemembers, ExpireRemembers, PollRemembers,
     PollUnknownRemembers DEF Devices!Next

\* A protected code whose token was given out has a tombstone, and no session.
LEMMA RedeemedIsNotAsked ==
  ASSUME IntervalInv, MemoryInv, [Devices!Next]_(Devices!vars),
         NEW d \in redeemed, Devices!Asks(d), d \notin overlapped \/ lifetime[d] <= TombstoneTtl
  PROVE  deviceClock >= deadline[d]
<1>1. /\ SessionTypes /\ MemoryTypes /\ StatesAreKnown /\ d \in Device /\ Covered(d)
      /\ deviceClock \in Nat /\ deadline[d] \in Nat
  BY DEF IntervalInv, MemoryInv, SessionTypes, MemoryTypes
<1>2. SUFFICES ASSUME deviceClock < deadline[d] PROVE FALSE
  BY <1>1
<1>3. Remembered(d)
  BY <1>1, <1>2 DEF Covered, Protected
<1>4. d \in DOMAIN tombstones /\ tombstones[d] > deviceClock
  BY <1>1, <1>2, <1>3 DEF Remembered, MemoryTypes
<1>5. PICK p \in Poller : Devices!Poll(p, d) \/ Devices!PollUnknown(p, d)
  BY <1>1, OnlyPollsAsk
<1>6. d \notin DOMAIN sessions
  BY <1>1, <1>4 DEF StatesAreKnown
<1> QED
  BY <1>4, <1>5, <1>6 DEF Devices!Poll, Devices!Known, Devices!PollUnknown, Devices!Buried

\* While there is room for the states of all device codes, a code whose token
\* was given out is not taken to the provider again before its end, unless it
\* lives longer than a tombstone and two answers about it were due at once.
THEOREM RedeemedCodesStay ==
  ASSUME Devices!DeviceAssumption, IsFiniteSet(Device)
  PROVE  Devices!Spec => RedeemedStaysRedeemed
<1> DEFINE MemoryHolds == IntervalInv /\ (Roomy => MemoryInv)
<1>1. Devices!Init => MemoryHolds
  BY IntervalInit, MemoryInit
<1>2. MemoryHolds /\ [Devices!Next]_(Devices!vars) => MemoryHolds'
  <2> SUFFICES ASSUME MemoryHolds, [Devices!Next]_(Devices!vars) PROVE MemoryHolds'
    OBVIOUS
  <2>1. capacity' = capacity
    BY DEF Devices!Next, Devices!vars, Devices!Start, Devices!Expire, Devices!Refuse, Devices!Poll,
           Devices!PollUnknown, Devices!Pending, Devices!SlowDown, Devices!Rejected,
           Devices!Authorized, Devices!Answered, Devices!Tick
  <2>2. Roomy' => Roomy
    BY <2>1 DEF Roomy
  <2> QED
    BY <2>2, IntervalNext, MemoryNext
<1>3. MemoryHolds /\ [Devices!Next]_(Devices!vars)
      => [\A d \in redeemed :
            /\ capacity > Devices!Cardinality(Device) /\ Devices!Asks(d)
            /\ d \notin overlapped \/ lifetime[d] <= TombstoneTtl
            => deviceClock >= deadline[d]]_(Devices!vars)
  BY SameCount, RedeemedIsNotAsked DEF Roomy
<1> QED
  BY <1>1, <1>2, <1>3, PTL
     DEF Devices!Spec, Devices!RedeemedStaysRedeemed, RedeemedStaysRedeemed
=============================================================================
