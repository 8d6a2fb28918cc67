------------------------ MODULE ReconciliationProofs ------------------------
(***************************************************************************)
(* Proofs about Reconciliation for any items, accounts, bounds and choices *)
(* of a user.  Its operators are loops over accounts, so the proofs begin  *)
(* with induction: every loop is a fold, and what a fold leaves is said in *)
(* sets of records.  Deduplication keeps one winner of every item; a plan  *)
(* writes a record over others only if it won over the newest of them; and *)
(* what two accounts hold after a two-way run has nothing to decide.       *)
(*                                                                         *)
(* The theorems assume that the identities of items are transitive, which  *)
(* mediaItemsMatch is not by itself: of three items, two may each match the*)
(* third by an identifier of their own.  Three of them need a state without*)
(* a Bangumi account, whose subjects are written whole, and the last one a *)
(* run without reviews, whose texts a conflict does not show.              *)
(* All of them are about requests that declare no identities, or about     *)
(* one-way runs with any declared ones: in a two-way run a declared pair   *)
(* takes a record away from its own match.                                 *)
(***************************************************************************)
EXTENDS Reconciliation, SequenceTheorems, WellFoundedInduction, TLAPS

(***************************************************************************)
(* Induction.  A nonempty set of natural numbers has a least member, as <  *)
(* is well founded; from this the principles for numbers and sequences.    *)
(***************************************************************************)

\* A nonempty set of numbers has a least one.
LEMMA LeastNumber ==
  ASSUME NEW T \in SUBSET Nat, T # {}
  PROVE  \E n \in T : \A m \in T : n <= m
<1> DEFINE less == {p \in Nat \X Nat : p[1] < p[2]}
<1>1. IsWellFoundedOn(less, Nat)
  BY NatLessThanWellFounded DEF OpToRel
<1> HIDE DEF less
<1>2. \E n \in T : \A m \in T : <<m, n>> \notin less
  BY <1>1, WFMin
<1>3. PICK n \in T : \A m \in T : <<m, n>> \notin less
  BY <1>2
<1>4. ASSUME NEW m \in T PROVE n <= m
  <2>1. <<m, n>> \notin less
    BY <1>3
  <2>2. ~(m < n)
    BY <2>1 DEF less
  <2>3. m \in Nat /\ n \in Nat
    OBVIOUS
  <2> QED
    BY <2>2, <2>3
<1> QED
  BY <1>4

\* Induction over the numbers, for a set in place of a predicate.
LEMMA NumberInduction ==
  ASSUME NEW T, 0 \in T, \A n \in Nat : n \in T => n + 1 \in T
  PROVE  \A n \in Nat : n \in T
<1> SUFFICES ASSUME NEW k \in Nat, k \notin T PROVE FALSE
  OBVIOUS
<1>1. PICK n \in Nat \ T : \A m \in Nat \ T : n <= m
  <2>1. Nat \ T # {} /\ Nat \ T \in SUBSET Nat
    OBVIOUS
  <2> QED
    BY <2>1, LeastNumber
<1>2. n - 1 \in Nat /\ n - 1 \in T
  BY <1>1
<1> QED
  BY <1>1, <1>2

\* Up to a bound.
LEMMA BoundedInduction ==
  ASSUME NEW N \in Nat, NEW T, 0 \in T, \A n \in 1 .. N : n - 1 \in T => n \in T
  PROVE  \A n \in 0 .. N : n \in T
<1> DEFINE U == {n \in Nat : n <= N => n \in T}
<1>1. 0 \in U
  OBVIOUS
<1>2. ASSUME NEW n \in Nat, n \in U PROVE n + 1 \in U
  <2>1. CASE n + 1 <= N
    <3>1. n \in T /\ n + 1 \in 1 .. N /\ (n + 1) - 1 = n
      BY <1>2, <2>1
    <3>2. n + 1 \in T
      BY <3>1
    <3> QED
      BY <3>2
  <2> QED
    BY <2>1
<1>3. \A n \in Nat : n \in U
  <2> HIDE DEF U
  <2> QED
    BY <1>1, <1>2, NumberInduction
<1> QED
  BY <1>3

\* Induction over sequences: the empty one is in T, and T is closed under Append.
LEMMA SequenceInduction ==
  ASSUME NEW X, NEW T, <<>> \in T, \A s \in Seq(X), x \in X : s \in T => Append(s, x) \in T
  PROVE  \A s \in Seq(X) : s \in T
<1> DEFINE U == {n \in Nat : \A s \in Seq(X) : Len(s) = n => s \in T}
<1>1. 0 \in U
  BY EmptySeq
<1>2. ASSUME NEW n \in Nat, n \in U PROVE n + 1 \in U
  <2> SUFFICES ASSUME NEW s \in Seq(X), Len(s) = n + 1 PROVE s \in T
    OBVIOUS
  <2>1. s # <<>>
    BY EmptySeq
  <2>2. PICK t \in Seq(X), x \in X : s = Append(t, x)
    BY <2>1, SequenceEmptyOrAppend
  <2>3. Len(t) = n
    BY <2>2, AppendProperties, LenProperties
  <2> QED
    BY <1>2, <2>2, <2>3
<1>3. \A n \in Nat : n \in U
  <2> HIDE DEF U
  <2> QED
    BY <1>1, <1>2, NumberInduction
<1>4. \A s \in Seq(X) : Len(s) \in Nat
  BY LenProperties
<1> QED
  BY <1>3, <1>4

(***************************************************************************)
(* Folds.  A loop over a sequence with a step on states of X; the loops of *)
(* Reconciliation are shown to be folds, and two laws tell all of a fold:  *)
(* what it makes of the empty sequence and of one more record.             *)
(***************************************************************************)

IsFold(f, step, base, s) ==
  f = [n \in 0 .. Len(s) |-> IF n = 0 THEN base ELSE step[<<f[n - 1], s[n]>>]]

\* The run f of a fold over s, one record longer.
OneMore(f, step, s, r) ==
  [n \in 0 .. Len(s) + 1 |-> IF n <= Len(s) THEN f[n] ELSE step[<<f[Len(s)], r>>]]

Folded(step, base, s) == (CHOOSE f : IsFold(f, step, base, s))[Len(s)]

\* The states of a fold are states of X.
LEMMA FoldTyped ==
  ASSUME NEW X, NEW R, NEW base \in X, NEW step \in [X \X R -> X], NEW s \in Seq(R),
         NEW f, IsFold(f, step, base, s)
  PROVE  f \in [0 .. Len(s) -> X]
<1>1. Len(s) \in Nat
  BY LenProperties
<1>2. \A n \in 0 .. Len(s) : f[n] \in X
  <2> DEFINE T == {n \in 0 .. Len(s) : f[n] \in X}
  <2>1. 0 \in T
    BY <1>1 DEF IsFold
  <2>2. ASSUME NEW n \in 1 .. Len(s), n - 1 \in T PROVE n \in T
    <3>1. n \in 0 .. Len(s) /\ n # 0 /\ s[n] \in R
      BY <1>1, ElementOfSeq
    <3>2. f[n] = step[<<f[n - 1], s[n]>>]
      BY <3>1 DEF IsFold
    <3>3. <<f[n - 1], s[n]>> \in X \X R
      BY <2>2, <3>1
    <3> QED
      BY <3>1, <3>2, <3>3
  <2>3. \A n \in 0 .. Len(s) : n \in T
    <3> HIDE DEF T
    <3> QED
      BY <1>1, <2>1, <2>2, BoundedInduction
  <2> QED
    BY <2>3
<1> QED
  BY <1>2 DEF IsFold

\* There is one fold of a sequence.
LEMMA FoldUnique ==
  ASSUME NEW step, NEW base, NEW N \in Nat, NEW s, Len(s) = N,
         NEW f, IsFold(f, step, base, s), NEW g, IsFold(g, step, base, s)
  PROVE  f = g
<1> DEFINE T == {n \in 0 .. N : f[n] = g[n]}
<1>1. 0 \in T
  BY DEF IsFold
<1>2. ASSUME NEW n \in 1 .. N, n - 1 \in T PROVE n \in T
  <2>1. n \in 0 .. N /\ n # 0
    OBVIOUS
  <2>2. f[n] = step[<<f[n - 1], s[n]>>] /\ g[n] = step[<<g[n - 1], s[n]>>]
    BY <2>1 DEF IsFold
  <2> QED
    BY <1>2, <2>1, <2>2
<1>3. \A n \in 0 .. N : n \in T
  <2> HIDE DEF T
  <2> QED
    BY <1>1, <1>2, BoundedInduction
<1> QED
  BY <1>3 DEF IsFold

\* The fold of the empty sequence is its base.
LEMMA FoldOfEmpty ==
  ASSUME NEW X, NEW R, NEW base \in X, NEW step \in [X \X R -> X]
  PROVE  \E f : IsFold(f, step, base, <<>>)
<1>1. Len(<<>>) = 0
  BY EmptySeq
<1>2. IsFold([n \in 0 .. 0 |-> base], step, base, <<>>)
  BY <1>1 DEF IsFold
<1> QED
  BY <1>2

\* A fold goes on by one more record.
LEMMA FoldExtended ==
  ASSUME NEW X, NEW R, NEW base \in X, NEW step \in [X \X R -> X], NEW s \in Seq(R), NEW r \in R,
         NEW f, IsFold(f, step, base, s)
  PROVE  IsFold(OneMore(f, step, s, r), step, base, Append(s, r))
<1> DEFINE N == Len(s)
           t == Append(s, r)
           g == [n \in 0 .. N + 1 |-> IF n <= N THEN f[n] ELSE step[<<f[N], r>>]]
<1>1. N \in Nat /\ Len(t) = N + 1 /\ t[N + 1] = r /\ \A n \in 1 .. N : t[n] = s[n]
  BY LenProperties, AppendProperties
<1>2. f = [n \in 0 .. N |-> IF n = 0 THEN base ELSE step[<<f[n - 1], s[n]>>]]
  BY DEF IsFold
<1>3. ASSUME NEW n \in 0 .. N + 1
      PROVE  g[n] = IF n = 0 THEN base ELSE step[<<g[n - 1], t[n]>>]
  <2> HIDE DEF N, t
  <2>1. CASE n = 0
    BY <1>1, <1>2, <2>1
  <2>2. CASE n \in 1 .. N
    <3>1. n \in 0 .. N /\ n - 1 \in 0 .. N + 1 /\ n - 1 <= N /\ n <= N /\ n # 0
      BY <1>1, <2>2
    <3>2. g[n] = f[n] /\ g[n - 1] = f[n - 1]
      BY <3>1
    <3>3. f[n] = step[<<f[n - 1], s[n]>>] /\ t[n] = s[n]
      BY <1>1, <1>2, <2>2, <3>1
    <3> QED
      BY <3>1, <3>2, <3>3
  <2>3. CASE n = N + 1
    <3>1. n # 0 /\ ~(n <= N) /\ n - 1 = N /\ N \in 0 .. N + 1 /\ N <= N
      BY <1>1, <2>3
    <3>2. g[n] = step[<<f[N], r>>] /\ g[N] = f[N]
      BY <3>1
    <3> QED
      BY <1>1, <2>3, <3>1, <3>2
  <2> QED
    BY <1>1, <2>1, <2>2, <2>3
<1>4. g = [n \in 0 .. N + 1 |-> IF n = 0 THEN base ELSE step[<<g[n - 1], t[n]>>]]
  <2> HIDE DEF t
  <2> QED
    BY <1>3
<1> QED
  BY <1>1, <1>4 DEF IsFold, OneMore

\* Every sequence has a fold.
LEMMA FoldExists ==
  ASSUME NEW X, NEW R, NEW base \in X, NEW step \in [X \X R -> X], NEW s \in Seq(R)
  PROVE  \E f : IsFold(f, step, base, s)
<1> DEFINE T == {t \in Seq(R) : \E f : IsFold(f, step, base, t)}
<1>1. <<>> \in T
  BY FoldOfEmpty, EmptySeq
<1>2. ASSUME NEW t \in Seq(R), NEW r \in R, t \in T PROVE Append(t, r) \in T
  BY <1>2, FoldExtended, AppendProperties
<1>3. \A t \in Seq(R) : t \in T
  <2> HIDE DEF T
  <2> QED
    BY <1>1, <1>2, SequenceInduction
<1> QED
  BY <1>3

\* Folded is the last state of any fold.
LEMMA FoldChosen ==
  ASSUME NEW step, NEW base, NEW s, Len(s) \in Nat, NEW f, IsFold(f, step, base, s)
  PROVE  Folded(step, base, s) = f[Len(s)]
<1> DEFINE g == CHOOSE h : IsFold(h, step, base, s)
<1>1. IsFold(g, step, base, s) /\ Folded(step, base, s) = g[Len(s)]
  BY DEF Folded
<1> HIDE DEF g
<1>3. f = g
  BY <1>1, FoldUnique
<1> QED
  BY <1>1, <1>3

IsRunOf(f, step, base, s) ==
  /\ Folded(step, base, s) = f[Len(s)]
  /\ f[0] = base
  /\ \A n \in 1 .. Len(s) : f[n] = step[<<f[n - 1], s[n]>>]

\* What a fold computes, state by state.
LEMMA FoldRun ==
  ASSUME NEW X, NEW R, NEW base \in X, NEW step \in [X \X R -> X], NEW s \in Seq(R)
  PROVE  \E f \in [0 .. Len(s) -> X] : IsRunOf(f, step, base, s)
<1>1. PICK f : IsFold(f, step, base, s)
  BY FoldExists
<1>2. f \in [0 .. Len(s) -> X] /\ Len(s) \in Nat
  BY <1>1, FoldTyped, LenProperties
<1>3. Folded(step, base, s) = f[Len(s)]
  BY <1>1, <1>2, FoldChosen
<1>4. IsRunOf(f, step, base, s)
  BY <1>1, <1>2, <1>3 DEF IsFold, IsRunOf
<1> QED
  BY <1>2, <1>4

\* The two laws.
LEMMA FoldEmpty ==
  ASSUME NEW X, NEW R, NEW base \in X, NEW step \in [X \X R -> X]
  PROVE  Folded(step, base, <<>>) = base
<1>1. Len(<<>>) = 0
  BY EmptySeq
<1>2. IsFold([n \in 0 .. 0 |-> base], step, base, <<>>)
  BY <1>1 DEF IsFold
<1>3. IsFold(CHOOSE f : IsFold(f, step, base, <<>>), step, base, <<>>)
  BY <1>2
<1> QED
  BY <1>1, <1>3 DEF IsFold, Folded

\* A fold ends in X.
LEMMA FoldIn ==
  ASSUME NEW X, NEW R, NEW base \in X, NEW step \in [X \X R -> X], NEW s \in Seq(R)
  PROVE  Folded(step, base, s) \in X
<1>1. PICK f \in [0 .. Len(s) -> X] : IsRunOf(f, step, base, s)
  BY FoldRun
<1> QED
  BY <1>1, LenProperties DEF IsRunOf

ObeysAppend(step, base, s, r) ==
  Folded(step, base, Append(s, r)) = step[<<Folded(step, base, s), r>>]

\* The second law: one more record is one more step.
LEMMA FoldAppend ==
  ASSUME NEW X, NEW R, NEW base \in X, NEW step \in [X \X R -> X], NEW s \in Seq(R), NEW r \in R
  PROVE  ObeysAppend(step, base, s, r)
<1>1. PICK f : IsFold(f, step, base, s)
  BY FoldExists
<1> DEFINE g == OneMore(f, step, s, r)
           t == Append(s, r)
<1>2. t \in Seq(R) /\ Len(t) = Len(s) + 1 /\ Len(s) \in Nat
  BY LenProperties, AppendProperties
<1>3. IsFold(g, step, base, t)
  BY <1>1, FoldExtended
<1>4. g[Len(s) + 1] = step[<<f[Len(s)], r>>]
  BY <1>2 DEF OneMore
<1>5. Folded(step, base, s) = f[Len(s)]
  BY <1>1, <1>2, FoldChosen
<1> HIDE DEF g, t
<1>9. Len(t) \in Nat
  BY <1>2
<1>6. Folded(step, base, t) = g[Len(t)]
  BY <1>3, <1>9, FoldChosen
<1>7. Folded(step, base, t) = step[<<Folded(step, base, s), r>>]
  BY <1>2, <1>4, <1>5, <1>6
<1> QED
  BY <1>7 DEF t, ObeysAppend

(***************************************************************************)
(* The loops of Reconciliation as folds.  The records of the request q are *)
(* R == Record(q.feature); only what a lemma needs of them is assumed.     *)
(***************************************************************************)

StepThose(R, S) == [p \in Seq(R) \X R |-> AppendIf(p[1], p[2], p[2] \in S)]

\* AppendIf makes a sequence of the records.
LEMMA AppendIfTyped ==
  ASSUME NEW R, NEW s \in Seq(R), NEW r \in R, NEW c
  PROVE  AppendIf(s, r, c) \in Seq(R)
<1>1. Append(s, r) \in Seq(R)
  BY AppendProperties
<1> QED
  BY <1>1 DEF AppendIf

\* The step of Those is a function on sequences of records.
LEMMA StepThoseTyped ==
  ASSUME NEW R, NEW S
  PROVE  StepThose(R, S) \in [Seq(R) \X R -> Seq(R)] /\ <<>> \in Seq(R)
<1>1. \A p \in Seq(R) \X R : AppendIf(p[1], p[2], p[2] \in S) \in Seq(R)
  BY AppendIfTyped
<1>2. <<>> \in Seq(R)
  BY EmptySeq
<1> QED
  BY <1>1, <1>2 DEF StepThose

\* Those, the filter of a list, is a fold.
LEMMA ThoseIsFold ==
  ASSUME NEW R, NEW S, NEW s \in Seq(R)
  PROVE  Those(s, S) = Folded(StepThose(R, S), <<>>, s)
<1> DEFINE step == StepThose(R, S)
           base == <<>>
           IsRun(h) ==
             h = [n \in 0 .. Len(s) |->
                    IF n = 0 THEN base ELSE AppendIf(h[n - 1], s[n], s[n] \in S)]
<1>1. step \in [Seq(R) \X R -> Seq(R)] /\ base \in Seq(R) /\ s \in Seq(R) /\ Len(s) \in Nat
  BY StepThoseTyped, LenProperties
<1>2. PICK f \in [0 .. Len(s) -> Seq(R)] : IsRunOf(f, step, base, s)
  <2> HIDE DEF step, base
  <2> QED
    BY <1>1, FoldRun
<1>3. ASSUME NEW n \in 1 .. Len(s)
      PROVE  f[n] = AppendIf(f[n - 1], s[n], s[n] \in S)
  <2>1. n \in 0 .. Len(s) /\ n # 0 /\ n - 1 \in 0 .. Len(s) /\ s[n] \in R
    BY <1>1, ElementOfSeq
  <2>2. <<f[n - 1], s[n]>> \in Seq(R) \X R
    BY <1>2, <2>1
  <2>3. f[n] = step[<<f[n - 1], s[n]>>]
    BY <1>2 DEF IsRunOf
  <2> QED
    BY <2>2, <2>3 DEF StepThose
<1>4. f[0] = base /\ Folded(step, base, s) = f[Len(s)]
  BY <1>2 DEF IsRunOf
<1>5. IsRun(f)
  <2> HIDE DEF step, base
  <2>1. \A n \in 0 .. Len(s) : f[n] =
          IF n = 0 THEN base ELSE AppendIf(f[n - 1], s[n], s[n] \in S)
    BY <1>1, <1>3, <1>4
  <2> QED
    BY <1>2, <2>1
<1>6. ASSUME NEW h, IsRun(h) PROVE h = f
  <2> HIDE DEF step, base
  <2> DEFINE T == {n \in 0 .. Len(s) : h[n] = f[n]}
  <2>1. 0 \in T
    BY <1>1, <1>4, <1>6
  <2>2. ASSUME NEW n \in 1 .. Len(s), n - 1 \in T PROVE n \in T
    <3>1. n \in 0 .. Len(s) /\ n # 0
      BY <1>1
    <3>2. h[n] = AppendIf(h[n - 1], s[n], s[n] \in S)
      BY <1>6, <3>1
    <3> QED
      BY <1>3, <2>2, <3>1, <3>2
  <2>3. \A n \in 0 .. Len(s) : n \in T
    <3> HIDE DEF T
    <3> QED
      BY <1>1, <2>1, <2>2, BoundedInduction
  <2> QED
    BY <1>2, <1>6, <2>3
<1>7. (CHOOSE h : IsRun(h)) = f
  <2> HIDE DEF IsRun
  <2> QED
    BY <1>5, <1>6
<1>8. (CHOOSE h : IsRun(h))[Len(s)] = Folded(step, base, s)
  <2> HIDE DEF IsRun, step, base
  <2> QED
    BY <1>4, <1>7
<1>9. Those(s, S) = (CHOOSE h : IsRun(h))[Len(s)]
  BY DEF Those
<1> QED
  <2> HIDE DEF IsRun
  <2> QED
    BY <1>8, <1>9

\* findIndex: no record matches, or the one found does and none before it.
LEMMA FirstIndexFacts ==
  ASSUME NEW R, NEW s \in Seq(R), NEW r
  PROVE  \/ /\ FirstIndex(r, s) = 0
            /\ \A i \in 1 .. Len(s) : ~RecordsMatch(r, s[i])
         \/ /\ FirstIndex(r, s) \in 1 .. Len(s)
            /\ RecordsMatch(r, s[FirstIndex(r, s)])
<1>1. DOMAIN s = 1 .. Len(s) /\ Len(s) \in Nat
  BY LenProperties
<1> DEFINE First(i) == /\ RecordsMatch(r, s[i])
                       /\ \A j \in 1 .. (i - 1) : ~RecordsMatch(r, s[j])
<1>2. CASE HasMatch(r, s)
  <2> DEFINE hits == {i \in 1 .. Len(s) : RecordsMatch(r, s[i])}
  <2>1. hits \in SUBSET Nat /\ hits # {}
    BY <1>1, <1>2 DEF HasMatch
  <2>2. PICK i \in hits : \A j \in hits : i <= j
    <3> HIDE DEF hits
    <3> QED
      BY <2>1, LeastNumber
  <2>3. i \in DOMAIN s /\ First(i)
    BY <1>1, <2>2
  <2>4. (CHOOSE k \in DOMAIN s : First(k)) \in DOMAIN s
        /\ First(CHOOSE k \in DOMAIN s : First(k))
    <3> HIDE DEF First
    <3> QED
      BY <2>3
  <2>5. FirstIndex(r, s) = CHOOSE k \in DOMAIN s : First(k)
    BY <1>2 DEF FirstIndex
  <2> QED
    BY <1>1, <2>4, <2>5
<1>3. CASE ~HasMatch(r, s)
  BY <1>1, <1>3 DEF HasMatch, FirstIndex
<1> QED
  BY <1>2, <1>3

\* The same with the identities that the request declares.
LEMMA FirstPartnerFacts ==
  ASSUME NEW R, NEW s \in Seq(R), NEW r
  PROVE  \/ /\ FirstPartner(r, s) = 0
            /\ \A i \in 1 .. Len(s) : ~Identifies(r, s[i])
         \/ /\ FirstPartner(r, s) \in 1 .. Len(s)
            /\ Identifies(r, s[FirstPartner(r, s)])
<1>1. DOMAIN s = 1 .. Len(s) /\ Len(s) \in Nat
  BY LenProperties
<1> DEFINE First(i) == /\ Identifies(r, s[i])
                       /\ \A j \in 1 .. (i - 1) : ~Identifies(r, s[j])
<1>2. CASE HasPartner(r, s)
  <2> DEFINE hits == {i \in 1 .. Len(s) : Identifies(r, s[i])}
  <2>1. hits \in SUBSET Nat /\ hits # {}
    BY <1>1, <1>2 DEF HasPartner
  <2>2. PICK i \in hits : \A j \in hits : i <= j
    <3> HIDE DEF hits
    <3> QED
      BY <2>1, LeastNumber
  <2>3. i \in DOMAIN s /\ First(i)
    BY <1>1, <2>2
  <2>4. (CHOOSE k \in DOMAIN s : First(k)) \in DOMAIN s
        /\ First(CHOOSE k \in DOMAIN s : First(k))
    <3> HIDE DEF First
    <3> QED
      BY <2>3
  <2>5. FirstPartner(r, s) = CHOOSE k \in DOMAIN s : First(k)
    BY <1>2 DEF FirstPartner
  <2> QED
    BY <1>1, <2>4, <2>5
<1>3. CASE ~HasPartner(r, s)
  BY <1>1, <1>3 DEF HasPartner, FirstPartner
<1> QED
  BY <1>2, <1>3

\* A merged list is a list of records.
LEMMA MergeTyped ==
  ASSUME NEW q, NEW R, NEW s \in Seq(R), NEW r \in R
  PROVE  Merge(q, s, r) \in Seq(R)
<1>1. Append(s, r) \in Seq(R)
  BY AppendProperties
<1>2. \A i \in 1 .. Len(s) : [s EXCEPT ![i] = r] \in Seq(R)
  BY ExceptSeq
<1>3. FirstIndex(r, s) = 0 \/ FirstIndex(r, s) \in 1 .. Len(s)
  BY FirstIndexFacts
<1> QED
  BY <1>1, <1>2, <1>3 DEF Merge

Acc(R) == [open : Seq(R), toTarget : Seq(R), toSource : Seq(R), pairs : SUBSET (R \X R)]

\* What is left of a sequence without one of its records.
LEMMA Removed ==
  ASSUME NEW R, NEW s \in Seq(R), NEW i \in 1 .. Len(s)
  PROVE  /\ RemoveAt(s, i) \in Seq(R)
         /\ Len(RemoveAt(s, i)) = Len(s) - 1
         /\ \A k \in 1 .. Len(s) - 1 : RemoveAt(s, i)[k] = IF k < i THEN s[k] ELSE s[k + 1]
<1>1. Len(s) \in Nat /\ DOMAIN s = 1 .. Len(s)
  BY LenProperties
<1>2. RemoveAt(s, i) = SubSeq(s, 1, i - 1) \o SubSeq(s, i + 1, Len(s))
  BY DEF RemoveAt
<1> DEFINE u == SubSeq(s, 1, i - 1)
           v == SubSeq(s, i + 1, Len(s))
<1>3. u \in Seq(R) /\ Len(u) = i - 1 /\ \A k \in 1 .. i - 1 : u[k] = s[k]
  BY <1>1, SubSeqProperties
<1>4. v \in Seq(R) /\ Len(v) = Len(s) - i /\ \A k \in 1 .. Len(s) - i : v[k] = s[i + k]
  <2>1. i + 1 \in Int /\ Len(s) \in Int /\ \A k \in (i + 1) .. Len(s) : s[k] \in R
    BY <1>1
  <2>2. /\ v \in Seq(R)
        /\ Len(v) = IF i + 1 <= Len(s) THEN Len(s) - (i + 1) + 1 ELSE 0
        /\ \A k \in 1 .. Len(s) - (i + 1) + 1 : v[k] = s[(i + 1) + k - 1]
    <3> HIDE DEF v
    <3>1. v = SubSeq(s, i + 1, Len(s))
      BY DEF v
    <3> QED
      BY <2>1, <3>1, SubSeqProperties
  <2>3. \A k \in 1 .. Len(s) - i : k \in 1 .. Len(s) - (i + 1) + 1 /\ (i + 1) + k - 1 = i + k
    BY <1>1
  <2>4. Len(v) = Len(s) - i
    <3>1. i \in Nat /\ i <= Len(s)
      BY <1>1
    <3> DEFINE N == Len(s)
               M == Len(v)
    <3>2. N \in Nat /\ i <= N /\ M = IF i + 1 <= N THEN N - (i + 1) + 1 ELSE 0
      BY <1>1, <2>2, <3>1
    <3> HIDE DEF N, M
    <3>3. M = N - i
      BY <3>2
    <3> QED
      BY <3>3 DEF M, N
  <2> QED
    BY <2>2, <2>3, <2>4
<1> HIDE DEF u, v
<1>5. /\ u \o v \in Seq(R) /\ Len(u \o v) = Len(u) + Len(v)
      /\ \A k \in 1 .. Len(u) + Len(v) : (u \o v)[k] = IF k <= Len(u) THEN u[k] ELSE v[k - Len(u)]
  BY <1>3, <1>4, ConcatProperties
<1>6. RemoveAt(s, i) = u \o v
  BY <1>2 DEF u, v
<1>8. Len(u) + Len(v) = Len(s) - 1
  BY <1>1, <1>3, <1>4
<1>7. ASSUME NEW k \in 1 .. Len(s) - 1
      PROVE  (u \o v)[k] = IF k < i THEN s[k] ELSE s[k + 1]
  <2>1. CASE k < i
    BY <1>1, <1>3, <1>4, <1>5, <2>1
  <2>2. CASE k >= i
    <3>1. k - (i - 1) \in 1 .. Len(s) - i /\ i + (k - (i - 1)) = k + 1
      BY <1>1, <2>2
    <3>2. (u \o v)[k] = v[k - (i - 1)]
      BY <1>1, <1>3, <1>4, <1>5, <2>2
    <3> QED
      BY <1>4, <2>2, <3>1, <3>2
  <2>3. k < i \/ k >= i
    BY <1>1
  <2> QED
    BY <2>1, <2>2, <2>3
<1> QED
  BY <1>5, <1>6, <1>7, <1>8

\* The state of the two-way loop stays well typed.
LEMMA ReconcileTyped ==
  ASSUME NEW q, NEW chosen, NEW R, NEW a \in Acc(R), NEW s \in R
  PROVE  Reconcile(q, chosen, a, s) \in Acc(R)
<1>1. a.open \in Seq(R) /\ a.toTarget \in Seq(R) /\ a.toSource \in Seq(R) /\ a.pairs \in SUBSET (R \X R)
  BY DEF Acc
<1> DEFINE i == FirstPartner(s, a.open)
<1>2. i = 0 \/ i \in 1 .. Len(a.open)
  BY <1>1, FirstPartnerFacts
<1>3. CASE i = 0
  <2>1. Append(a.toTarget, s) \in Seq(R)
    BY <1>1, AppendProperties
  <2>2. Reconcile(q, chosen, a, s) = [a EXCEPT !.toTarget = Append(@, s)]
    BY <1>3 DEF Reconcile
  <2> QED
    BY <2>1, <2>2 DEF Acc
<1>4. CASE i \in 1 .. Len(a.open)
  <2> DEFINE t == a.open[i]
             d == Decision(q, s, t, chosen)
  <2>1. t \in R /\ i # 0
    BY <1>1, <1>4, LenProperties, ElementOfSeq
  <2>2. RemoveAt(a.open, i) \in Seq(R)
    BY <1>1, <1>4, Removed
  <2>3. AppendIf(a.toTarget, s, d = "source") \in Seq(R)
    BY <1>1, AppendIfTyped
  <2>4. AppendIf(a.toSource, t, d = "target") \in Seq(R)
    BY <1>1, <2>1, AppendIfTyped
  <2>5. Reconcile(q, chosen, a, s) =
          [open |-> RemoveAt(a.open, i),
           toTarget |-> AppendIf(a.toTarget, s, d = "source"),
           toSource |-> AppendIf(a.toSource, t, d = "target"),
           pairs |-> a.pairs \cup {<<s, t>>}]
    BY <2>1 DEF Reconcile
  <2>6. a.pairs \cup {<<s, t>>} \in SUBSET (R \X R)
    BY <1>1, <2>1
  <2> HIDE DEF t, d
  <2> QED
    BY <2>2, <2>3, <2>4, <2>5, <2>6 DEF Acc
<1> QED
  BY <1>2, <1>3, <1>4

StepMerge(q, R) == [p \in Seq(R) \X R |-> Merge(q, p[1], p[2])]

\* The step of deduplicateRecords is a function on sequences of records.
LEMMA StepMergeTyped ==
  ASSUME NEW q, NEW R
  PROVE  StepMerge(q, R) \in [Seq(R) \X R -> Seq(R)] /\ <<>> \in Seq(R)
<1>1. \A p \in Seq(R) \X R : Merge(q, p[1], p[2]) \in Seq(R)
  BY MergeTyped
<1>2. <<>> \in Seq(R)
  BY EmptySeq
<1> QED
  BY <1>1, <1>2 DEF StepMerge

\* deduplicateRecords is a fold.
LEMMA DeduplicatedIsFold ==
  ASSUME NEW q, NEW R, NEW s \in Seq(R)
  PROVE  Deduplicated(q, s) = Folded(StepMerge(q, R), <<>>, s)
<1> DEFINE step == StepMerge(q, R)
           base == <<>>
           IsRun(h) ==
             h = [n \in 0 .. Len(s) |-> IF n = 0 THEN base ELSE Merge(q, h[n - 1], s[n])]
<1>1. step \in [Seq(R) \X R -> Seq(R)] /\ base \in Seq(R) /\ s \in Seq(R) /\ Len(s) \in Nat
  BY StepMergeTyped, LenProperties
<1>2. PICK f \in [0 .. Len(s) -> Seq(R)] : IsRunOf(f, step, base, s)
  <2> HIDE DEF step, base
  <2> QED
    BY <1>1, FoldRun
<1>3. ASSUME NEW n \in 1 .. Len(s)
      PROVE  f[n] = Merge(q, f[n - 1], s[n])
  <2>1. n \in 0 .. Len(s) /\ n # 0 /\ n - 1 \in 0 .. Len(s) /\ s[n] \in R
    BY <1>1, ElementOfSeq
  <2>2. <<f[n - 1], s[n]>> \in Seq(R) \X R
    BY <1>2, <2>1
  <2>3. f[n] = step[<<f[n - 1], s[n]>>]
    BY <1>2 DEF IsRunOf
  <2> QED
    BY <2>2, <2>3 DEF StepMerge
<1>4. f[0] = base /\ Folded(step, base, s) = f[Len(s)]
  BY <1>2 DEF IsRunOf
<1>5. IsRun(f)
  <2> HIDE DEF step, base
  <2>1. \A n \in 0 .. Len(s) : f[n] = IF n = 0 THEN base ELSE Merge(q, f[n - 1], s[n])
    BY <1>1, <1>3, <1>4
  <2> QED
    BY <1>2, <2>1
<1>6. ASSUME NEW h, IsRun(h) PROVE h = f
  <2> HIDE DEF step, base
  <2> DEFINE T == {n \in 0 .. Len(s) : h[n] = f[n]}
  <2>1. 0 \in T
    BY <1>1, <1>4, <1>6
  <2>2. ASSUME NEW n \in 1 .. Len(s), n - 1 \in T PROVE n \in T
    <3>1. n \in 0 .. Len(s) /\ n # 0
      BY <1>1
    <3>2. h[n] = Merge(q, h[n - 1], s[n])
      BY <1>6, <3>1
    <3> QED
      BY <1>3, <2>2, <3>1, <3>2
  <2>3. \A n \in 0 .. Len(s) : n \in T
    <3> HIDE DEF T
    <3> QED
      BY <1>1, <2>1, <2>2, BoundedInduction
  <2> QED
    BY <1>2, <1>6, <2>3
<1>7. (CHOOSE h : IsRun(h)) = f
  <2> HIDE DEF IsRun
  <2> QED
    BY <1>5, <1>6
<1>8. (CHOOSE h : IsRun(h))[Len(s)] = Folded(step, base, s)
  <2> HIDE DEF IsRun, step, base
  <2> QED
    BY <1>4, <1>7
<1>9. Deduplicated(q, s) = (CHOOSE h : IsRun(h))[Len(s)]
  BY DEF Deduplicated
<1> QED
  <2> HIDE DEF IsRun
  <2> QED
    BY <1>8, <1>9

\* deduplicateRecords makes a list of records.
LEMMA DeduplicatedTyped ==
  ASSUME NEW q, NEW R, NEW s \in Seq(R)
  PROVE  Deduplicated(q, s) \in Seq(R)
<1>1. PICK f \in [0 .. Len(s) -> Seq(R)] : IsRunOf(f, StepMerge(q, R), <<>>, s)
  BY StepMergeTyped, FoldRun
<1>2. Deduplicated(q, s) = f[Len(s)]
  BY <1>1, DeduplicatedIsFold DEF IsRunOf
<1> QED
  BY <1>2, LenProperties

StepReconcile(q, chosen, R) == [p \in Acc(R) \X R |-> Reconcile(q, chosen, p[1], p[2])]

Opened(q, s) ==
  [open |-> Deduplicated(q, s), toTarget |-> <<>>, toSource |-> <<>>, pairs |-> {}]

\* The step of resolveTwoWayConflicts is a function on the states of its loop.
LEMMA StepReconcileTyped ==
  ASSUME NEW q, NEW chosen, NEW R, NEW s \in Seq(R)
  PROVE  StepReconcile(q, chosen, R) \in [Acc(R) \X R -> Acc(R)] /\ Opened(q, s) \in Acc(R)
<1>1. \A p \in Acc(R) \X R : Reconcile(q, chosen, p[1], p[2]) \in Acc(R)
  BY ReconcileTyped
<1>2. <<>> \in Seq(R)
  BY EmptySeq
<1>3. Deduplicated(q, s) \in Seq(R)
  BY DeduplicatedTyped
<1> QED
  BY <1>1, <1>2, <1>3 DEF StepReconcile, Opened, Acc

\* The state of a two-way run when every source record is decided.
Reconciled(q, chosen, R, incoming, existing) ==
  Folded(StepReconcile(q, chosen, R), Opened(q, existing), Deduplicated(q, incoming))

\* resolveTwoWayConflicts is a fold over the source and the rest of the target.
LEMMA TwoWayIsFold ==
  ASSUME NEW q, NEW chosen, NEW R, NEW incoming \in Seq(R), NEW existing \in Seq(R)
  PROVE  TwoWay(q, incoming, existing, chosen) =
           [toTarget |-> Reconciled(q, chosen, R, incoming, existing).toTarget,
            toSource |-> Reconciled(q, chosen, R, incoming, existing).toSource
                           \o Reconciled(q, chosen, R, incoming, existing).open,
            pairs |-> Reconciled(q, chosen, R, incoming, existing).pairs]
<1> DEFINE records == Deduplicated(q, incoming)
           step == StepReconcile(q, chosen, R)
           base == Opened(q, existing)
           IsRun(h) ==
             h = [n \in 0 .. Len(records) |->
                    IF n = 0 THEN base ELSE Reconcile(q, chosen, h[n - 1], records[n])]
<1>1. step \in [Acc(R) \X R -> Acc(R)] /\ base \in Acc(R) /\ records \in Seq(R) /\ Len(records) \in Nat
  BY StepReconcileTyped, DeduplicatedTyped, LenProperties
<1>2. PICK f \in [0 .. Len(records) -> Acc(R)] : IsRunOf(f, step, base, records)
  <2> HIDE DEF step, base
  <2> QED
    BY <1>1, FoldRun
<1>3. ASSUME NEW n \in 1 .. Len(records)
      PROVE  f[n] = Reconcile(q, chosen, f[n - 1], records[n])
  <2>1. n \in 0 .. Len(records) /\ n # 0 /\ n - 1 \in 0 .. Len(records) /\ records[n] \in R
    BY <1>1, ElementOfSeq
  <2>2. <<f[n - 1], records[n]>> \in Acc(R) \X R
    BY <1>2, <2>1
  <2>3. f[n] = step[<<f[n - 1], records[n]>>]
    BY <1>2 DEF IsRunOf
  <2> QED
    BY <2>2, <2>3 DEF StepReconcile
<1>4. f[0] = base /\ Folded(step, base, records) = f[Len(records)]
  BY <1>2 DEF IsRunOf
<1>5. IsRun(f)
  <2> HIDE DEF step, base
  <2>1. \A n \in 0 .. Len(records) : f[n] =
          IF n = 0 THEN base ELSE Reconcile(q, chosen, f[n - 1], records[n])
    BY <1>1, <1>3, <1>4
  <2> QED
    BY <1>2, <2>1
<1>6. ASSUME NEW h, IsRun(h) PROVE h = f
  <2> HIDE DEF step, base
  <2> DEFINE T == {n \in 0 .. Len(records) : h[n] = f[n]}
  <2>1. 0 \in T
    BY <1>1, <1>4, <1>6
  <2>2. ASSUME NEW n \in 1 .. Len(records), n - 1 \in T PROVE n \in T
    <3>1. n \in 0 .. Len(records) /\ n # 0
      BY <1>1
    <3>2. h[n] = Reconcile(q, chosen, h[n - 1], records[n])
      BY <1>6, <3>1
    <3> QED
      BY <1>3, <2>2, <3>1, <3>2
  <2>3. \A n \in 0 .. Len(records) : n \in T
    <3> HIDE DEF T
    <3> QED
      BY <1>1, <2>1, <2>2, BoundedInduction
  <2> QED
    BY <1>2, <1>6, <2>3
<1>7. (CHOOSE h : IsRun(h)) = f
  <2> HIDE DEF IsRun
  <2> QED
    BY <1>5, <1>6
<1>8. (CHOOSE h : IsRun(h))[Len(records)] = Folded(step, base, records)
  <2> HIDE DEF IsRun, step, base
  <2> QED
    BY <1>4, <1>7
<1>9. /\ TwoWay(q, incoming, existing, chosen) =
             LET last == (CHOOSE h : IsRun(h))[Len(records)] IN
               [toTarget |-> last.toTarget, toSource |-> last.toSource \o last.open, pairs |-> last.pairs]
      /\ Reconciled(q, chosen, R, incoming, existing) = Folded(step, base, records)
  BY DEF TwoWay, Opened, Reconciled
<1> QED
  <2> HIDE DEF IsRun, step, base, records
  <2> QED
    BY <1>8, <1>9

\* r is of one subject with a record of a sequence.
InSubject(r, records) ==
  \E subject \in Subject, s \in ToSet(records) : r.item \in subject /\ s.item \in subject

StepClosure(R, records) ==
  [p \in Seq(R) \X R |-> AppendIf(p[1], p[2], InSubject(p[2], records) /\ ~HasMatch(p[2], p[1]))]

\* The step of includeWatchedDependencyClosure is a function on sequences of records.
LEMMA StepClosureTyped ==
  ASSUME NEW R, NEW records
  PROVE  StepClosure(R, records) \in [Seq(R) \X R -> Seq(R)]
<1>1. \A p \in Seq(R) \X R :
        AppendIf(p[1], p[2], InSubject(p[2], records) /\ ~HasMatch(p[2], p[1])) \in Seq(R)
  BY AppendIfTyped
<1> QED
  BY <1>1 DEF StepClosure

\* includeWatchedDependencyClosure leaves the batch alone or is a fold.
LEMMA ClosureIsFold ==
  ASSUME NEW q, NEW side, NEW R, NEW records \in Seq(R), NEW s \in Seq(R)
  PROVE  Closure(q, side, records, s) \in {records, Folded(StepClosure(R, records), records, s)}
<1> DEFINE step == StepClosure(R, records)
           base == records
           IsRun(h) ==
             h = [n \in 0 .. Len(s) |->
                    IF n = 0 THEN base
                    ELSE AppendIf(h[n - 1], s[n],
                                  InSubject(s[n], records) /\ ~HasMatch(s[n], h[n - 1]))]
<1>1. step \in [Seq(R) \X R -> Seq(R)] /\ base \in Seq(R) /\ s \in Seq(R) /\ Len(s) \in Nat
  BY StepClosureTyped, LenProperties
<1>2. PICK f \in [0 .. Len(s) -> Seq(R)] : IsRunOf(f, step, base, s)
  <2> HIDE DEF step, base
  <2> QED
    BY <1>1, FoldRun
<1>3. ASSUME NEW n \in 1 .. Len(s)
      PROVE  f[n] = AppendIf(f[n - 1], s[n], InSubject(s[n], records) /\ ~HasMatch(s[n], f[n - 1]))
  <2>1. n \in 0 .. Len(s) /\ n # 0 /\ n - 1 \in 0 .. Len(s) /\ s[n] \in R
    BY <1>1, ElementOfSeq
  <2>2. <<f[n - 1], s[n]>> \in Seq(R) \X R
    BY <1>2, <2>1
  <2>3. f[n] = step[<<f[n - 1], s[n]>>]
    BY <1>2 DEF IsRunOf
  <2> QED
    BY <2>2, <2>3 DEF StepClosure
<1>4. f[0] = base /\ Folded(step, base, s) = f[Len(s)]
  BY <1>2 DEF IsRunOf
<1>5. IsRun(f)
  <2> HIDE DEF step, base
  <2>1. \A n \in 0 .. Len(s) : f[n] =
          IF n = 0 THEN base
          ELSE AppendIf(f[n - 1], s[n], InSubject(s[n], records) /\ ~HasMatch(s[n], f[n - 1]))
    BY <1>1, <1>3, <1>4
  <2> QED
    BY <1>2, <2>1
<1>6. ASSUME NEW h, IsRun(h) PROVE h = f
  <2> HIDE DEF step, base
  <2> DEFINE T == {n \in 0 .. Len(s) : h[n] = f[n]}
  <2>1. 0 \in T
    BY <1>1, <1>4, <1>6
  <2>2. ASSUME NEW n \in 1 .. Len(s), n - 1 \in T PROVE n \in T
    <3>1. n \in 0 .. Len(s) /\ n # 0
      BY <1>1
    <3>2. h[n] = AppendIf(h[n - 1], s[n], InSubject(s[n], records) /\ ~HasMatch(s[n], h[n - 1]))
      BY <1>6, <3>1
    <3> QED
      BY <1>3, <2>2, <3>1, <3>2
  <2>3. \A n \in 0 .. Len(s) : n \in T
    <3> HIDE DEF T
    <3> QED
      BY <1>1, <2>1, <2>2, BoundedInduction
  <2> QED
    BY <1>2, <1>6, <2>3
<1>7. (CHOOSE h : IsRun(h)) = f
  <2> HIDE DEF IsRun
  <2> QED
    BY <1>5, <1>6
<1>8. (CHOOSE h : IsRun(h))[Len(s)] = Folded(step, base, s)
  <2> HIDE DEF IsRun, step, base
  <2> QED
    BY <1>4, <1>7
<1>9. Closure(q, side, records, s) \in {records, (CHOOSE h : IsRun(h))[Len(s)]}
  BY DEF Closure, InSubject
<1> QED
  <2> HIDE DEF IsRun
  <2> QED
    BY <1>8, <1>9

StepUpserted(R) ==
  [p \in Seq(R) \X R |-> Put(p[1], p[2])]

\* A filtered list is a list of records.
LEMMA ThoseTyped ==
  ASSUME NEW R, NEW S, NEW s \in Seq(R)
  PROVE  Those(s, S) \in Seq(R)
<1>1. PICK f \in [0 .. Len(s) -> Seq(R)] : IsRunOf(f, StepThose(R, S), <<>>, s)
  BY StepThoseTyped, FoldRun
<1>2. Those(s, S) = f[Len(s)]
  BY <1>1, ThoseIsFold DEF IsRunOf
<1> QED
  BY <1>2, LenProperties

\* To store a record is a function on sequences of records.
LEMMA StepUpsertedTyped ==
  ASSUME NEW R
  PROVE  StepUpserted(R) \in [Seq(R) \X R -> Seq(R)]
<1>1. ASSUME NEW u \in Seq(R), NEW r \in R
      PROVE  Put(u, r) \in Seq(R)
  BY ThoseTyped, AppendProperties DEF Put
<1> QED
  BY <1>1 DEF StepUpserted

\* To store a batch is a fold.
LEMMA UpsertedIsFold ==
  ASSUME NEW R, NEW records \in Seq(R), NEW batch \in Seq(R)
  PROVE  Upserted(records, batch) = Folded(StepUpserted(R), records, batch)
<1> DEFINE step == StepUpserted(R)
           base == records
           IsRun(h) ==
             h = [n \in 0 .. Len(batch) |-> IF n = 0 THEN base ELSE Put(h[n - 1], batch[n])]
<1>1. step \in [Seq(R) \X R -> Seq(R)] /\ base \in Seq(R) /\ batch \in Seq(R) /\ Len(batch) \in Nat
  BY StepUpsertedTyped, LenProperties
<1>2. PICK f \in [0 .. Len(batch) -> Seq(R)] : IsRunOf(f, step, base, batch)
  <2> HIDE DEF step, base
  <2> QED
    BY <1>1, FoldRun
<1>3. ASSUME NEW n \in 1 .. Len(batch)
      PROVE  f[n] = Put(f[n - 1], batch[n])
  <2>1. n \in 0 .. Len(batch) /\ n # 0 /\ n - 1 \in 0 .. Len(batch) /\ batch[n] \in R
    BY <1>1, ElementOfSeq
  <2>2. <<f[n - 1], batch[n]>> \in Seq(R) \X R
    BY <1>2, <2>1
  <2>3. f[n] = step[<<f[n - 1], batch[n]>>]
    BY <1>2 DEF IsRunOf
  <2> QED
    BY <2>2, <2>3 DEF StepUpserted
<1>4. f[0] = base /\ Folded(step, base, batch) = f[Len(batch)]
  BY <1>2 DEF IsRunOf
<1>5. IsRun(f)
  <2> HIDE DEF step, base
  <2>1. \A n \in 0 .. Len(batch) : f[n] = IF n = 0 THEN base ELSE Put(f[n - 1], batch[n])
    BY <1>1, <1>3, <1>4
  <2> QED
    BY <1>2, <2>1
<1>6. ASSUME NEW h, IsRun(h) PROVE h = f
  <2> HIDE DEF step, base
  <2> DEFINE T == {n \in 0 .. Len(batch) : h[n] = f[n]}
  <2>1. 0 \in T
    BY <1>1, <1>4, <1>6
  <2>2. ASSUME NEW n \in 1 .. Len(batch), n - 1 \in T PROVE n \in T
    <3>1. n \in 0 .. Len(batch) /\ n # 0
      BY <1>1
    <3>2. h[n] = Put(h[n - 1], batch[n])
      BY <1>6, <3>1
    <3> QED
      BY <1>3, <2>2, <3>1, <3>2
  <2>3. \A n \in 0 .. Len(batch) : n \in T
    <3> HIDE DEF T
    <3> QED
      BY <1>1, <2>1, <2>2, BoundedInduction
  <2> QED
    BY <1>2, <1>6, <2>3
<1>7. (CHOOSE h : IsRun(h)) = f
  <2> HIDE DEF IsRun
  <2> QED
    BY <1>5, <1>6
<1>8. (CHOOSE h : IsRun(h))[Len(batch)] = Folded(step, base, batch)
  <2> HIDE DEF IsRun, step, base
  <2> QED
    BY <1>4, <1>7
<1>9. Upserted(records, batch) = (CHOOSE h : IsRun(h))[Len(batch)]
  BY DEF Upserted
<1> QED
  <2> HIDE DEF IsRun
  <2> QED
    BY <1>8, <1>9

\* Of the empty list the filter keeps nothing.
LEMMA ThoseEmpty ==
  ASSUME NEW S
  PROVE  Those(<<>>, S) = <<>>
<1>1. <<>> \in Seq({})
  BY EmptySeq
<1>2. StepThose({}, S) \in [Seq({}) \X {} -> Seq({})]
  BY StepThoseTyped
<1>3. Folded(StepThose({}, S), <<>>, <<>>) = <<>>
  BY <1>1, <1>2, FoldEmpty
<1> QED
  BY <1>1, <1>3, ThoseIsFold

\* The filter looks at one more record.
LEMMA ThoseAppend ==
  ASSUME NEW R, NEW S, NEW s \in Seq(R), NEW r \in R
  PROVE  Those(Append(s, r), S) = AppendIf(Those(s, S), r, r \in S)
<1>1. StepThose(R, S) \in [Seq(R) \X R -> Seq(R)] /\ <<>> \in Seq(R) /\ Append(s, r) \in Seq(R)
  BY StepThoseTyped, AppendProperties
<1>2. /\ Those(s, S) = Folded(StepThose(R, S), <<>>, s)
      /\ Those(Append(s, r), S) = Folded(StepThose(R, S), <<>>, Append(s, r))
  BY <1>1, ThoseIsFold
<1>3. Those(s, S) \in Seq(R)
  BY ThoseTyped
<1>5. ObeysAppend(StepThose(R, S), <<>>, s, r)
  BY <1>1, FoldAppend
<1>6. StepThose(R, S)[<<Those(s, S), r>>] = AppendIf(Those(s, S), r, r \in S)
  BY <1>3 DEF StepThose
<1> QED
  BY <1>2, <1>5, <1>6 DEF ObeysAppend

\* The empty list has no duplicates.
LEMMA DeduplicatedEmpty ==
  ASSUME NEW q
  PROVE  Deduplicated(q, <<>>) = <<>>
<1>1. <<>> \in Seq({})
  BY EmptySeq
<1>2. StepMerge(q, {}) \in [Seq({}) \X {} -> Seq({})]
  BY StepMergeTyped
<1>3. Folded(StepMerge(q, {}), <<>>, <<>>) = <<>>
  BY <1>1, <1>2, FoldEmpty
<1> QED
  BY <1>1, <1>3, DeduplicatedIsFold

\* Deduplication merges one more record.
LEMMA DeduplicatedAppend ==
  ASSUME NEW q, NEW R, NEW s \in Seq(R), NEW r \in R
  PROVE  Deduplicated(q, Append(s, r)) = Merge(q, Deduplicated(q, s), r)
<1>1. StepMerge(q, R) \in [Seq(R) \X R -> Seq(R)] /\ <<>> \in Seq(R) /\ Append(s, r) \in Seq(R)
  BY StepMergeTyped, AppendProperties
<1>2. /\ Deduplicated(q, s) = Folded(StepMerge(q, R), <<>>, s)
      /\ Deduplicated(q, Append(s, r)) = Folded(StepMerge(q, R), <<>>, Append(s, r))
  BY <1>1, DeduplicatedIsFold
<1>3. Deduplicated(q, s) \in Seq(R)
  BY DeduplicatedTyped
<1>5. ObeysAppend(StepMerge(q, R), <<>>, s, r)
  BY <1>1, FoldAppend
<1>6. StepMerge(q, R)[<<Deduplicated(q, s), r>>] = Merge(q, Deduplicated(q, s), r)
  BY <1>3 DEF StepMerge
<1> QED
  BY <1>2, <1>5, <1>6 DEF ObeysAppend

\* A batch is stored record by record.
LEMMA UpsertedAppend ==
  ASSUME NEW R, NEW records \in Seq(R), NEW batch \in Seq(R), NEW r \in R
  PROVE  /\ Upserted(records, batch) \in Seq(R)
         /\ Upserted(records, <<>>) = records
         /\ Upserted(records, Append(batch, r)) = Put(Upserted(records, batch), r)
<1>1. StepUpserted(R) \in [Seq(R) \X R -> Seq(R)] /\ <<>> \in Seq(R) /\ Append(batch, r) \in Seq(R)
  BY StepUpsertedTyped, AppendProperties, EmptySeq
<1>2. /\ Upserted(records, <<>>) = Folded(StepUpserted(R), records, <<>>)
      /\ Upserted(records, batch) = Folded(StepUpserted(R), records, batch)
      /\ Upserted(records, Append(batch, r)) = Folded(StepUpserted(R), records, Append(batch, r))
  BY <1>1, UpsertedIsFold
<1>3. Folded(StepUpserted(R), records, <<>>) = records
  BY <1>1, FoldEmpty
<1>4. ObeysAppend(StepUpserted(R), records, batch, r)
  BY <1>1, FoldAppend
<1>5. Upserted(records, batch) \in Seq(R)
  BY <1>1, <1>2, FoldIn
<1>6. StepUpserted(R)[<<Upserted(records, batch), r>>] = Put(Upserted(records, batch), r)
  BY <1>5 DEF StepUpserted
<1> QED
  BY <1>2, <1>3, <1>4, <1>5, <1>6 DEF ObeysAppend

(***************************************************************************)
(* What the loops leave, in sets of records.                               *)
(***************************************************************************)

\* The records of a list, and whether one of them matches.
LEMMA Elements ==
  ASSUME NEW R, NEW s \in Seq(R)
  PROVE  /\ ToSet(s) = {s[i] : i \in 1 .. Len(s)}
         /\ ToSet(s) \subseteq R
         /\ \A r \in R : HasMatch(r, s) <=> \E y \in ToSet(s) : RecordsMatch(r, y)
<1>1. DOMAIN s = 1 .. Len(s) /\ \A i \in 1 .. Len(s) : s[i] \in R
  BY LenProperties
<1> QED
  BY <1>1 DEF ToSet, HasMatch

\* The records of a list with one more.
LEMMA ElementsAppend ==
  ASSUME NEW R, NEW s \in Seq(R), NEW r \in R
  PROVE  ToSet(Append(s, r)) = ToSet(s) \cup {r}
<1> DEFINE t == Append(s, r)
<1>1. /\ Len(s) \in Nat /\ Len(t) = Len(s) + 1 /\ t \in Seq(R)
      /\ t[Len(s) + 1] = r /\ \A i \in 1 .. Len(s) : t[i] = s[i]
  BY LenProperties, AppendProperties
<1> HIDE DEF t
<1>2. ToSet(s) = {s[i] : i \in 1 .. Len(s)} /\ ToSet(t) = {t[i] : i \in 1 .. Len(s) + 1}
  BY <1>1, Elements
<1>3. 1 .. Len(s) + 1 = (1 .. Len(s)) \cup {Len(s) + 1}
  BY <1>1
<1>4. ToSet(t) = ToSet(s) \cup {r}
  BY <1>1, <1>2, <1>3
<1> QED
  BY <1>4 DEF t

\* The records of a list with perhaps one more.
LEMMA ElementsAppendIf ==
  ASSUME NEW R, NEW s \in Seq(R), NEW r \in R, NEW c
  PROVE  ToSet(AppendIf(s, r, c)) = ToSet(s) \cup (IF c THEN {r} ELSE {})
BY ElementsAppend DEF AppendIf

\* The empty list has none.
LEMMA ElementsEmpty == ToSet(<<>>) = {}
<1>1. <<>> \in Seq({}) /\ Len(<<>>) = 0
  BY EmptySeq
<1>2. ToSet(<<>>) = {<<>>[i] : i \in 1 .. 0}
  BY <1>1, Elements
<1> QED
  BY <1>2

\* The records of two lists.
LEMMA ElementsConcat ==
  ASSUME NEW R, NEW s \in Seq(R), NEW t \in Seq(R)
  PROVE  s \o t \in Seq(R) /\ ToSet(s \o t) = ToSet(s) \cup ToSet(t)
<1>1. s \o t \in Seq(R) /\ Range(s \o t) = Range(s) \cup Range(t)
  BY ConcatProperties, RangeConcatenation
<1>2. \A u : ToSet(u) = Range(u)
  BY DEF ToSet, Range
<1> QED
  BY <1>1, <1>2

\* The filter keeps the records of S and no other.
LEMMA ThoseElements ==
  ASSUME NEW R, NEW S, NEW s \in Seq(R)
  PROVE  Those(s, S) \in Seq(R) /\ ToSet(Those(s, S)) = ToSet(s) \cap S
<1> DEFINE T == {t \in Seq(R) : ToSet(Those(t, S)) = ToSet(t) \cap S}
<1>1. <<>> \in T
  <2>1. Those(<<>>, S) = <<>> /\ <<>> \in Seq(R)
    BY EmptySeq, ThoseEmpty
  <2> QED
    BY <2>1, ElementsEmpty
<1>2. ASSUME NEW t \in Seq(R), NEW r \in R, t \in T PROVE Append(t, r) \in T
  <2>1. Append(t, r) \in Seq(R) /\ Those(t, S) \in Seq(R)
    BY AppendProperties, ThoseTyped
  <2>2. Those(Append(t, r), S) = AppendIf(Those(t, S), r, r \in S)
    BY ThoseAppend
  <2>3. ToSet(AppendIf(Those(t, S), r, r \in S)) = ToSet(Those(t, S)) \cup (IF r \in S THEN {r} ELSE {})
    BY <2>1, ElementsAppend DEF AppendIf
  <2>4. ToSet(Append(t, r)) = ToSet(t) \cup {r}
    BY ElementsAppend
  <2> QED
    BY <1>2, <2>1, <2>2, <2>3, <2>4
<1>3. \A t \in Seq(R) : t \in T
  <2> HIDE DEF T
  <2> QED
    BY <1>1, <1>2, SequenceInduction
<1> QED
  BY <1>3, ThoseTyped

(***************************************************************************)
(* The record of x that deduplication keeps: of the records of s that      *)
(* match x, the newest, as a set of at most one record.                    *)
(***************************************************************************)

Supersedes(q, x, kept, r) == RecordsMatch(r, x) /\ \A y \in kept : Newer(q, r, y)

StepWinner(q, x, R) ==
  [p \in (SUBSET R) \X R |-> IF Supersedes(q, x, p[1], p[2]) THEN {p[2]} ELSE p[1]]

Winner(q, x, R, s) == Folded(StepWinner(q, x, R), {}, s)

\* Records of one item are one class, and times are numbers.
Classes(R) ==
  /\ \A x \in R : x.time \in Nat /\ RecordsMatch(x, x)
  /\ \A x, y \in R : RecordsMatch(x, y) => RecordsMatch(y, x)
  /\ \A x, y, z \in R : RecordsMatch(x, y) /\ RecordsMatch(y, z) => RecordsMatch(x, z)

\* compareForNewest never prefers an earlier record.
LEMMA NewerTimes ==
  ASSUME NEW q, NEW l, NEW r, l.time \in Nat, r.time \in Nat
  PROVE  /\ Newer(q, l, r) => r.time <= l.time
         /\ ~Newer(q, l, r) => l.time <= r.time
BY DEF Newer

\* The step of the search for the winner is a function on sets of records.
LEMMA StepWinnerTyped ==
  ASSUME NEW q, NEW x, NEW R
  PROVE  StepWinner(q, x, R) \in [(SUBSET R) \X R -> SUBSET R] /\ {} \in SUBSET R
BY DEF StepWinner

\* The winner of a list with one more record is the old one or that record.
LEMMA WinnerLaws ==
  ASSUME NEW q, NEW x, NEW R, NEW s \in Seq(R), NEW r \in R
  PROVE  /\ Winner(q, x, R, <<>>) = {}
         /\ Winner(q, x, R, s) \in SUBSET R
         /\ Winner(q, x, R, Append(s, r)) =
              IF Supersedes(q, x, Winner(q, x, R, s), r) THEN {r} ELSE Winner(q, x, R, s)
<1>1. StepWinner(q, x, R) \in [(SUBSET R) \X R -> SUBSET R] /\ {} \in SUBSET R
  BY StepWinnerTyped
<1>2. Winner(q, x, R, <<>>) = {}
  BY <1>1, FoldEmpty DEF Winner
<1>3. Winner(q, x, R, s) \in SUBSET R
  <2>1. Folded(StepWinner(q, x, R), {}, s) \in SUBSET R
    BY <1>1, FoldIn
  <2> QED
    BY <2>1 DEF Winner
<1>4. ObeysAppend(StepWinner(q, x, R), {}, s, r)
  BY <1>1, FoldAppend
<1>5. StepWinner(q, x, R)[<<Winner(q, x, R, s), r>>] =
        IF Supersedes(q, x, Winner(q, x, R, s), r) THEN {r} ELSE Winner(q, x, R, s)
  BY <1>3 DEF StepWinner
<1> QED
  BY <1>2, <1>3, <1>4, <1>5 DEF ObeysAppend, Winner

WinnerOf(q, x, R, s) ==
  /\ \A y \in Winner(q, x, R, s) : y \in ToSet(s) /\ RecordsMatch(y, x)
  /\ \A y \in ToSet(s) : RecordsMatch(y, x) => \E v \in Winner(q, x, R, s) : y.time <= v.time
  /\ \A u, v \in Winner(q, x, R, s) : u = v

\* The winner is a record of the list that matches, as late as every other one.
LEMMA WinnerFacts ==
  ASSUME NEW q, NEW R, Classes(R), NEW x \in R, NEW s \in Seq(R)
  PROVE  WinnerOf(q, x, R, s)
<1> DEFINE T == {t \in Seq(R) : WinnerOf(q, x, R, t)}
<1>1. <<>> \in T
  <2>1. <<>> \in Seq(R)
    BY EmptySeq
  <2>2. Winner(q, x, R, <<>>) = {}
    BY StepWinnerTyped, FoldEmpty DEF Winner
  <2> QED
    BY <2>1, <2>2, ElementsEmpty DEF WinnerOf
<1>2. ASSUME NEW t \in Seq(R), NEW r \in R, t \in T PROVE Append(t, r) \in T
  <2> DEFINE w == Winner(q, x, R, t)
             v == Winner(q, x, R, Append(t, r))
  <2>1. Append(t, r) \in Seq(R) /\ ToSet(Append(t, r)) = ToSet(t) \cup {r} /\ ToSet(t) \subseteq R
    BY AppendProperties, ElementsAppend, Elements
  <2>2. v = IF Supersedes(q, x, w, r) THEN {r} ELSE w
    BY WinnerLaws
  <2>3. w \in SUBSET R
    BY WinnerLaws
  <2>4. WinnerOf(q, x, R, t)
    BY <1>2
  <2>5. /\ \A y \in w : y \in ToSet(t) /\ RecordsMatch(y, x)
        /\ \A y \in ToSet(t) : RecordsMatch(y, x) => \E u \in w : y.time <= u.time
        /\ \A u, y \in w : u = y
    BY <2>4 DEF WinnerOf
  <2> HIDE DEF w, v
  <2>6. CASE Supersedes(q, x, w, r)
    <3>1. v = {r} /\ RecordsMatch(r, x) /\ \A y \in w : Newer(q, r, y)
      BY <2>2, <2>6 DEF Supersedes
    <3>2. ASSUME NEW y \in ToSet(Append(t, r)), RecordsMatch(y, x) PROVE y.time <= r.time
      <4>1. CASE y = r
        BY <4>1 DEF Classes
      <4>2. CASE y \in ToSet(t)
        <5>1. PICK u \in w : y.time <= u.time
          BY <2>5, <3>2, <4>2
        <5>2. u.time <= r.time
          BY <2>3, <3>1, NewerTimes DEF Classes
        <5> QED
          BY <2>1, <2>3, <4>2, <5>1, <5>2 DEF Classes
      <4> QED
        BY <2>1, <3>2, <4>1, <4>2
    <3> QED
      BY <2>1, <3>1, <3>2 DEF WinnerOf, v
  <2>7. CASE ~Supersedes(q, x, w, r)
    <3>1. v = w
      BY <2>2, <2>7
    <3>2. RecordsMatch(r, x) => \E u \in w : r.time <= u.time
      <4>1. RecordsMatch(r, x) => \E u \in w : ~Newer(q, r, u)
        BY <2>7 DEF Supersedes
      <4> QED
        BY <2>3, <4>1, NewerTimes DEF Classes
    <3> QED
      BY <2>1, <2>5, <3>1, <3>2 DEF WinnerOf, v
  <2> QED
    BY <2>6, <2>7
<1>3. \A t \in Seq(R) : t \in T
  <2> HIDE DEF T
  <2> QED
    BY <1>1, <1>2, SequenceInduction
<1> QED
  BY <1>3

\* The winner depends on the item only.
LEMMA WinnerSame ==
  ASSUME NEW q, NEW R, Classes(R), NEW x \in R, NEW y \in R, RecordsMatch(x, y), NEW s
  PROVE  Winner(q, x, R, s) = Winner(q, y, R, s)
<1>1. \A r \in R : RecordsMatch(r, x) <=> RecordsMatch(r, y)
  BY DEF Classes
<1>2. \A k, r : r \in R => (Supersedes(q, x, k, r) <=> Supersedes(q, y, k, r))
  BY <1>1 DEF Supersedes
<1>3. StepWinner(q, x, R) = StepWinner(q, y, R)
  BY <1>2 DEF StepWinner
<1> QED
  BY <1>3 DEF Winner

\* Records of other items do not matter.
LEMMA WinnerOfThose ==
  ASSUME NEW q, NEW x, NEW R, NEW S, NEW s \in Seq(R),
         \A y \in ToSet(s) : RecordsMatch(y, x) => y \in S
  PROVE  Winner(q, x, R, Those(s, S)) = Winner(q, x, R, s)
<1> DEFINE T == {t \in Seq(R) : (\A y \in ToSet(t) : RecordsMatch(y, x) => y \in S) =>
                                Winner(q, x, R, Those(t, S)) = Winner(q, x, R, t)}
<1>1. <<>> \in T
  BY EmptySeq, ThoseEmpty
<1>2. ASSUME NEW t \in Seq(R), NEW r \in R, t \in T PROVE Append(t, r) \in T
  <2>1. Append(t, r) \in Seq(R) /\ ToSet(Append(t, r)) = ToSet(t) \cup {r} /\ Those(t, S) \in Seq(R)
    BY AppendProperties, ElementsAppend, ThoseTyped
  <2> SUFFICES ASSUME \A y \in ToSet(Append(t, r)) : RecordsMatch(y, x) => y \in S
               PROVE  Winner(q, x, R, Those(Append(t, r), S)) = Winner(q, x, R, Append(t, r))
    BY <2>1
  <2>2. Winner(q, x, R, Those(t, S)) = Winner(q, x, R, t)
    BY <1>2, <2>1
  <2>3. Those(Append(t, r), S) = AppendIf(Those(t, S), r, r \in S)
    BY ThoseAppend
  <2>4. Winner(q, x, R, Append(t, r)) =
          IF Supersedes(q, x, Winner(q, x, R, t), r) THEN {r} ELSE Winner(q, x, R, t)
    BY WinnerLaws
  <2>5. CASE r \in S
    <3>1. Those(Append(t, r), S) = Append(Those(t, S), r)
      BY <2>3, <2>5 DEF AppendIf
    <3>2. Winner(q, x, R, Append(Those(t, S), r)) =
            IF Supersedes(q, x, Winner(q, x, R, Those(t, S)), r) THEN {r}
            ELSE Winner(q, x, R, Those(t, S))
      BY <2>1, WinnerLaws
    <3> QED
      BY <2>2, <2>4, <3>1, <3>2
  <2>6. CASE r \notin S
    <3>1. Those(Append(t, r), S) = Those(t, S)
      BY <2>3, <2>6 DEF AppendIf
    <3>2. ~RecordsMatch(r, x)
      BY <2>1, <2>6
    <3> QED
      BY <2>2, <2>4, <3>1, <3>2 DEF Supersedes
  <2> QED
    BY <2>5, <2>6
<1>3. \A t \in Seq(R) : t \in T
  <2> HIDE DEF T
  <2> QED
    BY <1>1, <1>2, SequenceInduction
<1> QED
  BY <1>3

(***************************************************************************)
(* Deduplication keeps the winner of every item, and nothing else.         *)
(***************************************************************************)

Distinct(s) == \A i, j \in 1 .. Len(s) : RecordsMatch(s[i], s[j]) => i = j

Class(x, s) == {y \in ToSet(s) : RecordsMatch(y, x)}

\* A merge keeps the list free of duplicates and the winner in it.
LEMMA MergeKeeps ==
  ASSUME NEW q, NEW R, Classes(R), NEW D \in Seq(R), Distinct(D), NEW r \in R, NEW x \in R
  PROVE  /\ Distinct(Merge(q, D, r))
         /\ Class(x, Merge(q, D, r)) =
              IF Supersedes(q, x, Class(x, D), r) THEN {r} ELSE Class(x, D)
<1> DEFINE i == FirstIndex(r, D)
           N == Len(D)
<1>1. N \in Nat /\ ToSet(D) = {D[j] : j \in 1 .. N} /\ \A j \in 1 .. N : D[j] \in R
  BY LenProperties, Elements
<1>2. \A j, k \in 1 .. N : RecordsMatch(D[j], D[k]) => j = k
  BY DEF Distinct
<1>3. CASE i = 0
  <2>1. \A j \in 1 .. N : ~RecordsMatch(r, D[j]) /\ ~RecordsMatch(D[j], r)
    BY <1>1, <1>3, FirstIndexFacts DEF Classes
  <2> DEFINE M == Append(D, r)
  <2>2. M = Merge(q, D, r)
    BY <1>3 DEF Merge
  <2>3. Len(M) = N + 1 /\ M[N + 1] = r /\ \A j \in 1 .. N : M[j] = D[j]
    BY AppendProperties
  <2>4. ToSet(M) = ToSet(D) \cup {r}
    BY ElementsAppend
  <2> HIDE DEF M, N
  <2>5. \A j, k \in 1 .. N + 1 : RecordsMatch(M[j], M[k]) => j = k
    BY <1>1, <1>2, <2>1, <2>3
  <2>6. CASE RecordsMatch(r, x)
    <3>1. \A y \in ToSet(D) : ~RecordsMatch(y, x)
      <4>1. ASSUME NEW j \in 1 .. N, RecordsMatch(D[j], x) PROVE FALSE
        <5>1. RecordsMatch(x, D[j]) /\ RecordsMatch(r, D[j])
          BY <1>1, <2>6, <4>1 DEF Classes
        <5> QED
          BY <2>1, <5>1
      <4> QED
        BY <1>1, <4>1
    <3> QED
      BY <2>2, <2>3, <2>4, <2>5, <2>6, <3>1 DEF Distinct, Class, Supersedes
  <2>7. CASE ~RecordsMatch(r, x)
    BY <2>2, <2>3, <2>4, <2>5, <2>7 DEF Distinct, Class, Supersedes
  <2> QED
    BY <2>6, <2>7
<1>4. CASE i \in 1 .. N /\ Newer(q, r, D[i])
  <2> DEFINE M == [D EXCEPT ![i] = r]
  <2>1. RecordsMatch(r, D[i]) /\ i # 0
    BY <1>1, <1>4, FirstIndexFacts
  <2>2. M = Merge(q, D, r)
    BY <1>4, <2>1 DEF Merge
  <2>3. M \in Seq(R) /\ Len(M) = N /\ \A j \in 1 .. N : M[j] = IF j = i THEN r ELSE D[j]
    BY <1>4, ExceptSeq
  <2>4. ToSet(M) = {M[j] : j \in 1 .. N}
    BY <2>3, Elements
  <2> HIDE DEF M, N, i
  <2>5. \A j \in 1 .. N : RecordsMatch(r, D[j]) \/ RecordsMatch(D[j], r) => j = i
    <3>1. ASSUME NEW j \in 1 .. N, RecordsMatch(r, D[j]) \/ RecordsMatch(D[j], r) PROVE j = i
      <4>1. RecordsMatch(D[j], D[i])
        BY <1>1, <1>4, <2>1, <3>1 DEF Classes
      <4> QED
        BY <1>2, <1>4, <4>1
    <3> QED
      BY <3>1
  <2>6. \A j, k \in 1 .. N : RecordsMatch(M[j], M[k]) => j = k
    BY <1>2, <2>3, <2>5
  <2>7. Distinct(M)
    BY <2>3, <2>6 DEF Distinct
  <2>8. CASE RecordsMatch(r, x)
    <3>1. \A j \in 1 .. N : RecordsMatch(D[j], x) => j = i
      <4>1. ASSUME NEW j \in 1 .. N, RecordsMatch(D[j], x) PROVE RecordsMatch(D[j], r)
        BY <1>1, <2>8, <4>1 DEF Classes
      <4> QED
        BY <2>5, <4>1
    <3>2. Class(x, D) \subseteq {D[i]}
      BY <1>1, <3>1 DEF Class
    <3>3. Supersedes(q, x, Class(x, D), r)
      BY <1>4, <2>8, <3>2 DEF Supersedes
    <3>4. Class(x, M) = {r}
      BY <1>4, <2>3, <2>4, <2>8, <3>1 DEF Class
    <3> QED
      BY <2>2, <2>7, <3>3, <3>4
  <2>9. CASE ~RecordsMatch(r, x)
    <3>1. ~RecordsMatch(D[i], x)
      BY <1>1, <1>4, <2>1, <2>9 DEF Classes
    <3>2. ~Supersedes(q, x, Class(x, D), r)
      BY <2>9 DEF Supersedes
    <3>3. Class(x, M) = Class(x, D)
      BY <1>1, <1>4, <2>3, <2>4, <2>9, <3>1 DEF Class
    <3> QED
      BY <2>2, <2>7, <3>2, <3>3
  <2> QED
    BY <2>8, <2>9
<1>5. CASE i \in 1 .. N /\ ~Newer(q, r, D[i])
  <2>1. RecordsMatch(r, D[i]) /\ i # 0
    BY <1>1, <1>5, FirstIndexFacts
  <2>2. Merge(q, D, r) = D
    BY <1>5, <2>1 DEF Merge
  <2>3. ~Supersedes(q, x, Class(x, D), r)
    <3> SUFFICES ASSUME RecordsMatch(r, x) PROVE \E y \in Class(x, D) : ~Newer(q, r, y)
      BY DEF Supersedes
    <3>1. RecordsMatch(D[i], x) /\ D[i] \in ToSet(D)
      BY <1>1, <1>5, <2>1 DEF Classes
    <3> QED
      BY <1>5, <3>1 DEF Class
  <2> QED
    BY <2>2, <2>3
<1> QED
  BY <1>1, <1>3, <1>4, <1>5, FirstIndexFacts

DeduplicatedOf(q, R, s) ==
  /\ Distinct(Deduplicated(q, s))
  /\ \A x \in R : Class(x, Deduplicated(q, s)) = Winner(q, x, R, s)

\* deduplicateRecords keeps the winner of every item, and each once.
LEMMA DeduplicatedFacts ==
  ASSUME NEW q, NEW R, Classes(R), NEW s \in Seq(R)
  PROVE  DeduplicatedOf(q, R, s)
<1> DEFINE T == {t \in Seq(R) : DeduplicatedOf(q, R, t)}
<1>1. <<>> \in T
  <2>1. <<>> \in Seq(R) /\ Len(<<>>) = 0
    BY EmptySeq
  <2>2. \A x \in R : Winner(q, x, R, <<>>) = {}
    BY StepWinnerTyped, FoldEmpty DEF Winner
  <2>3. \A x : Class(x, <<>>) = {}
    BY ElementsEmpty DEF Class
  <2>4. Distinct(<<>>)
    BY <2>1 DEF Distinct
  <2> QED
    BY <2>1, <2>2, <2>3, <2>4, DeduplicatedEmpty DEF DeduplicatedOf
<1>2. ASSUME NEW t \in Seq(R), NEW r \in R, t \in T PROVE Append(t, r) \in T
  <2> DEFINE D == Deduplicated(q, t)
  <2>1. Append(t, r) \in Seq(R) /\ D \in Seq(R)
    BY AppendProperties, DeduplicatedTyped
  <2>2. Distinct(D) /\ \A x \in R : Class(x, D) = Winner(q, x, R, t)
    BY <1>2 DEF DeduplicatedOf
  <2>3. Deduplicated(q, Append(t, r)) = Merge(q, D, r)
    BY DeduplicatedAppend
  <2> HIDE DEF D
  <2>4. ASSUME NEW x \in R
        PROVE  /\ Distinct(Merge(q, D, r))
               /\ Class(x, Merge(q, D, r)) = Winner(q, x, R, Append(t, r))
    <3>1. /\ Distinct(Merge(q, D, r))
          /\ Class(x, Merge(q, D, r)) =
               IF Supersedes(q, x, Class(x, D), r) THEN {r} ELSE Class(x, D)
      BY <2>1, <2>2, MergeKeeps
    <3>2. Winner(q, x, R, Append(t, r)) =
            IF Supersedes(q, x, Winner(q, x, R, t), r) THEN {r} ELSE Winner(q, x, R, t)
      BY WinnerLaws
    <3> QED
      BY <2>2, <3>1, <3>2
  <2> QED
    BY <2>1, <2>3, <2>4 DEF DeduplicatedOf
<1>3. \A t \in Seq(R) : t \in T
  <2> HIDE DEF T
  <2> QED
    BY <1>1, <1>2, SequenceInduction
<1> QED
  BY <1>3

\* In sets: the winners of all items.
KeepsWinners(q, R, s) ==
  \A y \in R : y \in ToSet(Deduplicated(q, s)) <=> Winner(q, y, R, s) = {y}

\* What it keeps are the winners.
LEMMA DeduplicatedElements ==
  ASSUME NEW q, NEW R, Classes(R), NEW s \in Seq(R)
  PROVE  KeepsWinners(q, R, s)
<1>1. Deduplicated(q, s) \in Seq(R) /\ DeduplicatedOf(q, R, s)
  BY DeduplicatedTyped, DeduplicatedFacts
<1> SUFFICES ASSUME NEW y \in R
             PROVE  y \in ToSet(Deduplicated(q, s)) <=> Winner(q, y, R, s) = {y}
  BY DEF KeepsWinners
<1>2. WinnerOf(q, y, R, s) /\ RecordsMatch(y, y)
  BY WinnerFacts DEF Classes
<1>3. Class(y, Deduplicated(q, s)) = Winner(q, y, R, s)
  BY <1>1 DEF DeduplicatedOf
<1>4. y \in ToSet(Deduplicated(q, s)) <=> y \in Winner(q, y, R, s)
  BY <1>2, <1>3 DEF Class
<1>5. \A u, v \in Winner(q, y, R, s) : u = v
  BY <1>2 DEF WinnerOf
<1> QED
  BY <1>4, <1>5

(***************************************************************************)
(* What a service holds after it stored a batch.                           *)
(***************************************************************************)

\* A stored record replaces those that match it.
LEMMA PutElements ==
  ASSUME NEW R, NEW u \in Seq(R), NEW r \in R
  PROVE  ToSet(Put(u, r)) = {y \in ToSet(u) : ~RecordsMatch(y, r)} \cup {r}
<1> DEFINE S == {y \in ToSet(u) : ~RecordsMatch(y, r)}
           rest == Those(u, S)
<1>1. rest \in Seq(R) /\ ToSet(rest) = ToSet(u) \cap S
  BY ThoseElements
<1>2. Put(u, r) = Append(rest, r)
  BY DEF Put
<1>3. ToSet(Append(rest, r)) = ToSet(rest) \cup {r}
  <2>1. rest \in Seq(R)
    BY <1>1
  <2> HIDE DEF rest
  <2> QED
    BY <2>1, ElementsAppend
<1>4. ToSet(u) \cap S = {y \in ToSet(u) : ~RecordsMatch(y, r)}
  OBVIOUS
<1> QED
  BY <1>1, <1>2, <1>3, <1>4

\* After a record is stored it wins its own item; the other items are as before.
LEMMA PutWinner ==
  ASSUME NEW q, NEW R, Classes(R), NEW u \in Seq(R), NEW r \in R, NEW x \in R
  PROVE  Winner(q, x, R, Put(u, r)) = IF RecordsMatch(r, x) THEN {r} ELSE Winner(q, x, R, u)
<1> DEFINE S == {y \in ToSet(u) : ~RecordsMatch(y, r)}
           rest == Those(u, S)
<1>1. rest \in Seq(R) /\ ToSet(rest) = ToSet(u) \cap S /\ ToSet(u) \subseteq R
  BY ThoseElements, Elements
<1>2. Put(u, r) = Append(rest, r)
  BY DEF Put
<1>3. Winner(q, x, R, Put(u, r)) =
        IF Supersedes(q, x, Winner(q, x, R, rest), r) THEN {r} ELSE Winner(q, x, R, rest)
  <2>1. rest \in Seq(R)
    BY <1>1
  <2> HIDE DEF rest
  <2> QED
    BY <1>2, <2>1, WinnerLaws
<1>4. CASE RecordsMatch(r, x)
  <2>1. \A y \in ToSet(rest) : ~RecordsMatch(y, x)
    <3>1. ASSUME NEW y \in ToSet(u), RecordsMatch(y, x) PROVE RecordsMatch(y, r)
      BY <1>1, <1>4, <3>1 DEF Classes
    <3> QED
      BY <1>1, <3>1
  <2>2. WinnerOf(q, x, R, rest)
    <3>1. rest \in Seq(R)
      BY <1>1
    <3> QED
      BY <3>1, WinnerFacts
  <2>3. Winner(q, x, R, rest) = {}
    BY <2>1, <2>2 DEF WinnerOf
  <2> QED
    BY <1>3, <1>4, <2>3 DEF Supersedes
<1>5. CASE ~RecordsMatch(r, x)
  <2>1. \A y \in ToSet(u) : RecordsMatch(y, x) => y \in S
    <3>1. ASSUME NEW y \in ToSet(u), RecordsMatch(y, x), RecordsMatch(y, r) PROVE FALSE
      BY <1>1, <1>5, <3>1 DEF Classes
    <3> QED
      BY <3>1
  <2>2. Winner(q, x, R, rest) = Winner(q, x, R, u)
    <3> HIDE DEF S
    <3> QED
      BY <2>1, WinnerOfThose
  <2> QED
    BY <1>3, <1>5, <2>2 DEF Supersedes
<1> QED
  BY <1>4, <1>5

\* A batch of one record per item is what the service holds of these items afterwards, and of
\* the others what it held.
StoredAs(q, R, records, batch) ==
  (\A y, z \in ToSet(batch) : RecordsMatch(y, z) => y = z) =>
    \A x \in R : Winner(q, x, R, Upserted(records, batch)) =
                   IF Class(x, batch) = {} THEN Winner(q, x, R, records) ELSE Class(x, batch)

\* An empty batch stores nothing.
LEMMA UpsertedEmpty ==
  ASSUME NEW R, NEW records \in Seq(R)
  PROVE  Upserted(records, <<>>) = records
<1>1. StepUpserted(R) \in [Seq(R) \X R -> Seq(R)] /\ <<>> \in Seq(R)
  BY StepUpsertedTyped, EmptySeq
<1>2. Folded(StepUpserted(R), records, <<>>) = records
  BY <1>1, FoldEmpty
<1> QED
  BY <1>1, <1>2, UpsertedIsFold

\* After a batch with one record per item, that record wins its item.
LEMMA UpsertedWinner ==
  ASSUME NEW q, NEW R, Classes(R), NEW records \in Seq(R), NEW batch \in Seq(R)
  PROVE  StoredAs(q, R, records, batch)
<1> DEFINE T == {b \in Seq(R) : StoredAs(q, R, records, b)}
<1>1. <<>> \in T
  BY EmptySeq, ElementsEmpty, UpsertedEmpty DEF StoredAs, Class
<1>2. ASSUME NEW b \in Seq(R), NEW r \in R, b \in T PROVE Append(b, r) \in T
  <2> DEFINE u == Upserted(records, b)
  <2>1. Append(b, r) \in Seq(R) /\ ToSet(Append(b, r)) = ToSet(b) \cup {r} /\ ToSet(b) \subseteq R
    BY AppendProperties, ElementsAppend, Elements
  <2>2. u \in Seq(R) /\ Upserted(records, Append(b, r)) = Put(u, r)
    BY UpsertedAppend
  <2> SUFFICES ASSUME \A y, z \in ToSet(Append(b, r)) : RecordsMatch(y, z) => y = z,
                      NEW x \in R
               PROVE  Winner(q, x, R, Upserted(records, Append(b, r))) =
                        IF Class(x, Append(b, r)) = {} THEN Winner(q, x, R, records)
                        ELSE Class(x, Append(b, r))
    BY <2>1 DEF StoredAs
  <2>3. Winner(q, x, R, u) = IF Class(x, b) = {} THEN Winner(q, x, R, records) ELSE Class(x, b)
    BY <1>2, <2>1 DEF StoredAs
  <2>4. Winner(q, x, R, Put(u, r)) = IF RecordsMatch(r, x) THEN {r} ELSE Winner(q, x, R, u)
    <3> HIDE DEF u
    <3> QED
      BY <2>2, PutWinner
  <2>5. CASE RecordsMatch(r, x)
    <3>1. \A y \in ToSet(b) : RecordsMatch(y, x) => y = r
      <4>1. ASSUME NEW y \in ToSet(b), RecordsMatch(y, x) PROVE y = r
        <5>1. RecordsMatch(y, r)
          BY <2>1, <2>5, <4>1 DEF Classes
        <5> QED
          BY <2>1, <5>1
      <4> QED
        BY <4>1
    <3>2. Class(x, Append(b, r)) = {r}
      BY <2>1, <2>5, <3>1 DEF Class
    <3> QED
      BY <2>2, <2>4, <2>5, <3>2
  <2>6. CASE ~RecordsMatch(r, x)
    <3>1. Class(x, Append(b, r)) = Class(x, b)
      BY <2>1, <2>6 DEF Class
    <3> QED
      BY <2>2, <2>3, <2>4, <2>6, <3>1
  <2> QED
    BY <2>5, <2>6
<1>3. \A b \in Seq(R) : b \in T
  <2> HIDE DEF T
  <2> QED
    BY <1>1, <1>2, SequenceInduction
<1> QED
  BY <1>3

\* No item is lost.
KeptBy(R, records, batch) ==
  \A x \in R : HasMatch(x, records) \/ HasMatch(x, batch) => HasMatch(x, Upserted(records, batch))

\* A batch takes no item away.
LEMMA UpsertedKeeps ==
  ASSUME NEW R, Classes(R), NEW records \in Seq(R), NEW batch \in Seq(R)
  PROVE  KeptBy(R, records, batch)
<1> DEFINE T == {b \in Seq(R) : KeptBy(R, records, b)}
<1>1. <<>> \in T
  <2>1. <<>> \in Seq(R) /\ Len(<<>>) = 0
    BY EmptySeq
  <2>2. \A x \in R : ~HasMatch(x, <<>>)
    BY <2>1, Elements, ElementsEmpty
  <2> QED
    BY <2>1, <2>2, UpsertedEmpty DEF KeptBy
<1>2. ASSUME NEW b \in Seq(R), NEW r \in R, b \in T PROVE Append(b, r) \in T
  <2> DEFINE u == Upserted(records, b)
             v == Put(u, r)
             c == Append(b, r)
  <2>1. c \in Seq(R) /\ ToSet(c) = ToSet(b) \cup {r}
    BY AppendProperties, ElementsAppend
  <2>7. u \in Seq(R) /\ Upserted(records, c) = v
    BY UpsertedAppend
  <2>8. Upserted(records, c) \in Seq(R)
    <3> HIDE DEF c
    <3> QED
      BY <2>1, UpsertedAppend
  <2>2. u \in Seq(R) /\ Upserted(records, c) = v /\ Upserted(records, c) \in Seq(R)
    BY <2>7, <2>8
  <2>3. ToSet(v) = {y \in ToSet(u) : ~RecordsMatch(y, r)} \cup {r}
    BY <2>2, PutElements
  <2> SUFFICES ASSUME NEW x \in R, HasMatch(x, records) \/ HasMatch(x, c)
               PROVE  HasMatch(x, Upserted(records, c))
    BY <2>1 DEF KeptBy
  <2> HIDE DEF u, v, c
  <2>4. HasMatch(x, v) <=> \E y \in ToSet(v) : RecordsMatch(x, y)
    BY <2>2, Elements
  <2>5. CASE RecordsMatch(x, r)
    BY <2>2, <2>3, <2>4, <2>5
  <2>6. CASE ~RecordsMatch(x, r)
    <3>1. HasMatch(x, c) => HasMatch(x, b)
      BY <2>1, <2>6, Elements
    <3>2. HasMatch(x, u)
      BY <1>2, <3>1 DEF KeptBy, u
    <3>3. PICK y \in ToSet(u) : RecordsMatch(x, y) /\ y \in R
      BY <2>2, <3>2, Elements
    <3>4. ~RecordsMatch(y, r)
      BY <2>6, <3>3 DEF Classes
    <3> QED
      BY <2>2, <2>3, <2>4, <3>3, <3>4
  <2> QED
    BY <2>5, <2>6
<1>3. \A b \in Seq(R) : b \in T
  <2> HIDE DEF T
  <2> QED
    BY <1>1, <1>2, SequenceInduction
<1> QED
  BY <1>3

(***************************************************************************)
(* The two-way plan, in sets of the deduplicated records of the accounts.  *)
(***************************************************************************)

RemovedOf(s, i) ==
  Distinct(RemoveAt(s, i)) /\ ToSet(RemoveAt(s, i)) = ToSet(s) \ {s[i]}

\* A list without its record number i.
LEMMA RemovedFacts ==
  ASSUME NEW R, Classes(R), NEW s \in Seq(R), Distinct(s), NEW i \in 1 .. Len(s)
  PROVE  RemovedOf(s, i)
<1> DEFINE N == Len(s)
           u == RemoveAt(s, i)
<1>1. N \in Nat /\ ToSet(s) = {s[j] : j \in 1 .. N} /\ \A j \in 1 .. N : s[j] \in R
  BY LenProperties, Elements
<1>2. /\ u \in Seq(R) /\ Len(u) = N - 1
      /\ \A k \in 1 .. N - 1 : u[k] = IF k < i THEN s[k] ELSE s[k + 1]
  BY Removed
<1>3. ToSet(u) = {u[k] : k \in 1 .. N - 1}
  <2>1. u \in Seq(R) /\ Len(u) = N - 1
    BY <1>2
  <2> HIDE DEF u
  <2> QED
    BY <2>1, Elements
<1>4. \A j, k \in 1 .. N : RecordsMatch(s[j], s[k]) => j = k
  BY DEF Distinct
<1>5. i \in 1 .. N
  OBVIOUS
<1> HIDE DEF N, u
<1>6. \A k \in 1 .. N - 1 : \E j \in 1 .. N : j # i /\ u[k] = s[j]
  BY <1>1, <1>2, <1>5
<1>7. \A j \in 1 .. N : j # i => \E k \in 1 .. N - 1 : u[k] = s[j]
  <2>1. ASSUME NEW j \in 1 .. N, j < i PROVE \E k \in 1 .. N - 1 : u[k] = s[j]
    BY <1>1, <1>2, <1>5, <2>1
  <2>2. ASSUME NEW j \in 1 .. N, j > i PROVE \E k \in 1 .. N - 1 : u[k] = s[j]
    <3>1. j - 1 \in 1 .. N - 1 /\ ~(j - 1 < i) /\ (j - 1) + 1 = j
      BY <1>1, <1>5, <2>2
    <3> QED
      BY <1>2, <3>1
  <2>3. \A j \in 1 .. N : j # i => j < i \/ j > i
    BY <1>1, <1>5
  <2> QED
    BY <2>1, <2>2, <2>3
<1>8. \A j \in 1 .. N : s[j] = s[i] => j = i
  BY <1>1, <1>4, <1>5 DEF Classes
<1>9. ToSet(u) = ToSet(s) \ {s[i]}
  <2>1. \A y : y \in ToSet(u) <=> \E k \in 1 .. N - 1 : y = u[k]
    BY <1>3
  <2>2. \A y : y \in ToSet(s) <=> \E j \in 1 .. N : y = s[j]
    BY <1>1
  <2>3. ASSUME NEW y \in ToSet(u) PROVE y \in ToSet(s) \ {s[i]}
    BY <1>6, <1>8, <2>1, <2>2
  <2>4. ASSUME NEW y \in ToSet(s) \ {s[i]} PROVE y \in ToSet(u)
    BY <1>7, <2>1, <2>2
  <2> QED
    BY <2>3, <2>4
<1>10. \A j, k \in 1 .. N - 1 : RecordsMatch(u[j], u[k]) => j = k
  <2> SUFFICES ASSUME NEW j \in 1 .. N - 1, NEW k \in 1 .. N - 1, RecordsMatch(u[j], u[k])
               PROVE  j = k
    OBVIOUS
  <2>1. u[j] = s[IF j < i THEN j ELSE j + 1] /\ u[k] = s[IF k < i THEN k ELSE k + 1]
    BY <1>2
  <2>2. (IF j < i THEN j ELSE j + 1) \in 1 .. N /\ (IF k < i THEN k ELSE k + 1) \in 1 .. N
    BY <1>1, <1>5
  <2>3. (IF j < i THEN j ELSE j + 1) = (IF k < i THEN k ELSE k + 1)
    BY <1>4, <2>1, <2>2
  <2> QED
    BY <1>1, <1>5, <2>3
<1>11. Distinct(u)
  BY <1>2, <1>10 DEF Distinct
<1> QED
  BY <1>9, <1>11 DEF RemovedOf, u

\* What is decided when the records in P of the source have been looked at, B those of the target.
Paired(q, chosen, P, B, a) ==
  /\ Distinct(a.open)
  /\ ToSet(a.open) = {t \in B : \A s \in P : ~RecordsMatch(s, t)}
  /\ ToSet(a.toTarget) =
       {s \in P : \A t \in B : RecordsMatch(s, t) => Decision(q, s, t, chosen) = "source"}
  /\ ToSet(a.toSource) =
       {t \in B : \E s \in P : RecordsMatch(s, t) /\ Decision(q, s, t, chosen) = "target"}
  /\ a.pairs = {p \in P \X B : RecordsMatch(p[1], p[2])}

\* One more source record is paired with the target record that matches it.
LEMMA ReconcilePairs ==
  ASSUME Identified = {}, NEW q, NEW chosen, NEW R, Classes(R), NEW P \in SUBSET R, NEW B \in SUBSET R,
         \A t, u \in B : RecordsMatch(t, u) => t = u,
         NEW r \in R, \A s \in P : ~RecordsMatch(r, s),
         NEW a \in Acc(R), Paired(q, chosen, P, B, a)
  PROVE  Paired(q, chosen, P \cup {r}, B, Reconcile(q, chosen, a, r))
<1> DEFINE i == FirstPartner(r, a.open)
           b == Reconcile(q, chosen, a, r)
<1>0. \A s, t : Identifies(s, t) <=> RecordsMatch(s, t)
  BY DEF Identifies
<1>1. a.open \in Seq(R) /\ a.toTarget \in Seq(R) /\ a.toSource \in Seq(R)
  BY DEF Acc
<1>2. ToSet(a.open) = {a.open[j] : j \in 1 .. Len(a.open)}
  BY <1>1, Elements
<1>3. ToSet(a.open) = {t \in B : \A s \in P : ~RecordsMatch(s, t)}
  BY DEF Paired
<1>4. ASSUME NEW t \in B, RecordsMatch(r, t) PROVE t \in ToSet(a.open)
  <2>1. ASSUME NEW s \in P, RecordsMatch(s, t) PROVE FALSE
    BY <1>4, <2>1 DEF Classes
  <2> QED
    BY <1>3, <2>1
<1>5. CASE i = 0
  <2>1. \A t \in B : ~RecordsMatch(r, t)
    BY <1>0, <1>1, <1>2, <1>4, <1>5, FirstPartnerFacts
  <2>2. b = [a EXCEPT !.toTarget = Append(@, r)]
    BY <1>5 DEF Reconcile
  <2>3. b.open = a.open /\ b.toTarget = Append(a.toTarget, r) /\ b.toSource = a.toSource /\ b.pairs = a.pairs
    BY <2>2 DEF Acc
  <2>4. ToSet(b.toTarget) = ToSet(a.toTarget) \cup {r}
    BY <1>1, <2>3, ElementsAppend
  <2> HIDE DEF b, i
  <2>5. Distinct(b.open) /\ ToSet(b.open) = {t \in B : \A s \in P \cup {r} : ~RecordsMatch(s, t)}
    BY <2>1, <2>3 DEF Paired
  <2>6. ToSet(b.toTarget) =
          {s \in P \cup {r} : \A t \in B : RecordsMatch(s, t) => Decision(q, s, t, chosen) = "source"}
    BY <2>1, <2>4 DEF Paired
  <2>7. ToSet(b.toSource) =
          {t \in B : \E s \in P \cup {r} : RecordsMatch(s, t) /\ Decision(q, s, t, chosen) = "target"}
    BY <2>1, <2>3 DEF Paired
  <2>8. b.pairs = {p \in (P \cup {r}) \X B : RecordsMatch(p[1], p[2])}
    BY <2>1, <2>3 DEF Paired
  <2>9. Paired(q, chosen, P \cup {r}, B, b)
    BY <2>5, <2>6, <2>7, <2>8 DEF Paired
  <2> QED
    BY <2>9 DEF b
<1>6. CASE i \in 1 .. Len(a.open)
  <2> DEFINE t0 == a.open[i]
             d == Decision(q, r, t0, chosen)
  <2>1. i # 0 /\ t0 \in ToSet(a.open) /\ RecordsMatch(r, t0)
    BY <1>0, <1>1, <1>2, <1>6, FirstPartnerFacts
  <2>2. t0 \in B /\ t0 \in R /\ \A s \in P : ~RecordsMatch(s, t0)
    BY <1>3, <2>1
  <2>3. ASSUME NEW t \in B, RecordsMatch(r, t) PROVE t = t0
    <3>1. RecordsMatch(t, t0)
      BY <2>1, <2>2, <2>3 DEF Classes
    <3> QED
      BY <2>2, <3>1
  <2>4. b = [open |-> RemoveAt(a.open, i),
             toTarget |-> AppendIf(a.toTarget, r, d = "source"),
             toSource |-> AppendIf(a.toSource, t0, d = "target"),
             pairs |-> a.pairs \cup {<<r, t0>>}]
    BY <2>1 DEF Reconcile
  <2>5. /\ b.open = RemoveAt(a.open, i)
        /\ b.toTarget = AppendIf(a.toTarget, r, d = "source")
        /\ b.toSource = AppendIf(a.toSource, t0, d = "target")
        /\ b.pairs = a.pairs \cup {<<r, t0>>}
    BY <2>4
  <2>6. Distinct(b.open) /\ ToSet(b.open) = ToSet(a.open) \ {t0}
    <3>1. Distinct(a.open)
      BY DEF Paired
    <3>2. RemovedOf(a.open, i)
      BY <1>1, <1>6, <3>1, RemovedFacts
    <3> QED
      BY <2>5, <3>2 DEF RemovedOf
  <2>7. ToSet(b.toTarget) = ToSet(a.toTarget) \cup (IF d = "source" THEN {r} ELSE {})
    BY <1>1, <2>5, ElementsAppend DEF AppendIf
  <2>8. ToSet(b.toSource) = ToSet(a.toSource) \cup (IF d = "target" THEN {t0} ELSE {})
    <3>1. ToSet(Append(a.toSource, t0)) = ToSet(a.toSource) \cup {t0}
      <4> HIDE DEF t0
      <4> QED
        BY <1>1, <2>2, ElementsAppend
    <3> QED
      BY <2>5, <3>1 DEF AppendIf
  <2>9. ToSet(b.open) = {t \in B : \A s \in P \cup {r} : ~RecordsMatch(s, t)}
    BY <1>3, <2>1, <2>3, <2>6
  <2>10. ToSet(b.toTarget) =
          {s \in P \cup {r} : \A t \in B : RecordsMatch(s, t) => Decision(q, s, t, chosen) = "source"}
    <3>1. (\A t \in B : RecordsMatch(r, t) => Decision(q, r, t, chosen) = "source") <=> d = "source"
      BY <2>1, <2>2, <2>3
    <3>2. ToSet(a.toTarget) =
            {s \in P : \A t \in B : RecordsMatch(s, t) => Decision(q, s, t, chosen) = "source"}
      BY DEF Paired
    <3> QED
      BY <2>7, <3>1, <3>2
  <2>11. ToSet(b.toSource) =
          {t \in B : \E s \in P \cup {r} : RecordsMatch(s, t) /\ Decision(q, s, t, chosen) = "target"}
    <3>1. \A t \in B : RecordsMatch(r, t) /\ Decision(q, r, t, chosen) = "target" <=> t = t0 /\ d = "target"
      BY <2>1, <2>3
    <3>2. ToSet(a.toSource) =
            {t \in B : \E s \in P : RecordsMatch(s, t) /\ Decision(q, s, t, chosen) = "target"}
      BY DEF Paired
    <3> QED
      BY <2>2, <2>8, <3>1, <3>2
  <2>12. b.pairs = {p \in (P \cup {r}) \X B : RecordsMatch(p[1], p[2])}
    <3>1. a.pairs = {p \in P \X B : RecordsMatch(p[1], p[2])}
      BY DEF Paired
    <3>2. ASSUME NEW p \in (P \cup {r}) \X B, RecordsMatch(p[1], p[2]) PROVE p \in b.pairs
      <4>1. CASE p[1] \in P
        BY <2>5, <3>1, <3>2, <4>1
      <4>2. CASE p[1] = r
        <5>1. p[2] = t0
          BY <2>3, <3>2, <4>2
        <5> QED
          BY <2>5, <4>2, <5>1
      <4> QED
        BY <4>1, <4>2
    <3>3. ASSUME NEW p \in b.pairs PROVE p \in (P \cup {r}) \X B /\ RecordsMatch(p[1], p[2])
      BY <2>1, <2>2, <2>5, <3>1
    <3> QED
      BY <3>2, <3>3
  <2>13. Paired(q, chosen, P \cup {r}, B, b)
    BY <2>6, <2>9, <2>10, <2>11, <2>12 DEF Paired
  <2> QED
    BY <2>13
<1> QED
  BY <1>1, <1>5, <1>6, FirstPartnerFacts

\* Without duplicates, records that match are the same.
LEMMA DistinctElements ==
  ASSUME NEW R, NEW s \in Seq(R), Distinct(s)
  PROVE  \A t, u \in ToSet(s) : RecordsMatch(t, u) => t = u
<1>1. ToSet(s) = {s[j] : j \in 1 .. Len(s)}
  BY Elements
<1> QED
  BY <1>1 DEF Distinct

\* The last record of a list without duplicates matches none before it.
LEMMA DistinctAppend ==
  ASSUME NEW R, Classes(R), NEW s \in Seq(R), NEW r \in R, Distinct(Append(s, r))
  PROVE  Distinct(s) /\ \A t \in ToSet(s) : ~RecordsMatch(r, t)
<1> DEFINE c == Append(s, r)
           N == Len(s)
<1>1. N \in Nat /\ Len(c) = N + 1 /\ c[N + 1] = r /\ \A j \in 1 .. N : c[j] = s[j]
  BY LenProperties, AppendProperties
<1>2. ToSet(s) = {s[j] : j \in 1 .. N}
  BY Elements
<1>3. \A j, k \in 1 .. Len(c) : RecordsMatch(c[j], c[k]) => j = k
  BY DEF Distinct
<1> HIDE DEF c, N
<1>4. \A j, k \in 1 .. N : RecordsMatch(s[j], s[k]) => j = k
  BY <1>1, <1>3
<1>5. \A j \in 1 .. N : ~RecordsMatch(r, s[j])
  <2>1. ASSUME NEW j \in 1 .. N, RecordsMatch(r, s[j]) PROVE FALSE
    <3>1. j \in 1 .. Len(c) /\ N + 1 \in 1 .. Len(c) /\ RecordsMatch(c[N + 1], c[j])
      BY <1>1, <2>1
    <3>2. N + 1 = j
      BY <1>3, <3>1
    <3> QED
      BY <1>1, <3>2
  <2> QED
    BY <2>1
<1> QED
  BY <1>2, <1>4, <1>5 DEF Distinct, N

PairedAfter(q, chosen, R, existing, rs) ==
  Distinct(rs) =>
    Paired(q, chosen, ToSet(rs), ToSet(Deduplicated(q, existing)),
           Folded(StepReconcile(q, chosen, R), Opened(q, existing), rs))

\* After any number of source records the loop has paired those that match.
LEMMA ReconciledPairs ==
  ASSUME Identified = {}, NEW q, NEW chosen, NEW R, Classes(R), NEW existing \in Seq(R), NEW rs \in Seq(R)
  PROVE  PairedAfter(q, chosen, R, existing, rs)
<1> DEFINE T == {t \in Seq(R) : PairedAfter(q, chosen, R, existing, t)}
           B == ToSet(Deduplicated(q, existing))
<1>1. /\ StepReconcile(q, chosen, R) \in [Acc(R) \X R -> Acc(R)]
      /\ Opened(q, existing) \in Acc(R)
  BY StepReconcileTyped
<1>2. Deduplicated(q, existing) \in Seq(R) /\ Distinct(Deduplicated(q, existing))
  BY DeduplicatedTyped, DeduplicatedFacts DEF DeduplicatedOf
<1>3. B \in SUBSET R /\ \A t, u \in B : RecordsMatch(t, u) => t = u
  BY <1>2, Elements, DistinctElements
<1>4. <<>> \in T
  <2>1. Folded(StepReconcile(q, chosen, R), Opened(q, existing), <<>>) = Opened(q, existing)
    BY <1>1, FoldEmpty
  <2>2. <<>> \in Seq(R)
    BY EmptySeq
  <2>3. Paired(q, chosen, {}, B, Opened(q, existing))
    BY <1>2, ElementsEmpty DEF Paired, Opened
  <2> QED
    BY <2>1, <2>2, <2>3, ElementsEmpty DEF PairedAfter
<1>5. ASSUME NEW t \in Seq(R), NEW r \in R, t \in T PROVE Append(t, r) \in T
  <2> DEFINE a == Folded(StepReconcile(q, chosen, R), Opened(q, existing), t)
  <2>1. Append(t, r) \in Seq(R) /\ ToSet(Append(t, r)) = ToSet(t) \cup {r} /\ ToSet(t) \in SUBSET R
    BY AppendProperties, ElementsAppend, Elements
  <2>2. a \in Acc(R)
    BY <1>1, FoldIn
  <2>3. ObeysAppend(StepReconcile(q, chosen, R), Opened(q, existing), t, r)
    BY <1>1, FoldAppend
  <2>4. StepReconcile(q, chosen, R)[<<a, r>>] = Reconcile(q, chosen, a, r)
    BY <2>2 DEF StepReconcile
  <2>5. Folded(StepReconcile(q, chosen, R), Opened(q, existing), Append(t, r)) = Reconcile(q, chosen, a, r)
    BY <2>3, <2>4 DEF ObeysAppend
  <2> SUFFICES ASSUME Distinct(Append(t, r))
               PROVE  Paired(q, chosen, ToSet(Append(t, r)), B, Reconcile(q, chosen, a, r))
    BY <2>1, <2>5 DEF PairedAfter
  <2>6. Distinct(t) /\ \A s \in ToSet(t) : ~RecordsMatch(r, s)
    BY DistinctAppend
  <2>7. Paired(q, chosen, ToSet(t), B, a)
    BY <1>5, <2>6 DEF PairedAfter
  <2> HIDE DEF a, B
  <2>8. Paired(q, chosen, ToSet(t) \cup {r}, B, Reconcile(q, chosen, a, r))
    BY <1>3, <2>1, <2>2, <2>6, <2>7, ReconcilePairs
  <2> QED
    BY <2>1, <2>8
<1>6. \A t \in Seq(R) : t \in T
  <2> HIDE DEF T
  <2> QED
    BY <1>4, <1>5, SequenceInduction
<1> QED
  BY <1>6

\* The records that are on one side only or that win over their match, and every pair.
Decided(q, chosen, A, B, plan_) ==
  /\ ToSet(plan_.toTarget) =
       {s \in A : \A t \in B : RecordsMatch(s, t) => Decision(q, s, t, chosen) = "source"}
  /\ ToSet(plan_.toSource) =
       {t \in B : \A s \in A : RecordsMatch(s, t) => Decision(q, s, t, chosen) = "target"}
  /\ plan_.pairs = {p \in A \X B : RecordsMatch(p[1], p[2])}

Planned(R) == [toTarget : Seq(R), toSource : Seq(R), pairs : SUBSET (R \X R)]

\* resolveTwoWayConflicts writes what was decided about the pairs, and what has no partner.
LEMMA TwoWayFacts ==
  ASSUME Identified = {}, NEW q, NEW chosen, NEW R, Classes(R), NEW incoming \in Seq(R), NEW existing \in Seq(R)
  PROVE  /\ TwoWay(q, incoming, existing, chosen) \in Planned(R)
         /\ Decided(q, chosen, ToSet(Deduplicated(q, incoming)), ToSet(Deduplicated(q, existing)),
                    TwoWay(q, incoming, existing, chosen))
<1> DEFINE z == Reconciled(q, chosen, R, incoming, existing)
           A == ToSet(Deduplicated(q, incoming))
           B == ToSet(Deduplicated(q, existing))
           w == TwoWay(q, incoming, existing, chosen)
<1>1. Deduplicated(q, incoming) \in Seq(R) /\ Distinct(Deduplicated(q, incoming))
  BY DeduplicatedTyped, DeduplicatedFacts DEF DeduplicatedOf
<1>2. A \subseteq R /\ \A t, u \in A : RecordsMatch(t, u) => t = u
  BY <1>1, Elements, DistinctElements
<1>3. Paired(q, chosen, A, B, z)
  BY <1>1, ReconciledPairs DEF PairedAfter, Reconciled
<1>4. z \in Acc(R)
  <2>1. /\ StepReconcile(q, chosen, R) \in [Acc(R) \X R -> Acc(R)]
        /\ Opened(q, existing) \in Acc(R)
    BY StepReconcileTyped
  <2>2. Folded(StepReconcile(q, chosen, R), Opened(q, existing), Deduplicated(q, incoming)) \in Acc(R)
    BY <1>1, <2>1, FoldIn
  <2> QED
    BY <2>2 DEF Reconciled
<1>5. w = [toTarget |-> z.toTarget, toSource |-> z.toSource \o z.open, pairs |-> z.pairs]
  BY TwoWayIsFold
<1>6. B \subseteq R
  BY DeduplicatedTyped, Elements
<1> HIDE DEF z, A, B, w
<1>7. z.toTarget \in Seq(R) /\ z.toSource \in Seq(R) /\ z.open \in Seq(R) /\ z.pairs \in SUBSET (R \X R)
  BY <1>4 DEF Acc
<1>8. z.toSource \o z.open \in Seq(R) /\ ToSet(z.toSource \o z.open) = ToSet(z.toSource) \cup ToSet(z.open)
  BY <1>7, ElementsConcat
<1>9. w \in Planned(R)
  BY <1>5, <1>7, <1>8 DEF Planned
<1>10. /\ w.toTarget = z.toTarget /\ w.pairs = z.pairs
       /\ ToSet(w.toSource) = ToSet(z.toSource) \cup ToSet(z.open)
  BY <1>5, <1>8
<1>11. ASSUME NEW t \in B
       PROVE  (\/ \E s \in A : RecordsMatch(s, t) /\ Decision(q, s, t, chosen) = "target"
               \/ \A s \in A : ~RecordsMatch(s, t))
              <=> \A s \in A : RecordsMatch(s, t) => Decision(q, s, t, chosen) = "target"
  <2>1. ASSUME NEW s \in A, NEW u \in A, RecordsMatch(s, t), RecordsMatch(u, t) PROVE s = u
    <3>1. RecordsMatch(s, u)
      BY <1>2, <1>6, <2>1 DEF Classes
    <3> QED
      BY <1>2, <3>1
  <2> QED
    BY <2>1
<1>12. ToSet(w.toSource) =
         {t \in B : \A s \in A : RecordsMatch(s, t) => Decision(q, s, t, chosen) = "target"}
  <2>1. ToSet(z.toSource) = {t \in B : \E s \in A : RecordsMatch(s, t) /\ Decision(q, s, t, chosen) = "target"}
        /\ ToSet(z.open) = {t \in B : \A s \in A : ~RecordsMatch(s, t)}
    BY <1>3 DEF Paired
  <2> QED
    BY <1>10, <1>11, <2>1
<1>13. Decided(q, chosen, A, B, w)
  BY <1>3, <1>10, <1>12 DEF Decided, Paired
<1> QED
  BY <1>9, <1>13 DEF A, B, w

(***************************************************************************)
(* The one-way plan, and what both plans have in common: a record is       *)
(* written over others only if it wins over the newest of them.            *)
(***************************************************************************)

BestOf(r, s) ==
  /\ BestMatch(r, s) \in ToSet(s) /\ Identifies(r, BestMatch(r, s))
  /\ \A y \in ToSet(s) : Identifies(r, y) => y.time <= BestMatch(r, s).time

\* The existing record of resolveConflicts matches and is the newest that does.
LEMMA BestMatchFacts ==
  ASSUME NEW R, NEW K \in Nat, \A x \in R : x.time \in Nat /\ x.time <= K,
         NEW s \in Seq(R), NEW r, HasPartner(r, s)
  PROVE  BestOf(r, s)
<1> DEFINE match == {i \in DOMAIN s : Identifies(r, s[i])}
           newest == {i \in match : \A j \in match : s[j].time <= s[i].time}
           times == {n \in Nat : \E i \in match : n = K - s[i].time}
<1>1. /\ DOMAIN s = 1 .. Len(s) /\ Len(s) \in Nat /\ ToSet(s) = {s[i] : i \in 1 .. Len(s)}
      /\ \A i \in 1 .. Len(s) : s[i] \in R /\ s[i].time \in Nat /\ s[i].time <= K
  BY LenProperties, Elements
<1>2. PICK i0 \in match : TRUE
  BY DEF HasPartner
<1>3. PICK n \in times : \A m \in times : n <= m
  <2>1. K - s[i0].time \in times
    BY <1>1, <1>2
  <2>2. times \in SUBSET Nat /\ times # {}
    BY <2>1
  <2> HIDE DEF times
  <2> QED
    BY <2>2, LeastNumber
<1>4. PICK i1 \in match : n = K - s[i1].time
  BY <1>3
<1>5. i1 \in newest
  <2>1. ASSUME NEW j \in match PROVE s[j].time <= s[i1].time
    <3>1. K - s[j].time \in times
      BY <1>1
    <3>2. K - s[i1].time <= K - s[j].time
      BY <1>3, <1>4, <3>1
    <3>3. s[j].time \in Nat /\ s[i1].time \in Nat
      BY <1>1, <1>4
    <3> QED
      BY <3>2, <3>3
  <2> QED
    BY <1>4, <2>1
<1>6. newest \in SUBSET Nat /\ newest # {}
  BY <1>1, <1>5
<1> DEFINE First(i) == \A j \in newest : i <= j
<1>7. \E i \in newest : First(i)
  <2> HIDE DEF newest
  <2> QED
    BY <1>6, LeastNumber
<1>8. (CHOOSE i \in newest : First(i)) \in newest
  <2> HIDE DEF newest, First
  <2> QED
    BY <1>7
<1>9. BestMatch(r, s) = s[CHOOSE i \in newest : First(i)]
  BY DEF BestMatch
<1>10. PICK i \in newest : BestMatch(r, s) = s[i]
  BY <1>8, <1>9
<1> QED
  BY <1>1, <1>10 DEF BestOf

OneWayOf(q, chosen, incoming, existing, w) ==
  /\ ToSet(w.toTarget) =
       {r \in ToSet(incoming) :
          HasPartner(r, existing) => Decision(q, r, BestMatch(r, existing), chosen) = "source"}
  /\ w.toSource = <<>>
  /\ w.pairs = {<<r, BestMatch(r, existing)>> :
                  r \in {s \in ToSet(incoming) : HasPartner(s, existing)}}

\* resolveConflicts writes what is missing and what was decided against the newest match.
LEMMA OneWayFacts ==
  ASSUME NEW q, NEW chosen, NEW R, NEW incoming \in Seq(R), NEW existing \in Seq(R),
         NEW K \in Nat, \A x \in R : x.time \in Nat /\ x.time <= K
  PROVE  /\ OneWay(q, incoming, existing, chosen) \in Planned(R)
         /\ OneWayOf(q, chosen, incoming, existing, OneWay(q, incoming, existing, chosen))
<1> DEFINE w == OneWay(q, incoming, existing, chosen)
           S == {r \in ToSet(incoming) :
                   HasPartner(r, existing) => Decision(q, r, BestMatch(r, existing), chosen) = "source"}
           pairs == {<<r, BestMatch(r, existing)>> :
                       r \in {s \in ToSet(incoming) : HasPartner(s, existing)}}
<1>1. w = [toTarget |-> Those(incoming, S), toSource |-> <<>>, pairs |-> pairs]
  BY DEF OneWay
<1>2. Those(incoming, S) \in Seq(R) /\ ToSet(Those(incoming, S)) = ToSet(incoming) \cap S
  BY ThoseElements
<1>3. <<>> \in Seq(R)
  BY EmptySeq
<1>4. \A r : HasPartner(r, existing) => BestMatch(r, existing) \in R
  BY BestMatchFacts, Elements DEF BestOf
<1>5. pairs \in SUBSET (R \X R)
  BY <1>4, Elements
<1>6. ToSet(incoming) \cap S = S
  OBVIOUS
<1> HIDE DEF S, pairs
<1>7. /\ w.toTarget = Those(incoming, S) /\ w.toSource = <<>> /\ w.pairs = pairs
      /\ w \in Planned(R)
  BY <1>1, <1>2, <1>3, <1>5 DEF Planned
<1> QED
  BY <1>2, <1>6, <1>7 DEF S, pairs, OneWayOf

\* The decisions of a run, before the subjects of Bangumi accounts are completed.
Resolved(q, accounts, chosen) ==
  IF q.mode = "two-way"
  THEN TwoWay(q, accounts["source"], accounts["target"], chosen)
  ELSE OneWay(q, accounts["source"], accounts["target"], chosen)

\* Each record written over others is decided against one at least as new as each of them.
WonOver(q, chosen, accounts, w) ==
  /\ \A r \in ToSet(w.toTarget), y \in ToSet(accounts["target"]) : Identifies(r, y) =>
       \E t \in ToSet(accounts["target"]) :
         y.time <= t.time /\ <<r, t>> \in w.pairs /\ Decision(q, r, t, chosen) = "source"
  /\ \A r \in ToSet(w.toSource), y \in ToSet(accounts["source"]) : Identifies(y, r) =>
       \E s \in ToSet(accounts["source"]) :
         y.time <= s.time /\ <<s, r>> \in w.pairs /\ Decision(q, s, r, chosen) = "target"

\* Both plans write what was exported, and over other records only what won.
LEMMA ResolvedFacts ==
  ASSUME NEW q, Identified = {} \/ q.mode # "two-way", NEW chosen, NEW R, Classes(R), NEW accounts \in [Side -> Seq(R)],
         NEW K \in Nat, \A x \in R : x.time <= K
  PROVE  LET w == Resolved(q, accounts, chosen) IN
         /\ w \in Planned(R)
         /\ ToSet(w.toTarget) \subseteq ToSet(accounts["source"])
         /\ ToSet(w.toSource) \subseteq ToSet(accounts["target"])
         /\ WonOver(q, chosen, accounts, w)
<1> DEFINE w == Resolved(q, accounts, chosen)
           src == accounts["source"]
           tgt == accounts["target"]
<1>1. src \in Seq(R) /\ tgt \in Seq(R)
  BY DEF Side
<1>2. \A x \in R : x.time \in Nat /\ x.time <= K
  BY DEF Classes
<1>3. ToSet(src) \subseteq R /\ ToSet(tgt) \subseteq R
  BY <1>1, Elements
<1>4. CASE q.mode = "two-way"
  <2> DEFINE A == ToSet(Deduplicated(q, src))
             B == ToSet(Deduplicated(q, tgt))
  <2>1. w = TwoWay(q, src, tgt, chosen)
    BY <1>4 DEF Resolved
  <2> HIDE DEF w, src, tgt
  <2>2. w \in Planned(R) /\ Decided(q, chosen, A, B, w)
    BY <1>1, <1>4, <2>1, TwoWayFacts
  <2>3. \A y \in R : (y \in A <=> Winner(q, y, R, src) = {y}) /\ (y \in B <=> Winner(q, y, R, tgt) = {y})
    <3>1. ASSUME NEW y \in R
          PROVE  /\ y \in ToSet(Deduplicated(q, src)) <=> Winner(q, y, R, src) = {y}
                 /\ y \in ToSet(Deduplicated(q, tgt)) <=> Winner(q, y, R, tgt) = {y}
      <4>1. KeepsWinners(q, R, src) /\ KeepsWinners(q, R, tgt)
        BY <1>1, DeduplicatedElements
      <4> QED
        BY <4>1 DEF KeepsWinners
    <3> QED
      BY <3>1
  <2>4. A \subseteq R /\ B \subseteq R
    BY <1>1, DeduplicatedTyped, Elements
  <2>5. ASSUME NEW y \in R PROVE WinnerOf(q, y, R, src) /\ WinnerOf(q, y, R, tgt)
    BY <1>1, WinnerFacts
  <2>6. A \subseteq ToSet(src) /\ B \subseteq ToSet(tgt)
    BY <2>3, <2>4, <2>5 DEF WinnerOf
  <2>7. ASSUME NEW r \in R, NEW y \in ToSet(tgt), RecordsMatch(r, y)
        PROVE  \E t \in B : RecordsMatch(r, t) /\ y.time <= t.time
    <3>1. RecordsMatch(y, r)
      BY <1>3, <2>7 DEF Classes
    <3>2. PICK t \in Winner(q, r, R, tgt) : y.time <= t.time
      BY <2>5, <3>1 DEF WinnerOf
    <3>3. t \in ToSet(tgt) /\ RecordsMatch(t, r) /\ t \in R
      BY <1>3, <2>5, <3>2 DEF WinnerOf
    <3>4. Winner(q, t, R, tgt) = Winner(q, r, R, tgt)
      BY <3>3, WinnerSame
    <3>5. Winner(q, t, R, tgt) = {t}
      BY <2>5, <3>2, <3>4 DEF WinnerOf
    <3>6. t \in B /\ RecordsMatch(r, t)
      BY <2>3, <3>3, <3>5 DEF Classes
    <3> QED
      BY <3>2, <3>6
  <2>8. ASSUME NEW r \in R, NEW y \in ToSet(src), RecordsMatch(r, y)
        PROVE  \E s \in A : RecordsMatch(s, r) /\ y.time <= s.time
    <3>1. RecordsMatch(y, r)
      BY <1>3, <2>8 DEF Classes
    <3>2. PICK s \in Winner(q, r, R, src) : y.time <= s.time
      BY <2>5, <3>1 DEF WinnerOf
    <3>3. s \in ToSet(src) /\ RecordsMatch(s, r) /\ s \in R
      BY <1>3, <2>5, <3>2 DEF WinnerOf
    <3>4. Winner(q, s, R, src) = Winner(q, r, R, src)
      BY <3>3, WinnerSame
    <3>5. Winner(q, s, R, src) = {s}
      BY <2>5, <3>2, <3>4 DEF WinnerOf
    <3>6. s \in A
      BY <2>3, <3>3, <3>5
    <3> QED
      BY <3>2, <3>3, <3>6
  <2> HIDE DEF A, B
  <2>9. /\ ToSet(w.toTarget) =
             {s \in A : \A t \in B : RecordsMatch(s, t) => Decision(q, s, t, chosen) = "source"}
        /\ ToSet(w.toSource) =
             {t \in B : \A s \in A : RecordsMatch(s, t) => Decision(q, s, t, chosen) = "target"}
        /\ w.pairs = {p \in A \X B : RecordsMatch(p[1], p[2])}
    BY <2>2 DEF Decided
  <2>13. \A s, t : Identifies(s, t) <=> RecordsMatch(s, t)
    BY <1>4 DEF Identifies
  <2>10. ASSUME NEW r \in ToSet(w.toTarget), NEW y \in ToSet(tgt), Identifies(r, y)
         PROVE  \E t \in ToSet(tgt) :
                  y.time <= t.time /\ <<r, t>> \in w.pairs /\ Decision(q, r, t, chosen) = "source"
    <3>1. r \in A /\ r \in R
      BY <2>4, <2>9
    <3>2. PICK t \in B : RecordsMatch(r, t) /\ y.time <= t.time
      BY <2>7, <2>10, <2>13, <3>1
    <3>3. Decision(q, r, t, chosen) = "source" /\ <<r, t>> \in w.pairs
      BY <2>9, <3>1, <3>2
    <3> QED
      BY <2>6, <3>2, <3>3
  <2>11. ASSUME NEW r \in ToSet(w.toSource), NEW y \in ToSet(src), Identifies(y, r)
         PROVE  \E s \in ToSet(src) :
                  y.time <= s.time /\ <<s, r>> \in w.pairs /\ Decision(q, s, r, chosen) = "target"
    <3>1. r \in B /\ r \in R
      BY <2>4, <2>9
    <3>4. RecordsMatch(r, y)
      BY <1>3, <2>11, <2>13, <3>1 DEF Classes
    <3>2. PICK s \in A : RecordsMatch(s, r) /\ y.time <= s.time
      BY <2>8, <3>1, <3>4
    <3>3. Decision(q, s, r, chosen) = "target" /\ <<s, r>> \in w.pairs
      BY <2>9, <3>1, <3>2
    <3> QED
      BY <2>6, <3>2, <3>3
  <2>12. WonOver(q, chosen, accounts, w)
    BY <2>10, <2>11 DEF WonOver, src, tgt
  <2> QED
    BY <2>2, <2>6, <2>9, <2>12 DEF w, src, tgt
<1>5. CASE q.mode # "two-way"
  <2>1. w = OneWay(q, src, tgt, chosen)
    BY <1>5 DEF Resolved
  <2> HIDE DEF w, src, tgt
  <2>2. /\ w \in Planned(R)
        /\ ToSet(w.toTarget) =
             {r \in ToSet(src) :
                HasPartner(r, tgt) => Decision(q, r, BestMatch(r, tgt), chosen) = "source"}
        /\ w.toSource = <<>>
        /\ w.pairs = {<<r, BestMatch(r, tgt)>> : r \in {s \in ToSet(src) : HasPartner(s, tgt)}}
    <3>1. w \in Planned(R) /\ OneWayOf(q, chosen, src, tgt, w)
      BY <1>1, <1>2, <2>1, OneWayFacts
    <3> QED
      BY <3>1 DEF OneWayOf
  <2>3. ASSUME NEW r \in ToSet(w.toTarget), NEW y \in ToSet(tgt), Identifies(r, y)
        PROVE  \E t \in ToSet(tgt) :
                 y.time <= t.time /\ <<r, t>> \in w.pairs /\ Decision(q, r, t, chosen) = "source"
    <3>1. r \in ToSet(src) /\ r \in R /\ HasPartner(r, tgt)
      BY <1>1, <1>3, <2>2, <2>3, Elements DEF HasPartner
    <3>2. BestOf(r, tgt)
      BY <1>1, <1>2, <3>1, BestMatchFacts
    <3>3. BestMatch(r, tgt) \in ToSet(tgt) /\ y.time <= BestMatch(r, tgt).time
      BY <2>3, <3>2 DEF BestOf
    <3>4. Decision(q, r, BestMatch(r, tgt), chosen) = "source" /\ <<r, BestMatch(r, tgt)>> \in w.pairs
      BY <2>2, <3>1
    <3> QED
      BY <3>3, <3>4
  <2>4. WonOver(q, chosen, accounts, w)
    BY <2>2, <2>3, ElementsEmpty DEF WonOver, src, tgt
  <2>5. ToSet(w.toTarget) \subseteq ToSet(src) /\ ToSet(w.toSource) \subseteq ToSet(tgt)
    BY <2>2, ElementsEmpty
  <2> QED
    BY <2>2, <2>4, <2>5 DEF w, src, tgt
<1> QED
  BY <1>4, <1>5

(***************************************************************************)
(* The plan of a run.                                                      *)
(***************************************************************************)

ClosureOf(records, s, c) ==
  ToSet(records) \subseteq ToSet(c) /\ ToSet(c) \subseteq ToSet(records) \cup ToSet(s)

\* The subjects of a batch are completed from what was exported.
LEMMA CompletedFacts ==
  ASSUME NEW R, NEW records \in Seq(R), NEW s \in Seq(R)
  PROVE  /\ Folded(StepClosure(R, records), records, s) \in Seq(R)
         /\ ClosureOf(records, s, Folded(StepClosure(R, records), records, s))
<1> DEFINE step == StepClosure(R, records)
           T == {t \in Seq(R) : ClosureOf(records, t, Folded(step, records, t))}
<1>1. step \in [Seq(R) \X R -> Seq(R)]
  BY StepClosureTyped
<1>2. <<>> \in T
  <2>1. Folded(step, records, <<>>) = records
    <3> HIDE DEF step
    <3> QED
      BY <1>1, FoldEmpty
  <2> QED
    BY <2>1, EmptySeq DEF ClosureOf
<1>3. ASSUME NEW t \in Seq(R), NEW r \in R, t \in T PROVE Append(t, r) \in T
  <2> DEFINE a == Folded(step, records, t)
             c == InSubject(r, records) /\ ~HasMatch(r, a)
  <2>1. a \in Seq(R)
    <3> HIDE DEF step
    <3> QED
      BY <1>1, FoldIn
  <2>2. ObeysAppend(step, records, t, r)
    <3> HIDE DEF step
    <3> QED
      BY <1>1, FoldAppend
  <2>3. step[<<a, r>>] = AppendIf(a, r, c)
    BY <2>1 DEF StepClosure
  <2>4. Folded(step, records, Append(t, r)) = AppendIf(a, r, c)
    BY <2>2, <2>3 DEF ObeysAppend
  <2>5. Append(t, r) \in Seq(R) /\ ToSet(Append(t, r)) = ToSet(t) \cup {r}
    BY AppendProperties, ElementsAppend
  <2>6. ClosureOf(records, t, a)
    BY <1>3
  <2> HIDE DEF a, c, step
  <2>7. ToSet(AppendIf(a, r, c)) \in {ToSet(a), ToSet(a) \cup {r}}
    BY <2>1, ElementsAppend DEF AppendIf
  <2>8. ClosureOf(records, Append(t, r), AppendIf(a, r, c))
    BY <2>5, <2>6, <2>7 DEF ClosureOf
  <2> QED
    BY <2>4, <2>5, <2>8
<1>4. \A t \in Seq(R) : t \in T
  <2> HIDE DEF T
  <2> QED
    BY <1>2, <1>3, SequenceInduction
<1>5. Folded(step, records, s) \in Seq(R)
  <2> HIDE DEF step
  <2> QED
    BY <1>1, FoldIn
<1> QED
  BY <1>4, <1>5

\* Only a Bangumi account is sent more than was decided.
LEMMA ClosureFacts ==
  ASSUME NEW q, NEW side, NEW R, NEW records \in Seq(R), NEW s \in Seq(R)
  PROVE  /\ Closure(q, side, records, s) \in Seq(R)
         /\ ClosureOf(records, s, Closure(q, side, records, s))
         /\ Bangumi = {} => Closure(q, side, records, s) = records
<1>1. Closure(q, side, records, s) \in {records, Folded(StepClosure(R, records), records, s)}
  BY ClosureIsFold
<1>2. ClosureOf(records, s, records)
  BY DEF ClosureOf
<1>3. Bangumi = {} => Closure(q, side, records, s) = records
  BY DEF Closure
<1> QED
  BY <1>1, <1>2, <1>3, CompletedFacts

PlanOf(q, R, accounts, chosen, w, p) ==
  /\ p.toTarget \in Seq(R) /\ p.toSource \in Seq(R) /\ p.pairs \in SUBSET (R \X R)
  /\ ToSet(p.toTarget) \subseteq ToSet(accounts["source"])
  /\ ToSet(p.toSource) \subseteq ToSet(accounts["target"])
  /\ p.pairs = w.pairs
  /\ p.refused = ChoiceIsStale(chosen, {ConflictId(q, c[1], c[2]) : c \in Unresolved(q, w.pairs)})
  /\ q.mode = "two-way" => ToSet(w.toSource) \subseteq ToSet(p.toSource)
  /\ Bangumi = {} => p.toTarget = w.toTarget /\ p.toSource = w.toSource

\* The plan of a run: what was decided, subjects completed, refused if a choice is stale.
LEMMA PlanFacts ==
  ASSUME NEW q, Identified = {} \/ q.mode # "two-way", NEW chosen, NEW R, Classes(R), NEW accounts \in [Side -> Seq(R)],
         NEW K \in Nat, \A x \in R : x.time <= K
  PROVE  PlanOf(q, R, accounts, chosen, Resolved(q, accounts, chosen), Plan(q, accounts, chosen))
<1> DEFINE w == Resolved(q, accounts, chosen)
           p == Plan(q, accounts, chosen)
           src == accounts["source"]
           tgt == accounts["target"]
           used == {ConflictId(q, c[1], c[2]) : c \in Unresolved(q, w.pairs)}
           c1 == Closure(q, "target", w.toTarget, src)
           c2 == Closure(q, "source", w.toSource, tgt)
<1>1. p = [refused |-> ChoiceIsStale(chosen, used), toTarget |-> c1,
           toSource |-> IF q.mode = "two-way" THEN c2 ELSE <<>>, pairs |-> w.pairs]
  BY DEF Plan, Resolved
<1>2. src \in Seq(R) /\ tgt \in Seq(R)
  BY DEF Side
<1>3. /\ w \in Planned(R)
      /\ ToSet(w.toTarget) \subseteq ToSet(src)
      /\ ToSet(w.toSource) \subseteq ToSet(tgt)
  BY ResolvedFacts
<1>4. q.mode # "two-way" => w.toSource = <<>>
  BY DEF Resolved, OneWay
<1> HIDE DEF w, p, src, tgt, used
<1>5. w.toTarget \in Seq(R) /\ w.toSource \in Seq(R) /\ w.pairs \in SUBSET (R \X R)
  BY <1>3 DEF Planned
<1>6. c1 \in Seq(R) /\ ClosureOf(w.toTarget, src, c1) /\ (Bangumi = {} => c1 = w.toTarget)
  BY <1>2, <1>5, ClosureFacts
<1>7. c2 \in Seq(R) /\ ClosureOf(w.toSource, tgt, c2) /\ (Bangumi = {} => c2 = w.toSource)
  BY <1>2, <1>5, ClosureFacts
<1> HIDE DEF c1, c2
<1>8. /\ p.refused = ChoiceIsStale(chosen, used) /\ p.toTarget = c1 /\ p.pairs = w.pairs
      /\ p.toSource = IF q.mode = "two-way" THEN c2 ELSE <<>>
  BY <1>1
<1>9. p.toSource \in Seq(R) /\ ToSet(p.toSource) \subseteq ToSet(tgt)
      /\ (q.mode = "two-way" => ToSet(w.toSource) \subseteq ToSet(p.toSource))
      /\ (Bangumi = {} => p.toSource = w.toSource)
  <2>1. CASE q.mode = "two-way"
    BY <1>3, <1>7, <1>8, <2>1 DEF ClosureOf
  <2>2. CASE q.mode # "two-way"
    BY <1>4, <1>5, <1>8, <2>2, ElementsEmpty
  <2> QED
    BY <2>1, <2>2
<1>10. p.toTarget \in Seq(R) /\ ToSet(p.toTarget) \subseteq ToSet(src)
       /\ (Bangumi = {} => p.toTarget = w.toTarget)
  BY <1>3, <1>6, <1>8 DEF ClosureOf
<1>11. PlanOf(q, R, accounts, chosen, w, p)
  BY <1>5, <1>8, <1>9, <1>10 DEF PlanOf, used, src, tgt
<1> QED
  BY <1>11 DEF w, p

(***************************************************************************)
(* The run after a two-way run.                                            *)
(***************************************************************************)

\* Two accounts agree on the item of x, or differ in a way that stays undecided.
Settled(q, R, x, src, tgt) ==
  \/ Winner(q, x, R, src) = {} /\ Winner(q, x, R, tgt) = {}
  \/ \E s, t \in R : /\ Winner(q, x, R, src) = {s} /\ Winner(q, x, R, tgt) = {t}
                     /\ Automatic(q, s, t) \notin {"source", "target"}

\* Nothing is decided about a record and itself.
LEMMA AutomaticSame ==
  ASSUME NEW q, q.mode = "two-way", NEW s
  PROVE  Automatic(q, s, s) = "unchanged"
BY DEF Automatic, Equivalent

\* An item has no winner or one, which deduplication kept.
LEMMA WinnerSingle ==
  ASSUME NEW q, NEW R, Classes(R), NEW s \in Seq(R), NEW x \in R
  PROVE  \/ Winner(q, x, R, s) = {}
         \/ \E y \in R : /\ Winner(q, x, R, s) = {y} /\ RecordsMatch(y, x)
                         /\ y \in ToSet(Deduplicated(q, s))
<1>1. WinnerOf(q, x, R, s) /\ ToSet(s) \subseteq R /\ KeepsWinners(q, R, s)
  BY WinnerFacts, Elements, DeduplicatedElements
<1> SUFFICES ASSUME NEW y \in Winner(q, x, R, s)
             PROVE  /\ y \in R /\ Winner(q, x, R, s) = {y} /\ RecordsMatch(y, x)
                    /\ y \in ToSet(Deduplicated(q, s))
  OBVIOUS
<1>2. y \in R /\ Winner(q, x, R, s) = {y} /\ RecordsMatch(y, x)
  BY <1>1 DEF WinnerOf
<1>3. Winner(q, y, R, s) = Winner(q, x, R, s)
  BY <1>2, WinnerSame
<1> QED
  BY <1>1, <1>2, <1>3 DEF KeepsWinners

\* A kept record is the winner of every item it matches.
LEMMA WinnerUnique ==
  ASSUME NEW q, NEW R, Classes(R), NEW s \in Seq(R), NEW x \in R,
         NEW y \in ToSet(Deduplicated(q, s)), RecordsMatch(y, x)
  PROVE  y \in R /\ Winner(q, x, R, s) = {y}
<1>1. ToSet(Deduplicated(q, s)) \subseteq R /\ KeepsWinners(q, R, s)
  BY DeduplicatedTyped, Elements, DeduplicatedElements
<1>2. Winner(q, y, R, s) = {y} /\ y \in R
  BY <1>1 DEF KeepsWinners
<1>3. Winner(q, y, R, s) = Winner(q, x, R, s)
  BY <1>2, WinnerSame
<1> QED
  BY <1>2, <1>3

\* After a two-way run both accounts have the same winner of an item, or a pair undecided.
LEMMA RunSettles ==
  ASSUME NEW q, q.mode = "two-way", NEW chosen, NEW R, Classes(R), NEW src \in Seq(R), NEW tgt \in Seq(R),
         NEW w, Decided(q, chosen, ToSet(Deduplicated(q, src)), ToSet(Deduplicated(q, tgt)), w),
         w.toSource \in Seq(R), w.toTarget \in Seq(R), NEW x \in R
  PROVE  Settled(q, R, x, Upserted(src, w.toSource), Upserted(tgt, w.toTarget))
<1> DEFINE A == ToSet(Deduplicated(q, src))
           B == ToSet(Deduplicated(q, tgt))
           a == Winner(q, x, R, src)
           b == Winner(q, x, R, tgt)
           a2 == Winner(q, x, R, Upserted(src, w.toSource))
           b2 == Winner(q, x, R, Upserted(tgt, w.toTarget))
<1>1. /\ ToSet(w.toTarget) =
           {s \in A : \A t \in B : RecordsMatch(s, t) => Decision(q, s, t, chosen) = "source"}
      /\ ToSet(w.toSource) =
           {t \in B : \A s \in A : RecordsMatch(s, t) => Decision(q, s, t, chosen) = "target"}
  BY DEF Decided
<1>2. /\ A \subseteq R /\ \A s, u \in A : RecordsMatch(s, u) => s = u
      /\ B \subseteq R /\ \A s, u \in B : RecordsMatch(s, u) => s = u
  <2>1. /\ Deduplicated(q, src) \in Seq(R) /\ Distinct(Deduplicated(q, src))
        /\ Deduplicated(q, tgt) \in Seq(R) /\ Distinct(Deduplicated(q, tgt))
    BY DeduplicatedTyped, DeduplicatedFacts DEF DeduplicatedOf
  <2>2. A \subseteq R /\ B \subseteq R
    BY <2>1, Elements
  <2> QED
    BY <2>1, <2>2, DistinctElements
<1>3. \A s \in A : RecordsMatch(s, x) => a = {s}
  BY WinnerUnique
<1>4. \A t \in B : RecordsMatch(t, x) => b = {t}
  BY WinnerUnique
<1>5. a = {} \/ \E s \in A : a = {s} /\ RecordsMatch(s, x)
  BY WinnerSingle
<1>6. b = {} \/ \E t \in B : b = {t} /\ RecordsMatch(t, x)
  BY WinnerSingle
<1>7. a2 = IF Class(x, w.toSource) = {} THEN a ELSE Class(x, w.toSource)
  <2>1. \A y, z \in ToSet(w.toSource) : RecordsMatch(y, z) => y = z
    BY <1>1, <1>2
  <2>2. StoredAs(q, R, src, w.toSource)
    BY UpsertedWinner
  <2> QED
    BY <2>1, <2>2 DEF StoredAs
<1>8. b2 = IF Class(x, w.toTarget) = {} THEN b ELSE Class(x, w.toTarget)
  <2>1. \A y, z \in ToSet(w.toTarget) : RecordsMatch(y, z) => y = z
    BY <1>1, <1>2
  <2>2. StoredAs(q, R, tgt, w.toTarget)
    BY UpsertedWinner
  <2> QED
    BY <2>1, <2>2 DEF StoredAs
<1>9. Class(x, w.toSource) = {y \in ToSet(w.toSource) : RecordsMatch(y, x)}
      /\ Class(x, w.toTarget) = {y \in ToSet(w.toTarget) : RecordsMatch(y, x)}
  BY DEF Class
<1>10. \A s \in R : Automatic(q, s, s) \notin {"source", "target"}
  BY AutomaticSame
<1> HIDE DEF A, B, a, b, a2, b2
<1>11. CASE a = {} /\ b = {}
  <2>1. Class(x, w.toSource) = {} /\ Class(x, w.toTarget) = {}
    BY <1>1, <1>3, <1>4, <1>9, <1>11
  <2> QED
    BY <1>7, <1>8, <1>11, <2>1 DEF Settled, a2, b2
<1>12. CASE b = {} /\ a # {}
  <2>1. PICK s \in A : a = {s} /\ RecordsMatch(s, x)
    BY <1>5, <1>12
  <2>2. Class(x, w.toSource) = {}
    BY <1>1, <1>4, <1>9, <1>12
  <2>3. \A t \in B : ~RecordsMatch(s, t)
    <3>1. ASSUME NEW t \in B, RecordsMatch(s, t) PROVE RecordsMatch(t, x)
      BY <1>2, <2>1, <3>1 DEF Classes
    <3> QED
      BY <1>4, <1>12, <3>1
  <2>4. Class(x, w.toTarget) = {s}
    <3>1. s \in ToSet(w.toTarget)
      BY <1>1, <2>3
    <3>2. \A u \in ToSet(w.toTarget) : RecordsMatch(u, x) => u = s
      <4>1. ASSUME NEW u \in A, RecordsMatch(u, x) PROVE u = s
        <5>1. {u} = {s}
          BY <1>3, <2>1, <4>1
        <5> QED
          BY <5>1
      <4>2. ToSet(w.toTarget) \subseteq A
        BY <1>1
      <4> QED
        BY <4>1, <4>2
    <3> QED
      BY <1>9, <2>1, <3>1, <3>2
  <2>5. a2 = {s} /\ b2 = {s} /\ s \in R
    BY <1>2, <1>7, <1>8, <2>1, <2>2, <2>4
  <2> QED
    BY <1>10, <2>5 DEF Settled, a2, b2
<1>13. CASE a = {} /\ b # {}
  <2>1. PICK t \in B : b = {t} /\ RecordsMatch(t, x)
    BY <1>6, <1>13
  <2>2. Class(x, w.toTarget) = {}
    BY <1>1, <1>3, <1>9, <1>13
  <2>3. \A s \in A : ~RecordsMatch(s, t)
    <3>1. ASSUME NEW s \in A, RecordsMatch(s, t) PROVE RecordsMatch(s, x)
      BY <1>2, <2>1, <3>1 DEF Classes
    <3> QED
      BY <1>3, <1>13, <3>1
  <2>4. Class(x, w.toSource) = {t}
    <3>1. t \in ToSet(w.toSource)
      BY <1>1, <2>3
    <3>2. \A u \in ToSet(w.toSource) : RecordsMatch(u, x) => u = t
      <4>1. ASSUME NEW u \in B, RecordsMatch(u, x) PROVE u = t
        <5>1. {u} = {t}
          BY <1>4, <2>1, <4>1
        <5> QED
          BY <5>1
      <4>2. ToSet(w.toSource) \subseteq B
        BY <1>1
      <4> QED
        BY <4>1, <4>2
    <3> QED
      BY <1>9, <2>1, <3>1, <3>2
  <2>5. a2 = {t} /\ b2 = {t} /\ t \in R
    BY <1>2, <1>7, <1>8, <2>1, <2>2, <2>4
  <2> QED
    BY <1>10, <2>5 DEF Settled, a2, b2
<1>14. CASE a # {} /\ b # {}
  <2>1. PICK s \in A : a = {s} /\ RecordsMatch(s, x)
    BY <1>5, <1>14
  <2>2. PICK t \in B : b = {t} /\ RecordsMatch(t, x)
    BY <1>6, <1>14
  <2>3. s \in R /\ t \in R /\ RecordsMatch(s, t)
    BY <1>2, <2>1, <2>2 DEF Classes
  <2>4. \A u \in A : RecordsMatch(u, t) \/ RecordsMatch(u, x) => u = s
    <3>1. ASSUME NEW u \in A, RecordsMatch(u, t) \/ RecordsMatch(u, x) PROVE RecordsMatch(u, x)
      BY <1>2, <2>2, <2>3, <3>1 DEF Classes
    <3> QED
      BY <1>3, <2>1, <3>1
  <2>5. \A u \in B : RecordsMatch(s, u) \/ RecordsMatch(u, x) => u = t
    <3>1. ASSUME NEW u \in B, RecordsMatch(s, u) \/ RecordsMatch(u, x) PROVE RecordsMatch(u, x)
      BY <1>2, <2>1, <2>3, <3>1 DEF Classes
    <3> QED
      BY <1>4, <2>2, <3>1
  <2> DEFINE d == Decision(q, s, t, chosen)
  <2>6. Class(x, w.toTarget) = IF d = "source" THEN {s} ELSE {}
    BY <1>1, <1>9, <2>1, <2>2, <2>3, <2>4, <2>5
  <2>7. Class(x, w.toSource) = IF d = "target" THEN {t} ELSE {}
    BY <1>1, <1>9, <2>1, <2>2, <2>3, <2>4, <2>5
  <2>8. CASE d = "source"
    <3>1. a2 = {s} /\ b2 = {s}
      BY <1>7, <1>8, <2>1, <2>6, <2>7, <2>8
    <3> QED
      BY <1>10, <2>3, <3>1 DEF Settled, a2, b2
  <2>9. CASE d = "target"
    <3>1. a2 = {t} /\ b2 = {t}
      BY <1>7, <1>8, <2>2, <2>6, <2>7, <2>9
    <3> QED
      BY <1>10, <2>3, <3>1 DEF Settled, a2, b2
  <2>10. CASE d # "source" /\ d # "target"
    <3>1. a2 = {s} /\ b2 = {t}
      BY <1>7, <1>8, <2>1, <2>2, <2>6, <2>7, <2>10
    <3>2. Automatic(q, s, t) \notin {"source", "target"}
      BY <2>10 DEF Decision
    <3> QED
      BY <2>3, <3>1, <3>2 DEF Settled, a2, b2
  <2> QED
    BY <2>8, <2>9, <2>10
<1> QED
  BY <1>11, <1>12, <1>13, <1>14

\* A list without records is empty.
LEMMA EmptyOfNoElements ==
  ASSUME NEW R, NEW s \in Seq(R), ToSet(s) = {}
  PROVE  s = <<>>
<1>1. Len(s) \in Nat /\ ToSet(s) = {s[i] : i \in 1 .. Len(s)}
  BY LenProperties, Elements
<1>2. Len(s) = 0
  <2>1. CASE Len(s) # 0
    <3>1. 1 \in 1 .. Len(s)
      BY <1>1, <2>1
    <3> QED
      BY <1>1, <3>1
  <2> QED
    BY <2>1
<1> QED
  BY <1>2, EmptySeq

\* Accounts whose items are all settled have nothing to write.
LEMMA SettledPlan ==
  ASSUME Identified = {}, NEW q, NEW R, Classes(R), NEW src \in Seq(R), NEW tgt \in Seq(R),
         \A x \in R : Settled(q, R, x, src, tgt)
  PROVE  /\ TwoWay(q, src, tgt, NoChoice).toTarget = <<>>
         /\ TwoWay(q, src, tgt, NoChoice).toSource = <<>>
<1> DEFINE w == TwoWay(q, src, tgt, NoChoice)
           A == ToSet(Deduplicated(q, src))
           B == ToSet(Deduplicated(q, tgt))
<1>1. w \in Planned(R) /\ Decided(q, NoChoice, A, B, w)
  BY TwoWayFacts
<1>2. A \subseteq R /\ B \subseteq R
  BY DeduplicatedTyped, Elements
<1>3. \A s \in R : s \in A <=> Winner(q, s, R, src) = {s}
  <2>1. KeepsWinners(q, R, src)
    BY DeduplicatedElements
  <2> QED
    BY <2>1 DEF KeepsWinners
<1>4. \A t \in R : t \in B <=> Winner(q, t, R, tgt) = {t}
  <2>1. KeepsWinners(q, R, tgt)
    BY DeduplicatedElements
  <2> QED
    BY <2>1 DEF KeepsWinners
<1>5. \A s, t : Decision(q, s, t, NoChoice) = Automatic(q, s, t)
  BY DEF Decision, NoChoice
<1>6. /\ ToSet(w.toTarget) =
           {s \in A : \A t \in B : RecordsMatch(s, t) => Decision(q, s, t, NoChoice) = "source"}
      /\ ToSet(w.toSource) =
           {t \in B : \A s \in A : RecordsMatch(s, t) => Decision(q, s, t, NoChoice) = "target"}
  BY <1>1 DEF Decided
<1>7. ASSUME NEW x \in A \cup B
      PROVE  \E s \in A, t \in B : /\ RecordsMatch(s, t) /\ Automatic(q, s, t) \notin {"source", "target"}
                                   /\ x \in A => x = s
                                   /\ x \in B => x = t
  <2>1. x \in R
    BY <1>2
  <2>2. Winner(q, x, R, src) # {} \/ Winner(q, x, R, tgt) # {}
    BY <1>3, <1>4, <2>1
  <2>3. PICK s \in R, t \in R : /\ Winner(q, x, R, src) = {s} /\ Winner(q, x, R, tgt) = {t}
                                /\ Automatic(q, s, t) \notin {"source", "target"}
    BY <2>1, <2>2 DEF Settled
  <2>4. RecordsMatch(s, x) /\ s \in A
    <3>1. Winner(q, x, R, src) # {}
      BY <2>3
    <3>2. \E y \in R : /\ Winner(q, x, R, src) = {y} /\ RecordsMatch(y, x)
                       /\ y \in ToSet(Deduplicated(q, src))
      BY <2>1, <3>1, WinnerSingle
    <3> QED
      BY <2>3, <3>2
  <2>5. RecordsMatch(t, x) /\ t \in B
    <3>1. Winner(q, x, R, tgt) # {}
      BY <2>3
    <3>2. \E y \in R : /\ Winner(q, x, R, tgt) = {y} /\ RecordsMatch(y, x)
                       /\ y \in ToSet(Deduplicated(q, tgt))
      BY <2>1, <3>1, WinnerSingle
    <3> QED
      BY <2>3, <3>2
  <2>6. RecordsMatch(s, t)
    BY <2>1, <2>3, <2>4, <2>5 DEF Classes
  <2>7. (x \in A => x = s) /\ (x \in B => x = t)
    <3>1. ASSUME x \in A PROVE x = s
      <4>1. {x} = {s}
        BY <1>3, <2>1, <2>3, <3>1
      <4> QED
        BY <4>1
    <3>2. ASSUME x \in B PROVE x = t
      <4>1. {x} = {t}
        BY <1>4, <2>1, <2>3, <3>2
      <4> QED
        BY <4>1
    <3> QED
      BY <3>1, <3>2
  <2> QED
    BY <2>3, <2>4, <2>5, <2>6, <2>7
<1> HIDE DEF w, A, B
<1>8. w.toTarget \in Seq(R) /\ w.toSource \in Seq(R)
  BY <1>1 DEF Planned
<1>9. ToSet(w.toTarget) = {}
  <2> SUFFICES ASSUME NEW x \in ToSet(w.toTarget) PROVE FALSE
    OBVIOUS
  <2>1. x \in A
    BY <1>6
  <2>2. PICK s \in A, t \in B : /\ RecordsMatch(s, t) /\ Automatic(q, s, t) \notin {"source", "target"}
                                /\ x = s
    BY <1>7, <2>1
  <2>3. Decision(q, x, t, NoChoice) = "source"
    BY <1>6, <2>2
  <2> QED
    BY <1>5, <2>2, <2>3
<1>10. ToSet(w.toSource) = {}
  <2> SUFFICES ASSUME NEW x \in ToSet(w.toSource) PROVE FALSE
    OBVIOUS
  <2>1. x \in B
    BY <1>6
  <2>2. PICK s \in A, t \in B : /\ RecordsMatch(s, t) /\ Automatic(q, s, t) \notin {"source", "target"}
                                /\ x = t
    BY <1>7, <2>1
  <2>3. Decision(q, s, x, NoChoice) = "target"
    BY <1>6, <2>2
  <2> QED
    BY <1>5, <2>2, <2>3
<1>11. w.toTarget = <<>> /\ w.toSource = <<>>
  BY <1>8, <1>9, <1>10, EmptyOfNoElements
<1> QED
  BY <1>11 DEF w

\* An account stays a list of records.
LEMMA UpsertedTyped ==
  ASSUME NEW R, NEW records \in Seq(R), NEW batch \in Seq(R)
  PROVE  Upserted(records, batch) \in Seq(R)
<1>1. StepUpserted(R) \in [Seq(R) \X R -> Seq(R)]
  BY StepUpsertedTyped
<1>2. Folded(StepUpserted(R), records, batch) \in Seq(R)
  BY <1>1, FoldIn
<1> QED
  BY <1>2, UpsertedIsFold

(***************************************************************************)
(* The invariants.                                                         *)
(***************************************************************************)

\* mediaItemsMatch compares identifiers, titles and years and need not be transitive.  The
\* theorems are about items for which it is: each class of matching items is one work.
IdentitiesTransitive ==
  \A i, j, k \in Item : ItemsMatch(i, j) /\ ItemsMatch(j, k) => ItemsMatch(i, k)

\* A declared identity may take a record away from its own match.  The theorems are about
\* requests that declare none, and about one-way runs with any of them.
PairsAreMatches == Identified = {} \/ "two-way" \notin Mode

LEMMA RequestMatches ==
  ASSUME PairsAreMatches, NEW q \in Request
  PROVE  Identified = {} \/ q.mode # "two-way"
BY DEF PairsAreMatches, Request

\* Where identities are transitive, the records of a request fall into items.
LEMMA RequestClasses ==
  ASSUME IdentitiesTransitive, NEW q \in Request
  PROVE  Classes(Record(q.feature)) /\ \A x \in Record(q.feature) : x.time <= MaxTime
<1>1. MaxTime \in Nat
  BY AccountAssumption
<1>2. \A x \in Record(q.feature) : x.item \in Item /\ x.time \in 0 .. MaxTime
  BY DEF Record
<1>3. \A i, j \in Item : ItemsMatch(i, j) => ItemsMatch(j, i)
  <2>1. \A i, j : {i, j} = {j, i}
    OBVIOUS
  <2> QED
    BY <2>1 DEF ItemsMatch
<1>4. \A x \in Record(q.feature) : x.time \in Nat /\ x.time <= MaxTime /\ RecordsMatch(x, x)
  BY <1>1, <1>2 DEF RecordsMatch, ItemsMatch
<1>5. \A x, y \in Record(q.feature) : RecordsMatch(x, y) => RecordsMatch(y, x)
  BY <1>2, <1>3 DEF RecordsMatch
<1>6. \A x, y, z \in Record(q.feature) :
        RecordsMatch(x, y) /\ RecordsMatch(y, z) => RecordsMatch(x, z)
  BY <1>2 DEF RecordsMatch, IdentitiesTransitive
<1> QED
  BY <1>4, <1>5, <1>6 DEF Classes

\* The inductive invariant: what is known of every state, and that the plan of a run that
\* ended is the plan of what it exported, by which the accounts then changed.
ReconciliationIInv ==
  /\ request \in Request
  /\ phase \in {"new", "reviewed", "done"}
  /\ account \in [Side -> Seq(Record(request.feature))]
  /\ exported \in [Side -> Seq(Record(request.feature))]
  /\ reviewed \in SUBSET (Record(request.feature) \X Record(request.feature))
  /\ DOMAIN choices \subseteq {ConflictId(request, p[1], p[2]) : p \in reviewed}
  /\ \A id \in DOMAIN choices : choices[id] \in Side
  /\ phase = "done" =>
       /\ plan = Plan(request, exported, choices)
       /\ account = IF plan.refused THEN exported
                    ELSE [source |-> Upserted(exported["source"], plan.toSource),
                          target |-> Upserted(exported["target"], plan.toTarget)]

\* Two values as a function of the sides.
LEMMA PairTyped ==
  ASSUME NEW S, NEW s \in S, NEW t \in S
  PROVE  [source |-> s, target |-> t] \in [Side -> S]
BY DEF Side

\* PlanFacts for the records of a request.
LEMMA PlanOfRequest ==
  ASSUME IdentitiesTransitive, PairsAreMatches, NEW q \in Request, NEW chosen,
         NEW accounts \in [Side -> Seq(Record(q.feature))]
  PROVE  PlanOf(q, Record(q.feature), accounts, chosen,
                Resolved(q, accounts, chosen), Plan(q, accounts, chosen))
<1>1. MaxTime \in Nat
  BY AccountAssumption
<1>2. Classes(Record(q.feature)) /\ \A x \in Record(q.feature) : x.time <= MaxTime
  BY RequestClasses
<1> QED
  BY <1>1, <1>2, RequestMatches, PlanFacts

\* The invariant holds initially,
LEMMA ReconciliationStarts ==
  ASSUME IdentitiesTransitive, PairsAreMatches, Init
  PROVE  ReconciliationIInv
<1>1. request \in Request /\ phase = "new" /\ reviewed = {} /\ choices = NoChoice
      /\ exported = [s \in Side |-> <<>>]
  BY DEF Init
<1>2. PICK s \in Account(request.feature), t \in Account(request.feature) :
        account = [source |-> s, target |-> t]
  BY DEF Init
<1>3. \A u \in Account(request.feature) : u \in Seq(Record(request.feature))
  <2>1. Size \in Nat
    BY AccountAssumption
  <2> QED
    BY <2>1, SeqDef DEF Account, BoundedSeq, SeqOf
<1>4. account \in [Side -> Seq(Record(request.feature))]
  BY <1>2, <1>3, PairTyped
<1>5. exported \in [Side -> Seq(Record(request.feature))]
  BY <1>1, EmptySeq
<1>6. DOMAIN choices = {}
  BY <1>1 DEF NoChoice
<1> QED
  BY <1>1, <1>4, <1>5, <1>6 DEF ReconciliationIInv

\* and a dry run keeps it,
LEMMA ReviewPreserves ==
  ASSUME IdentitiesTransitive, PairsAreMatches, ReconciliationIInv, Review
  PROVE  ReconciliationIInv'
<1> DEFINE R == Record(request.feature)
           p == Plan(request, account, NoChoice)
<1>1. /\ request \in Request /\ account \in [Side -> Seq(R)] /\ exported \in [Side -> Seq(R)]
      /\ request' = request /\ account' = account /\ exported' = exported /\ phase' = "reviewed"
  BY DEF ReconciliationIInv, Review
<1>2. reviewed' = Unresolved(request, p.pairs)
  BY DEF Review
<1>3. p.pairs \in SUBSET (R \X R)
  <2>1. PlanOf(request, R, account, NoChoice, Resolved(request, account, NoChoice), p)
    BY <1>1, PlanOfRequest
  <2> QED
    BY <2>1 DEF PlanOf
<1>4. reviewed' \in SUBSET (R \X R)
  BY <1>2, <1>3 DEF Unresolved
<1>5. PICK chosen \in SUBSET {ConflictId(request, c[1], c[2]) : c \in reviewed'} :
        choices' \in [chosen -> Side]
  BY DEF Review
<1>6. DOMAIN choices' \subseteq {ConflictId(request, c[1], c[2]) : c \in reviewed'}
      /\ \A id \in DOMAIN choices' : choices'[id] \in Side
  BY <1>5
<1> HIDE DEF p
<1> QED
  BY <1>1, <1>4, <1>6 DEF ReconciliationIInv

\* and a change by another program,
LEMMA EditPreserves ==
  ASSUME ReconciliationIInv, NEW side \in Side, Edit(side)
  PROVE  ReconciliationIInv'
<1> DEFINE R == Record(request.feature)
<1>1. /\ account \in [Side -> Seq(R)] /\ phase = "reviewed"
      /\ UNCHANGED <<request, phase, reviewed, choices, exported, plan>>
  BY DEF ReconciliationIInv, Edit
<1>2. PICK i \in DOMAIN account[side], r \in R :
        account' = [account EXCEPT ![side] = [account[side] EXCEPT ![i] = r]]
  BY DEF Edit
<1>3. account[side] \in Seq(R) /\ i \in 1 .. Len(account[side])
  BY <1>1, <1>2, LenProperties
<1>4. [account[side] EXCEPT ![i] = r] \in Seq(R)
  BY <1>3, ExceptSeq
<1>5. account' \in [Side -> Seq(R)]
  BY <1>1, <1>2, <1>4
<1> QED
  BY <1>1, <1>5 DEF ReconciliationIInv

\* and the confirmed run.
LEMMA ExecutePreserves ==
  ASSUME IdentitiesTransitive, PairsAreMatches, ReconciliationIInv, Execute
  PROVE  ReconciliationIInv'
<1> DEFINE R == Record(request.feature)
           p == Plan(request, account, choices)
<1>1. /\ request \in Request /\ account \in [Side -> Seq(R)]
      /\ phase' = "done" /\ exported' = account /\ plan' = p
      /\ UNCHANGED <<request, reviewed, choices>>
      /\ account' = IF plan'.refused THEN account
                    ELSE [source |-> Upserted(account["source"], plan'.toSource),
                          target |-> Upserted(account["target"], plan'.toTarget)]
  BY DEF ReconciliationIInv, Execute
<1>2. p.toTarget \in Seq(R) /\ p.toSource \in Seq(R)
  <2>1. PlanOf(request, R, account, choices, Resolved(request, account, choices), p)
    BY <1>1, PlanOfRequest
  <2> QED
    BY <2>1 DEF PlanOf
<1>3. account["source"] \in Seq(R) /\ account["target"] \in Seq(R)
  BY <1>1 DEF Side
<1> HIDE DEF p, R
<1>4. /\ Upserted(account["source"], p.toSource) \in Seq(R)
      /\ Upserted(account["target"], p.toTarget) \in Seq(R)
  BY <1>2, <1>3, UpsertedTyped
<1>5. account' \in [Side -> Seq(R)]
  BY <1>1, <1>4, PairTyped
<1> QED
  BY <1>1, <1>5 DEF ReconciliationIInv, R, p

\* Every reachable state satisfies the inductive invariant.
THEOREM ReconciliationInductive ==
  ASSUME IdentitiesTransitive, PairsAreMatches
  PROVE  Spec => []ReconciliationIInv
<1>1. Init => ReconciliationIInv
  BY ReconciliationStarts
<1>2. ReconciliationIInv /\ [Next]_vars => ReconciliationIInv'
  <2>1. ASSUME ReconciliationIInv, Next PROVE ReconciliationIInv'
    BY <2>1, ReviewPreserves, EditPreserves, ExecutePreserves DEF Next
  <2>2. ASSUME ReconciliationIInv, UNCHANGED vars PROVE ReconciliationIInv'
    BY <2>2 DEF ReconciliationIInv, vars
  <2> QED
    BY <2>1, <2>2
<1> QED
  BY <1>1, <1>2, PTL DEF Spec

\* Every record written was exported from the other account.
LEMMA TypeFollows ==
  ASSUME IdentitiesTransitive, PairsAreMatches, ReconciliationIInv
  PROVE  ReconciliationTypeOK
<1> DEFINE R == Record(request.feature)
<1>1. /\ request \in Request /\ account \in [Side -> Seq(R)] /\ exported \in [Side -> Seq(R)]
      /\ phase \in {"new", "reviewed", "done"} /\ \A id \in DOMAIN choices : choices[id] \in Side
  BY DEF ReconciliationIInv
<1>2. \A side \in Side : ToSet(account[side]) \subseteq R
  BY <1>1, Elements
<1>3. Opposite("source") = "target" /\ Opposite("target") = "source"
  BY DEF Opposite, Side
<1>4. \A side \in Side : Wrote(side) \subseteq ToSet(exported[Opposite(side)])
  <2>1. CASE phase = "done" /\ ~plan.refused
    <3>1. plan = Plan(request, exported, choices)
      BY <2>1 DEF ReconciliationIInv
    <3>2. PlanOf(request, R, exported, choices, Resolved(request, exported, choices), plan)
      BY <1>1, <3>1, PlanOfRequest
    <3> QED
      BY <1>3, <3>2 DEF PlanOf, Wrote, Side
  <2>2. CASE ~(phase = "done" /\ ~plan.refused)
    BY <2>2 DEF Wrote
  <2> QED
    BY <2>1, <2>2
<1> QED
  BY <1>1, <1>2, <1>4 DEF ReconciliationTypeOK

\* Under newest-wins the record decided for is not the earlier one.
LEMMA NewestDecided ==
  ASSUME NEW q, q.policy = "newest-wins", NEW chosen, NEW s, NEW t, s.time \in Nat, t.time \in Nat
  PROVE  /\ Decision(q, s, t, chosen) = "source" => t.time <= s.time
         /\ Decision(q, s, t, chosen) = "target" => s.time <= t.time
<1>1. Automatic(q, s, t) \in {"unchanged", NewestDecision(q, s, t)}
  BY DEF Automatic
<1>2. NewestDecision(q, s, t) \in {"source", "target", "unchanged"}
  BY DEF NewestDecision
<1>3. Decision(q, s, t, chosen) = Automatic(q, s, t)
  BY <1>1, <1>2 DEF Decision
<1>4. NewestDecision(q, s, t) = "source" => Newer(q, s, t)
  BY DEF NewestDecision
<1>5. NewestDecision(q, s, t) = "target" => Newer(q, t, s)
  BY DEF NewestDecision
<1> QED
  BY <1>1, <1>3, <1>4, <1>5, NewerTimes

\* What is known of a run that ended, of the records it wrote and the accounts it exported.
LEMMA RunWon ==
  ASSUME IdentitiesTransitive, PairsAreMatches, Bangumi = {}, ReconciliationIInv, phase = "done"
  PROVE  LET w == Resolved(request, exported, choices) IN
         /\ PlanOf(request, Record(request.feature), exported, choices, w, plan)
         /\ WonOver(request, choices, exported, w)
         /\ plan.toTarget = w.toTarget /\ plan.toSource = w.toSource /\ plan.pairs = w.pairs
<1> DEFINE R == Record(request.feature)
           w == Resolved(request, exported, choices)
<1>1. request \in Request /\ exported \in [Side -> Seq(R)] /\ plan = Plan(request, exported, choices)
  BY DEF ReconciliationIInv
<1>2. PlanOf(request, R, exported, choices, w, plan)
  BY <1>1, PlanOfRequest
<1>3. MaxTime \in Nat
  BY AccountAssumption
<1>4. Classes(R) /\ \A x \in R : x.time <= MaxTime
  BY <1>1, RequestClasses
<1>5. WonOver(request, choices, exported, w)
  <2> HIDE DEF R
  <2> QED
    BY <1>1, <1>3, <1>4, RequestMatches, ResolvedFacts
<1> QED
  BY <1>2, <1>5 DEF PlanOf

\* What newest-wins wrote won over the newest duplicate, so over all of them.
LEMMA NewestFollows ==
  ASSUME IdentitiesTransitive, PairsAreMatches, Bangumi = {}, ReconciliationIInv
  PROVE  NewestNeverRegresses
<1> DEFINE R == Record(request.feature)
           w == Resolved(request, exported, choices)
<1> SUFFICES ASSUME request.policy = "newest-wins", NEW side \in Side,
                    NEW r \in Wrote(side), NEW y \in ToSet(exported[side]), SameItem(side, r, y)
             PROVE  y.time <= r.time
  BY DEF NewestNeverRegresses
<1>1. phase = "done" /\ ~plan.refused
  BY DEF Wrote
<1>2. request \in Request /\ exported \in [Side -> Seq(R)]
  BY DEF ReconciliationIInv
<1>3. WonOver(request, choices, exported, w) /\ plan.toTarget = w.toTarget /\ plan.toSource = w.toSource
      /\ PlanOf(request, R, exported, choices, w, plan)
  BY <1>1, RunWon
<1>4. ToSet(exported["source"]) \subseteq R /\ ToSet(exported["target"]) \subseteq R
  BY <1>2, Elements DEF Side
<1>5. \A x \in R : x.time \in Nat
  BY <1>2, RequestClasses DEF Classes
<1> HIDE DEF w, R
<1>6. CASE side = "target"
  <2>1. r \in ToSet(w.toTarget) /\ r \in R /\ y \in R /\ y \in ToSet(exported["target"])
    BY <1>1, <1>3, <1>4, <1>6 DEF Wrote, PlanOf
  <2>2. PICK t \in ToSet(exported["target"]) :
          y.time <= t.time /\ Decision(request, r, t, choices) = "source"
    BY <1>3, <1>6, <2>1 DEF WonOver, SameItem
  <2>3. y.time \in Nat /\ r.time \in Nat /\ t.time \in Nat
    BY <1>4, <1>5, <2>1
  <2>4. t.time <= r.time
    BY <2>2, <2>3, NewestDecided
  <2> QED
    BY <2>2, <2>3, <2>4
<1>7. CASE side = "source"
  <2>1. r \in ToSet(w.toSource) /\ r \in R /\ y \in R /\ y \in ToSet(exported["source"])
    BY <1>1, <1>3, <1>4, <1>7 DEF Wrote, PlanOf
  <2>2. PICK s \in ToSet(exported["source"]) :
          y.time <= s.time /\ Decision(request, s, r, choices) = "target"
    BY <1>3, <1>7, <2>1 DEF WonOver, SameItem
  <2>3. y.time \in Nat /\ r.time \in Nat /\ s.time \in Nat
    BY <1>4, <1>5, <2>1
  <2>4. s.time <= r.time
    BY <2>2, <2>3, NewestDecided
  <2> QED
    BY <2>2, <2>3, <2>4
<1> QED
  BY <1>6, <1>7 DEF Side

\* What the target held is paired with a source record, or was copied; a batch keeps both.
LEMMA ItemsFollow ==
  ASSUME IdentitiesTransitive, PairsAreMatches, ReconciliationIInv
  PROVE  ItemsReturn
<1> DEFINE R == Record(request.feature)
           w == Resolved(request, exported, choices)
           src == exported["source"]
           tgt == exported["target"]
<1> SUFFICES ASSUME phase = "done", ~plan.refused, request.mode = "two-way", NEW r \in ToSet(tgt)
             PROVE  HasMatch(r, account["source"])
  BY DEF ItemsReturn
<1>1. /\ request \in Request /\ exported \in [Side -> Seq(R)]
      /\ plan = Plan(request, exported, choices)
      /\ account = [source |-> Upserted(src, plan.toSource), target |-> Upserted(tgt, plan.toTarget)]
  BY DEF ReconciliationIInv
<1>2. PlanOf(request, R, exported, choices, w, plan)
  BY <1>1, PlanOfRequest
<1>3. src \in Seq(R) /\ tgt \in Seq(R) /\ Classes(R)
  BY <1>1, RequestClasses DEF Side
<1>4. w = TwoWay(request, src, tgt, choices)
  BY DEF Resolved
<1> HIDE DEF w, R, src, tgt
<1>5. w \in Planned(R)
      /\ Decided(request, choices, ToSet(Deduplicated(request, src)), ToSet(Deduplicated(request, tgt)), w)
  BY <1>1, <1>3, <1>4, RequestMatches, TwoWayFacts
<1>6. plan.toSource \in Seq(R) /\ ToSet(w.toSource) \subseteq ToSet(plan.toSource)
  BY <1>2 DEF PlanOf
<1>7. r \in R /\ RecordsMatch(r, r)
  BY <1>3, Elements DEF Classes
<1>8. HasMatch(r, src) \/ HasMatch(r, plan.toSource)
  <2> SUFFICES ASSUME ~HasMatch(r, src) PROVE HasMatch(r, plan.toSource)
    OBVIOUS
  <2>1. WinnerOf(request, r, R, tgt)
    BY <1>3, <1>7, WinnerFacts
  <2>2. Winner(request, r, R, tgt) # {}
    BY <1>7, <2>1 DEF WinnerOf
  <2>3. PICK t \in R : RecordsMatch(t, r) /\ t \in ToSet(Deduplicated(request, tgt))
    BY <1>3, <1>7, <2>2, WinnerSingle
  <2>4. \A s \in ToSet(Deduplicated(request, src)) : s \in ToSet(src) /\ s \in R
    <3>1. KeepsWinners(request, R, src) /\ ToSet(Deduplicated(request, src)) \subseteq R
      BY <1>3, DeduplicatedElements, DeduplicatedTyped, Elements
    <3>2. \A s \in R : WinnerOf(request, s, R, src)
      BY <1>3, WinnerFacts
    <3> QED
      BY <3>1, <3>2 DEF KeepsWinners, WinnerOf
  <2>5. \A s \in ToSet(Deduplicated(request, src)) : ~RecordsMatch(s, t)
    <3>1. ASSUME NEW s \in ToSet(Deduplicated(request, src)), RecordsMatch(s, t) PROVE FALSE
      <4>1. RecordsMatch(r, s)
        BY <1>3, <1>7, <2>3, <2>4, <3>1 DEF Classes
      <4> QED
        BY <1>3, <1>7, <2>4, <4>1, Elements
    <3> QED
      BY <3>1
  <2>6. t \in ToSet(w.toSource)
    BY <1>5, <2>3, <2>5 DEF Decided
  <2>7. RecordsMatch(r, t) /\ t \in ToSet(plan.toSource)
    BY <1>3, <1>6, <1>7, <2>3, <2>6 DEF Classes
  <2> QED
    BY <1>6, <1>7, <2>7, Elements
<1>9. HasMatch(r, Upserted(src, plan.toSource))
  <2>1. KeptBy(R, src, plan.toSource)
    BY <1>3, <1>6, UpsertedKeeps
  <2> QED
    BY <1>7, <1>8, <2>1 DEF KeptBy
<1> QED
  BY <1>1, <1>9

\* Under manual only a choice decides.
LEMMA ManualDecided ==
  ASSUME NEW q, q.policy = "manual", NEW chosen, NEW s, NEW t,
         Decision(q, s, t, chosen) \in {"source", "target"}
  PROVE  Automatic(q, s, t) = "unresolved" /\ ConflictId(q, s, t) \in DOMAIN chosen
<1>1. Automatic(q, s, t) \in {"unchanged", "unresolved"}
  BY DEF Automatic
<1> QED
  BY <1>1 DEF Decision

\* Except for reviews, the summary of a record tells it from every other.
LEMMA ShownTells ==
  ASSUME NEW q, q.feature # "reviews", NEW f, NEW s \in Record(f), NEW t \in Record(f),
         Shown(q, s) = Shown(q, t)
  PROVE  s = t
<1>1. s.item = t.item /\ s.time = t.time /\ s.state = t.state /\ s.detail = t.detail
  BY DEF Shown
<1> QED
  BY <1>1 DEF Record

\* A choice is about a pair that was reviewed as it is.
LEMMA ChosenWasReviewed ==
  ASSUME ReconciliationIInv, request.feature # "reviews",
         NEW s \in Record(request.feature), NEW t \in Record(request.feature),
         ConflictId(request, s, t) \in DOMAIN choices
  PROVE  <<s, t>> \in reviewed
<1>1. PICK p \in reviewed : ConflictId(request, s, t) = ConflictId(request, p[1], p[2])
  BY DEF ReconciliationIInv
<1>2. p \in Record(request.feature) \X Record(request.feature)
  BY DEF ReconciliationIInv
<1>3. Shown(request, s) = Shown(request, p[1]) /\ Shown(request, t) = Shown(request, p[2])
  BY <1>1 DEF ConflictId
<1>4. s = p[1] /\ t = p[2]
  BY <1>2, <1>3, ShownTells
<1>5. p = <<p[1], p[2]>>
  BY <1>2
<1> QED
  BY <1>4, <1>5

\* A choice names the pair by what the user saw, which without reviews is all of it.
LEMMA ManualFollows ==
  ASSUME IdentitiesTransitive, PairsAreMatches, Bangumi = {}, "reviews" \notin Feature, ReconciliationIInv
  PROVE  ManualLeavesDifferencesAlone
<1> DEFINE R == Record(request.feature)
           w == Resolved(request, exported, choices)
<1> SUFFICES ASSUME request.policy = "manual"
             PROVE  /\ \A side \in Side : \A r \in Wrote(side), y \in ToSet(exported[side]) :
                         SameItem(side, r, y) => \E p \in Chosen \cap reviewed : r \in {p[1], p[2]}
                    /\ phase = "done" =>
                         \A id \in DOMAIN choices :
                           (\A p \in Chosen : ConflictId(request, p[1], p[2]) # id) => plan.refused
  BY DEF ManualLeavesDifferencesAlone
<1>1. /\ request \in Request /\ request.feature # "reviews" /\ exported \in [Side -> Seq(R)]
  BY DEF ReconciliationIInv, Request
<1>2. ToSet(exported["source"]) \subseteq R /\ ToSet(exported["target"]) \subseteq R
  BY <1>1, Elements DEF Side
<1>3. phase = "done" =>
        /\ WonOver(request, choices, exported, w)
        /\ plan.toTarget = w.toTarget /\ plan.toSource = w.toSource /\ plan.pairs = w.pairs
        /\ PlanOf(request, R, exported, choices, w, plan)
  BY RunWon
<1> HIDE DEF w
<1>4. ASSUME NEW s \in R, NEW t \in R, <<s, t>> \in plan.pairs,
             Decision(request, s, t, choices) \in {"source", "target"}
      PROVE  <<s, t>> \in Chosen \cap reviewed
  <2>1. Automatic(request, s, t) = "unresolved" /\ ConflictId(request, s, t) \in DOMAIN choices
    BY <1>4, ManualDecided
  <2>2. <<s, t>> \in reviewed
    BY <1>1, <2>1, ChosenWasReviewed
  <2>3. <<s, t>>[1] = s /\ <<s, t>>[2] = t
    OBVIOUS
  <2>4. <<s, t>> \in Unresolved(request, plan.pairs)
    BY <1>4, <2>1, <2>3 DEF Unresolved
  <2> QED
    BY <2>1, <2>2, <2>3, <2>4 DEF Chosen
<1>5. ASSUME NEW side \in Side, NEW r \in Wrote(side), NEW y \in ToSet(exported[side]), SameItem(side, r, y)
      PROVE  \E p \in Chosen \cap reviewed : r \in {p[1], p[2]}
  <2>1. phase = "done" /\ ~plan.refused
    BY <1>5 DEF Wrote
  <2>2. CASE side = "target"
    <3>1. r \in ToSet(w.toTarget) /\ r \in R /\ y \in ToSet(exported["target"])
      BY <1>2, <1>3, <1>5, <2>1, <2>2 DEF Wrote, PlanOf
    <3>2. PICK t \in ToSet(exported["target"]) :
            <<r, t>> \in plan.pairs /\ Decision(request, r, t, choices) = "source"
      BY <1>3, <1>5, <2>1, <2>2, <3>1 DEF WonOver, SameItem
    <3>3. <<r, t>> \in Chosen \cap reviewed
      BY <1>2, <1>4, <3>1, <3>2
    <3>4. r \in {<<r, t>>[1], <<r, t>>[2]}
      OBVIOUS
    <3> QED
      BY <3>3, <3>4
  <2>3. CASE side = "source"
    <3>1. r \in ToSet(w.toSource) /\ r \in R /\ y \in ToSet(exported["source"])
      BY <1>2, <1>3, <1>5, <2>1, <2>3 DEF Wrote, PlanOf
    <3>2. PICK s \in ToSet(exported["source"]) :
            <<s, r>> \in plan.pairs /\ Decision(request, s, r, choices) = "target"
      BY <1>3, <1>5, <2>1, <2>3, <3>1 DEF WonOver, SameItem
    <3>3. <<s, r>> \in Chosen \cap reviewed
      BY <1>2, <1>4, <3>1, <3>2
    <3>4. r \in {<<s, r>>[1], <<s, r>>[2]}
      OBVIOUS
    <3> QED
      BY <3>3, <3>4
  <2> QED
    BY <2>2, <2>3 DEF Side
<1>6. ASSUME phase = "done", NEW id \in DOMAIN choices,
             \A p \in Chosen : ConflictId(request, p[1], p[2]) # id
      PROVE  plan.refused
  <2>1. plan.refused = ChoiceIsStale(choices,
                         {ConflictId(request, c[1], c[2]) : c \in Unresolved(request, plan.pairs)})
    BY <1>3, <1>6 DEF PlanOf
  <2>2. id \notin {ConflictId(request, c[1], c[2]) : c \in Unresolved(request, plan.pairs)}
    BY <1>6 DEF Chosen
  <2> QED
    BY <2>1, <2>2 DEF ChoiceIsStale
<1> QED
  BY <1>5, <1>6

\* The accounts a two-way run leaves are settled.
LEMMA NothingFollows ==
  ASSUME IdentitiesTransitive, PairsAreMatches, Bangumi = {}, ReconciliationIInv
  PROVE  NothingLeftToDo
<1> DEFINE R == Record(request.feature)
           w == Resolved(request, exported, choices)
           src == exported["source"]
           tgt == exported["target"]
           next == Plan(request, account, NoChoice)
<1>1. ReconciliationTypeOK
  BY TypeFollows
<1> SUFFICES ASSUME phase = "done", request.mode = "two-way", ~plan.refused
             PROVE  next.toTarget = <<>> /\ next.toSource = <<>>
  BY <1>1 DEF NothingLeftToDo
<1>2. /\ request \in Request /\ exported \in [Side -> Seq(R)] /\ account \in [Side -> Seq(R)]
      /\ account = [source |-> Upserted(src, plan.toSource), target |-> Upserted(tgt, plan.toTarget)]
  BY DEF ReconciliationIInv
<1>3. plan.toTarget = w.toTarget /\ plan.toSource = w.toSource
  BY RunWon
<1>4. src \in Seq(R) /\ tgt \in Seq(R) /\ Classes(R)
  BY <1>2, RequestClasses DEF Side
<1>5. w = TwoWay(request, src, tgt, choices)
  BY DEF Resolved
<1>6. PlanOf(request, R, account, NoChoice, Resolved(request, account, NoChoice), next)
  BY <1>2, PlanOfRequest
<1>7. Resolved(request, account, NoChoice) = TwoWay(request, account["source"], account["target"], NoChoice)
  BY DEF Resolved
<1> HIDE DEF w, R, src, tgt, next
<1>8. w \in Planned(R)
      /\ Decided(request, choices, ToSet(Deduplicated(request, src)), ToSet(Deduplicated(request, tgt)), w)
  BY <1>2, <1>4, <1>5, RequestMatches, TwoWayFacts
<1>9. w.toTarget \in Seq(R) /\ w.toSource \in Seq(R)
  BY <1>8 DEF Planned
<1>10. /\ account["source"] = Upserted(src, w.toSource) /\ account["source"] \in Seq(R)
       /\ account["target"] = Upserted(tgt, w.toTarget) /\ account["target"] \in Seq(R)
  BY <1>2, <1>3 DEF Side
<1>11. ASSUME NEW x \in R PROVE Settled(request, R, x, account["source"], account["target"])
  <2>1. Settled(request, R, x, Upserted(src, w.toSource), Upserted(tgt, w.toTarget))
    BY <1>4, <1>8, <1>9, RunSettles
  <2> QED
    BY <1>10, <2>1
<1>12. /\ TwoWay(request, account["source"], account["target"], NoChoice).toTarget = <<>>
       /\ TwoWay(request, account["source"], account["target"], NoChoice).toSource = <<>>
  BY <1>2, <1>4, <1>10, <1>11, RequestMatches, SettledPlan
<1> QED
  BY <1>6, <1>7, <1>12 DEF PlanOf

\* The type invariant, and that every record written was exported from the other account.
THEOREM ReconciliationTypes ==
  ASSUME IdentitiesTransitive, PairsAreMatches
  PROVE  Spec => []ReconciliationTypeOK
<1>1. ReconciliationIInv => ReconciliationTypeOK
  BY TypeFollows
<1> QED
  BY <1>1, ReconciliationInductive, PTL

\* resolveTwoWayConflicts: a run right after a confirmed two-way run writes nothing.
THEOREM NothingIsLeftToDo ==
  ASSUME IdentitiesTransitive, PairsAreMatches, Bangumi = {}
  PROVE  Spec => []NothingLeftToDo
<1>1. ReconciliationIInv => NothingLeftToDo
  BY NothingFollows
<1> QED
  BY <1>1, ReconciliationInductive, PTL

\* compareForNewest: newest-wins never writes a record over a later one of the same item.
THEOREM NewestWins ==
  ASSUME IdentitiesTransitive, PairsAreMatches, Bangumi = {}
  PROVE  Spec => []NewestNeverRegresses
<1>1. ReconciliationIInv => NewestNeverRegresses
  BY NewestFollows
<1> QED
  BY <1>1, ReconciliationInductive, PTL

\* resolveTwoWayConflicts: a two-way run brings every item of the target to the source.
THEOREM EveryItemReturns ==
  ASSUME IdentitiesTransitive, PairsAreMatches
  PROVE  Spec => []ItemsReturn
<1>1. ReconciliationIInv => ItemsReturn
  BY ItemsFollow
<1> QED
  BY <1>1, ReconciliationInductive, PTL

\* oneWayConflictOutcome, assertAllConflictResolutionsUsed: under manual a run writes over a
\* record only what the user chose after seeing both records as they still are.
THEOREM ManualIsRespected ==
  ASSUME IdentitiesTransitive, PairsAreMatches, Bangumi = {}, "reviews" \notin Feature
  PROVE  Spec => []ManualLeavesDifferencesAlone
<1>1. ReconciliationIInv => ManualLeavesDifferencesAlone
  BY ManualFollows
<1> QED
  BY <1>1, ReconciliationInductive, PTL
=============================================================================
