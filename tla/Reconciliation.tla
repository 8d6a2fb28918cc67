--------------------------- MODULE Reconciliation ---------------------------
(***************************************************************************)
(* What a synchronization run of packages/connectors/src/syncExecutor.ts   *)
(* decides to write for one feature, and how its decisions compose over    *)
(* the dry run a user reviews, the changes the accounts see meanwhile and  *)
(* the run that follows.  The order of exports, snapshots and writes       *)
(* inside a run is the subject of SyncExecution: here a run is one step.   *)
(*                                                                         *)
(* A record is abstracted to the item it is about, its time (0: none),     *)
(* and two parts of its state: "state", which the conflict summary shows,  *)
(* and "detail", the list status of a watched record (never ranked) or     *)
(* the text of a review (never shown).                                     *)
(*                                                                         *)
(* Left out: social records, which are no media items, and the cut of the  *)
(* conflict summary at 100 details, which hides a conflict from the user   *)
(* but not from the run.                                                   *)
(***************************************************************************)
EXTENDS Integers, Sequences, FiniteSets, SequencesExt

CONSTANTS
  Item,      \* canonical media items
  Alike,     \* unordered pairs of different items that mediaItemsMatch accepts
  Identified, \* pairs <<source item, target item>> of a request's identityOverrides
  Subject,   \* sets of items that are one Bangumi subject with its episodes
  Bangumi,   \* the sides that are a Bangumi account
  Feature,   \* the features requests may select
  Policy,    \* the conflict policies they may name
  Mode,      \* "one-way", "two-way"
  Size,      \* bound on the records of one account, initially
  Total,     \* bound on the records of both
  MaxTime,   \* bound on the times records carry
  MaxEdits   \* bound on the changes between the dry run and the run

Side == {"source", "target"}
Kind == {"ratings", "watched", "watchlist", "reviews"}

ASSUME RequestAssumption ==
  /\ Feature \subseteq Kind
  /\ Policy \subseteq {"manual", "source-wins", "target-wins", "newest-wins"}
  /\ Mode \subseteq {"one-way", "two-way"}
ASSUME AccountAssumption ==
  /\ \A pair \in Alike : pair \subseteq Item /\ Cardinality(pair) = 2
  /\ Identified \subseteq Item \X Item
  /\ Subject \subseteq SUBSET Item
  /\ Bangumi \subseteq Side
  /\ {Size, Total, MaxTime, MaxEdits} \subseteq Nat

VARIABLES
  request,   \* the feature, policy and direction the user asked for
  account,   \* the records of each account, in export order
  phase,     \* "new", "reviewed" (a dry run answered), "done"
  reviewed,  \* the conflicts the dry run listed as unresolved: pairs of records
  choices,   \* the user's decisions: conflict identifier -> "source" | "target"
  edits,     \* changes other programs made since the dry run
  exported,  \* the accounts as the confirmed run exported them
  plan       \* what the confirmed run wrote, and whether it was refused

vars == <<request, account, phase, reviewed, choices, edits, exported, plan>>

(* --- records ----------------------------------------------------------- *)

\* A watchlist membership has no state of its own, a rating only one part.
Record(feature) ==
  [item : Item, time : 0 .. MaxTime,
   state : IF feature = "watchlist" THEN {1} ELSE 1 .. 2,
   detail : IF feature \in {"watched", "reviews"} THEN 1 .. 2 ELSE {1}]

Account(feature) == BoundedSeq(Record(feature), Size)

Request == [feature : Feature, policy : Policy, mode : Mode]

ItemsMatch(i, j) == i = j \/ {i, j} \in Alike
RecordsMatch(l, r) == ItemsMatch(l.item, r.item)

\* A source record s and a target record t are about the same item, or the user says so.
Identifies(s, t) == RecordsMatch(s, t) \/ <<s.item, t.item>> \in Identified

\* Memberships are always equivalent; a rating's time does not matter.  Here and below q is
\* the request, which never changes.
Equivalent(q, l, r) ==
  \/ q.feature = "watchlist"
  \/ /\ l.state = r.state /\ l.detail = r.detail
     /\ q.feature = "ratings" \/ l.time = r.time

\* Times decide; watched records of equal times fall back on their progress,
\* unless their list statuses differ.
Newer(q, l, r) ==
  \/ l.time > r.time
  \/ /\ l.time = r.time
     /\ q.feature = "watched"
     /\ l.detail = r.detail
     /\ l.state > r.state

(* --- the decision about one matching pair ------------------------------ *)

\* What the summary of a side discloses: a review by its length only.
Shown(q, r) == <<r.item, r.time, r.state,
                 IF q.feature = "reviews" THEN "redacted" ELSE r.detail>>

ConflictId(q, s, t) == <<Shown(q, s), Shown(q, t)>>

NewestDecision(q, s, t) ==
  IF Newer(q, s, t) THEN "source" ELSE IF Newer(q, t, s) THEN "target" ELSE "unchanged"

\* A plausible bug: an undecided conflict is written.
AutomaticGuesses(q, s, t) ==
  IF Equivalent(q, s, t) THEN "unchanged"
  ELSE IF q.policy = "target-wins" THEN "target" ELSE "source"

\* One-way runs write an equivalent record again unless the policy is manual.
Automatic(q, s, t) ==
  IF \/ q.feature = "watchlist"
     \/ Equivalent(q, s, t) /\ (q.mode = "two-way" \/ q.policy = "manual")
  THEN "unchanged"
  ELSE CASE q.policy = "manual" -> "unresolved"
         [] q.policy = "source-wins" -> "source"
         [] q.policy = "target-wins" -> "target"
         [] q.policy = "newest-wins" -> NewestDecision(q, s, t)

Decision(q, s, t, chosen) ==
  IF Automatic(q, s, t) = "unresolved" /\ ConflictId(q, s, t) \in DOMAIN chosen
  THEN chosen[ConflictId(q, s, t)]
  ELSE Automatic(q, s, t)

(* --- one direction ----------------------------------------------------- *)

AppendIf(seq, r, condition) == IF condition THEN Append(seq, r) ELSE seq

\* The records that are in S, in their order.  The loops of the code are recursive functions
\* of how far they got.
Those(records, S) ==
  LET kept[n \in 0 .. Len(records)] ==
        IF n = 0 THEN <<>> ELSE AppendIf(kept[n - 1], records[n], records[n] \in S)
  IN kept[Len(records)]

\* A plausible bug: the first match counts, however old it is.
FirstMatch(r, records) ==
  LET Same(candidate) == Identifies(r, candidate)
  IN records[SelectInSeq(records, Same)]

\* The newest of the target records that r identifies, the first of them on a tie.
BestMatch(r, records) ==
  LET match == {i \in DOMAIN records : Identifies(r, records[i])}
      newest == {i \in match : \A j \in match : records[j].time <= records[i].time}
  IN records[CHOOSE i \in newest : \A j \in newest : i <= j]

HasMatch(r, records) == \E i \in DOMAIN records : RecordsMatch(r, records[i])
HasPartner(r, records) == \E i \in DOMAIN records : Identifies(r, records[i])

OneWay(q, incoming, existing, chosen) ==
  LET Included(r) ==
        HasPartner(r, existing) => Decision(q, r, BestMatch(r, existing), chosen) = "source"
  IN [toTarget |-> Those(incoming, {r \in ToSet(incoming) : Included(r)}),
      toSource |-> <<>>,
      pairs |-> {<<r, BestMatch(r, existing)>> :
                   r \in {s \in ToSet(incoming) : HasPartner(s, existing)}}]

(* --- both directions --------------------------------------------------- *)

\* The first record that matches r, 0 if none does.
FirstIndex(r, records) ==
  IF HasMatch(r, records)
  THEN CHOOSE i \in DOMAIN records :
         RecordsMatch(r, records[i]) /\ \A j \in 1 .. (i - 1) : ~RecordsMatch(r, records[j])
  ELSE 0

\* A plausible bug: duplicates of an account are not merged.
KeepDuplicates(q, records) == records

Merge(q, output, r) ==
  LET i == FirstIndex(r, output)
  IN IF i = 0 THEN Append(output, r)
     ELSE IF Newer(q, r, output[i]) THEN [output EXCEPT ![i] = r] ELSE output

Deduplicated(q, records) ==
  LET merged[n \in 0 .. Len(records)] ==
        IF n = 0 THEN <<>> ELSE Merge(q, merged[n - 1], records[n])
  IN merged[Len(records)]

\* The first open target record that s identifies, 0 if there is none.
FirstPartner(s, open) ==
  IF HasPartner(s, open)
  THEN CHOOSE i \in DOMAIN open :
         Identifies(s, open[i]) /\ \A j \in 1 .. (i - 1) : ~Identifies(s, open[j])
  ELSE 0

\* A source record consumes the first unconsumed match.
Reconcile(q, chosen, acc, s) ==
  LET i == FirstPartner(s, acc.open)
      t == acc.open[i]
      decision == Decision(q, s, t, chosen)
  IN IF i = 0 THEN [acc EXCEPT !.toTarget = Append(@, s)]
     ELSE [open |-> RemoveAt(acc.open, i),
           toTarget |-> AppendIf(acc.toTarget, s, decision = "source"),
           toSource |-> AppendIf(acc.toSource, t, decision = "target"),
           pairs |-> acc.pairs \cup {<<s, t>>}]

\* What stays unconsumed is missing on the source.
TwoWay(q, incoming, existing, chosen) ==
  LET records == Deduplicated(q, incoming)
      reconciled[n \in 0 .. Len(records)] ==
        IF n = 0 THEN [open |-> Deduplicated(q, existing), toTarget |-> <<>>,
                       toSource |-> <<>>, pairs |-> {}]
        ELSE Reconcile(q, chosen, reconciled[n - 1], records[n])
      result == reconciled[Len(records)]
  IN [toTarget |-> result.toTarget,
      toSource |-> result.toSource \o result.open,
      pairs |-> result.pairs]

(* --- the run ----------------------------------------------------------- *)

\* A Bangumi account receives the whole subject of every record it receives.
Closure(q, side, records, incoming) ==
  LET InSubject(r) == \E subject \in Subject, s \in ToSet(records) :
                        r.item \in subject /\ s.item \in subject
      completed[n \in 0 .. Len(incoming)] ==
        IF n = 0 THEN records
        ELSE AppendIf(completed[n - 1], incoming[n],
                      InSubject(incoming[n]) /\ ~HasMatch(incoming[n], completed[n - 1]))
  IN IF q.feature = "watched" /\ side \in Bangumi THEN completed[Len(incoming)] ELSE records

Unresolved(q, pairs) == {p \in pairs : Automatic(q, p[1], p[2]) = "unresolved"}

\* assertAllConflictResolutionsUsed
ChoiceIsStale(chosen, used) == ~(DOMAIN chosen \subseteq used)

\* All decisions of a run over the accounts it exported.  A choice that names
\* no unresolved conflict of these accounts refuses the whole run.
Plan(q, accounts, chosen) ==
  LET resolved == IF q.mode = "two-way"
                  THEN TwoWay(q, accounts["source"], accounts["target"], chosen)
                  ELSE OneWay(q, accounts["source"], accounts["target"], chosen)
      used == {ConflictId(q, p[1], p[2]) : p \in Unresolved(q, resolved.pairs)}
  IN [refused |-> ChoiceIsStale(chosen, used),
      toTarget |-> Closure(q, "target", resolved.toTarget, accounts["source"]),
      toSource |-> IF q.mode = "two-way"
                   THEN Closure(q, "source", resolved.toSource, accounts["target"])
                   ELSE <<>>,
      pairs |-> resolved.pairs]

\* A service keeps one record of an item and the time it is given.
Put(records, r) == Append(Those(records, {s \in ToSet(records) : ~RecordsMatch(s, r)}), r)

Upserted(records, batch) ==
  LET upserted[n \in 0 .. Len(batch)] ==
        IF n = 0 THEN records ELSE Put(upserted[n - 1], batch[n])
  IN upserted[Len(batch)]

NoPlan == [refused |-> FALSE, toTarget |-> <<>>, toSource |-> <<>>, pairs |-> {}]
NoChoice == [id \in {} |-> "source"]

Init ==
  /\ request \in Request
  /\ \E s, t \in Account(request.feature) :
       Len(s) + Len(t) <= Total /\ account = [source |-> s, target |-> t]
  /\ phase = "new"
  /\ reviewed = {} /\ choices = NoChoice /\ edits = 0
  /\ exported = [s \in Side |-> <<>>]
  /\ plan = NoPlan

\* A dry run plans without choices; the user then decides some conflicts.
Review ==
  /\ phase = "new"
  /\ phase' = "reviewed"
  /\ reviewed' = Unresolved(request, Plan(request, account, NoChoice).pairs)
  /\ \E chosen \in SUBSET {ConflictId(request, p[1], p[2]) : p \in reviewed'} :
       \E decisions \in [chosen -> Side] : choices' = decisions
  /\ UNCHANGED <<request, account, edits, exported, plan>>

\* Another program changes what an account holds about one item.  Only choices
\* outlive the dry run: without any, the run is one over other accounts.
Edit(side) ==
  /\ phase = "reviewed" /\ edits < MaxEdits /\ choices # NoChoice
  /\ edits' = edits + 1
  /\ \E i \in DOMAIN account[side], r \in Record(request.feature) :
       /\ r.item = account[side][i].item
       /\ account' = [account EXCEPT ![side][i] = r]
  /\ UNCHANGED <<request, phase, reviewed, choices, exported, plan>>

\* The run recomputes every decision from fresh exports.
Execute ==
  /\ phase = "reviewed"
  /\ phase' = "done"
  /\ exported' = account
  /\ plan' = Plan(request, account, choices)
  /\ account' = IF plan'.refused THEN account
                ELSE [source |-> Upserted(account["source"], plan'.toSource),
                      target |-> Upserted(account["target"], plan'.toTarget)]
  /\ UNCHANGED <<request, reviewed, choices, edits>>

Next == Review \/ Execute \/ \E side \in Side : Edit(side)

Spec == Init /\ [][Next]_vars
-----------------------------------------------------------------------------
\* What the run that ended wrote to a side.
Wrote(side) == IF phase # "done" \/ plan.refused THEN {}
               ELSE ToSet(IF side = "target" THEN plan.toTarget ELSE plan.toSource)

Opposite(side) == CHOOSE s \in Side : s # side

\* Every record written was exported from the other account by this very run,
\* and plans only hold records: nothing is invented or kept from the dry run.
ReconciliationTypeOK ==
  /\ request \in Request
  /\ phase \in {"new", "reviewed", "done"}
  /\ \A side \in Side : /\ ToSet(account[side]) \subseteq Record(request.feature)
                        /\ Wrote(side) \subseteq ToSet(exported[Opposite(side)])
  /\ \A id \in DOMAIN choices : choices[id] \in Side

\* resolveTwoWayConflicts: after a confirmed two-way run the next run with the
\* same policy finds nothing to write, so two accounts do not echo each
\* other's records for ever.
NothingLeftToDo ==
  /\ ReconciliationTypeOK
  /\ phase = "done" /\ request.mode = "two-way" /\ ~plan.refused =>
       LET next == Plan(request, account, NoChoice) IN next.toTarget = <<>> /\ next.toSource = <<>>

\* r, written to a side, and q, which the side held, are one item or declared to be.
SameItem(side, r, q) == IF side = "target" THEN Identifies(r, q) ELSE Identifies(q, r)

\* compareForNewest: newest-wins never writes a record to an account that
\* holds a later one of the same item, whichever duplicates an account holds
\* and whichever items a one-way run is told are the same.
NewestNeverRegresses ==
  request.policy = "newest-wins" =>
    \A side \in Side : \A r \in Wrote(side), q \in ToSet(exported[side]) :
      SameItem(side, r, q) => q.time <= r.time

\* resolveTwoWayConflicts: an item the target holds is on the source after a
\* two-way run.
ItemsReturn ==
  phase = "done" /\ ~plan.refused /\ request.mode = "two-way" =>
    \A r \in ToSet(exported["target"]) : HasMatch(r, account["source"])

\* The pairs of a run that the user's choices decided.
Chosen == {p \in Unresolved(request, plan.pairs) : ConflictId(request, p[1], p[2]) \in DOMAIN choices}

\* oneWayConflictOutcome, resolveTwoWayConflicts: under manual a record is
\* written over a different one only if the user chose it, having seen both as
\* they are; a choice about records that have changed since refuses the run.
ManualLeavesDifferencesAlone ==
  request.policy = "manual" =>
    /\ \A side \in Side : \A r \in Wrote(side), q \in ToSet(exported[side]) :
         SameItem(side, r, q) /\ ~Equivalent(request, r, q) =>
           \E p \in Chosen \cap reviewed : r \in {p[1], p[2]}
    /\ phase = "done" =>
         \A id \in DOMAIN choices : (\A p \in Chosen : ConflictId(request, p[1], p[2]) # id) => plan.refused
=============================================================================
