------------------------- MODULE ShikimoriConnector -------------------------
(***************************************************************************)
(* The importers of packages/connectors/src/shikimori.ts.  A row is a user *)
(* rate: a list status, the progress with its rewatches (plays), a score   *)
(* and a text (the rest).  A rate is patched only if it is still the one   *)
(* of the snapshot in every field, created only if there still is none,    *)
(* and read again afterwards: the requested fields exact, all others       *)
(* untouched.                                                              *)
(***************************************************************************)
EXTENDS ImportCall

CONSTANT Full   \* the progress that means the whole series was seen

ASSUME ShikimoriAssumption == Full \in Nat

ShikimoriWants(feature) ==
  {Unsupported} \cup
  CASE feature = "ratings" -> {[rating |-> 1]}
    [] feature = "watchlist" -> {[status |-> 1]}
    [] feature = "watched" -> {[status |-> 2, plays |-> 0], [status |-> 2, plays |-> 1],
                               [status |-> 3, plays |-> Full]}

ShikimoriRows(feature) ==
  {Absent, [status |-> 1, plays |-> 0, rating |-> 2, rest |-> 0]} \cup
  {[status |-> 2, plays |-> 1, rating |-> 0, rest |-> 1],
   IF feature = "ratings" THEN [status |-> 2, plays |-> 1, rating |-> 1, rest |-> 0]
   ELSE [status |-> 3, plays |-> Full, rating |-> 1, rest |-> 0]}

\* A token without the write scope, an entry that cannot be kept, or the same title twice.
ShikimoriRefuses == AnyUnsupported \/ Repeated

ShikimoriValidate ==
  /\ pc = "validating"
  /\ call.service = "shikimori"
  /\ \/ ~ShikimoriRefuses /\ Goto("reading")
     \/ Fail

\* The provider would move a rate to another list on its own.
rejectKnownServerNormalization(row, want) ==
  /\ row.status = want.status
  /\ row.plays # want.plays
  /\ want.status = 2
  /\ want.plays \in {0, Full}

ShikimoriPlan ==
  /\ pc = "reading"
  /\ call.service = "shikimori"
  /\ LET open == {i \in Requested : ~Holds(account[i], Want(i))}
         writes == Each(LAMBDA i : Put(i, Want(i)), open)
         impossible(i) ==
           CASE call.feature = "ratings" -> account[i].status = 0
             [] call.feature = "watchlist" -> account[i].status > 1
             [] call.feature = "watched" -> rejectKnownServerNormalization(account[i], Want(i))
     IN  IF \E i \in Requested : impossible(i) THEN Fail
         ELSE Plan(writes, IF writes = <<>> THEN "sending" ELSE "checking")

\* A plausible bug: the rate is read again, and not compared.
CheckNothing ==
  /\ pc = "checking"
  /\ call.service = "shikimori"
  /\ Look({Target(Head(todo))}, "sending")

\* getRate must return the snapshot, or findCurrentRate still nothing.
ShikimoriCheck ==
  /\ pc = "checking"
  /\ call.service = "shikimori"
  /\ LET i == Target(Head(todo))
     IN  IF account[i] = seen[i] THEN Look({i}, "sending") ELSE Fail

assertPostWrite(before, after, fields) ==
  /\ Holds(after, fields)
  /\ before.status # 0 => \A f \in DOMAIN after \ DOMAIN fields : after[f] = before[f]

ShikimoriVerify ==
  /\ pc = "verifying"
  /\ call.service = "shikimori"
  /\ LET w == Head(todo)
     IN  IF assertPostWrite(seen[Target(w)], account[Target(w)], w.rows[Target(w)])
         THEN Advance({Target(w)}, "checking", "done")
         ELSE Fail

ShikimoriNext ==
  \/ ShikimoriValidate \/ ShikimoriPlan \/ ShikimoriCheck \/ ShikimoriVerify
=============================================================================
