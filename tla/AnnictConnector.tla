--------------------------- MODULE AnnictConnector ---------------------------
(***************************************************************************)
(* The importers of packages/connectors/src/annict.ts.  A work has a list  *)
(* status; an episode has a history of records, one for each play, that    *)
(* can only be added to.  Every write is preceded by a reread that must    *)
(* still agree with the preflight and followed by one that must show it.   *)
(***************************************************************************)
EXTENDS ImportCall

CONSTANT MaxNewPlays    \* the records a call may create

ASSUME AnnictAssumption == MaxNewPlays \in Nat

AnnictWants(feature, i) ==
  IF feature = "watchlist" THEN {[status |-> 1], Unsupported}
  ELSE IF i \in Episode THEN {[atLeast |-> 1], [plays |-> 1], [plays |-> 2]}
  ELSE {[status |-> 2], [status |-> 3], Unsupported}

AnnictRows(i) ==
  {r \in Row : /\ r.rating = 0 /\ r.rest = 0
               /\ IF i \in Episode THEN r.status = 0 ELSE r.plays = 0}

\* Rejected before anything is asked of the provider.
AnnictRefuses ==
  \/ AnyUnsupported
  \/ call.feature = "watchlist" /\ (Repeated \/ \E i \in Requested : i \in Episode)
  \/ call.feature = "watched" /\ Conflicting

AnnictValidate ==
  /\ pc = "validating"
  /\ call.service = "annict"
  /\ IF AnnictRefuses THEN Fail ELSE Goto("resolving")

\* Exactly the requested works, and episodes of exactly the requested works, or the import fails.
AnnictResolve ==
  /\ pc = "resolving"
  /\ call.service = "annict"
  /\ Goto("reading")

AnnictWatchlist ==
  /\ Doing("annict", "watchlist", "reading")
  /\ IF \E i \in Requested : account[i].status > 1
     THEN Fail
     ELSE LET writes == Each(LAMBDA i : Put(i, [status |-> 1]), {i \in Requested : account[i].status = 0})
          IN  Plan(writes, IF writes = <<>> THEN "sending" ELSE "checking")

\* The plays an episode is to have, given those it has.
Plays(i, before) ==
  IF i \notin Requested THEN before
  ELSE IF "atLeast" \notin DOMAIN Want(i) THEN Want(i).plays
  ELSE IF before = 0 THEN 1 ELSE before

transitionAllowed(current, desired) == current = 3 => desired = 3

NewStatuses ==
  Each(LAMBDA i : Put(i, [status |-> Want(i).status]),
       {i \in Requested \ Episode : account[i].status # Want(i).status})

\* The records that are missing: of each episode as many as it lacks, the episodes in the
\* order of the entries.
Missing(i) == Plays(i, account[i].plays) - account[i].plays
NewRecords == UNION {{i} \X (1..Missing(i)) : i \in Requested \cap Episode}
RecordKey == [r \in NewRecords |-> FirstEntry[r[1]] * (MaxNewPlays + 1) + r[2]]
NewPlays ==
  LET new == Sorted(NewRecords, RecordKey)
  IN  [n \in DOMAIN new |-> Play(new[n][1])]

AnnictWatched ==
  /\ Doing("annict", "watched", "reading")
  /\ LET reduced == \/ \E i \in Requested \ Episode : ~transitionAllowed(account[i].status, Want(i).status)
                    \/ \E i \in Requested \cap Episode : Missing(i) < 0
     IN  IF reduced \/ Cardinality(NewRecords) > MaxNewPlays THEN Fail
         ELSE Plan(NewStatuses \o NewPlays,
                   IF NewStatuses # <<>> THEN "checking"
                   ELSE IF NewPlays # <<>> THEN "rechecking" ELSE "sending")

IsRecord(w) == w.kind = "play"

\* getCurrentStatus before the POST: the status must be the one of the preflight.
AnnictCheck ==
  /\ pc = "checking"
  /\ call.service = "annict"
  /\ LET i == Target(Head(todo))
     IN  IF account[i].status = seen[i].status THEN Look({i}, "sending") ELSE Fail

\* The whole record history must be the one of the preflight.
AnnictRecheck ==
  /\ pc = "rechecking"
  /\ call.service = "annict"
  /\ IF \A i \in Episode : account[i].plays = seen[i].plays
     THEN Look(Episode, "sending")
     ELSE Fail

\* The status, or the record the answer named, read again.
AnnictVerify ==
  /\ pc = "verifying"
  /\ call.service = "annict"
  /\ LET w == Head(todo)
         rest == Tail(todo)
     IN  IF IsRecord(w)
         THEN IF answer = "applied" THEN Advance({}, "sending", "final") ELSE Fail
         ELSE IF Holds(account[Target(w)], w.rows[Target(w)])
              THEN Advance({Target(w)},
                           IF rest # <<>> /\ IsRecord(Head(rest)) THEN "rechecking" ELSE "checking",
                           "done")
              ELSE Fail

\* The history read once more: what was there, what was created, and nothing else.
AnnictFinal ==
  /\ pc = "final"
  /\ call.service = "annict"
  /\ IF \A i \in Episode : account[i].plays = Plays(i, seen[i].plays)
     THEN Succeed(Episode)
     ELSE Fail

AnnictNext ==
  \/ AnnictValidate \/ AnnictResolve \/ AnnictWatchlist \/ AnnictWatched
  \/ AnnictCheck \/ AnnictRecheck \/ AnnictVerify \/ AnnictFinal
=============================================================================
