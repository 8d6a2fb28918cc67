---------------------------- MODULE PlexConnector ----------------------------
(***************************************************************************)
(* The importers of packages/connectors/src/plex.ts.  A row is an item of  *)
(* the server's library: a rating, a view count (plays) and its identity   *)
(* (the rest).  All targets are read again before the first mutation, and  *)
(* each is read again after its own.                                       *)
(***************************************************************************)
EXTENDS ImportCall

PlexWants(feature) ==
  {Unsupported} \cup
  IF feature = "ratings" THEN {[rating |-> 1], [rating |-> 2]} ELSE {[atLeast |-> 1]}

PlexRows(feature) ==
  IF feature = "ratings" THEN [status : {0}, plays : {1}, rating : 0..1, rest : 0..1]
  ELSE [status : {0}, plays : 0..1, rating : {0}, rest : 0..1]

PlexValidate ==
  /\ pc = "validating"
  /\ call.service = "plex"
  /\ IF AnyUnsupported THEN Fail ELSE Goto("reading")

\* The library is read and every entry resolved to exactly one item, without contradictions.
PlexPlan ==
  /\ pc = "reading"
  /\ call.service = "plex"
  /\ LET open == {i \in Requested : ~Holds(account[i], Want(i))}
         write(i) == IF call.feature = "ratings" THEN Put(i, Want(i)) ELSE Play(i)
     IN  IF Conflicting THEN Fail
         ELSE Plan(Each(write, open), "rechecking")

\* Every target is still the item of the preflight, the ones that need no write included.
Unchanged(i) ==
  /\ account[i].rest = seen[i].rest
  /\ IF call.feature = "ratings" THEN account[i].rating = seen[i].rating
                                 ELSE account[i].plays = seen[i].plays

PlexRecheck ==
  /\ pc = "rechecking"
  /\ call.service = "plex"
  /\ IF \E i \in Requested : ~Unchanged(i) THEN Fail
     ELSE IF todo = <<>> THEN Succeed(Requested)
     ELSE Look(Requested, "sending")

PlexVerify ==
  /\ pc = "verifying"
  /\ call.service = "plex"
  /\ LET i == Target(Head(todo))
     IN  IF account[i].rest = seen[i].rest /\ Holds(account[i], Want(i))
         THEN Advance({i}, "sending", "done")
         ELSE Fail

PlexNext == PlexValidate \/ PlexPlan \/ PlexRecheck \/ PlexVerify
=============================================================================
