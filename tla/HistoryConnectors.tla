-------------------------- MODULE HistoryConnectors --------------------------
(***************************************************************************)
(* The importers of packages/connectors/src/simkl.ts and trakt.ts.         *)
(***************************************************************************)
EXTENDS ImportCall

-----------------------------------------------------------------------------
(* Simkl: nothing is read but the account's plan.  Ratings and the watchlist are one       *)
(* request each; the history is one request for the first views of all items, then one     *)
(* for every rewatch session, oldest first.  An entry of the history is about a view at a  *)
(* time ("at"), which is an item's first or, with "rewatch", one more.                     *)

SimklWants(feature) ==
  {Unsupported} \cup
  CASE feature = "ratings" -> {[rating |-> 1], [rating |-> 2]}
    [] feature = "watchlist" -> {[status |-> 1]}
    [] feature = "watched" -> [status : {3}, at : {1, 2}] \cup [rewatch : {TRUE}, at : {1, 2}]

SimklRows == {Absent, [status |-> 3, plays |-> 1, rating |-> 1, rest |-> 0]}

IsRewatch(e) == "rewatch" \in DOMAIN e.want
Rewatches == {n \in DOMAIN Entries : IsRewatch(Entries[n])}
FirstViews == {e.item : e \in {x \in Range(Entries) : ~IsRewatch(x)}}

\* prepareHistory: one first view of an item, and 48 hours between any two of its views.
SimklRefuses ==
  \/ AnyUnsupported
  \/ call.feature = "watched"
       /\ \E m, n \in DOMAIN Entries :
            /\ m < n
            /\ Entries[m].item = Entries[n].item
            /\ \/ ~IsRewatch(Entries[m]) /\ ~IsRewatch(Entries[n])
               \/ Entries[m].want.at = Entries[n].want.at

OneRequest == [kind |-> "put", rows |-> [i \in Requested |-> Want(i)]]

SimklLists ==
  /\ pc = "validating"
  /\ call.service = "simkl"
  /\ call.feature # "watched"
  /\ IF SimklRefuses THEN Fail ELSE Plan(<<OneRequest>>, "sending")

SimklValidate ==
  /\ Doing("simkl", "watched", "validating")
  /\ IF SimklRefuses THEN Fail ELSE Goto("reading")

\* supportsRewatches: a plan that is neither pro nor vip has none.
SimklHistory ==
  /\ Doing("simkl", "watched", "reading")
  /\ LET normal == [kind |-> "put", rows |-> [i \in FirstViews |-> [status |-> 3]]]
         byTime == [n \in Rewatches |-> Entries[n].want.at * (Len(Entries) + 1) + n]
         oldestFirst == Sorted(Rewatches, byTime)
         sessions == [n \in DOMAIN oldestFirst |-> Play(Entries[oldestFirst[n]].item)]
     IN  \/ Plan((IF FirstViews = {} THEN <<>> ELSE <<normal>>) \o sessions, "sending")
         \/ Rewatches # {} /\ Fail

\* postHistory fails when records were not found; the other requests do not look.
SimklWritten ==
  /\ Answered
  /\ call.service = "simkl"
  /\ IF call.feature = "watched" /\ answer = "partial" THEN Fail ELSE Advance({}, "sending", "done")

SimklNext == SimklLists \/ SimklValidate \/ SimklHistory \/ SimklWritten

-----------------------------------------------------------------------------
(* Trakt: ratings, history and watchlist are one request each, with no read before or      *)
(* after.  Reviews and followings are checked against the account first, written one by    *)
(* one, confirmed by each answer and by a last read of the whole list.  Of a review, plays *)
(* counts the ones with exactly its text, and the rest tells whether one that differs only *)
(* in form is there.  Of a user, status 1 is to be followed, and the rest a profile that   *)
(* cannot be: it is private, deleted or the account's own.                                 *)

Batches == {"ratings", "watched", "watchlist"}

TraktWants(feature) ==
  {Unsupported} \cup
  CASE feature = "ratings" -> {[rating |-> 1], [rating |-> 2]}
    [] feature \in {"watched", "reviews"} -> {[atLeast |-> 1]}
    [] feature \in {"watchlist", "following"} -> {[status |-> 1]}

TraktRows(feature) ==
  CASE feature \in Batches -> {Absent, [status |-> 1, plays |-> 1, rating |-> 1, rest |-> 0]}
    [] feature = "reviews" -> {[status |-> 0, plays |-> n, rating |-> 0, rest |-> r] : n, r \in 0..1}
    [] feature = "following" -> {[status |-> s, plays |-> 0, rating |-> 0, rest |-> r] : s, r \in 0..1}

\* One request: a history entry is a play more, whatever the history has.
TraktBatch ==
  /\ pc = "validating"
  /\ call.service = "trakt"
  /\ call.feature \in Batches
  /\ LET kind == IF call.feature = "watched" THEN "play" ELSE "put"
     IN  IF AnyUnsupported THEN Fail
         ELSE Plan(<<[kind |-> kind, rows |-> [i \in Requested |-> Want(i)]]>>, "sending")

\* The whole batch is valid and names nothing twice.
TraktValidate ==
  /\ pc = "validating"
  /\ call.service = "trakt"
  /\ call.feature \notin Batches
  /\ IF AnyUnsupported \/ Repeated THEN Fail
     ELSE IF call.dryRun THEN Succeed({}) ELSE Goto("reading")

\* /users/settings must grant the permission; then the reviews of the account are read.  An
\* exact one is not written again, one that differs only in form ends the import.
TraktReviews ==
  /\ Doing("trakt", "reviews", "reading")
  /\ LET toCreate == {i \in Requested : account[i].plays = 0}
     IN  \/ Fail
         \/ /\ \A i \in toCreate : account[i].rest = 0
            /\ Plan(Each(Play, toCreate), "sending")

\* The same for the users it follows.
TraktFollowing ==
  /\ Doing("trakt", "following", "reading")
  /\ LET unresolved == {i \in Requested : account[i].status = 0}
     IN  \/ Fail
         \/ Plan(Each(LAMBDA i : Put(i, [status |-> 1]), unresolved),
                 IF unresolved = {} THEN "sending" ELSE "checking")

\* Every user to be followed has a public profile, before the first is followed.
TraktProfiles ==
  /\ Doing("trakt", "following", "checking")
  /\ IF \A n \in DOMAIN todo : account[Target(todo[n])].rest = 0 THEN Goto("sending") ELSE Fail

\* verifyCreatedComment and validateCreatedFollow: the answer shows the review, or a follow that
\* is not waiting for approval.  A batch's answer is not looked at.
TraktWritten ==
  /\ Answered
  /\ call.service = "trakt"
  /\ IF call.feature \in Batches THEN Advance({}, "sending", "done")
     ELSE IF answer = "applied" THEN Advance({}, "sending", "final") ELSE Fail

\* What was created is in the list read at the end.
TraktFinal ==
  /\ pc = "final"
  /\ call.service = "trakt"
  /\ LET created == {i \in Requested : ~Holds(seen[i], Want(i))}
     IN  IF \A i \in created : Holds(account[i], Want(i)) THEN Succeed(created) ELSE Fail

TraktNext ==
  \/ TraktBatch \/ TraktValidate \/ TraktReviews \/ TraktFollowing \/ TraktProfiles
  \/ TraktWritten \/ TraktFinal
=============================================================================
