--------------------------- MODULE BangumiConnector ---------------------------
(***************************************************************************)
(* The importers of packages/connectors/src/bangumi.ts.  A subject has a   *)
(* collection status and a rating; an episode is not collected, wished or  *)
(* dropped (1) or seen (3).  The whole batch is checked against the        *)
(* collection before the first write; nothing is read again after it.      *)
(***************************************************************************)
EXTENDS ImportCall

BangumiWants(feature, i) ==
  {Unsupported} \cup
  CASE feature = "ratings" -> {[rating |-> 1], [rating |-> 2]}
    [] feature = "watchlist" -> {[status |-> 1]}
    [] feature = "watched" ->
         IF i \in Episode THEN {[status |-> 3]}
         ELSE [status : {2, 3}] \cup [status : {2, 3}, progress : {0, 1}]

BangumiRows(feature, i) ==
  IF i \in Episode THEN {[Absent EXCEPT !.status = s] : s \in {0, 1, 3}}
  ELSE {[Absent EXCEPT !.status = s] : s \in 0..3} \cup {[status |-> 2, plays |-> 0, rating |-> 2, rest |-> 0]}

Titles == Requested \ Episode
MainEpisodes(t) == {e \in Episode : Parent[e] = t}
doneIds(t) == MainEpisodes(t) \cap Requested

\* Entries it cannot keep, contradictions, and episodes without their subject's own entry;
\* a subject wished twice counts once.
BangumiRefuses ==
  \/ AnyUnsupported
  \/ call.feature # "watchlist" /\ Conflicting
  \/ call.feature # "watched" /\ Requested \cap Episode # {}
  \/ \E e \in Requested \cap Episode : Parent[e] \notin Requested

BangumiValidate ==
  /\ pc = "validating"
  /\ call.service = "bangumi"
  /\ IF BangumiRefuses THEN Fail ELSE Goto("reading")

\* PATCH, which must not create a collection.
BangumiRatings ==
  /\ Doing("bangumi", "ratings", "reading")
  /\ IF \E i \in Requested : account[i].status = 0 THEN Fail
     ELSE Plan(Each(LAMBDA t : Put(t, Want(t)), Titles), "sending")

BangumiWatchlist ==
  /\ Doing("bangumi", "watchlist", "reading")
  /\ IF \E i \in Requested : account[i].status > 1 THEN Fail
     ELSE Plan(Each(LAMBDA t : Put(t, [status |-> 1]), {t \in Titles : account[t].status = 0}), "sending")

\* An aggregate progress must be exactly the requested main episodes, fit the status, and
\* leave out none that is seen already.
progressFits(t) ==
  LET progress == Want(t).progress
      main == MainEpisodes(t)
  IN  /\ progress = Cardinality(doneIds(t))
      /\ Want(t).status = 3 => progress = Cardinality(main)
      /\ Want(t).status = 2 => main = {} \/ progress < Cardinality(main)
      /\ \A e \in main \ doneIds(t) : account[e].status # 3

writeCollection(t) == Put(t, [status |-> Want(t).status])
writeEpisodes(t) == [kind |-> "episodes", rows |-> [e \in doneIds(t) |-> [status |-> 3]]]

\* A plausible bug: what was written once is taken to stay.
WritesOnce ==
  LET withEpisodes == {t \in Titles : doneIds(t) # {}}
  IN  Each(writeCollection, Titles) \o Each(writeEpisodes, withEpisodes)

\* Every status, every subject's episodes, and the status again of the subjects whose
\* episodes were written, because the provider works it out anew from them.
BangumiWrites ==
  LET withEpisodes == {t \in Titles : doneIds(t) # {}}
  IN  Each(writeCollection, Titles) \o Each(writeEpisodes, withEpisodes) \o Each(writeCollection, withEpisodes)

BangumiWatched ==
  /\ Doing("bangumi", "watched", "reading")
  /\ IF \/ \E t \in Titles : account[t].status = 1
        \/ \E e \in Requested \cap Episode : account[e].status = 1
        \/ \E t \in Titles : "progress" \in DOMAIN Want(t) /\ ~progressFits(t)
     THEN Fail
     ELSE Plan(BangumiWrites, "sending")

\* HTTP 204 is all that is asked for.
BangumiWritten ==
  /\ Answered
  /\ call.service = "bangumi"
  /\ Advance({}, "sending", "done")

BangumiNext ==
  \/ BangumiValidate \/ BangumiRatings \/ BangumiWatchlist \/ BangumiWatched
  \/ BangumiWritten
=============================================================================
