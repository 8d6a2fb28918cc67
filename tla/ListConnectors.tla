---------------------------- MODULE ListConnectors ----------------------------
(***************************************************************************)
(* The importers of packages/connectors/src/myanimelist.ts, tmdb.ts,       *)
(* movary.ts and anilist.ts, which build all their writes first and read   *)
(* nothing but, for AniList's followings, the users.  MyAnimeList and TMDb *)
(* write entry by entry, Movary in one request; AniList writes entry by    *)
(* entry and checks that the answer shows the entry.                       *)
(***************************************************************************)
EXTENDS ImportCall

ListServices == {"myanimelist", "tmdb", "movary", "anilist"}

ListWants(service, feature) ==
  {Unsupported} \cup
  CASE feature = "ratings" -> {[rating |-> 1], [rating |-> 2]}
    [] feature \in {"watchlist", "following"} -> {[status |-> 1]}
    [] feature = "reviews" -> {[rest |-> 1]}
    [] feature = "watched" ->
         IF service = "movary" THEN {[atLeast |-> 1]}
         ELSE {[status |-> 2, plays |-> 0], [status |-> 3, plays |-> 1]}

ListRows(feature) ==
  {Absent} \cup IF feature = "following" THEN {[Absent EXCEPT !.status = 1]}
                ELSE {[status |-> 2, plays |-> 1, rating |-> 1, rest |-> 0]}

\* One write of a list row per entry, or one request for all.
ListWrites ==
  IF call.service # "movary" THEN [n \in DOMAIN Entries |-> Put(Entries[n].item, Entries[n].want)]
  ELSE <<[kind |-> IF call.feature = "watched" THEN "play" ELSE "put",
          rows |-> [i \in Requested |-> Want(i)]]>>

ListImport ==
  /\ pc = "validating"
  /\ call.service \in ListServices
  /\ call.feature # "following"
  /\ IF AnyUnsupported THEN Fail ELSE Plan(ListWrites, "sending")

\* AniList has no way to follow but to toggle: only the users that are not followed are.
AniListFollowing ==
  /\ pc = "validating"
  /\ call.service = "anilist"
  /\ call.feature = "following"
  /\ LET users == {i \in Requested : account[i].status = 0}
     IN  \/ Fail
         \/ /\ ~AnyUnsupported
            /\ ~Repeated
            /\ Plan(Each(Toggle, users), "sending")

ListWritten ==
  /\ Answered
  /\ call.service \in ListServices
  /\ IF call.service = "anilist" /\ answer # "applied" THEN Fail ELSE Advance({}, "sending", "done")

ListNext == ListImport \/ AniListFollowing \/ ListWritten
=============================================================================
