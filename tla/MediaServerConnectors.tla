------------------------ MODULE MediaServerConnectors ------------------------
(***************************************************************************)
(* The importers of packages/connectors/src/jellyfin.ts and emby.ts.  A    *)
(* row is the user data of a library item: played (status 3), the play     *)
(* count, the rating, and the last time it was played (the rest).          *)
(* Jellyfin's answer to a write must show the written values; Emby is      *)
(* asked again.                                                            *)
(***************************************************************************)
EXTENDS ImportCall

JellyfinWants(feature) ==
  {Unsupported} \cup
  IF feature = "ratings" THEN {[rating |-> 1], [rating |-> 2]}
  ELSE {[status |-> 3], [status |-> 3, plays |-> 1], [status |-> 3, plays |-> 2, rest |-> 0]}

JellyfinRows(feature) ==
  IF feature = "ratings" THEN {[Absent EXCEPT !.rating = r] : r \in 0..2}
  ELSE {Absent} \cup [status : {3}, plays : {1, 2}, rating : {0}, rest : {0}]
         \cup {[status |-> 3, plays |-> 1, rating |-> 0, rest |-> 1]}

JellyfinValidate ==
  /\ pc = "validating"
  /\ call.service = "jellyfin"
  /\ IF AnyUnsupported THEN Fail ELSE Goto("reading")

\* Every rating is written, also one that is there.
JellyfinRatings ==
  /\ Doing("jellyfin", "ratings", "reading")
  /\ IF Conflicting THEN Fail ELSE Plan(Each(LAMBDA i : Put(i, Want(i)), Requested), "sending")

\* The play count is not to fall, the last time not to move back.
JellyfinWatched ==
  /\ Doing("jellyfin", "watched", "reading")
  /\ LET reduces(i) == \E f \in {"plays", "rest"} : f \in DOMAIN Want(i) /\ Want(i)[f] < account[i][f]
         open == {i \in Requested : ~Holds(account[i], Want(i))}
     IN  IF Conflicting \/ \E i \in Requested : reduces(i) THEN Fail
         ELSE Plan(Each(LAMBDA i : Put(i, Want(i)), open), "sending")

JellyfinWritten ==
  /\ Answered
  /\ call.service = "jellyfin"
  /\ IF answer = "applied" THEN Advance({}, "sending", "done") ELSE Fail

EmbyWants == {Unsupported, [status |-> 3]}
EmbyRows == {Absent, [status |-> 3, plays |-> 2, rating |-> 0, rest |-> 1]}

EmbyValidate ==
  /\ pc = "validating"
  /\ call.service = "emby"
  /\ IF AnyUnsupported THEN Fail ELSE Goto("reading")

\* Marks items as played, never as unplayed.
EmbyWatched ==
  /\ Doing("emby", "watched", "reading")
  /\ LET open == {i \in Requested : account[i].status # 3}
     IN  Plan(Each(LAMBDA i : Put(i, [status |-> 3]), open), "sending")

\* markPlayed: both the answer and the item read again say that it is played.
EmbyVerify ==
  /\ pc = "verifying"
  /\ call.service = "emby"
  /\ LET i == Target(Head(todo))
     IN  IF answer = "applied" /\ account[i].status = 3 THEN Advance({i}, "sending", "done") ELSE Fail

MediaServerNext ==
  \/ JellyfinValidate \/ JellyfinRatings \/ JellyfinWatched \/ JellyfinWritten
  \/ EmbyValidate \/ EmbyWatched \/ EmbyVerify

-----------------------------------------------------------------------------
(* Kodi: a row is an item of the library, with its play count, its user rating, the        *)
(* managed watchlist tag (status 1) and its other tags (the rest).  A play count and a tag *)
(* list are written as a whole, from the library as it was read at the start.              *)

KodiWants(feature, i) ==
  {Unsupported} \cup
  CASE feature = "ratings" -> {[rating |-> 1], [rating |-> 2]}
    [] feature = "watched" -> {[atLeast |-> 1], [plays |-> 1], [plays |-> 2]}
    [] feature = "watchlist" -> {[status |-> 1]}

KodiRows(feature) ==
  CASE feature = "ratings" -> {[Absent EXCEPT !.rating = r] : r \in 0..2}
    [] feature = "watched" -> {[Absent EXCEPT !.plays = n] : n \in 0..2}
    [] feature = "watchlist" -> {[status |-> s, plays |-> 0, rating |-> 0, rest |-> t] : s, t \in 0..1}

\* Only movies have tags.
KodiRefuses ==
  \/ AnyUnsupported
  \/ call.feature = "watchlist" /\ Requested \cap Episode # {}

KodiValidate ==
  /\ pc = "validating"
  /\ call.service = "kodi"
  /\ IF KodiRefuses THEN Fail ELSE Goto("reading")

KodiRatings ==
  /\ Doing("kodi", "ratings", "reading")
  /\ LET open == {i \in Requested : ~Holds(account[i], Want(i))}
     IN  IF Conflicting THEN Fail
         ELSE Plan(Each(LAMBDA i : Put(i, Want(i)), open), "sending")

\* A plain watched record needs one play if there is none; an exact count is never lowered.
KodiWatched ==
  /\ Doing("kodi", "watched", "reading")
  /\ LET open == {i \in Requested : ~Holds(account[i], Want(i))}
         minimum(i) == "atLeast" \in DOMAIN Want(i)
         playCount(i) == IF minimum(i) THEN 1 ELSE Want(i).plays
     IN  IF Conflicting \/ \E i \in Requested : ~minimum(i) /\ playCount(i) < account[i].plays
         THEN Fail
         ELSE Plan(Each(LAMBDA i : Put(i, [plays |-> playCount(i)]), open), "sending")

\* The whole tag list is written: the tags that were read, and the managed one.
KodiWatchlist ==
  /\ Doing("kodi", "watchlist", "reading")
  /\ LET open == {i \in Requested : account[i].status = 0}
     IN  Plan(Each(LAMBDA i : Put(i, [status |-> 1, rest |-> account[i].rest]), open), "sending")

\* The details read again have the value; of the tags, the managed one and every original one.
KodiVerify ==
  /\ pc = "verifying"
  /\ call.service = "kodi"
  /\ LET w == Head(todo)
         i == Target(w)
         confirmed == IF call.feature = "watchlist"
                      THEN account[i].status = 1 /\ account[i].rest >= seen[i].rest
                      ELSE Holds(account[i], w.rows[i])
     IN  IF confirmed THEN Advance({i}, "sending", "done") ELSE Fail

KodiNext ==
  KodiValidate \/ KodiRatings \/ KodiWatched \/ KodiWatchlist \/ KodiVerify
=============================================================================
