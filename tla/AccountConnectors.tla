-------------------------- MODULE AccountConnectors --------------------------
(***************************************************************************)
(* The importers of all account connectors, one call of one of them at a   *)
(* time.                                                                   *)
(***************************************************************************)
EXTENDS AnnictConnector, ShikimoriConnector, PlexConnector, BangumiConnector,
        MediaServerConnectors, HistoryConnectors, ListConnectors

CONSTANT Calls   \* the calls that are made: service, feature, dryRun and entries

Services == {"annict", "shikimori", "plex", "bangumi", "kodi", "jellyfin", "emby", "simkl", "trakt"}
              \cup ListServices

\* The features that a service's connector has an importer for.
Imports(service) ==
  CASE service = "annict" -> {"watched", "watchlist"}
    [] service \in {"shikimori", "bangumi", "kodi", "simkl", "myanimelist"} ->
         {"ratings", "watched", "watchlist"}
    [] service \in {"plex", "jellyfin"} -> {"ratings", "watched"}
    [] service = "emby" -> {"watched"}
    [] service = "tmdb" -> {"ratings", "watchlist"}
    [] service = "movary" -> {"watched", "watchlist"}
    [] service \in {"trakt", "anilist"} -> {"ratings", "watched", "watchlist", "reviews", "following"}

\* What an entry can want, and the rows an account can have.
Wants(service, feature, i) ==
  CASE service = "annict" -> AnnictWants(feature, i)
    [] service = "shikimori" -> ShikimoriWants(feature)
    [] service = "plex" -> PlexWants(feature)
    [] service = "bangumi" -> BangumiWants(feature, i)
    [] service = "kodi" -> KodiWants(feature, i)
    [] service = "jellyfin" -> JellyfinWants(feature)
    [] service = "emby" -> EmbyWants
    [] service = "simkl" -> SimklWants(feature)
    [] service = "trakt" -> TraktWants(feature)
    [] service \in ListServices -> ListWants(service, feature)

\* Calls are about items of the account and what each service can be asked for.
ASSUME CallsAssumption ==
  \A c \in Calls :
    /\ c.service \in Services /\ c.feature \in Imports(c.service) /\ c.dryRun \in BOOLEAN
    /\ c.entries \in Seq(UNION {[item : {i}, want : Wants(c.service, c.feature, i)] : i \in Item})

Rows(service, feature, i) ==
  CASE service = "annict" -> AnnictRows(i)
    [] service = "shikimori" -> ShikimoriRows(feature)
    [] service = "plex" -> PlexRows(feature)
    [] service = "bangumi" -> BangumiRows(feature, i)
    [] service = "kodi" -> KodiRows(feature)
    [] service = "jellyfin" -> JellyfinRows(feature)
    [] service = "emby" -> EmbyRows
    [] service = "simkl" -> SimklRows
    [] service = "trakt" -> TraktRows(feature)
    [] service \in ListServices -> ListRows(feature)

Concerned(i) == i \in Requested \cup {Parent[e] : e \in Requested \cap Episode}

Init ==
  /\ call \in Calls
  /\ account \in {rows \in [Item -> UNION {Rows(call.service, call.feature, i) : i \in Item}] :
                   \A i \in Item : rows[i] \in IF Concerned(i) THEN Rows(call.service, call.feature, i)
                                               ELSE {Absent}}
  /\ seen = account
  /\ pc = "validating"
  /\ todo = <<>>
  /\ wire = {}
  /\ answer = "none"
  /\ moved = {}
  /\ outcome = "running"
  /\ edits = 0
  /\ calls = 1

Connector ==
  \/ AnnictNext \/ ShikimoriNext \/ PlexNext \/ BangumiNext \/ KodiNext
  \/ MediaServerNext \/ SimklNext \/ TraktNext \/ ListNext
  \/ Send \/ Reread \/ WriteFails

Next ==
  \/ Connector
  \/ ReadFails
  \/ \E m \in wire :
       \/ \E done \in SUBSET DOMAIN m.write.rows, derived \in 2..3 : Arrive(m, done, derived)
       \/ Vanish(m)
  \/ \E i \in {x \in Item : Concerned(x)} :
       \E row \in Rows(call.service, call.feature, i) : Edit(i, row)
  \/ Again

Spec == Init /\ [][Next]_vars

-----------------------------------------------------------------------------
(* Properties *)

Succeeds == outcome # "ok" /\ outcome' = "ok" /\ ~call.dryRun

\* Requests whose answers tell what was not found, to importers that do not look.
Unread == TellsNotFound /\ ~(call.service = "simkl" /\ call.feature = "watched")

Rechecking == {"annict", "shikimori", "plex"}

(***************************************************************************)
(* An import reports success only when every requested record is at the    *)
(* provider as it was wanted, whatever values a provider drops of those    *)
(* that are asked again; a record that someone else changed after it was   *)
(* last read is all that may differ.  The importers of Trakt's and Simkl's *)
(* batches that do not look at what was not found are left out.            *)
(***************************************************************************)
SuccessIsReal ==
  [][Succeeds /\ ~Unread =>
       \A e \in Range(Entries) : Holds(account[e.item], e.want) \/ e.item \in moved']_vars

\* No entry of the call contradicts another.
Agreeing(c) == \A d, e \in Range(c.entries) : d.item = e.item => d.want = e.want

\* The services that take the entries one after the other, as they come, are not asked for two
\* things of one item.
ListsAgree == \A c \in Calls : c.service \in ListServices => Agreeing(c)

(***************************************************************************)
(* A connector that rereads before it writes overwrites only the values    *)
(* its plan was made from, or those that someone put there after the       *)
(* reread.                                                                 *)
(***************************************************************************)
OthersChangesSurvive ==
  [][\A m \in wire \ wire' :
       call.service \in Rechecking /\ Current(m) /\ answer' = "applied" =>
         \A i \in DOMAIN m.write.rows \ moved :
           \A f \in DOMAIN m.write.rows[i] : account[i][f] = seen[i][f]]_vars

Abstract == INSTANCE AccountImport WITH
  requested <- Requested,
  dryRun <- call.dryRun,
  phase <- outcome,
  pending <- UNION {DOMAIN m.write.rows : m \in {x \in wire : x.call = calls}},
  late <- UNION {DOMAIN m.write.rows : m \in {x \in wire : x.call < calls}}

(***************************************************************************)
(* Every importer is an AccountImport, which is what the sync and the      *)
(* restore above it rely on: requested records only, nothing in a dry run, *)
(* nothing of its own on the way when it reports success.                  *)
(***************************************************************************)
ImplementsAccountImport == Abstract!Spec
=============================================================================
