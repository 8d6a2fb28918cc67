---------------------------- MODULE AccountReading ----------------------------
(***************************************************************************)
(* How the connectors (packages/connectors/src) connect to an account and  *)
(* read a list of it: the requests by which connect learns who answers,    *)
(* then the list page by page.  Every connector has a protocol of its own  *)
(* for pages, with its own checks, while the list changes, the address     *)
(* comes to lead elsewhere, or the provider does not page as it should.    *)
(***************************************************************************)
EXTENDS Naturals, Sequences, FiniteSets, Functions

CONSTANTS
  Reader,       \* the connectors, "works" and "records" being Annict's two lists
  MaxRow,       \* the rows a list can have are 1..MaxRow, in the provider's order
  PageSize,     \* the rows of a full page
  MaxPages,     \* the connectors' limit on pages, and on rows
  MaxRecords,
  MaxChanges,   \* bound on the changes of the list while it is read
  MaxSwaps      \* bound on how often an address comes to lead elsewhere

ReadingAssumption ==
  /\ MaxRow \in Nat
  /\ PageSize \in Nat \ {0} /\ MaxPages \in Nat \ {0} /\ MaxRecords \in Nat
  /\ MaxChanges \in Nat /\ MaxSwaps \in Nat

VARIABLES
  reader,     \* whose list is read
  manner,     \* how the provider pages
  rows,       \* rows[s]: the list at server (or account) s
  leads,      \* leads[a]: the server that address a leads to, 0 for none
  base,       \* the address in use
  pc,         \* the request under way, or "done" or "failed"
  identity,   \* the server connect has verified, 0 for none
  evidence,   \* the servers whose answers connect has accepted
  out,        \* the rows read, each with the server it came from
  place,      \* where the next page begins: an offset, a page, a cursor or a link
  visited,    \* the places that pages were read from
  total,      \* the total the pages have declared, None before the first
  changes, swaps

vars == <<reader, manner, rows, leads, base, pc, identity, evidence, out, place, visited,
          total, changes, swaps>>

session == <<reader, manner, base, identity, evidence>>
world == <<rows, leads, changes, swaps>>
reading == <<out, place, visited, total>>

Server == 1..2
Configured == 1      \* the server or account that the user configured
Address == 1..2      \* only Plex has more than one
None == MaxRow + 1

Handshake(r) ==
  CASE r \in {"works", "records"} -> "token"
    [] r = "shikimori" -> "whoami"
    [] r = "plex" -> "resources"
    [] r \in {"bangumi", "jellyfin"} -> "me"
    [] r = "anilist" -> "viewer of the list"
    [] r = "emby" -> "system"
    [] r = "kodi" -> "rpc"
    [] OTHER -> "reading"

\* "short" pages have one row; a "stuck" provider answers with its first page whatever was
\* asked; one that sends the "whole" list says nothing about pages, one with "offsets" nothing
\* about totals.
Manner(r) ==
  {"honest", "short", "stuck"} \cup
  CASE r = "plex" -> {"whole", "offsets"}
    [] r = "trakt" -> {"whole"}
    [] OTHER -> {}

\* The other server has the same rows to begin with, which is the hardest to notice.
Init ==
  /\ reader \in Reader
  /\ manner \in Manner(reader)
  /\ \E list \in SUBSET (1..MaxRow) : rows = [s \in Server |-> list]
  /\ leads \in [Address -> Server \cup {0}]
  /\ reader # "plex" => \A a \in Address : leads[a] = Configured
  /\ base = 1
  /\ pc = Handshake(reader)
  /\ identity = 0
  /\ evidence = {}
  /\ out = <<>>
  /\ place = 0
  /\ visited = {}
  /\ total = None
  /\ changes = 0
  /\ swaps = 0

-----------------------------------------------------------------------------
(* Connecting *)

Answering == leads[base]

Fail ==
  /\ pc' = "failed"
  /\ UNCHANGED <<session, world, reading>>

\* The answer is accepted: s is the verified server from now on, and next is the next request.
Accept(s, next) ==
  /\ pc' = next
  /\ identity' = s
  /\ evidence' = evidence \cup {Answering}
  /\ UNCHANGED <<reader, manner, base, world, reading>>

\* Annict: the resource owner of the token, then /v1/me, then the GraphQL viewer.
AnnictToken == pc = "token" /\ Accept(Answering, "user id")

AnnictMe ==
  /\ pc = "user id"
  /\ IF Answering = identity THEN Accept(identity, "viewer") ELSE Fail

AnnictViewer ==
  /\ pc = "viewer"
  /\ IF Answering = identity THEN Accept(identity, "reading") ELSE Fail

ShikimoriWhoAmI ==
  /\ pc = "whoami"
  /\ IF Answering = Configured THEN Accept(Answering, "reading") ELSE Fail

\* /Users/Me and /v0/me: whoever answers is the account.
JellyfinMe == pc = "me" /\ reader = "jellyfin" /\ Accept(Answering, "reading")

BangumiMe == pc = "me" /\ reader = "bangumi" /\ Accept(Answering, "reading")

AniListViewer ==
  /\ pc = "viewer of the list"
  /\ IF Answering = Configured THEN Accept(Answering, "reading") ELSE Fail

EmbySystem == pc = "system" /\ Accept(Answering, "server user")

\* The configured user, on the server that answered first.
EmbyUser ==
  /\ pc = "server user"
  /\ IF Answering = identity THEN Accept(identity, "reading") ELSE Fail

\* Five requests about versions, profile and permissions, none of which names the library.
KodiHandshake == pc = "rpc" /\ Accept(Answering, "reading")

\* The addresses of the configured server, from the account.
PlexResources ==
  /\ pc = "resources"
  /\ pc' = "identity"
  /\ UNCHANGED <<session, world, reading>>

\* The first address that attests the configured server is used; errors only move on.
PlexIdentity ==
  /\ pc = "identity"
  /\ IF Answering = Configured THEN Accept(Answering, "root")
     ELSE IF base + 1 \in Address
          THEN base' = base + 1 /\ UNCHANGED <<pc, reader, manner, identity, evidence, world, reading>>
          ELSE Fail

\* The authenticated root, and the providers with the addresses of everything else.
PlexRoot ==
  /\ pc = "root"
  /\ IF Answering = Configured THEN Accept(identity, "providers") ELSE Fail

PlexProviders ==
  /\ pc = "providers"
  /\ IF Answering = Configured THEN Accept(identity, "reading") ELSE Fail

Connect ==
  \/ AnnictToken \/ AnnictMe \/ AnnictViewer \/ ShikimoriWhoAmI
  \/ JellyfinMe \/ BangumiMe \/ AniListViewer
  \/ EmbySystem \/ EmbyUser \/ KodiHandshake
  \/ PlexResources \/ PlexIdentity \/ PlexRoot \/ PlexProviders

-----------------------------------------------------------------------------
(* Reading *)

Reading(r) == pc = "reading" /\ reader = r

Rows == rows[Answering]
N == Cardinality(Rows)
Listing == [k \in 1..N |-> CHOOSE r \in Rows : Cardinality({x \in Rows : x <= r}) = k]
Size == IF manner = "short" THEN 1 ELSE PageSize

\* The page from offset k on, and whether the provider has more.
Slice(k) == [n \in 1..(IF k >= N THEN 0 ELSE IF k + Size > N THEN N - k ELSE Size) |->
               <<Answering, Listing[k + n]>>]
Page(k) ==
  CASE manner = "stuck" -> Slice(0)
    [] manner = "whole" -> [n \in 1..N |-> <<Answering, Listing[n]>>]
    [] OTHER -> Slice(k)
More(k) == manner = "stuck" \/ (manner # "whole" /\ k + Size < N)

Pages == Cardinality(visited)
Repeating(items) == ~IsInjective(out \o items)
Foreign(items) == \E n \in DOMAIN items : items[n][1] # identity

Finish(items) ==
  IF Len(out \o items) > MaxRecords THEN Fail
  ELSE /\ pc' = "done"
       /\ out' = out \o items
       /\ UNCHANGED <<session, world, place, visited, total>>

\* The next page is asked for, if the limits allow.
Continue(items, next, declared) ==
  IF Pages + 1 >= MaxPages \/ Len(out \o items) > MaxRecords THEN Fail
  ELSE /\ out' = out \o items
       /\ place' = next
       /\ visited' = visited \cup {place}
       /\ total' = declared
       /\ UNCHANGED <<session, world, pc>>

TotalChanged == total # None /\ total # N

\* A plausible bug: the total of the last page is all that counts.
CountedByTheLast(items, last) ==
  IF Len(out \o items) >= N
  THEN IF Len(out \o items) = N /\ last THEN Finish(items) ELSE Fail
  ELSE IF items = <<>> THEN Fail ELSE Continue(items, Len(out \o items), N)

\* The pages declare one total, and the rows must come to exactly that many; last says
\* whether the provider agrees that it is over.
Counted(items, last) ==
  IF TotalChanged THEN Fail
  ELSE IF Len(out \o items) >= N
  THEN IF Len(out \o items) = N /\ last THEN Finish(items) ELSE Fail
  ELSE IF items = <<>> THEN Fail ELSE Continue(items, Len(out \o items), N)

KodiPage ==
  /\ Reading("kodi")
  /\ IF Repeating(Page(place)) THEN Fail ELSE Counted(Page(place), TRUE)

\* Every item names its server.
JellyfinPage ==
  /\ Reading("jellyfin")
  /\ IF Foreign(Page(place)) \/ Repeating(Page(place)) THEN Fail ELSE Counted(Page(place), TRUE)

EmbyPage ==
  /\ Reading("emby")
  /\ IF Foreign(Page(place)) \/ Repeating(Page(place)) THEN Fail ELSE Counted(Page(place), TRUE)

\* Duplicates are looked for when all rows are there.
BangumiPage ==
  /\ Reading("bangumi")
  /\ IF Repeating(Page(place)) /\ Len(out \o Page(place)) >= N THEN Fail ELSE Counted(Page(place), TRUE)

\* Works come by page number, and next_page must be null exactly at the total.
WorksPage ==
  /\ Reading("works")
  /\ LET items == Page(place * Size)
         more == More(place * Size)
     IN  IF TotalChanged \/ Repeating(items) \/ Len(out \o items) > N THEN Fail
         ELSE IF Len(out \o items) = N THEN IF more THEN Fail ELSE Finish(items)
         ELSE IF items = <<>> \/ ~more THEN Fail ELSE Continue(items, place + 1, N)

\* Records come after a cursor, which is the last record read, and with their owner.
RecordsPage ==
  /\ Reading("records")
  /\ LET after == Cardinality({r \in Rows : r <= place})
         items == Page(after)
         more == More(after)
         endCursor == IF items = <<>> THEN place ELSE items[Len(items)][2]
     IN  IF \/ Answering # identity
            \/ TotalChanged \/ Repeating(items) \/ Len(out \o items) > N THEN Fail
         ELSE IF Len(out \o items) = N THEN IF more THEN Fail ELSE Finish(items)
         ELSE IF ~more \/ items = <<>> \/ endCursor \in visited \cup {place} THEN Fail
         ELSE Continue(items, endCursor, N)

\* Plex may say where a page begins, how many there are, or nothing; an item read twice
\* fails the library.
PlexPage ==
  /\ Reading("plex")
  /\ LET items == Page(place)
         read == place + Len(items)
     IN  IF Repeating(items) THEN Fail
         ELSE CASE manner = "whole" -> IF Len(items) >= PageSize THEN Fail ELSE Finish(items)
                [] manner = "offsets" -> IF items = <<>> THEN Finish(items)
                                         ELSE Continue(items, read, None)
                [] OTHER -> IF TotalChanged \/ read > N \/ (items = <<>> /\ place < N) THEN Fail
                            ELSE IF read = N THEN Finish(items) ELSE Continue(items, read, N)

\* All rates in one answer, each with its owner.
ShikimoriRates ==
  /\ Reading("shikimori")
  /\ IF Answering # identity /\ Rows # {} THEN Fail
     ELSE Finish([n \in 1..N |-> <<Answering, Listing[n]>>])

\* The number of pages, of which an empty list has one.
PageCount == IF manner = "whole" THEN 1 ELSE IF manner = "stuck" THEN MaxPages + 1
             ELSE IF N = 0 THEN 1 ELSE (N + Size - 1) \div Size

\* The number of pages must stay, the number of rows need not.
MovaryPage ==
  /\ Reading("movary")
  /\ LET items == Page(place * Size)
     IN  IF PageCount < place + 1 \/ (total # None /\ total # PageCount) THEN Fail
         ELSE IF place + 1 = PageCount THEN Finish(items)
         ELSE IF items = <<>> THEN Fail ELSE Continue(items, place + 1, PageCount)

\* The number of pages is only the one of the last answer.
TraktPage ==
  /\ Reading("trakt")
  /\ LET items == Page(place * Size)
     IN  IF PageCount < place + 1 \/ PageCount > MaxPages THEN Fail
         ELSE IF place + 1 = PageCount THEN Finish(items) ELSE Continue(items, place + 1, None)

TmdbPage ==
  /\ Reading("tmdb")
  /\ LET items == Page(place * Size)
     IN  IF PageCount > MaxPages THEN Fail
         ELSE IF place + 1 >= PageCount THEN Finish(items) ELSE Continue(items, place + 1, None)

\* A plausible bug: the links that were followed are not kept.
FollowAnyLink ==
  /\ Reading("myanimelist")
  /\ LET items == Page(place)
     IN  IF ~More(place) THEN Finish(items)
         ELSE IF Len(out \o items) > MaxRecords THEN Fail
         ELSE /\ out' = out \o items
              /\ place' = IF manner = "stuck" THEN place ELSE place + Size
              /\ UNCHANGED <<session, world, pc, visited, total>>

\* MyAnimeList's answers link to the next page; a link is followed once.
MalPage ==
  /\ Reading("myanimelist")
  /\ LET items == Page(place)
     IN  IF place \in visited THEN Fail
         ELSE IF ~More(place) THEN Finish(items)
         ELSE Continue(items, IF manner = "stuck" THEN place ELSE place + Size, None)

\* AniList says only whether there is more; nobody may come twice.
AniListPage ==
  /\ Reading("anilist")
  /\ LET items == Page(place * Size)
     IN  IF Repeating(items) THEN Fail
         ELSE IF ~More(place * Size) THEN Finish(items) ELSE Continue(items, place + 1, None)

Read ==
  \/ KodiPage \/ JellyfinPage \/ EmbyPage \/ BangumiPage \/ WorksPage \/ RecordsPage
  \/ PlexPage \/ ShikimoriRates \/ MovaryPage \/ TraktPage \/ TmdbPage \/ MalPage \/ AniListPage

\* A request that fails ends it, except the search for Plex's address.
RequestFails ==
  /\ pc \notin {"done", "failed", "identity"}
  /\ Fail

-----------------------------------------------------------------------------
(* The list and its address *)

\* The user adds or removes a row while the list is read.
Change(r) ==
  /\ pc = "reading"
  /\ visited # {}
  /\ changes < MaxChanges
  /\ changes' = changes + 1
  /\ rows' = [rows EXCEPT ![Answering] = IF r \in @ THEN @ \ {r} ELSE @ \cup {r}]
  /\ UNCHANGED <<session, pc, reading, leads, swaps>>

\* Another server answers at the address, or another account: a name that moves, a server
\* set up anew, a cache in between.
Swap(s) ==
  /\ pc \notin {"done", "failed"}
  /\ swaps < MaxSwaps
  /\ s # Answering
  /\ Answering # 0
  /\ swaps' = swaps + 1
  /\ leads' = [leads EXCEPT ![base] = s]
  /\ UNCHANGED <<session, pc, reading, rows, changes>>

Next ==
  \/ Connect \/ Read \/ RequestFails
  \/ \E r \in 1..MaxRow : Change(r)
  \/ \E s \in Server : Swap(s)

Spec == Init /\ [][Next]_vars

-----------------------------------------------------------------------------
(* Properties *)

ReadingTypeOK ==
  /\ reader \in Reader /\ manner \in Manner(reader)
  /\ rows \in [Server -> SUBSET (1..MaxRow)] /\ leads \in [Address -> Server \cup {0}]
  /\ base \in Address /\ identity \in Server \cup {0} /\ evidence \subseteq Server
  /\ out \in Seq(Server \X (1..MaxRow))
  /\ place \in Nat /\ visited \subseteq Nat /\ Cardinality(visited) <= MaxPages
  /\ total \in Nat
  /\ changes \in 0..MaxChanges /\ swaps \in 0..MaxSwaps

\* The readers that compare every page with one total, or read everything at once.
CountsAll ==
  \/ reader \in {"kodi", "jellyfin", "emby", "bangumi", "works", "records", "shikimori"}
  \/ reader = "plex" /\ manner # "offsets"

\* The connectors whose answers name the server or the account accept only what one and the
\* same of them answers, from the first request of the connection to the last page.  Plex's
\* pages and Annict's works do not name it, nor do Bangumi's and AniList's.
OneServer ==
  pc \in {"reading", "done"} =>
    /\ reader \in {"works", "records", "shikimori", "plex", "emby", "jellyfin", "anilist"}
         => evidence = {identity}
    /\ reader \in {"plex", "shikimori", "anilist"} => identity = Configured
    /\ reader \in {"records", "shikimori", "emby", "jellyfin"}
         => \A n \in DOMAIN out : out[n][1] = identity

\* No row twice, whatever changes and however badly the provider pages, and none missing if
\* at most one row came or went.
IsTheList ==
  /\ IsInjective(out)
  /\ changes <= 1 /\ swaps = 0 => {out[n][2] : n \in DOMAIN out} = Rows

(***************************************************************************)
(* What a reader that counts hands out is the list, and a connector that   *)
(* is told who answers never mixes two servers or accounts: a backup is of *)
(* one account, whole, or it fails.                                        *)
(***************************************************************************)
ReadsAreWhole ==
  /\ ReadingTypeOK
  /\ pc = "done" /\ CountsAll => IsTheList
  /\ OneServer

(***************************************************************************)
(* Every connection and every read comes to an end, also with a provider   *)
(* that always says that there is more.                                    *)
(***************************************************************************)
EveryReadEnds == <>(pc \in {"done", "failed"})
=============================================================================
