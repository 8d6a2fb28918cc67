------------------------- MODULE MCAccountConnectors -------------------------
(***************************************************************************)
(* Small instances of AccountConnectors and, beside it, of AccountReading  *)
(* and HttpRequest: an import, a read of an account and a single request.  *)
(* A behaviour is one of the three, and the other two stay in an initial   *)
(* state.                                                                  *)
(***************************************************************************)
EXTENDS AccountConnectors

CONSTANTS
  a, b,
  Reader, MaxRow, PageSize, MaxPages, MaxRecords, MaxChanges, MaxSwaps,
  none, Settings, Unset, MaxTimeout, MaxAttempts, MaxDelay, MaxBytes,
  DefaultTimeout, DefaultAttempts, DefaultDelay, RetryAfter, BaseDelay

VARIABLES
  part,      \* which of the three
  reader, manner, rows, leads, base, readPc, identity, evidence, out, place, visited, total,
  changes, swaps,
  kind, limits, requestPc, attempt, due, now, aborted, requestWire, effects, response,
  received, result

read == <<reader, manner, rows, leads, base, readPc, identity, evidence, out, place, visited,
          total, changes, swaps>>
request == <<kind, limits, requestPc, attempt, due, now, aborted, requestWire, effects,
             response, received, result>>

Account == INSTANCE AccountReading WITH pc <- readPc
Http == INSTANCE HttpRequest WITH pc <- requestPc, wire <- requestWire

ASSUME ReadingConstants == Account!ReadingAssumption
ASSUME HttpConstants == Http!HttpAssumption
ASSUME CallConstants == ListsAgree

OneCall == CHOOSE c \in Calls : c.dryRun

EitherInit ==
  /\ part \in {"import", "read", "request"}
  /\ Init
  /\ part # "import" => call = OneCall /\ \A i \in Item : account[i] = Absent
  /\ Account!Init
  /\ part # "read" => reader = "tmdb" /\ manner = "honest" /\ rows[1] = {}
  /\ Http!Init
  /\ part # "request" => kind = "read" /\ ~aborted

EitherNext ==
  \/ part = "import" /\ Next /\ UNCHANGED <<part, read, request>>
  \/ part = "read" /\ Account!Next /\ UNCHANGED <<part, vars, request>>
  \/ part = "request" /\ Http!Next /\ UNCHANGED <<part, vars, read>>

\* Every request is answered by its time limit, or fails: no help is taken from failures.
EitherSpec ==
  /\ EitherInit /\ [][EitherNext]_<<part, vars, read, request>>
  /\ WF_read(part = "read" /\ (Account!Connect \/ Account!Read))

\* Readers that count hand out the list as it is, and a connector that is told who answers
\* never mixes two servers or accounts (AccountReading).
ReadsAreWhole == Account!ReadsAreWhole

\* Every connection and read ends, also with a provider that always has more (AccountReading).
EveryReadEnds == part = "read" => Account!EveryReadEnds

\* requestJson is over within its attempts' time limits and the capped waits (HttpRequest).
EndsInTime == Http!EndsInTime

\* requestJson is a ProviderCall: its writes take effect at most once (HttpRequest).
ImplementsProviderCall == Http!ImplementsProviderCall

-----------------------------------------------------------------------------
(* Values of the constants *)

AllReaders ==
  {"works", "records", "shikimori", "plex", "bangumi", "kodi", "jellyfin", "emby", "trakt",
   "myanimelist", "tmdb", "movary", "anilist"}

Configured == {none, 0, 1, 9}

ParentOf == b :> a

\* A request that names an item twice is left to the provider, which no model can tell.
Repeats(service, feature, d, e) ==
  CASE service \in ListServices \cup {"trakt"} -> feature \in {"reviews", "following"}
    [] service = "simkl" /\ feature # "watched" -> d = e
    [] OTHER -> TRUE

\* One entry, two of different items, or two of the same; only where an entry is judged by
\* another does the second one range over everything.
CallsOf(service, feature) ==
  LET E(i) == [item : {i}, want : Wants(service, feature, i)]
      Keep(i) == {e \in E(i) : e.want # Unsupported}
      Second == IF service \in {"annict", "bangumi"} THEN E(b)
                ELSE {CHOOSE e \in Keep(b) : TRUE, [item |-> b, want |-> Unsupported]}
      Lists == {<<e>> : e \in E(a) \cup E(b)}
                 \cup {<<d, e>> : d \in Keep(a), e \in Second}
                 \cup {p \in Keep(a) \X Keep(a) : Repeats(service, feature, p[1], p[2])}
  IN  [service : {service}, feature : {feature}, dryRun : {FALSE}, entries : Lists]
        \cup [service : {service}, feature : {feature}, dryRun : {TRUE}, entries : {<<e>> : e \in Keep(a)}]

AllCalls == UNION {UNION {CallsOf(s, f) : f \in Imports(s)} : s \in Services}
=============================================================================
