---------------------------- MODULE OAuthRequests ----------------------------
(***************************************************************************)
(* The OAuth routes of the API (apps/api/src/server.ts), the functions     *)
(* they call (apps/api/src/oauth.ts), and the provider that these ask, for *)
(* the calls of an authorization panel.  A route demands some inputs; its  *)
(* function stores or takes a transaction, asks the provider at most once  *)
(* and checks that the answer has all its parts.  How transactions are     *)
(* kept is in OAuthTransactions, how a device is polled in DevicePolling.  *)
(*                                                                         *)
(* An attempt is an authorization with its own state and, once the user    *)
(* approved it, its own code.  A token is a whole token response.          *)
(***************************************************************************)
EXTENDS Naturals, FiniteSets

CONSTANTS
  MaxAttempts,   \* bound on the authorizations that are started
  MaxTokens,     \* bound on the token responses
  MaxFlows       \* bound on the calls of the panel

VARIABLES
  service,     \* the provider
  started,     \* the number of attempts
  pending,     \* the attempts whose transaction the API holds
  devices,     \* the attempts that are device codes
  approved,    \* the attempts the user approved at the provider
  spent,       \* the attempts whose code the provider gave a token for
  minted,      \* the number of tokens
  live,        \* the tokens the provider accepts
  flows,       \* the calls under way
  made         \* the number of calls

transactions == <<started, pending>>
provider == <<devices, approved, spent, minted, live>>

-----------------------------------------------------------------------------
(* The inputs that the routes demand. *)

TmdbRoutes ==
  [start |-> {"client", "redirect"}, exchange |-> {"state"},
   session |-> {"client", "token"}, drop |-> {"token"}]

TraktDeviceRoutes == [device |-> {"client"}, poll |-> {"client", "secret", "device"}]

TraktRoutes ==
  [start |-> {"client", "redirect"}, exchange |-> {"state", "code", "secret"},
   refresh |-> {"client", "secret", "redirect", "token"}]

MyAnimeListRoutes ==
  [start |-> {"client"}, exchange |-> {"state", "code"}, refresh |-> {"client", "token"}]

ShikimoriRoutes ==
  [start |-> {"client", "redirect"}, exchange |-> {"state", "code", "secret"},
   refresh |-> {"client", "secret", "token"}]

AnnictRoutes ==
  [start |-> {"client", "redirect"}, exchange |-> {"state", "code", "secret"},
   drop |-> {"token", "client", "secret"}]

SimklRoutes == [start |-> {"client"}, exchange |-> {"state", "code"}]

Demands(op) ==
  CASE service = "tmdb" -> TmdbRoutes[op]
    [] service = "trakt" -> IF op \in {"device", "poll"} THEN TraktDeviceRoutes[op] ELSE TraktRoutes[op]
    [] service = "myanimelist" -> MyAnimeListRoutes[op]
    [] service = "shikimori" -> ShikimoriRoutes[op]
    [] service = "annict" -> AnnictRoutes[op]
    [] service = "simkl" -> SimklRoutes[op]

-----------------------------------------------------------------------------
(* What the functions do: what becomes of the transaction, and what the provider is asked   *)
(* for.                                                                                      *)

Does(transaction, asks) == [transaction |-> transaction, asks |-> asks]

\* The request token comes first; state and token are stored when it came.
TmdbAuthorization ==
  [start |-> Does("stored last", "request token"), exchange |-> Does("taken", "token")]

\* The session is converted, then looked up: one failure fails the call.
TmdbToken == [session |-> Does("none", "session"), drop |-> Does("none", "drop")]

TraktDevice == [device |-> Does("none", "device code")]
TraktPoll == [poll |-> Does("none", "token")]

TraktAuthorization ==
  [start |-> Does("stored", "nothing"), exchange |-> Does("taken", "token"),
   refresh |-> Does("none", "refresh")]

\* With a verifier: the provider gives a token only to the transaction of the code.
MyAnimeListAuthorization ==
  [start |-> Does("stored", "nothing"), exchange |-> Does("taken", "token of this verifier"),
   refresh |-> Does("none", "refresh")]

SimklAuthorization ==
  [start |-> Does("stored", "nothing"), exchange |-> Does("taken", "token of this verifier")]

ShikimoriAuthorization ==
  [start |-> Does("stored", "nothing"), exchange |-> Does("taken", "token"),
   refresh |-> Does("none", "refresh")]

AnnictAuthorization ==
  [start |-> Does("stored", "nothing"), exchange |-> Does("taken", "token"),
   drop |-> Does("none", "drop")]

Calls(op) ==
  CASE service = "tmdb" -> IF op \in {"session", "drop"} THEN TmdbToken[op] ELSE TmdbAuthorization[op]
    [] service = "trakt" -> IF op = "device" THEN TraktDevice[op]
                            ELSE IF op = "poll" THEN TraktPoll[op] ELSE TraktAuthorization[op]
    [] service = "myanimelist" -> MyAnimeListAuthorization[op]
    [] service = "simkl" -> SimklAuthorization[op]
    [] service = "shikimori" -> ShikimoriAuthorization[op]
    [] service = "annict" -> AnnictAuthorization[op]

\* The parts a token response must have.
TokenParts ==
  {"access"} \cup
  CASE service = "tmdb" -> {"success", "account"}
    [] service = "trakt" -> {"expires", "refresh", "scope", "created"}
    [] service = "myanimelist" -> {"expires", "refresh"}
    [] service = "simkl" -> {"expires", "scope"}
    [] service = "shikimori" -> {"expires", "refresh", "scope"}
    [] service = "annict" -> {"scope", "created"}

-----------------------------------------------------------------------------
(* A call is new, "asked" of the provider, or done; the API replies, also to a page that    *)
(* does not wait any more, and before the provider is done when it gives up.                 *)

Settled(f) == ~f.open /\ f.reply # "none" /\ f.ask # "asked"

\* The call goes on as g; what it got is dropped when nobody waits for it.
Becomes(f, g) ==
  flows' = (flows \ {f}) \cup
    (IF Settled(g) THEN {} ELSE {IF g.open THEN g ELSE [g EXCEPT !.gives = 0]})

Fails(f) == Becomes(f, [f EXCEPT !.ask = "done", !.reply = "error"])
New(f) == f.ask = "new" /\ f.reply = "none"

Due(f) == New(f) /\ Demands(f.op) \subseteq f.with

\* An input is missing or malformed, there is no room for a transaction, or the state is
\* unknown, of another provider or ten minutes old.  A transaction is taken before the other
\* inputs are looked at more closely.
Unacceptable(f) ==
  /\ New(f)
  /\ Fails(f)
  /\ pending' = IF Due(f) /\ Calls(f.op).transaction = "taken" THEN pending \ {f.state} ELSE pending
  /\ UNCHANGED <<service, started, provider, made>>

\* createTransaction: a new state is the answer.
Store(f) ==
  /\ Due(f)
  /\ Calls(f.op).transaction = "stored"
  /\ started < MaxAttempts
  /\ started' = started + 1
  /\ pending' = pending \cup {started'}
  /\ Becomes(f, [f EXCEPT !.ask = "done", !.reply = "ok", !.gives = started'])
  /\ UNCHANGED <<service, provider, made>>

\* singleAttemptOAuthRequest, after the transaction was taken if there is one.
Ask(f) ==
  /\ Due(f)
  /\ Calls(f.op).asks # "nothing"
  /\ IF Calls(f.op).transaction = "taken"
     THEN f.state \in pending /\ pending' = pending \ {f.state}
     ELSE pending' = pending
  /\ Becomes(f, [f EXCEPT !.ask = "asked"])
  /\ UNCHANGED <<service, started, provider, made>>

\* The code a token is asked for: of the transaction, of the device, or as it was handed in.
CodeOf(f) == IF service = "tmdb" THEN f.state ELSE IF f.op = "poll" THEN f.device ELSE f.code

\* The parts of the answers that are no token responses.
Parts(asks) ==
  CASE asks \in {"token", "token of this verifier", "refresh"} -> TokenParts
    [] asks = "request token" -> {"success", "request token"}
    [] asks = "session" -> {"success", "session", "account"}
    [] asks = "device code" -> {"code", "verification", "expires", "interval"}
    [] OTHER -> {"success"}

\* A plausible bug: a success status is enough.
TrustStatus(f, parts) == parts # {}

\* providerJson and the validators: an answer without one of its parts is an error, and so
\* is an error status, which has none.
Valid(f, parts) == Parts(Calls(f.op).asks) \subseteq parts

\* What the API makes of an answer, unless it stopped waiting.
Received(f, parts, gives) ==
  Becomes(f, [f EXCEPT !.ask = "done",
                       !.gives = IF f.reply = "none" /\ Valid(f, parts) THEN gives ELSE 0,
                       !.reply = IF @ # "none" THEN @ ELSE IF Valid(f, parts) THEN "ok" ELSE "error"])

\* An answer with all its parts, or without one of them.
Answered(asks) == {Parts(asks)} \cup {Parts(asks) \ {p} : p \in Parts(asks)}

\* A token for a code that has none yet; the code of a verifier needs its transaction.
GiveToken(f, parts) ==
  /\ Calls(f.op).asks \in {"token", "token of this verifier"}
  /\ CodeOf(f) \in approved \ spent
  /\ Calls(f.op).asks = "token of this verifier" => f.code = f.state
  /\ minted < MaxTokens
  /\ spent' = spent \cup {CodeOf(f)}
  /\ minted' = minted + 1
  /\ live' = live \cup {minted'}
  /\ Received(f, parts, minted')
  /\ UNCHANGED <<transactions, devices>>

\* The token that is refreshed is replaced.
RotateToken(f, parts) ==
  /\ Calls(f.op).asks = "refresh"
  /\ f.token \in live
  /\ minted < MaxTokens
  /\ minted' = minted + 1
  /\ live' = (live \ {f.token}) \cup {minted'}
  /\ Received(f, parts, minted')
  /\ UNCHANGED <<transactions, devices, spent>>

DropToken(f, parts) ==
  /\ Calls(f.op).asks = "drop"
  /\ live' = live \ {f.token}
  /\ Received(f, parts, 0)
  /\ UNCHANGED <<transactions, devices, spent, minted>>

OpenSession(f, parts) ==
  /\ Calls(f.op).asks = "session"
  /\ f.token \in live
  /\ Received(f, parts, 0)
  /\ UNCHANGED <<transactions, devices, spent, minted, live>>

\* TMDb's request token, stored with a new state; the others need nothing of the provider.
GiveRequestToken(f, parts) ==
  /\ Calls(f.op).asks = "request token"
  /\ started < MaxAttempts
  /\ IF f.reply = "none" /\ Valid(f, parts)
     THEN started' = started + 1 /\ pending' = pending \cup {started'}
     ELSE UNCHANGED transactions
  /\ Received(f, parts, started')
  /\ UNCHANGED <<devices, spent, minted, live>>

GiveDeviceCode(f, parts) ==
  /\ Calls(f.op).asks = "device code"
  /\ started < MaxAttempts
  /\ started' = started + 1
  /\ devices' = devices \cup {started'}
  /\ Received(f, parts, started')
  /\ UNCHANGED <<pending, spent, minted, live>>

\* The provider does what it is asked; also when the API no longer waits.
Carry(f) ==
  /\ f.ask = "asked"
  /\ \E parts \in Answered(Calls(f.op).asks) :
       \/ GiveToken(f, parts) \/ RotateToken(f, parts) \/ DropToken(f, parts)
       \/ OpenSession(f, parts) \/ GiveRequestToken(f, parts) \/ GiveDeviceCode(f, parts)
  /\ UNCHANGED <<service, approved, made>>

\* It does not: an error status, or a success status with an answer that says otherwise; that
\* a device is not authorized is an answer too.
Refuse(f) ==
  /\ f.ask = "asked"
  /\ \/ \E parts \in {{}, {"another answer"}} : Received(f, parts, 0)
     \/ f.op = "poll" /\ Becomes(f, [f EXCEPT !.ask = "done", !.reply = IF @ = "none" THEN "ok" ELSE @])
  /\ UNCHANGED <<service, transactions, provider, made>>

\* The time limit, an aborted request or a broken connection; it is not asked again, and the
\* provider may still do what it was asked.
GiveUp(f) ==
  /\ f.reply = "none" /\ f.ask = "asked"
  /\ Becomes(f, [f EXCEPT !.reply = "error"])
  /\ UNCHANGED <<service, transactions, provider, made>>
=============================================================================
