----------------------------- MODULE OAuthPanel -----------------------------
(***************************************************************************)
(* The authorization panel (apps/web/src/OAuthPanel.tsx) of one provider,  *)
(* with the API and the provider it uses and the callback tab              *)
(* (apps/web/src/OAuthCallbackRelay.tsx), which hands the state and the    *)
(* code of a redirect to every open panel.  Another tab of the same origin *)
(* authorizes too.  A field holds 0 when it is empty.                      *)
(***************************************************************************)
EXTENDS OAuthRequests

CONSTANTS
  MaxOpen,   \* bound on the calls under way at a time
  MaxOdds    \* bound on the fields filled by hand and the calls cut off

VARIABLES
  filled,     \* which of the client, the secret and the redirect fields are filled
  oob,        \* the redirect field holds Annict's out-of-band URI
  browser,    \* the attempt of the last start that was answered
  device,     \* the device code
  state,      \* the field for the callback state ...
  code,       \* ... for the authorization code ...
  token,      \* ... and for the token to refresh or to revoke
  origin,     \* who filled the state field and who the code field
  feedback,   \* what the panel shows: busy, a message, a token, or a token that is gone
  mine,       \* the attempts this panel started
  decided,    \* the attempts the user approved or denied at the provider
  channel,    \* the messages of callback tabs
  odds      \* the number of these

fields == <<filled, oob, browser, device, state, code, token, origin>>
outside == <<mine, decided, channel>>
server == <<service, transactions, provider>>
vars == <<server, flows, made, fields, feedback, outside, odds>>

Nobody == [state |-> "nobody", code |-> "nobody"]
Quiet == [busy |-> FALSE, says |-> "nothing", token |-> 0, gone |-> 0]
Busy == [Quiet EXCEPT !.busy = TRUE]
Says(what) == [Quiet EXCEPT !.says = what]

-----------------------------------------------------------------------------
(* The fields a button needs before it can be pressed. *)

TmdbButtons ==
  [start |-> {"client", "redirect"}, exchange |-> {"state"},
   session |-> {"client", "token"}, drop |-> {"token"}]

TraktButtons ==
  [device |-> {"client"}, poll |-> {"device", "client", "secret"},
   start |-> {"client", "redirect"}, exchange |-> {"state", "code", "secret"},
   refresh |-> {"client", "secret", "redirect", "token"}]

MyAnimeListButtons ==
  [start |-> {"client"}, exchange |-> {"state", "code"}, refresh |-> {"client", "token"}]

SimklButtons == [start |-> {"client"}, exchange |-> {"state", "code"}]

ShikimoriButtons ==
  [start |-> {"client", "redirect"}, exchange |-> {"state", "code", "secret"},
   refresh |-> {"client", "secret", "token"}]

AnnictButtons ==
  [start |-> {"client", "redirect"}, exchange |-> {"state", "code", "secret"},
   drop |-> {"token", "client", "secret"}]

Buttons ==
  CASE service = "tmdb" -> TmdbButtons
    [] service = "trakt" -> TraktButtons
    [] service = "myanimelist" -> MyAnimeListButtons
    [] service = "simkl" -> SimklButtons
    [] service = "shikimori" -> ShikimoriButtons
    [] service = "annict" -> AnnictButtons

Filled ==
  filled \cup {f \in {"state", "code", "token", "device"} :
                 [state |-> state, code |-> code, token |-> token, device |-> device][f] # 0}

\* A new call; it sends the fields of the moment.
Payload(op) ==
  [id |-> made + 1, op |-> op, ask |-> "new", reply |-> "none", gives |-> 0, open |-> TRUE,
   with |-> Filled \cap Demands(op),
   state |-> IF op = "exchange" THEN state ELSE 0,
   code |-> IF op = "exchange" THEN code ELSE 0,
   origin |-> IF op = "exchange" THEN origin ELSE Nobody,
   token |-> IF op \in {"refresh", "session", "drop"} THEN token ELSE 0,
   device |-> IF op = "poll" THEN device ELSE 0,
   oob |-> op = "start" /\ oob]

\* runFlow
Press(op) ==
  /\ ~feedback.busy
  /\ Buttons[op] \subseteq Filled
  /\ made < MaxFlows
  /\ Cardinality(flows) < MaxOpen
  /\ made' = made + 1
  /\ flows' = flows \cup {Payload(op)}
  /\ feedback' = Busy
  /\ UNCHANGED <<server, fields, outside, odds>>

-----------------------------------------------------------------------------
(* What the panel does with the answers. *)

\* A start keeps the new attempt and empties the state field, or fills it for a code that
\* the user will copy from the provider's page.
Begun(f) ==
  /\ browser' = f.gives
  /\ mine' = mine \cup {f.gives}
  /\ IF f.oob THEN state' = f.gives /\ origin' = [origin EXCEPT !.state = "start"]
     ELSE state' = 0 /\ origin' = [origin EXCEPT !.state = "nobody"]
  /\ feedback' = Says("status")
  /\ UNCHANGED <<device, code, token>>

\* The token is shown; where it can be dropped it also fills the token field, and Annict's
\* panel empties the fields of the exchange.
Exchanged(f) ==
  /\ feedback' = [Says("status") EXCEPT !.token = f.gives]
  /\ token' = IF f.op = "exchange" /\ service \in {"tmdb", "annict"} THEN f.gives ELSE token
  /\ IF f.op = "exchange" /\ service = "annict"
     THEN state' = 0 /\ code' = 0 /\ origin' = Nobody
     ELSE UNCHANGED <<state, code, origin>>
  /\ UNCHANGED <<browser, device, mine>>

Dropped(f) ==
  /\ token' = 0
  /\ feedback' = [Says("status") EXCEPT !.gone = f.token]
  /\ UNCHANGED <<browser, device, state, code, origin, mine>>

DeviceStarted(f) ==
  /\ device' = f.gives
  /\ feedback' = Says("status")
  /\ UNCHANGED <<browser, state, code, token, origin, mine>>

Deliver(f) ==
  /\ f.open /\ f.reply # "none"
  /\ Becomes(f, [f EXCEPT !.open = FALSE])
  /\ IF f.reply = "error"
     THEN feedback' = Says("error") /\ UNCHANGED <<browser, device, state, code, token, origin, mine>>
     ELSE CASE f.op = "start" -> Begun(f)
            [] f.op \in {"exchange", "refresh", "poll"} -> Exchanged(f)
            [] f.op = "drop" -> Dropped(f)
            [] f.op = "device" -> DeviceStarted(f)
            [] f.op = "session" -> /\ feedback' = Says("status")
                                   /\ UNCHANGED <<browser, device, state, code, token, origin, mine>>
  /\ UNCHANGED <<server, made, filled, oob, decided, channel, odds>>

\* The page's own request fails; the API may have got it.
Disconnect(f) ==
  /\ f.open
  /\ odds < MaxOdds
  /\ odds' = odds + 1
  /\ Becomes(f, [f EXCEPT !.open = FALSE])
  /\ feedback' = Says("error")
  /\ UNCHANGED <<server, made, fields, outside>>

-----------------------------------------------------------------------------
(* Callbacks. *)

\* The provider redirects with the state and a code, or an error; TMDb only with the state
\* that the API put into the redirect.
CallbackQuery(n, outcome) ==
  [state |-> n, code |-> IF outcome = "approved" /\ service # "tmdb" THEN n ELSE 0,
   error |-> outcome = "denied"]

\* parseOAuthCallbackQuery: a state with either a code or an error is relayed.
parseOAuthCallbackQuery(query) == IF (query.code # 0) # query.error THEN {query} ELSE {}

\* The user decides in a tab of the provider, which redirects to the callback tab of this
\* origin, or elsewhere, where a refusal changes nothing.
Decide(n, outcome, relayed) ==
  /\ n \in 1..started \ decided
  /\ decided' = decided \cup {n}
  /\ approved' = IF outcome = "approved" THEN approved \cup {n} ELSE approved
  /\ n \in devices => ~relayed
  /\ relayed \/ outcome = "approved"
  /\ channel' = IF relayed THEN channel \cup parseOAuthCallbackQuery(CallbackQuery(n, outcome))
                ELSE channel
  /\ UNCHANGED <<service, transactions, devices, spent, minted, live, flows, made, fields,
                 feedback, mine, odds>>

\* A plausible bug: the state of a callback is not compared.
AcceptAny(m) == browser # 0

\* acceptBrowserCallback: only a callback of the last start is taken.
Accepts(m) == browser # 0 /\ m.state = browser

\* onmessage.  The message also ends the busy display of a call that is still under way.
TakeCallback(m) ==
  /\ m \in channel
  /\ channel' = channel \ {m}
  /\ IF ~Accepts(m) THEN UNCHANGED <<state, code, origin, feedback>>
     ELSE IF m.error THEN feedback' = Says("error") /\ UNCHANGED <<state, code, origin>>
     ELSE /\ state' = m.state
          /\ code' = m.code
          /\ origin' = [state |-> "relay", code |-> "relay"]
          /\ feedback' = Says("status")
  /\ UNCHANGED <<server, flows, made, filled, oob, browser, device, token, mine, decided, odds>>

-----------------------------------------------------------------------------
(* The user and the other tab. *)

\* Fields are filled by hand, from the address of a callback or from a token shown before.
Type ==
  /\ odds < MaxOdds
  /\ odds' = odds + 1
  /\ \/ /\ state' \in decided \ devices
        /\ origin' = [origin EXCEPT !.state = "hand"]
        /\ UNCHANGED <<filled, oob, code, token>>
     \/ /\ code' \in approved \ devices
        /\ origin' = [origin EXCEPT !.code = "hand"]
        /\ UNCHANGED <<filled, oob, state, token>>
     \/ /\ token' \in 1..minted
        /\ UNCHANGED <<filled, oob, state, code, origin>>
     \/ /\ filled' = {"client", "secret", "redirect"}
        /\ oob' \in {FALSE, service = "annict"}
        /\ UNCHANGED <<state, code, token, origin>>
  /\ UNCHANGED <<server, flows, made, browser, device, feedback, outside>>

\* Calls that are under way are not aborted.
clearSensitiveValues ==
  /\ filled' = filled \ (IF service = "tmdb" THEN {"client", "secret"} ELSE {"secret"})
  /\ state' = 0 /\ code' = 0 /\ token' = 0
  /\ origin' = Nobody
  /\ browser' = 0 /\ device' = 0
  /\ feedback' = Quiet
  /\ UNCHANGED <<server, flows, made, oob, outside, odds>>

\* Another tab starts an attempt.
OtherTab ==
  /\ started < MaxAttempts
  /\ started' = started + 1
  /\ pending' = pending \cup {started'}
  /\ UNCHANGED <<service, provider, flows, made, fields, feedback, outside, odds>>

\* The user has a token from an earlier visit.
Init ==
  /\ service \in {"tmdb", "trakt", "myanimelist", "simkl", "shikimori", "annict"}
  /\ started = 0 /\ pending = {} /\ devices = {} /\ approved = {} /\ spent = {}
  /\ minted = 1 /\ live = {1} /\ flows = {} /\ made = 0
  /\ filled = {"client", "secret", "redirect"} /\ oob = (service = "annict")
  /\ browser = 0 /\ device = 0 /\ state = 0 /\ code = 0 /\ token = 0
  /\ origin = Nobody
  /\ feedback = Quiet
  /\ mine = {} /\ decided = {} /\ channel = {} /\ odds = 0

Api(f) == Unacceptable(f) \/ Store(f) \/ Ask(f) \/ GiveUp(f)

Server ==
  /\ \E f \in flows : Api(f)
  /\ UNCHANGED <<fields, feedback, outside, odds>>

Provider ==
  /\ \E f \in flows : Carry(f) \/ Refuse(f)
  /\ UNCHANGED <<fields, feedback, outside, odds>>

Answer == \E f \in flows : Deliver(f)

Next ==
  \/ \E op \in DOMAIN Buttons : Press(op)
  \/ Server \/ Provider \/ Answer
  \/ \E f \in flows : Disconnect(f)
  \/ \E n \in 1..MaxAttempts, outcome \in {"approved", "denied"}, relayed \in BOOLEAN :
       Decide(n, outcome, relayed)
  \/ \E m \in channel : TakeCallback(m)
  \/ Type \/ clearSensitiveValues \/ OtherTab

Spec == Init /\ [][Next]_vars

-----------------------------------------------------------------------------
(* Properties *)

(***************************************************************************)
(* docs/OAUTH_SETUP.md 11: what a callback tab relayed is exchanged only   *)
(* for an authorization that this panel started, the code with its own     *)
(* state, however the attempts of several tabs interleave; a code that     *)
(* waits when an out-of-band start fills the state field is the user's.    *)
(***************************************************************************)
RelayedPairsStayTogether ==
  \A f \in flows :
    f.op = "exchange" /\ f.origin.state = "relay" =>
      f.state \in mine /\ (f.origin.code = "relay" => f.code \in {0, f.state})

\* A token that the panel reports as logged out or revoked is no longer accepted.
SaidRevokedIsRevoked == feedback.gone \notin live

(***************************************************************************)
(* OAuthPanel.tsx 398: with a redirect to this origin the callback tab     *)
(* fills the state of an authorization that the user approved.             *)
(***************************************************************************)
ApprovalIsRelayed ==
  [][\A n \in 1..MaxAttempts :
       Decide(n, "approved", TRUE) => \E m \in channel' : m.state = n]_vars
=============================================================================
