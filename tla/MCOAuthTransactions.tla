------------------------ MODULE MCOAuthTransactions ------------------------
(***************************************************************************)
(* Instances of OAuthTransactions and, beside it, of OAuthPanel: how the   *)
(* API keeps the states of authorizations, and what a page and its         *)
(* callback tabs do with them.  A behaviour is one of the former or one of *)
(* the latter, and the other module stays in an initial state.  Processes  *)
(* are interchangeable.                                                    *)
(***************************************************************************)
EXTENDS OAuthTransactions, TLC

CONSTANTS
  i1, i2,
  MaxAttempts, MaxTokens, MaxFlows, MaxOpen, MaxOdds

VARIABLES
  part,      \* which of the two
  service, started, pending, devices, approved, spent, minted, live, flows, made,
  filled, oob, browser, device, state, code, token, origin, feedback, mine, decided, channel,
  odds

panel == <<service, started, pending, devices, approved, spent, minted, live, flows, made,
           filled, oob, browser, device, state, code, token, origin, feedback, mine, decided,
           channel, odds>>

ThreeAttempts == 1 .. 3
TwoInstances == {i1, i2}
Interchangeable == Permutations(TwoInstances)

Panel == INSTANCE OAuthPanel

\* The store, over a page that does nothing.  Attempts differ in their numbers only, so
\* the first that is free is the next to start.
TransactionsInit == Init /\ Panel!Init /\ service = "tmdb"
TransactionsNext ==
  /\ Next
  /\ \A a, b \in Attempt : a < b /\ Fresh(a) /\ Fresh(b) => Fresh(b)'
  /\ UNCHANGED panel

\* The page, over a store that does nothing.
PanelInit == Init /\ ~shared /\ Panel!Init
\* Trakt, which has two ways to authorize, gets along without odd steps.
PanelNext == Panel!Next /\ (service = "trakt" => odds' = 0) /\ UNCHANGED vars

\* One of them.
EitherInit ==
  \/ /\ part = "store"
     /\ TransactionsInit
  \/ /\ part = "page"
     /\ PanelInit
EitherNext ==
  /\ \/ part = "store" /\ TransactionsNext
     \/ part = "page" /\ PanelNext
  /\ UNCHANGED part
EitherSpec == EitherInit /\ [][EitherNext]_<<part, vars, panel>>

\* What a callback relayed is exchanged for an authorization of this panel (OAuthPanel).
RelayedPairsStayTogether == Panel!RelayedPairsStayTogether

\* A token that is shown as revoked is not accepted any more (OAuthPanel).
SaidRevokedIsRevoked == Panel!SaidRevokedIsRevoked
=============================================================================
