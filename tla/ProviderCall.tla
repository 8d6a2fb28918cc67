---------------------------- MODULE ProviderCall ----------------------------
(***************************************************************************)
(* What a connector may rely on when it calls a provider, whatever the     *)
(* network does: a write takes effect at most once, and never after it was *)
(* reported as answered or refused; a call reported as answered has taken  *)
(* effect.  A write whose fate was not reported may still take effect.     *)
(* HttpRequest implements this specification.                              *)
(***************************************************************************)
EXTENDS Naturals

CONSTANT MaxEffects    \* bound on the executions of a read

VARIABLES
  kind,      \* "read" or "write"
  effects,   \* how often the provider executed the call
  report     \* what the connector was told

vars == <<kind, effects, report>>

Report == {"none", "answered", "refused", "unknown", "cancelled"}

Init ==
  /\ kind \in {"read", "write"}
  /\ effects = 0
  /\ report = "none"

Effect ==
  /\ kind = "read" \/ (effects = 0 /\ report \notin {"answered", "refused"})
  /\ effects < MaxEffects
  /\ effects' = effects + 1
  /\ UNCHANGED <<kind, report>>

Tell(r) ==
  /\ report = "none"
  /\ r = "answered" => effects > 0
  /\ r = "refused" => kind = "read" \/ effects = 0
  /\ report' = r
  /\ UNCHANGED <<kind, effects>>

Next == Effect \/ \E r \in Report \ {"none"} : Tell(r)

Spec == Init /\ [][Next]_vars
=============================================================================
