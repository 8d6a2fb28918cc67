-------------------------- MODULE MCReconciliation --------------------------
(***************************************************************************)
(* Instances of Reconciliation, and beside them one-way runs whose user    *)
(* declared that a film on the source and a season on the target are the   *)
(* same item, as one module with another value of Identified.              *)
(***************************************************************************)
EXTENDS Reconciliation

CONSTANTS film, season

VARIABLE declared   \* does the request declare the identity?

Declared == INSTANCE Reconciliation WITH Identified <- {<<film, season>>}

EitherInit ==
  /\ Init
  /\ declared \in BOOLEAN
  /\ declared => /\ request.mode = "one-way"
                 /\ request.policy \in {"manual", "newest-wins"}
                 /\ request.feature = "watched"

EitherNext ==
  /\ \/ ~declared /\ Next
     \/ declared /\ Declared!Next
  /\ UNCHANGED declared

EitherSpec == EitherInit /\ [][EitherNext]_<<declared, vars>>

=============================================================================
