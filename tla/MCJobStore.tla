----------------------------- MODULE MCJobStore -----------------------------
(* Instances of JobStore. *)
EXTENDS JobStore

CONSTANTS c1, c2, c3, r1

\* The processes run with the new key; the record was written with the old one.
NewKeys == [p \in Process |-> "new"]
=============================================================================
