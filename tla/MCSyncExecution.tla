-------------------------- MODULE MCSyncExecution --------------------------
(***************************************************************************)
(* SyncExecution for TLC: three features, one of which only the target     *)
(* imports and one neither does.  FollowedRequests are the requests a      *)
(* caller moves between: a preview, two-way requests, one for a feature    *)
(* nobody imports, a one-way write, and one without the confirmation.      *)
(***************************************************************************)
EXTENDS SyncExecution

MCFeatures == <<"ratings", "watched", "followers">>

MCImporters == [s \in {"source", "target"} |->
  IF s = "source" THEN {"ratings"} ELSE {"ratings", "watched"}]

FollowedRequests ==
  {r \in Request :
     \/ /\ r.confirmWrite = ~r.dryRun
        /\ \/ r.mode = "two-way" /\ r.selection \in {{"ratings"}, {"ratings", "followers"}}
           \/ ~r.dryRun /\ r.mode = "one-way" /\ r.selection = {"ratings", "watched"}
     \/ ~r.dryRun /\ ~r.confirmWrite /\ r.mode = "one-way" /\ r.selection = {"watched"}}

=============================================================================
