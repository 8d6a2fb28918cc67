---------------------------- MODULE AccountImport ----------------------------
(***************************************************************************)
(* What SyncExecution and BackupRestore take an importer of a connector to *)
(* be: a call that writes requested records only, and none in a dry run;   *)
(* that may fail at any point, with some of them written and a write still *)
(* on its way, which the provider carries out later or never; that has     *)
(* nothing on its way when it reports success; and that can be made again  *)
(* when it failed.                                                         *)
(***************************************************************************)
CONSTANT Item

VARIABLES
  requested,   \* the items the call asks for
  dryRun,      \* the call must not write
  phase,       \* "running", "ok" or "failed"
  pending,     \* the items whose write by this call is on its way
  late         \* the items whose write by an earlier call still is

vars == <<requested, dryRun, phase, pending, late>>

Init ==
  /\ requested \in SUBSET Item
  /\ dryRun \in BOOLEAN
  /\ phase = "running"
  /\ pending = {}
  /\ late = {}

\* One write at a time, of one record or of several.
Send ==
  /\ phase = "running"
  /\ ~dryRun
  /\ pending = {}
  /\ pending' \in SUBSET requested
  /\ UNCHANGED <<requested, dryRun, phase, late>>

Settle ==
  /\ pending' \subseteq pending
  /\ late' \subseteq late
  /\ UNCHANGED <<requested, dryRun, phase>>

Succeed ==
  /\ phase = "running"
  /\ pending = {}
  /\ phase' = "ok"
  /\ UNCHANGED <<requested, dryRun, pending, late>>

Fail ==
  /\ phase = "running"
  /\ phase' = "failed"
  /\ UNCHANGED <<requested, dryRun, pending, late>>

Again ==
  /\ phase = "failed"
  /\ phase' = "running"
  /\ late' = late \cup pending
  /\ pending' = {}
  /\ UNCHANGED <<requested, dryRun>>

Next == Send \/ Settle \/ Succeed \/ Fail \/ Again

Spec == Init /\ [][Next]_vars
=============================================================================
