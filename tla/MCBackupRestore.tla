--------------------------- MODULE MCBackupRestore ---------------------------
(***************************************************************************)
(* Instances of BackupRestore with one item in each of three features: a   *)
(* rating with two values, a watchlist membership with none of its own, and*)
(* a follower, which no connector imports.  The follower is in the backup  *)
(* and not on the account at first.  Beside them, instances of what deletes*)
(* backups (MCRetentionCleanup): a behaviour is one of a restore or one of *)
(* the retention, and the other one stays in an initial state.             *)
(***************************************************************************)
EXTENDS BackupRestore, MCRetentionCleanup

CONSTANTS film, season, fan, old, new, member

ThreeFeatures == <<{film}, {season}, {fan}>>

ItemValues == (film :> {old, new}) @@ (season :> {member}) @@ (fan :> {member})

Follower == <<fan, member>>

\* Requests, which have the names of their jobs, and runs are interchangeable.
Interchangeable == Permutations(TwoJobs) \cup Permutations(TwoRuns)

\* The two values of a rating are interchangeable: the backup has the old one, if any.  A
\* backup has something to import.
RestoreInit ==
  /\ Init
  /\ Follower \notin account
  /\ \A b \in stored : Follower \in b /\ b # {Follower} /\ <<film, new>> \notin b

BackupsInit ==
  \/ part = "restore" /\ RestoreInit /\ BothIdle
  \/ Init /\ account = {} /\ stored = {{}} /\ EitherInit

\* One request of two may be a dry run, which no confirmation belongs to.
RestoreNext ==
  /\ Next
  /\ ~\A a \in Attempt : request'[a].dryRun /\ phase'[a] # "idle"
  /\ \A a \in Attempt : request'[a].dryRun => ~request'[a].confirmWrite

BackupsNext ==
  \/ part = "restore" /\ RestoreNext /\ UNCHANGED <<part, cleanupVars, throttle>>
  \/ EitherNext /\ UNCHANGED vars

BackupsSpec == BackupsInit /\ [][BackupsNext]_<<part, vars, cleanupVars, throttle>>
==============================================================================
