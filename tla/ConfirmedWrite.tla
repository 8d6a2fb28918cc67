--------------------------- MODULE ConfirmedWrite ---------------------------
(***************************************************************************)
(* What WatchBridge promises about any operation that writes to a user's   *)
(* accounts, whether it is a sync or a restore, whatever fails and whenever*)
(* the process stops:                                                      *)
(*                                                                         *)
(*   - an account is written only by an attempt that was confirmed and     *)
(*     only after a snapshot of that account was kept;                     *)
(*   - an attempt that is reported as not having touched the accounts has  *)
(*     not touched them and never will;                                    *)
(*   - a caller that repeats an operation only on such a report has its    *)
(*     accounts written by at most one attempt.                            *)
(*                                                                         *)
(* SyncExecution and BackupRestore implement this specification.           *)
(***************************************************************************)
CONSTANTS
  Attempt,     \* the attempts of one caller at one operation
  Account      \* the accounts an attempt may write

VARIABLES
  kept,        \* kept[a]: the accounts of which attempt a keeps a snapshot
  dirty,       \* dirty[a]: the accounts attempt a has begun to write
  promised     \* promised: the attempts reported as not having written

vars == <<kept, dirty, promised>>

Init ==
  /\ kept = [a \in Attempt |-> {}]
  /\ dirty = [a \in Attempt |-> {}]
  /\ promised = {}

\* A snapshot is of use only if it precedes the attempt's first write.
Keep(a, s) ==
  /\ dirty[a] = {}
  /\ kept' = [kept EXCEPT ![a] = @ \cup {s}]
  /\ UNCHANGED <<dirty, promised>>

Write(a, s) ==
  /\ s \in kept[a]
  /\ a \notin promised
  /\ \A b \in Attempt \ {a} : dirty[b] = {}
  /\ dirty' = [dirty EXCEPT ![a] = @ \cup {s}]
  /\ UNCHANGED <<kept, promised>>

\* Reported as untouched: the report is final.
Promise(a) ==
  /\ dirty[a] = {}
  /\ promised' = promised \cup {a}
  /\ UNCHANGED <<kept, dirty>>

Next ==
  \E a \in Attempt :
    \/ \E s \in Account : Keep(a, s) \/ Write(a, s)
    \/ Promise(a)

Spec == Init /\ [][Next]_vars

=============================================================================
