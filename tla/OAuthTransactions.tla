-------------------------- MODULE OAuthTransactions --------------------------
(***************************************************************************)
(* The one-time state of an OAuth authorization (apps/api/src/oauth.ts):   *)
(* storeTransaction keeps what the exchange needs, consumeTransaction takes*)
(* it away before the provider is asked for a token, and the token request *)
(* is sent once.  An API process keeps its transactions in memory, or all  *)
(* processes share a directory, one file per transaction, where a rename   *)
(* to a unique name claims it.                                             *)
(*                                                                         *)
(* File operations are synchronous: a process runs one of these operations *)
(* at a time, while other processes run between its file operations.  The  *)
(* directory is that of one tenant; a request of another tenant looks into *)
(* a directory of its own and finds nothing.  Attempts never collide (their*)
(* names are random).                                                      *)
(***************************************************************************)
EXTENDS Integers, FiniteSets

CONSTANTS
  Attempt,       \* authorization attempts, each with its random state
  Instance,      \* API processes
  Capacity,      \* MAX_PENDING_OAUTH_TRANSACTIONS
  Ttl,           \* OAUTH_TRANSACTION_TTL_MS
  MaxTime,       \* bound on the clock
  PowerFailures  \* bound on the power losses of the machine with the directory

ASSUME OAuthAssumption ==
  /\ IsFiniteSet(Attempt) /\ IsFiniteSet(Instance)
  /\ PowerFailures \in Nat
  /\ Capacity \in Nat \ {0} /\ Ttl \in Nat \ {0} /\ MaxTime \in Nat

\* Who asks to exchange: the provider and tenant that started, or not.
Caller == {"owner", "other provider", "other tenant"}

VARIABLES
  clock,     \* Date.now()
  disk,      \* disk[a]: the file of a transaction: "absent", "pending", "claimed"
  synced,    \* synced[a]: what the last fsync of the directory made durable
  held,      \* held[i]: the transactions in the memory of process i
  issued,    \* the attempts whose start was answered: their state is known
  expires,   \* expires[a]: expiresAt of the transaction, 0 before it is stored
  work,      \* work[i]: the operation that process i is running
  exchange,  \* exchange[a]: the token request of a: "none", "sent", "ended"
  sender,    \* sender[a]: the processes that sent a's last token request
  sent,      \* sent[a]: how often the provider was asked for a's token
  outages,   \* power losses so far
  shared     \* whether WATCHBRIDGE_OAUTH_TRANSACTION_DIR is set; never changes

vars == <<clock, disk, synced, held, issued, expires, work, exchange, sender, sent,
          outages, shared>>
request == <<exchange, sender, sent>>
around == <<clock, outages, shared>>

File == {"absent", "pending", "claimed"}
Idle == [op |-> "idle"]

Job ==
  {Idle}
  \cup [op : {"prune"}, attempt : Attempt, now : Nat, active : Nat,
        names : SUBSET [attempt : Attempt, kind : File]]
  \cup [op : {"sync"}, attempt : Attempt]
  \cup [op : {"claimed"}, attempt : Attempt, caller : Caller]

Init ==
  /\ clock = 1
  /\ disk = [a \in Attempt |-> "absent"] /\ synced = disk
  /\ held = [i \in Instance |-> {}]
  /\ issued = {}
  /\ expires = [a \in Attempt |-> 0]
  /\ work = [i \in Instance |-> Idle]
  /\ exchange = [a \in Attempt |-> "none"]
  /\ sender = [a \in Attempt |-> {}]
  /\ sent = [a \in Attempt |-> 0]
  /\ outages = 0 /\ shared \in BOOLEAN

Do(i, op) == work' = [work EXCEPT ![i] = op]

Fresh(a) == expires[a] = 0 /\ \A i \in Instance : work[i] # Idle => work[i].attempt # a

\* The exchange validates its input, then sends one request.  The state is
\* spent either way.
Exchange(i, a) ==
  \/ /\ exchange' = [exchange EXCEPT ![a] = "sent"]
     /\ sender' = [sender EXCEPT ![a] = {i}]
     /\ sent' = [sent EXCEPT ![a] = @ + 1]
  \/ exchange' = [exchange EXCEPT ![a] = "ended"] /\ UNCHANGED <<sender, sent>>
-----------------------------------------------------------------------------
\* A process that keeps its transactions in memory.

Live(i) == {a \in held[i] : expires[a] > clock}

MemoryStart(i, a) ==
  /\ ~shared /\ work[i] = Idle /\ Fresh(a)
  /\ IF Cardinality(Live(i)) >= Capacity
     THEN held' = [held EXCEPT ![i] = Live(i)] /\ UNCHANGED <<expires, issued>>
     ELSE /\ issued' = issued \cup {a}
          /\ held' = [held EXCEPT ![i] = Live(i) \cup {a}]
          /\ expires' = [expires EXCEPT ![a] = clock + Ttl]
  /\ UNCHANGED <<around, disk, synced, work, request>>

\* Unknown here, of another provider, or of another tenant.
MemoryRefuse(i, a, c) ==
  /\ ~shared /\ work[i] = Idle
  /\ a \notin held[i] \/ c # "owner"
  /\ held' = [held EXCEPT ![i] = Live(i)]
  /\ UNCHANGED <<around, disk, synced, expires, issued, work, request>>

MemoryExpired(i, a) ==
  /\ ~shared /\ work[i] = Idle
  /\ a \in held[i] /\ expires[a] <= clock
  /\ held' = [held EXCEPT ![i] = @ \ {a}]
  /\ UNCHANGED <<around, disk, synced, expires, issued, work, request>>

MemoryConsume(i, a) ==
  /\ ~shared /\ work[i] = Idle
  /\ a \in Live(i)
  /\ held' = [held EXCEPT ![i] = Live(i) \ {a}]
  /\ Exchange(i, a)
  /\ UNCHANGED <<around, disk, synced, expires, issued, work>>
-----------------------------------------------------------------------------
\* Processes that share a directory.

\* readdirSync: the files of the moment, to be read one after the other.
List(i, a) ==
  /\ shared /\ work[i] = Idle /\ Fresh(a)
  /\ Do(i, [op |-> "prune", attempt |-> a, now |-> clock, active |-> 0,
            names |-> {[attempt |-> b, kind |-> disk[b]] :
                       b \in {b \in Attempt : disk[b] # "absent"}}])
  /\ UNCHANGED <<around, disk, synced, held, expires, issued, request>>

\* Whether the file of a name is there and has not expired.
Unexpired(i, n) == disk[n.attempt] = n.kind /\ expires[n.attempt] > work[i].now

\* A file that is gone, unreadable or expired is unlinked, the others counted.
Prune(i) ==
  /\ work[i].op = "prune"
  /\ \E n \in work[i].names :
       /\ disk' = [disk EXCEPT ![n.attempt] =
                     IF ~Unexpired(i, n) /\ @ = n.kind THEN "absent" ELSE @]
       /\ Do(i, [work[i] EXCEPT
                   !.names = @ \ {n},
                   !.active = IF Unexpired(i, n) /\ n.kind = "pending" THEN @ + 1 ELSE @])
  /\ UNCHANGED <<around, synced, held, expires, issued, request>>

Counted(i) == work[i].op = "prune" /\ work[i].names = {}

AtCapacity(i) ==
  /\ Counted(i) /\ work[i].active >= Capacity
  /\ Do(i, Idle)
  /\ UNCHANGED <<around, disk, synced, held, expires, issued, request>>

\* A plausible bug: the capacity is not looked at.
PublishAlways(i) ==
  /\ Counted(i)
  /\ LET a == work[i].attempt IN
     /\ disk' = [disk EXCEPT ![a] = "pending"]
     /\ expires' = [expires EXCEPT ![a] = work[i].now + Ttl]
     /\ Do(i, [op |-> "sync", attempt |-> a])
  /\ UNCHANGED <<around, synced, held, issued, request>>

\* The temporary file is written, synced and renamed.
Publish(i) ==
  /\ Counted(i) /\ work[i].active < Capacity
  /\ LET a == work[i].attempt IN
     /\ disk' = [disk EXCEPT ![a] = "pending"]
     /\ expires' = [expires EXCEPT ![a] = work[i].now + Ttl]
     /\ Do(i, [op |-> "sync", attempt |-> a])
  /\ UNCHANGED <<around, synced, held, issued, request>>

PublishFails(i) ==
  /\ Counted(i) /\ work[i].active < Capacity
  /\ Do(i, Idle)
  /\ UNCHANGED <<around, disk, synced, held, expires, issued, request>>

\* A plausible bug: the directory is not synced.
SyncNothing(i) ==
  /\ work[i].op = "sync"
  /\ issued' = issued \cup {work[i].attempt}
  /\ Do(i, Idle)
  /\ UNCHANGED <<around, disk, synced, held, expires, request>>

Sync(i) ==
  /\ work[i].op = "sync"
  /\ synced' = disk
  /\ issued' = issued \cup {work[i].attempt}
  /\ Do(i, Idle)
  /\ UNCHANGED <<around, disk, held, expires, request>>

\* The caller is refused and nobody learns the state of the file.
SyncFails(i) ==
  /\ work[i].op = "sync"
  /\ Do(i, Idle)
  /\ UNCHANGED <<around, disk, synced, held, expires, issued, request>>

\* A plausible bug: the file is read in place, without claiming it.
ClaimByReading(i, a, c) ==
  /\ shared /\ work[i] = Idle
  /\ a \in issued /\ disk[a] \in {"pending", "claimed"} /\ c # "other tenant"
  /\ disk' = [disk EXCEPT ![a] = "claimed"]
  /\ Do(i, [op |-> "claimed", attempt |-> a, caller |-> c])
  /\ UNCHANGED <<around, synced, held, expires, issued, request>>

\* renameSync to a unique name.  When it fails the state is unknown and
\* nothing changes.
Claim(i, a, c) ==
  /\ shared /\ work[i] = Idle
  /\ a \in issued /\ disk[a] = "pending" /\ c # "other tenant"
  /\ disk' = [disk EXCEPT ![a] = "claimed"]
  /\ Do(i, [op |-> "claimed", attempt |-> a, caller |-> c])
  /\ UNCHANGED <<around, synced, held, expires, issued, request>>

\* Another process may have pruned an expired claim before it is read.
Valid(i) ==
  LET a == work[i].attempt IN
  disk[a] = "claimed" /\ work[i].caller = "owner" /\ expires[a] > clock

\* The claim is read and unlinked; a failure to unlink is ignored.
Redeem(i) ==
  /\ work[i].op = "claimed"
  /\ LET a == work[i].attempt IN
     /\ disk' \in {disk, [disk EXCEPT ![a] = "absent"]}
     /\ IF Valid(i) THEN Exchange(i, a) ELSE UNCHANGED request
  /\ Do(i, Idle)
  /\ UNCHANGED <<around, synced, held, expires, issued>>
-----------------------------------------------------------------------------
\* A token, a rejection, an invalid body, a network failure or the timeout.
Answer(a) ==
  /\ exchange[a] = "sent"
  /\ exchange' = [exchange EXCEPT ![a] = "ended"]
  /\ UNCHANGED <<around, disk, synced, held, expires, issued, work, sender, sent>>

\* The process dies and another one takes its place.
Crash(i) ==
  /\ Do(i, Idle)
  /\ held' = [held EXCEPT ![i] = {}]
  /\ exchange' = [a \in Attempt |->
                    IF exchange[a] = "sent" /\ i \in sender[a] THEN "ended" ELSE exchange[a]]
  /\ UNCHANGED <<around, disk, synced, expires, issued, sender, sent>>

\* What was renamed or unlinked since the last fsync of the directory may be
\* undone.
Survives(a) ==
  IF disk[a] = "absent" /\ synced[a] = "pending" THEN File ELSE {disk[a], synced[a]}

PowerLoss ==
  /\ outages < PowerFailures /\ shared
  /\ outages' = outages + 1
  /\ disk' \in {d \in [Attempt -> File] : \A a \in Attempt : d[a] \in Survives(a)}
  /\ synced' = disk'
  /\ held' = [i \in Instance |-> {}]
  /\ work' = [i \in Instance |-> Idle]
  /\ exchange' = [a \in Attempt |-> IF exchange[a] = "sent" THEN "ended" ELSE exchange[a]]
  /\ UNCHANGED <<clock, shared, expires, issued, sender, sent>>

Tick ==
  /\ clock < MaxTime
  /\ clock' = clock + 1
  /\ UNCHANGED <<disk, synced, held, expires, issued, work, request, outages, shared>>

Start(i) ==
  \/ \E a \in Attempt : MemoryStart(i, a) \/ List(i, a)
  \/ Prune(i) \/ AtCapacity(i) \/ Publish(i) \/ PublishFails(i) \/ Sync(i) \/ SyncFails(i)

Consume(i) ==
  \/ \E a \in Attempt, c \in Caller : MemoryRefuse(i, a, c) \/ Claim(i, a, c)
  \/ \E a \in Attempt : MemoryExpired(i, a) \/ MemoryConsume(i, a)
  \/ Redeem(i)

Next ==
  \/ \E i \in Instance : Start(i) \/ Consume(i) \/ Crash(i)
  \/ \E a \in Attempt : Answer(a)
  \/ PowerLoss \/ Tick

Spec == Init /\ [][Next]_vars
-----------------------------------------------------------------------------
OAuthTypeOK ==
  /\ clock \in Nat
  /\ disk \in [Attempt -> File] /\ synced \in [Attempt -> File]
  /\ held \in [Instance -> SUBSET Attempt] /\ issued \subseteq Attempt
  /\ expires \in [Attempt -> Nat]
  /\ work \in [Instance -> Job]
  /\ exchange \in [Attempt -> {"none", "sent", "ended"}]
  /\ sender \in [Attempt -> SUBSET Instance]
  /\ sent \in [Attempt -> Nat] /\ outages \in Nat /\ shared \in BOOLEAN

\* The transaction of an attempt can still be taken.
Takeable(a) == disk[a] = "pending" \/ \E i \in Instance : a \in held[i]

Claims(i, a) == work[i].op = "claimed" /\ work[i].attempt = a
Syncs(i, a) == work[i].op = "sync" /\ work[i].attempt = a
Starts(i, a) == work[i].op = "prune" /\ work[i].attempt = a

\* An attempt that nobody stored yet left no trace, and one process stores it.
NewAttempts ==
  \A a \in Attempt :
    /\ expires[a] = 0 => /\ ~Takeable(a) /\ sent[a] = 0 /\ a \notin issued
                         /\ disk[a] = "absent" /\ synced[a] = "absent"
                         /\ \A i \in Instance : ~Claims(i, a) /\ ~Syncs(i, a)
    /\ \A i \in Instance : Starts(i, a) =>
         expires[a] = 0 /\ \A j \in Instance : Starts(j, a) => j = i

\* What consumes an attempt leaves nothing that could consume it again, until
\* a power loss undoes it.
OneWayToTheProvider ==
  \A a \in Attempt :
    /\ sent[a] <= outages + 1
    /\ sent[a] = outages + 1 => ~Takeable(a) /\ \A i \in Instance : ~Claims(i, a)
    /\ \A i \in Instance : Claims(i, a) =>
         ~Takeable(a) /\ \A j \in Instance : Claims(j, a) => j = i
    /\ \A i, j \in Instance : a \in held[i] /\ a \in held[j] => i = j

\* A process uses its memory or the directory.
ModesApart ==
  IF shared THEN held = [i \in Instance |-> {}]
  ELSE disk = [a \in Attempt |-> "absent"] /\ work = [i \in Instance |-> Idle]

OAuthInvariant == OAuthTypeOK /\ NewAttempts /\ OneWayToTheProvider /\ ModesApart

\* oauth.ts 733: whichever processes are asked, however they interleave, fail
\* and restart, an authorization state is exchanged at most once as long as no
\* power loss undoes the rename that claimed it.
SingleUse == outages = 0 => \A a \in Attempt : sent[a] <= 1

\* docs/OAUTH_SETUP.md 390, "Authorization state and PKCE verifiers are random,
\* one-time": an authorization state is exchanged at most once, power lost or not.
OneTime == \A a \in Attempt : sent[a] <= 1

\* storeTransaction: without a power loss, the attempts on disk never exceed
\* the capacity by more than one for each further process, each of which may
\* have counted before.
PendingBounded ==
  outages = 0 =>
    Cardinality({a \in Attempt : disk[a] = "pending" /\ expires[a] > clock})
      < Capacity + Cardinality(Instance)

\* docs/DEPLOYMENT.md 121: the fsync of the directory makes an issued state
\* outlive a power loss.
IssuedSurvivesPowerLoss ==
  [][PowerLoss => \A a \in issued : disk[a] = "pending" => disk'[a] = "pending"]_vars
=============================================================================
