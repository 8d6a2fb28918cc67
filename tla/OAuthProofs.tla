----------------------------- MODULE OAuthProofs -----------------------------
(***************************************************************************)
(* Proofs about OAuthTransactions for any number of attempts and processes *)
(* and any capacity: an authorization state reaches the provider at most   *)
(* once, and once more for each power loss, through crashes, concurrent    *)
(* claims and pruning, in memory as in a shared directory.  The invariant  *)
(* says that whoever is about to consume an attempt has taken it away from *)
(* everybody else; a file's rename and a map's delete make it so.  Then    *)
(* the bound on the attempts that are kept, and that a state a caller was  *)
(* given outlives a power loss.  Last, about the panel (OAuthPanel): whose *)
(* callbacks it exchanges, and what it says of the tokens it dropped.      *)
(***************************************************************************)
EXTENDS MCOAuthTransactions, FiniteSetTheorems, TLAPS

USE OAuthAssumption

LEMMA InvariantInit ==
  ASSUME Init PROVE OAuthInvariant
<1> USE DEF Init, Idle, File
<1>1. OAuthTypeOK
  BY DEF OAuthTypeOK, Job
<1>2. NewAttempts
  BY DEF NewAttempts, Takeable, Claims, Starts, Syncs
<1>3. OneWayToTheProvider
  BY DEF OneWayToTheProvider, Takeable, Claims
<1>4. ModesApart
  BY DEF ModesApart
<1> QED
  BY <1>1, <1>2, <1>3, <1>4 DEF OAuthInvariant

\* A step that takes transactions away and begins nothing keeps the invariant.
LEMMA LessKeepsInvariant ==
  ASSUME OAuthInvariant, OAuthTypeOK', ModesApart',
         \A a \in Attempt : Takeable(a)' => Takeable(a),
         \A a \in Attempt : disk[a] = "absent" => disk'[a] = "absent",
         \A i \in Instance : held'[i] \subseteq held[i],
         \A i \in Instance, a \in Attempt : Claims(i, a)' => Claims(i, a),
         \A i \in Instance, a \in Attempt : Starts(i, a)' => Starts(i, a),
         \A i \in Instance, a \in Attempt : Syncs(i, a)' => Syncs(i, a),
         expires' = expires, sent' = sent, issued' = issued,
         synced' = synced, outages' = outages
  PROVE  OAuthInvariant'
<1>1. NewAttempts'
  BY DEF OAuthInvariant, NewAttempts, OAuthTypeOK
<1>2. OneWayToTheProvider'
  BY DEF OAuthInvariant, OneWayToTheProvider, OAuthTypeOK
<1> QED
  BY <1>1, <1>2 DEF OAuthInvariant

\* A step of process i that changes the process's own operation only.
LEMMA WorkOfOne ==
  ASSUME OAuthTypeOK, NEW i \in Instance, NEW op \in Job, Do(i, op)
  PROVE  /\ work' \in [Instance -> Job] /\ work'[i] = op
         /\ \A j \in Instance : j # i => work'[j] = work[j]
BY DEF OAuthTypeOK, Do

Pruning == [op : {"prune"}, attempt : Attempt, now : Nat, active : Nat,
            names : SUBSET [attempt : Attempt, kind : File]]

\* What a process counts when it looks at the file of a name.
CountAfter(i, n) ==
  IF Unexpired(i, n) /\ n.kind = "pending" THEN work[i].active + 1 ELSE work[i].active

LEMMA PruneStep ==
  ASSUME OAuthTypeOK, NEW i \in Instance, Prune(i)
  PROVE  /\ work[i] \in Pruning /\ work' \in [Instance -> Job] /\ work'[i] \in Pruning
         /\ \A j \in Instance : j # i => work'[j] = work[j]
         /\ \E n \in work[i].names :
              /\ disk' = [disk EXCEPT ![n.attempt] =
                            IF ~Unexpired(i, n) /\ @ = n.kind THEN "absent" ELSE @]
              /\ work'[i].op = "prune" /\ work'[i].attempt = work[i].attempt
              /\ work'[i].now = work[i].now /\ work'[i].names = work[i].names \ {n}
              /\ work'[i].active = CountAfter(i, n)
<1>1. PICK n \in work[i].names :
        /\ disk' = [disk EXCEPT ![n.attempt] =
                      IF ~Unexpired(i, n) /\ @ = n.kind THEN "absent" ELSE @]
        /\ Do(i, [work[i] EXCEPT
                    !.names = @ \ {n},
                    !.active = IF Unexpired(i, n) /\ n.kind = "pending" THEN @ + 1 ELSE @])
  BY DEF Prune
<1> DEFINE job == [work[i] EXCEPT
                    !.names = @ \ {n},
                    !.active = IF Unexpired(i, n) /\ n.kind = "pending" THEN @ + 1 ELSE @]
           left == work[i].names \ {n}
           count == CountAfter(i, n)
           one == [work[i] EXCEPT !.names = left]
<1>2. work[i] \in Pruning
  BY DEF Prune, OAuthTypeOK, Job, Idle, Pruning
<1>3. work[i].active \in Nat /\ work[i].names \in SUBSET [attempt : Attempt, kind : File]
  BY <1>2 DEF Pruning
<1>4. left \in SUBSET [attempt : Attempt, kind : File] /\ count \in Nat
  BY <1>3 DEF CountAfter
<1>5. job = [one EXCEPT !.active = count]
  BY <1>3, Zenon DEF CountAfter
<1> HIDE DEF left, count
<1>6. one \in Pruning /\ one.attempt = work[i].attempt /\ one.now = work[i].now /\ one.names = left
  BY <1>2, <1>4 DEF Pruning
<1> HIDE DEF one
<1>7. /\ [one EXCEPT !.active = count] \in Pruning
      /\ [one EXCEPT !.active = count].op = "prune"
      /\ [one EXCEPT !.active = count].attempt = one.attempt
      /\ [one EXCEPT !.active = count].now = one.now
      /\ [one EXCEPT !.active = count].names = one.names
      /\ [one EXCEPT !.active = count].active = count
  BY <1>4, <1>6 DEF Pruning
<1>8. job \in Pruning /\ job \in Job
  BY <1>5, <1>7 DEF Job, Pruning
<1>9. /\ work' \in [Instance -> Job] /\ work'[i] = job
      /\ \A j \in Instance : j # i => work'[j] = work[j]
  BY <1>1, <1>8, WorkOfOne
<1> QED
  BY <1>1, <1>2, <1>5, <1>6, <1>7, <1>8, <1>9 DEF left, count

LEMMA InvariantNext ==
  ASSUME OAuthInvariant, [Next]_vars
  PROVE  OAuthInvariant'
<1> USE DEF around, request
<1>0. OAuthTypeOK /\ NewAttempts /\ OneWayToTheProvider /\ ModesApart
  BY DEF OAuthInvariant
<1>i. Idle \in Job /\ Idle.op = "idle"
  BY DEF Idle, Job
<1>1. CASE UNCHANGED vars
  BY <1>0, <1>1 DEF vars, OAuthInvariant, OAuthTypeOK, NewAttempts, OneWayToTheProvider,
     ModesApart, Takeable, Claims, Starts, Syncs
<1>2. CASE Tick \/ \E a \in Attempt : Answer(a)
  <2>1. UNCHANGED <<disk, synced, held, issued, expires, work, sender, sent, outages,
                shared>>
    BY <1>2 DEF Tick, Answer
  <2>2. OAuthTypeOK'
    BY <1>0, <1>2 DEF Tick, Answer, OAuthTypeOK
  <2>3. ModesApart'
    BY <1>0, <2>1 DEF ModesApart
  <2> QED
    BY <2>1, <2>2, <2>3, LessKeepsInvariant DEF Takeable, Claims, Starts, Syncs
<1>3. CASE PowerLoss
  <2>1. /\ shared' = shared /\ outages' = outages + 1 /\ shared
        /\ UNCHANGED <<clock, expires, issued, sender, sent>>
        /\ disk' \in [Attempt -> File] /\ synced' = disk'
        /\ \A a \in Attempt : disk'[a] \in Survives(a)
        /\ held' = [i \in Instance |-> {}] /\ work' = [i \in Instance |-> Idle]
    BY <1>3 DEF PowerLoss
  <2>2. exchange' \in [Attempt -> {"none", "sent", "ended"}]
    BY <1>0, <1>3 DEF PowerLoss, OAuthTypeOK
  <2>3. OAuthTypeOK' /\ ModesApart'
    BY <1>0, <1>i, <2>1, <2>2 DEF OAuthTypeOK, ModesApart
  <2>4. \A a \in Attempt, i \in Instance : ~Claims(i, a)' /\ ~Starts(i, a)' /\ ~Syncs(i, a)'
    BY <1>i, <2>1 DEF Claims, Starts, Syncs
  <2>5. NewAttempts'
    BY <1>0, <2>1, <2>4 DEF NewAttempts, Takeable, Survives
  <2>6. \A a \in Attempt : sent'[a] < outages' + 1
    BY <1>0, <2>1 DEF OneWayToTheProvider, OAuthTypeOK
  <2>7. OneWayToTheProvider'
    <3>1. \A a \in Attempt : sent'[a] \in Nat /\ outages' \in Nat
      BY <2>3 DEF OAuthTypeOK
    <3>2. \A a \in Attempt : sent'[a] <= outages' + 1 /\ sent'[a] # outages' + 1
      BY <2>6, <3>1
    <3> QED
      BY <2>1, <2>4, <3>2 DEF OneWayToTheProvider
  <2> QED
    BY <2>3, <2>5, <2>7 DEF OAuthInvariant
<1>4. ASSUME NEW i \in Instance, Crash(i) PROVE OAuthInvariant'
  <2>1. /\ work' \in [Instance -> Job] /\ work'[i] = Idle
        /\ \A j \in Instance : j # i => work'[j] = work[j]
    BY <1>0, <1>i, <1>4, WorkOfOne DEF Crash
  <2>2. OAuthTypeOK'
    BY <1>0, <1>4, <2>1 DEF Crash, OAuthTypeOK
  <2>3. /\ UNCHANGED <<disk, synced, issued, expires, sent, around>>
        /\ \A j \in Instance : held'[j] \subseteq held[j]
    BY <1>0, <1>4 DEF Crash, OAuthTypeOK
  <2>4. ModesApart'
    <3>1. CASE shared
      BY <1>0, <2>2, <2>3, <3>1 DEF ModesApart, OAuthTypeOK
    <3>2. CASE ~shared
      BY <1>0, <2>1, <2>3, <3>2 DEF ModesApart
    <3> QED
      BY <3>1, <3>2
  <2> QED
    BY <1>i, <2>1, <2>2, <2>3, <2>4, LessKeepsInvariant DEF Takeable, Claims, Starts, Syncs
<1>5. ASSUME NEW i \in Instance, NEW a \in Attempt,
             MemoryExpired(i, a) \/ \E c \in Caller : MemoryRefuse(i, a, c)
      PROVE  OAuthInvariant'
  <2>1. OAuthTypeOK'
    BY <1>0, <1>5 DEF MemoryExpired, MemoryRefuse, Live, OAuthTypeOK
  <2>2. /\ UNCHANGED <<disk, synced, issued, expires, sent, work, around>> /\ ~shared
        /\ \A j \in Instance : held'[j] \subseteq held[j]
    BY <1>0, <1>5 DEF MemoryExpired, MemoryRefuse, Live, OAuthTypeOK
  <2>3. ModesApart'
    BY <1>0, <2>2 DEF ModesApart
  <2> QED
    BY <2>1, <2>2, <2>3, LessKeepsInvariant DEF Takeable, Claims, Starts, Syncs
<1>6. ASSUME NEW i \in Instance, NEW a \in Attempt, MemoryStart(i, a)
      PROVE  OAuthInvariant'
  <2>1. OAuthTypeOK'
    BY <1>0, <1>6 DEF MemoryStart, Live, OAuthTypeOK
  <2>2. expires[a] = 0 /\ ~shared /\ UNCHANGED <<disk, synced, sent, work, around>>
    BY <1>6 DEF MemoryStart, Fresh
  <2>3. \A j \in Instance, b \in Attempt : ~Claims(j, b) /\ ~Starts(j, b) /\ ~Syncs(j, b)
    BY <1>0, <1>i, <2>2 DEF ModesApart, Claims, Starts, Syncs
  <2>4. ModesApart'
    BY <1>0, <2>2 DEF ModesApart
  <2>5. CASE UNCHANGED <<expires, issued>> /\ held' = [held EXCEPT ![i] = Live(i)]
    <3>1. \A j \in Instance : held'[j] \subseteq held[j]
      BY <1>0, <2>5 DEF Live, OAuthTypeOK
    <3> QED
      BY <2>1, <2>2, <2>4, <2>5, <3>1, LessKeepsInvariant DEF Takeable, Claims, Starts, Syncs
  <2>6. CASE /\ issued' = issued \cup {a}
             /\ held' = [held EXCEPT ![i] = Live(i) \cup {a}]
             /\ expires' = [expires EXCEPT ![a] = clock + Ttl]
    <3>1. /\ expires'[a] # 0 /\ \A b \in Attempt : b # a => expires'[b] = expires[b]
          /\ held'[i] \subseteq held[i] \cup {a}
          /\ \A j \in Instance : j # i => held'[j] = held[j]
      BY <1>0, <2>6 DEF Live, OAuthTypeOK
    <3>2. sent[a] = 0 /\ ~Takeable(a)
      BY <1>0, <2>2 DEF NewAttempts
    <3>5. 0 # outages + 1 /\ 0 <= outages + 1
      BY <1>0 DEF OAuthTypeOK
    <3>3. NewAttempts'
      BY <1>0, <2>2, <2>3, <2>6, <3>1 DEF NewAttempts, Takeable, Claims, Starts, Syncs
    <3>4. OneWayToTheProvider'
      BY <1>0, <2>2, <2>3, <3>1, <3>2, <3>5 DEF OneWayToTheProvider, Takeable, Claims
    <3> QED
      BY <2>1, <2>4, <3>3, <3>4 DEF OAuthInvariant
  <2> QED
    BY <1>6, <2>5, <2>6 DEF MemoryStart
<1>7. ASSUME NEW i \in Instance, NEW a \in Attempt, MemoryConsume(i, a)
      PROVE  OAuthInvariant'
  <2>1. OAuthTypeOK'
    BY <1>0, <1>7 DEF MemoryConsume, Exchange, Live, OAuthTypeOK
  <2>2. /\ UNCHANGED <<disk, synced, issued, expires, work, around>> /\ ~shared
        /\ held'[i] \subseteq held[i] \ {a} /\ a \in held[i]
        /\ \A j \in Instance : j # i => held'[j] = held[j]
        /\ sent'[a] \in {sent[a], sent[a] + 1} /\ \A b \in Attempt : b # a => sent'[b] = sent[b]
    BY <1>0, <1>7 DEF MemoryConsume, Exchange, Live, OAuthTypeOK
  <2>3. /\ sent[a] # outages + 1 /\ expires[a] # 0
        /\ sent[a] \in Nat /\ outages \in Nat /\ sent[a] <= outages + 1
    BY <1>0, <2>2 DEF OneWayToTheProvider, NewAttempts, Takeable, OAuthTypeOK
  <2>4. \A j \in Instance, b \in Attempt : ~Claims(j, b) /\ ~Starts(j, b) /\ ~Syncs(j, b)
    BY <1>0, <1>i, <2>2 DEF ModesApart, Claims, Starts, Syncs
  <2>5. ModesApart'
    BY <1>0, <2>2 DEF ModesApart
  <2>6. NewAttempts'
    BY <1>0, <2>2, <2>3, <2>4 DEF NewAttempts, Takeable, Claims, Starts, Syncs
  <2>7. ~Takeable(a)' /\ sent'[a] <= outages + 1
    <3>1. sent'[a] <= outages + 1
      BY <2>2, <2>3
    <3> QED
      BY <1>0, <2>2, <3>1 DEF OneWayToTheProvider, ModesApart, Takeable
  <2>8. \A b \in Attempt : b # a => (Takeable(b)' => Takeable(b))
    BY <2>2 DEF Takeable
  <2>9. \A j \in Instance, b \in Attempt : ~Claims(j, b)' /\ (b \in held'[j] => b \in held[j])
    BY <2>2, <2>4 DEF Claims
  <2>10. OneWayToTheProvider'
    BY <1>0, <2>2, <2>7, <2>8, <2>9 DEF OneWayToTheProvider
  <2> QED
    BY <2>1, <2>5, <2>6, <2>10 DEF OAuthInvariant
<1>8. ASSUME NEW i \in Instance, NEW a \in Attempt, List(i, a) PROVE OAuthInvariant'
  <2> DEFINE job == [op |-> "prune", attempt |-> a, now |-> clock, active |-> 0,
                     names |-> {[attempt |-> b, kind |-> disk[b]] :
                                b \in {b \in Attempt : disk[b] # "absent"}}]
  <2>1. job \in Job
    <3>1. job.names \subseteq [attempt : Attempt, kind : File]
      BY <1>0 DEF OAuthTypeOK
    <3> QED
      BY <1>0, <3>1 DEF Job, OAuthTypeOK
  <2>2. /\ work' \in [Instance -> Job] /\ work'[i] = job
        /\ \A j \in Instance : j # i => work'[j] = work[j]
    BY <1>0, <1>8, <2>1, WorkOfOne DEF List
  <2>3. /\ UNCHANGED <<around, disk, synced, held, issued, expires, request>> /\ shared
        /\ expires[a] = 0 /\ \A j \in Instance : ~Starts(j, a)
    BY <1>8, <1>i DEF List, Fresh, Starts
  <2>4. OAuthTypeOK' /\ ModesApart'
    BY <1>0, <2>2, <2>3 DEF OAuthTypeOK, ModesApart
  <2>5. work'[i].op = "prune" /\ work'[i].attempt = a
    BY <2>2
  <2>6. NewAttempts'
    BY <1>0, <2>2, <2>3, <2>5 DEF NewAttempts, Takeable, Claims, Starts, Syncs
  <2>7. OneWayToTheProvider'
    BY <1>0, <2>2, <2>3, <2>5 DEF OneWayToTheProvider, Takeable, Claims
  <2> QED
    BY <2>4, <2>6, <2>7 DEF OAuthInvariant
<1>9. ASSUME NEW i \in Instance, Prune(i) PROVE OAuthInvariant'
  <2>1. PICK n \in work[i].names :
          /\ disk' = [disk EXCEPT ![n.attempt] =
                        IF ~Unexpired(i, n) /\ @ = n.kind THEN "absent" ELSE @]
          /\ work'[i].op = "prune" /\ work'[i].attempt = work[i].attempt
    BY <1>0, <1>9, PruneStep
  <2>2. /\ work[i].op = "prune" /\ shared
        /\ UNCHANGED <<around, synced, held, issued, expires, request>>
    BY <1>0, <1>i, <1>9 DEF Prune, ModesApart
  <2>3. /\ work' \in [Instance -> Job]
        /\ \A j \in Instance : j # i => work'[j] = work[j]
    BY <1>0, <1>9, PruneStep
  <2>4. disk' \in [Attempt -> File] /\ \A b \in Attempt : disk'[b] \in {disk[b], "absent"}
    BY <1>0, <2>1 DEF OAuthTypeOK, File
  <2>5. OAuthTypeOK' /\ ModesApart'
    BY <1>0, <2>2, <2>3, <2>4 DEF OAuthTypeOK, ModesApart
  <2> QED
    BY <2>1, <2>2, <2>3, <2>4, <2>5, LessKeepsInvariant DEF Takeable, Claims, Starts, Syncs
<1>10. ASSUME NEW i \in Instance, AtCapacity(i) \/ PublishFails(i) \/ SyncFails(i)
       PROVE  OAuthInvariant'
  <2>1. /\ work' \in [Instance -> Job] /\ work'[i] = Idle
        /\ \A j \in Instance : j # i => work'[j] = work[j]
    BY <1>0, <1>i, <1>10, WorkOfOne DEF AtCapacity, PublishFails, SyncFails
  <2>2. UNCHANGED <<around, disk, synced, held, issued, expires, request>> /\ shared
    BY <1>0, <1>i, <1>10 DEF AtCapacity, PublishFails, SyncFails, Counted, ModesApart
  <2>3. OAuthTypeOK' /\ ModesApart'
    BY <1>0, <2>1, <2>2 DEF OAuthTypeOK, ModesApart
  <2> QED
    BY <1>i, <2>1, <2>2, <2>3, LessKeepsInvariant DEF Takeable, Claims, Starts, Syncs
<1>11. ASSUME NEW i \in Instance, Publish(i) PROVE OAuthInvariant'
  <2> DEFINE a == work[i].attempt
  <2>1. /\ work[i].op = "prune" /\ shared /\ UNCHANGED <<around, synced, held, issued, request>>
        /\ disk' = [disk EXCEPT ![a] = "pending"]
        /\ expires' = [expires EXCEPT ![a] = work[i].now + Ttl]
        /\ Do(i, [op |-> "sync", attempt |-> a])
    BY <1>0, <1>i, <1>11 DEF Publish, Counted, ModesApart
  <2>2. a \in Attempt /\ work[i].now \in Nat
    BY <1>0, <1>i, <2>1 DEF OAuthTypeOK, Job
  <2>3. Starts(i, a) /\ expires[a] = 0 /\ sent[a] = 0 /\ ~Takeable(a)
        /\ \A j \in Instance : ~Claims(j, a) /\ ~Syncs(j, a) /\ (Starts(j, a) => j = i)
    BY <1>0, <2>1, <2>2 DEF NewAttempts, Starts
  <2>4. /\ work' \in [Instance -> Job] /\ work'[i] = [op |-> "sync", attempt |-> a]
        /\ \A j \in Instance : j # i => work'[j] = work[j]
    <3>1. [op |-> "sync", attempt |-> a] \in Job
      BY <2>2 DEF Job
    <3> QED
      BY <1>0, <2>1, <3>1, WorkOfOne
  <2>5. /\ expires'[a] # 0 /\ \A b \in Attempt : b # a => expires'[b] = expires[b] /\ disk'[b] = disk[b]
        /\ expires' \in [Attempt -> Nat] /\ disk' \in [Attempt -> File] /\ disk'[a] = "pending"
    BY <1>0, <2>1, <2>2 DEF OAuthTypeOK, File
  <2>6. OAuthTypeOK' /\ ModesApart'
    BY <1>0, <2>1, <2>4, <2>5 DEF OAuthTypeOK, ModesApart
  <2>7. work'[i].op = "sync" /\ work'[i].attempt = a
    BY <2>4
  <2>8. NewAttempts'
    BY <1>0, <2>1, <2>3, <2>4, <2>5, <2>7 DEF NewAttempts, Takeable, Claims, Starts, Syncs
  <2>9. OneWayToTheProvider'
    <3>1. 0 # outages + 1 /\ 0 <= outages + 1
      BY <1>0 DEF OAuthTypeOK
    <3>2. \A b \in Attempt : b # a => (Takeable(b)' <=> Takeable(b))
      BY <2>1, <2>5 DEF Takeable
    <3>3. \A j \in Instance, b \in Attempt : Claims(j, b)' => Claims(j, b)
      BY <2>4, <2>7 DEF Claims
    <3>4. sent' = sent /\ outages' = outages /\ held' = held
      BY <2>1
    <3> QED
      BY <1>0, <2>3, <3>1, <3>2, <3>3, <3>4 DEF OneWayToTheProvider
  <2> QED
    BY <2>6, <2>8, <2>9 DEF OAuthInvariant
<1>12. ASSUME NEW i \in Instance, Sync(i) PROVE OAuthInvariant'
  <2> DEFINE a == work[i].attempt
  <2>1. /\ work[i].op = "sync" /\ shared /\ UNCHANGED <<around, disk, held, expires, request>>
        /\ synced' = disk /\ issued' = issued \cup {a}
    BY <1>0, <1>i, <1>12 DEF Sync, ModesApart
  <2>2. a \in Attempt
    BY <1>0, <1>i, <2>1 DEF OAuthTypeOK, Job
  <2>3. Syncs(i, a) /\ expires[a] # 0
    BY <1>0, <2>1, <2>2 DEF NewAttempts, Syncs
  <2>4. /\ work' \in [Instance -> Job] /\ work'[i] = Idle
        /\ \A j \in Instance : j # i => work'[j] = work[j]
    BY <1>0, <1>i, <1>12, WorkOfOne DEF Sync
  <2>5. OAuthTypeOK' /\ ModesApart'
    BY <1>0, <2>1, <2>2, <2>4 DEF OAuthTypeOK, ModesApart
  <2>6. NewAttempts'
    BY <1>0, <1>i, <2>1, <2>3, <2>4 DEF NewAttempts, Takeable, Claims, Starts, Syncs
  <2>7. OneWayToTheProvider'
    BY <1>0, <1>i, <2>1, <2>4 DEF OneWayToTheProvider, Takeable, Claims
  <2> QED
    BY <2>5, <2>6, <2>7 DEF OAuthInvariant
<1>13. ASSUME NEW i \in Instance, NEW a \in Attempt, NEW c \in Caller, Claim(i, a, c)
       PROVE  OAuthInvariant'
  <2>1. /\ work' \in [Instance -> Job]
        /\ work'[i] = [op |-> "claimed", attempt |-> a, caller |-> c]
        /\ \A j \in Instance : j # i => work'[j] = work[j]
    <3>1. [op |-> "claimed", attempt |-> a, caller |-> c] \in Job
      BY DEF Job
    <3> QED
      BY <1>0, <1>13, <3>1, WorkOfOne DEF Claim
  <2>2. /\ UNCHANGED <<around, synced, held, issued, expires, request>> /\ shared /\ a \in issued
        /\ disk[a] = "pending" /\ disk'[a] = "claimed" /\ disk' \in [Attempt -> File]
        /\ \A b \in Attempt : b # a => disk'[b] = disk[b]
    BY <1>0, <1>13 DEF Claim, OAuthTypeOK, File
  <2>3. OAuthTypeOK' /\ ModesApart'
    BY <1>0, <2>1, <2>2 DEF OAuthTypeOK, ModesApart
  <2>4. work'[i].op = "claimed" /\ work'[i].attempt = a
    BY <2>1
  <2>5. /\ sent[a] # outages + 1 /\ expires[a] # 0
        /\ \A j \in Instance : ~Claims(j, a) /\ held[j] = {}
    BY <1>0, <2>2 DEF OneWayToTheProvider, NewAttempts, ModesApart, Takeable, OAuthTypeOK
  <2>6. NewAttempts'
    BY <1>0, <2>1, <2>2, <2>4, <2>5 DEF NewAttempts, Takeable, Claims, Starts, Syncs
  <2>7. OneWayToTheProvider'
    BY <1>0, <2>1, <2>2, <2>4, <2>5 DEF OneWayToTheProvider, Takeable, Claims
  <2> QED
    BY <2>3, <2>6, <2>7 DEF OAuthInvariant
<1>14. ASSUME NEW i \in Instance, Redeem(i) PROVE OAuthInvariant'
  <2> DEFINE a == work[i].attempt
  <2>1. /\ work[i].op = "claimed" /\ shared /\ UNCHANGED <<around, synced, held, issued, expires>>
        /\ disk' \in {disk, [disk EXCEPT ![a] = "absent"]}
        /\ Exchange(i, a) \/ UNCHANGED request
    BY <1>0, <1>i, <1>14 DEF Redeem, ModesApart
  <2>2. a \in Attempt
    BY <1>0, <1>i, <2>1 DEF OAuthTypeOK, Job
  <2>3. Claims(i, a) /\ sent[a] # outages + 1 /\ expires[a] # 0 /\ ~Takeable(a)
        /\ sent[a] \in Nat /\ outages \in Nat /\ sent[a] <= outages + 1
        /\ \A j \in Instance : Claims(j, a) => j = i
    BY <1>0, <2>1, <2>2 DEF OneWayToTheProvider, NewAttempts, Claims, OAuthTypeOK
  <2>4. /\ work' \in [Instance -> Job] /\ work'[i] = Idle
        /\ \A j \in Instance : j # i => work'[j] = work[j]
    BY <1>0, <1>i, <1>14, WorkOfOne DEF Redeem
  <2>5. /\ sent'[a] <= outages + 1 /\ \A b \in Attempt : b # a => sent'[b] = sent[b]
        /\ sent' \in [Attempt -> Nat] /\ sender' \in [Attempt -> SUBSET Instance]
        /\ exchange' \in [Attempt -> {"none", "sent", "ended"}]
    BY <1>0, <2>1, <2>2, <2>3 DEF Exchange, OAuthTypeOK
  <2>6. disk' \in [Attempt -> File] /\ \A b \in Attempt : disk'[b] \in {disk[b], "absent"}
    BY <1>0, <2>1, <2>2 DEF OAuthTypeOK, File
  <2>7. OAuthTypeOK' /\ ModesApart'
    BY <1>0, <2>1, <2>4, <2>5, <2>6 DEF OAuthTypeOK, ModesApart
  <2>8. NewAttempts'
    BY <1>0, <1>i, <2>1, <2>3, <2>4, <2>5, <2>6 DEF NewAttempts, Takeable, Claims, Starts, Syncs
  <2>9. OneWayToTheProvider'
    BY <1>0, <1>i, <2>1, <2>3, <2>4, <2>5, <2>6 DEF OneWayToTheProvider, Takeable, Claims
  <2> QED
    BY <2>7, <2>8, <2>9 DEF OAuthInvariant
<1> QED
  BY <1>1, <1>2, <1>3, <1>4, <1>5, <1>6, <1>7, <1>8, <1>9, <1>10, <1>11, <1>12, <1>13, <1>14
  DEF Next, Start, Consume

\* However processes crash, prune and claim, what consumes an attempt leaves
\* nothing that could consume it again, until a power loss undoes it.
THEOREM AttemptsAreSpentOnce == Spec => []OAuthInvariant
<1>1. Init => OAuthInvariant
  BY InvariantInit
<1>2. OAuthInvariant /\ [Next]_vars => OAuthInvariant'
  BY InvariantNext
<1> QED
  BY <1>1, <1>2, PTL DEF Spec

\* As long as no power loss undoes its claim, an authorization state is exchanged
\* at most once, whichever processes are asked and in whatever order they run.
THEOREM StatesAreOneTime == Spec => []SingleUse
<1>0. ASSUME OAuthInvariant, NEW a \in Attempt, outages = 0
      PROVE  sent[a] <= 1
  <2>1. sent[a] \in Nat /\ outages \in Nat /\ sent[a] <= outages + 1
    BY <1>0 DEF OAuthInvariant, OAuthTypeOK, OneWayToTheProvider
  <2> QED
    BY <1>0, <2>1
<1>1. OAuthInvariant => SingleUse
  BY <1>0 DEF SingleUse
<1> QED
  BY <1>1, AttemptsAreSpentOnce, PTL

-----------------------------------------------------------------------------
(***************************************************************************)
(* The bound on what is kept.  A process counts the files one by one while *)
(* others store and take theirs, so each may miss what the others store    *)
(* after it listed.  What it will have counted at most drops only with the *)
(* number of files; so of the processes that may still find room, at most  *)
(* one can store for each that has not yet: for every set S of them, the   *)
(* files and the members of S together stay within the limit.              *)
(***************************************************************************)
Waiting == {a \in Attempt : disk[a] = "pending" /\ expires[a] > clock}

Left(i) == {a \in Waiting : [attempt |-> a, kind |-> "pending"] \in work[i].names}

\* What process i will have counted at most, if nothing more is stored.
WillCount(i) == work[i].active + Cardinality(Left(i))

Pruners == {i \in Instance : work[i].op = "prune"}

CountsInTime == \A i \in Pruners : work[i].now <= clock

Bounded(S, m) == Cardinality(Waiting) + Cardinality(S) <= m + Cardinality(Instance)

EveryCountIsBounded ==
  outages = 0 =>
    \A S \in SUBSET Pruners, m \in Nat :
      Capacity <= m + 1 /\ (\A i \in S : WillCount(i) <= m) => Bounded(S, m)

IssuedIsSynced == \A a \in issued : disk[a] = "pending" => synced[a] = "pending"

LEMMA UnionBound ==
  ASSUME NEW A, NEW B, NEW C, IsFiniteSet(A), IsFiniteSet(B), C \subseteq A \cup B
  PROVE  Cardinality(C) <= Cardinality(A) + Cardinality(B)
<1>1. /\ IsFiniteSet(A \cup B) /\ IsFiniteSet(A \cap B)
      /\ Cardinality(A \cup B) = Cardinality(A) + Cardinality(B) - Cardinality(A \cap B)
  BY FS_Union, FS_Intersection
<1>2. IsFiniteSet(C) /\ Cardinality(C) <= Cardinality(A \cup B)
  BY <1>1, FS_Subset
<1>3. /\ Cardinality(A) \in Nat /\ Cardinality(B) \in Nat /\ Cardinality(C) \in Nat
      /\ Cardinality(A \cap B) \in Nat
  BY <1>1, <1>2, FS_CardinalityType
<1>4. QED
  BY <1>1, <1>2, <1>3

LEMMA FiniteCounts ==
  /\ IsFiniteSet(Waiting) /\ Cardinality(Waiting) \in Nat
  /\ \A i \in Instance : IsFiniteSet(Left(i)) /\ Cardinality(Left(i)) \in Nat
  /\ \A S \in SUBSET Instance : IsFiniteSet(S) /\ Cardinality(S) \in Nat
                                /\ Cardinality(S) <= Cardinality(Instance)
  /\ Cardinality(Instance) \in Nat
<1>1. Waiting \subseteq Attempt /\ \A i \in Instance : Left(i) \subseteq Waiting
  BY DEF Waiting, Left
<1>2. QED
  BY <1>1, FS_Subset, FS_CardinalityType

\* The same after a step.
LEMMA FiniteCountsNext ==
  /\ IsFiniteSet(Waiting') /\ Cardinality(Waiting') \in Nat
  /\ \A i \in Instance : IsFiniteSet(Left(i)') /\ Cardinality(Left(i)') \in Nat
<1>1. Waiting' \subseteq Attempt /\ \A i \in Instance : Left(i)' \subseteq Waiting'
  BY DEF Waiting, Left
<1>2. QED
  BY <1>1, FS_Subset, FS_CardinalityType

LEMMA PrunersCount ==
  ASSUME OAuthTypeOK, NEW i \in Pruners
  PROVE  /\ i \in Instance /\ work[i] \in Pruning
         /\ work[i].active \in Nat /\ work[i].now \in Nat /\ work[i].attempt \in Attempt
         /\ WillCount(i) \in Nat
<1>1. i \in Instance /\ work[i] \in Job /\ work[i].op = "prune"
  BY DEF OAuthTypeOK, Pruners
<1>2. work[i] \in Pruning
  BY <1>1 DEF Job, Idle, Pruning
<1>3. work[i].active \in Nat /\ work[i].now \in Nat /\ work[i].attempt \in Attempt
  BY <1>2 DEF Pruning
<1>4. QED
  BY <1>1, <1>2, <1>3, FiniteCounts DEF WillCount

LEMMA PrunersCountNext ==
  ASSUME OAuthTypeOK', NEW i \in Pruners'
  PROVE  i \in Instance /\ work'[i].active \in Nat /\ WillCount(i)' \in Nat
<1>1. i \in Instance /\ work'[i] \in Job /\ work'[i].op = "prune"
  BY DEF OAuthTypeOK, Pruners
<1>2. work'[i] \in Pruning
  BY <1>1 DEF Job, Idle, Pruning
<1>3. work'[i].active \in Nat
  BY <1>2 DEF Pruning
<1>4. QED
  BY <1>1, <1>3, FiniteCountsNext DEF WillCount

\* Files may go and processes stop counting, if no count drops by more than went.
LEMMA FewerKeepBound ==
  ASSUME OAuthTypeOK, OAuthTypeOK', EveryCountIsBounded, outages' = outages,
         Waiting' \subseteq Waiting, Pruners' \subseteq Pruners,
         \A i \in Pruners' : WillCount(i) <= WillCount(i)' + Cardinality(Waiting \ Waiting')
  PROVE  EveryCountIsBounded'
<1> SUFFICES ASSUME outages = 0, NEW S \in SUBSET Pruners', NEW m \in Nat,
                    Capacity <= m + 1, \A i \in S : WillCount(i)' <= m
             PROVE  Bounded(S, m)'
  BY DEF EveryCountIsBounded
<1> DEFINE gone == Cardinality(Waiting \ Waiting')
<1>1. gone \in Nat /\ Cardinality(Waiting) = Cardinality(Waiting') + gone
  <2>1. IsFiniteSet(Waiting \ Waiting') /\ IsFiniteSet(Waiting)
    BY FiniteCounts, FS_Subset
  <2>2. Waiting = Waiting' \cup (Waiting \ Waiting') /\ Waiting' \cap (Waiting \ Waiting') = {}
    OBVIOUS
  <2>3. Cardinality(Waiting) = Cardinality(Waiting') + gone - Cardinality({})
    BY <2>1, <2>2, FiniteCountsNext, FS_Union
  <2>4. gone \in Nat /\ Cardinality({}) = 0
    BY <2>1, FS_CardinalityType, FS_EmptySet
  <2>5. QED
    BY <2>3, <2>4, FiniteCounts, FiniteCountsNext
<1> HIDE DEF gone
<1>2. \A i \in S : WillCount(i) <= m + gone
  <2> TAKE i \in S
  <2>1. WillCount(i) \in Nat /\ WillCount(i)' \in Nat
    BY PrunersCount, PrunersCountNext
  <2>2. WillCount(i) <= WillCount(i)' + gone /\ WillCount(i)' <= m
    BY DEF gone
  <2>3. QED
    BY <1>1, <2>1, <2>2
<1>3. S \in SUBSET Pruners /\ m + gone \in Nat /\ Capacity <= (m + gone) + 1
  BY <1>1
<1>4. Bounded(S, m + gone)
  BY <1>2, <1>3 DEF EveryCountIsBounded
<1>5. Cardinality(S) \in Nat
  BY FiniteCounts DEF Pruners
<1>6. Cardinality(Waiting') + Cardinality(S) <= m + Cardinality(Instance)
  BY <1>1, <1>4, <1>5, FiniteCounts, FiniteCountsNext DEF Bounded
<1>7. QED
  BY <1>6 DEF Bounded

\* Most steps leave the counting processes alone.
LEMMA OthersKeepBound ==
  ASSUME OAuthTypeOK, OAuthTypeOK', EveryCountIsBounded, outages' = outages,
         Waiting' \subseteq Waiting, Pruners' \subseteq Pruners,
         \A i \in Pruners' : work'[i] = work[i]
  PROVE  EveryCountIsBounded'
<1>1. ASSUME NEW i \in Pruners'
      PROVE  WillCount(i) <= WillCount(i)' + Cardinality(Waiting \ Waiting')
  <2> DEFINE gone == Waiting \ Waiting'
  <2>0. i \in Instance /\ work'[i] = work[i]
    BY <1>1 DEF Pruners
  <2>1. Left(i) \subseteq Left(i)' \cup gone
    BY <2>0 DEF Left
  <2>2. IsFiniteSet(gone) /\ IsFiniteSet(Left(i)') /\ IsFiniteSet(Left(i))
    BY <2>0, FiniteCounts, FiniteCountsNext, FS_Subset
  <2> HIDE DEF gone
  <2>3. Cardinality(Left(i)) <= Cardinality(Left(i)') + Cardinality(gone)
    BY <2>1, <2>2, UnionBound
  <2>4. Cardinality(Left(i)) \in Nat /\ Cardinality(Left(i)') \in Nat /\ Cardinality(gone) \in Nat
    BY <2>2, FS_CardinalityType
  <2>5. work[i].active \in Nat
    BY <1>1, PrunersCount
  <2>6. QED
    BY <2>0, <2>3, <2>4, <2>5 DEF WillCount, gone
<1>2. QED
  BY <1>1, FewerKeepBound

\* A process that looks at a file counts it, or it was not to be counted.
LEMMA PruneKeepsBound ==
  ASSUME OAuthTypeOK, OAuthTypeOK', CountsInTime, EveryCountIsBounded,
         NEW i \in Instance, Prune(i)
  PROVE  EveryCountIsBounded' /\ CountsInTime'
<1>1. PICK n \in work[i].names :
        /\ disk' = [disk EXCEPT ![n.attempt] =
                      IF ~Unexpired(i, n) /\ @ = n.kind THEN "absent" ELSE @]
        /\ work'[i].op = "prune" /\ work'[i].now = work[i].now
        /\ work'[i].names = work[i].names \ {n} /\ work'[i].active = CountAfter(i, n)
  BY PruneStep
<1>2. /\ work[i].op = "prune" /\ UNCHANGED <<clock, outages, expires>>
      /\ \A j \in Instance : j # i => work'[j] = work[j]
  BY PruneStep DEF Prune, around
<1>3. /\ i \in Pruners /\ work[i].now <= clock /\ work[i].active \in Nat /\ work[i].now \in Nat
      /\ work[i].names \in SUBSET [attempt : Attempt, kind : File]
      /\ clock \in Nat /\ expires \in [Attempt -> Nat]
  BY <1>2, PruneStep DEF Pruners, CountsInTime, Pruning, OAuthTypeOK
<1>4. n = [attempt |-> n.attempt, kind |-> n.kind] /\ n.attempt \in Attempt
  BY <1>1, <1>3
<1>5. Unexpired(i, n) \/ n.attempt \notin Waiting \/ n.kind # "pending"
  BY <1>3, <1>4 DEF Unexpired, Waiting
<1>6. Waiting' = Waiting
  <2>1. \A b \in Attempt : b # n.attempt => disk'[b] = disk[b]
    BY <1>1 DEF OAuthTypeOK
  <2>2. CASE disk'[n.attempt] = disk[n.attempt]
    BY <1>2, <2>1, <2>2 DEF Waiting
  <2>3. CASE disk'[n.attempt] # disk[n.attempt]
    <3>1. disk'[n.attempt] = "absent" /\ ~Unexpired(i, n) /\ disk[n.attempt] = n.kind
      BY <1>1, <1>4, <2>3 DEF OAuthTypeOK
    <3>2. expires[n.attempt] <= clock
      BY <1>3, <1>4, <3>1 DEF Unexpired
    <3>3. ~(expires[n.attempt] > clock)
      BY <1>3, <1>4, <3>2
    <3> QED
      BY <1>2, <2>1, <3>1, <3>3 DEF Waiting
  <2> QED
    BY <2>2, <2>3
<1>7. Pruners' = Pruners
  BY <1>1, <1>2 DEF Pruners
<1>8. WillCount(i) <= WillCount(i)'
  <2>1. Left(i)' \subseteq Left(i) /\ Left(i) \subseteq Left(i)' \cup {n.attempt}
    BY <1>1, <1>4, <1>6 DEF Left
  <2>2. /\ IsFiniteSet(Left(i)) /\ IsFiniteSet(Left(i)') /\ IsFiniteSet({n.attempt})
        /\ Cardinality({n.attempt}) = 1
        /\ Cardinality(Left(i)) \in Nat /\ Cardinality(Left(i)') \in Nat
    BY FiniteCounts, FiniteCountsNext, FS_Singleton
  <2>3. CASE Unexpired(i, n) /\ n.kind = "pending"
    <3>1. Cardinality(Left(i)) <= Cardinality(Left(i)') + Cardinality({n.attempt})
      BY <2>1, <2>2, UnionBound
    <3>2. work'[i].active = work[i].active + 1
      BY <1>1, <2>3 DEF CountAfter
    <3> QED
      BY <1>3, <2>2, <3>1, <3>2 DEF WillCount
  <2>4. CASE ~(Unexpired(i, n) /\ n.kind = "pending")
    <3>1. Left(i)' = Left(i)
      BY <1>1, <1>4, <1>5, <1>6, <2>4 DEF Left
    <3>2. work'[i].active = work[i].active
      BY <1>1, <2>4 DEF CountAfter
    <3> QED
      BY <1>3, <2>2, <3>1, <3>2 DEF WillCount
  <2> QED
    BY <2>3, <2>4
<1>9. Cardinality(Waiting \ Waiting') = 0
  BY <1>6, FS_EmptySet
<1>10. ASSUME NEW j \in Pruners'
       PROVE  WillCount(j) <= WillCount(j)' + Cardinality(Waiting \ Waiting')
  <2>1. WillCount(j) \in Nat /\ WillCount(j)' \in Nat
    BY <1>7, PrunersCount, PrunersCountNext
  <2>2. CASE j = i
    BY <1>8, <1>9, <2>1, <2>2
  <2>3. CASE j # i
    <3>1. WillCount(j)' = WillCount(j)
      BY <1>2, <1>6, <2>3 DEF WillCount, Left, Pruners
    <3> QED
      BY <1>9, <2>1, <3>1
  <2> QED
    BY <2>2, <2>3
<1>11. EveryCountIsBounded'
  BY <1>2, <1>6, <1>7, <1>10, FewerKeepBound
<1>12. CountsInTime'
  BY <1>1, <1>2, <1>7 DEF CountsInTime, Pruners
<1> QED
  BY <1>11, <1>12

\* A process that stores has counted everything: it joins those that found room.
LEMMA PublishKeepsBound ==
  ASSUME OAuthInvariant, OAuthTypeOK', EveryCountIsBounded, NEW k \in Instance, Publish(k)
  PROVE  EveryCountIsBounded'
<1>0. OAuthTypeOK /\ NewAttempts
  BY DEF OAuthInvariant
<1>1. k \in Pruners
  BY DEF Publish, Counted, Pruners
<1>2. PICK a \in Attempt : a = work[k].attempt
  BY <1>0, <1>1, PrunersCount
<1>3. /\ disk' = [disk EXCEPT ![a] = "pending"]
      /\ expires' = [expires EXCEPT ![a] = work[k].now + Ttl]
      /\ Do(k, [op |-> "sync", attempt |-> a]) /\ UNCHANGED <<clock, outages>>
      /\ work[k].names = {} /\ work[k].active < Capacity
  BY <1>2 DEF Publish, Counted, around
<1>4. disk[a] = "absent"
  BY <1>0, <1>1, <1>2 DEF NewAttempts, Starts, Pruners
<1>5. work'[k].op = "sync" /\ \A j \in Instance : j # k => work'[j] = work[j]
  <2>1. [op |-> "sync", attempt |-> a] \in Job
    BY DEF Job
  <2> QED
    BY <1>0, <1>3, <2>1, WorkOfOne
<1>6. k \notin Pruners' /\ Pruners' \subseteq Pruners
  BY <1>5 DEF Pruners
<1>7. Waiting \subseteq Waiting' /\ Waiting' \subseteq Waiting \cup {a}
  <2>1. \A b \in Attempt : b # a => disk'[b] = disk[b] /\ expires'[b] = expires[b]
    BY <1>0, <1>3 DEF OAuthTypeOK
  <2> QED
    BY <1>3, <1>4, <2>1 DEF Waiting
<1>8. Cardinality(Waiting') <= Cardinality(Waiting) + 1
  <2>1. IsFiniteSet({a}) /\ Cardinality({a}) = 1
    BY FS_Singleton
  <2> QED
    BY <1>7, <2>1, FiniteCounts, UnionBound
<1>9. WillCount(k) = work[k].active /\ WillCount(k) \in Nat
  <2>1. Left(k) = {}
    BY <1>3 DEF Left
  <2>2. Cardinality(Left(k)) = 0 /\ work[k].active \in Nat
    BY <1>0, <1>1, <2>1, FS_EmptySet, PrunersCount
  <2> QED
    BY <2>2 DEF WillCount
<1> SUFFICES ASSUME outages = 0, NEW S \in SUBSET Pruners', NEW m \in Nat,
                    Capacity <= m + 1, \A i \in S : WillCount(i)' <= m
             PROVE  Bounded(S, m)'
  BY <1>3 DEF EveryCountIsBounded
<1>10. ASSUME NEW i \in S PROVE WillCount(i) <= m
  <2>1. i \in Instance /\ work'[i] = work[i] /\ i \in Pruners
    BY <1>5, <1>6 DEF Pruners
  <2>2. Left(i) \subseteq Left(i)'
    BY <1>7, <2>1 DEF Left
  <2>3. Cardinality(Left(i)) <= Cardinality(Left(i)')
    BY <2>1, <2>2, FiniteCountsNext, FS_Subset
  <2>4. /\ work[i].active \in Nat /\ Cardinality(Left(i)) \in Nat
        /\ Cardinality(Left(i)') \in Nat /\ WillCount(i)' <= m
    BY <1>0, <2>1, PrunersCount, FiniteCounts, FiniteCountsNext
  <2> QED
    BY <2>1, <2>3, <2>4 DEF WillCount
<1>11. WillCount(k) <= m
  BY <1>0, <1>1, <1>3, <1>9, PrunersCount
<1>12. Bounded(S \cup {k}, m)
  <2>1. S \cup {k} \in SUBSET Pruners /\ \A i \in S \cup {k} : WillCount(i) <= m
    BY <1>1, <1>6, <1>10, <1>11
  <2> QED
    BY <2>1 DEF EveryCountIsBounded
<1>13. Cardinality(S \cup {k}) = Cardinality(S) + 1 /\ Cardinality(S) \in Nat
  <2>1. k \notin S /\ IsFiniteSet(S) /\ Cardinality(S) \in Nat
    BY <1>6, FiniteCounts DEF Pruners
  <2> QED
    BY <2>1, FS_AddElement
<1>14. Cardinality(Waiting') + Cardinality(S) <= m + Cardinality(Instance)
  BY <1>8, <1>12, <1>13, FiniteCounts, FiniteCountsNext DEF Bounded
<1> QED
  BY <1>14 DEF Bounded

\* A process that lists the files will count all of them.
LEMMA ListKeepsBound ==
  ASSUME OAuthTypeOK, OAuthTypeOK', CountsInTime, EveryCountIsBounded,
         NEW k \in Instance, NEW a \in Attempt, List(k, a)
  PROVE  EveryCountIsBounded' /\ CountsInTime'
<1> DEFINE job == [op |-> "prune", attempt |-> a, now |-> clock, active |-> 0,
                   names |-> {[attempt |-> b, kind |-> disk[b]] :
                              b \in {b \in Attempt : disk[b] # "absent"}}]
<1>1. job \in Job
  <2>1. job.names \subseteq [attempt : Attempt, kind : File]
    BY DEF OAuthTypeOK
  <2> QED
    BY <2>1 DEF Job, OAuthTypeOK
<1>2. work'[k] = job /\ \A j \in Instance : j # k => work'[j] = work[j]
  BY <1>1, WorkOfOne DEF List
<1>3. UNCHANGED <<clock, outages, disk, expires>> /\ clock \in Nat
  BY DEF List, around, OAuthTypeOK
<1>4. Waiting' = Waiting
  BY <1>3 DEF Waiting
<1>5. k \in Pruners' /\ Pruners' \subseteq Pruners \cup {k}
  BY <1>2 DEF Pruners
<1>6. Left(k)' = Waiting
  BY <1>2, <1>4 DEF Left, Waiting
<1>7. WillCount(k)' = Cardinality(Waiting)
  <2>1. work'[k].active = 0
    BY <1>2
  <2> QED
    BY <1>6, <2>1, FiniteCounts DEF WillCount
<1>8. CountsInTime'
  <2>1. work'[k].now <= clock'
    BY <1>2, <1>3
  <2> QED
    BY <1>2, <1>3, <1>5, <2>1 DEF CountsInTime, Pruners
<1>9. ASSUME outages = 0, NEW S \in SUBSET Pruners', NEW m \in Nat,
             Capacity <= m + 1, \A i \in S : WillCount(i)' <= m
      PROVE  Bounded(S, m)'
  <2>1. CASE k \in S
    <3>1. Cardinality(Waiting) <= m
      BY <1>7, <1>9, <2>1
    <3>2. Cardinality(S) \in Nat /\ Cardinality(S) <= Cardinality(Instance)
      BY FiniteCounts DEF Pruners
    <3>3. Cardinality(Waiting) + Cardinality(S) <= m + Cardinality(Instance)
      BY <3>1, <3>2, FiniteCounts
    <3> QED
      BY <1>4, <3>3 DEF Bounded
  <2>2. CASE k \notin S
    <3>1. S \in SUBSET Pruners
      BY <1>5, <2>2
    <3>2. \A i \in S : WillCount(i)' = WillCount(i)
      BY <1>2, <1>4, <2>2, <3>1 DEF WillCount, Left, Pruners
    <3>3. Bounded(S, m)
      BY <1>9, <3>1, <3>2 DEF EveryCountIsBounded
    <3> QED
      BY <1>4, <3>3 DEF Bounded
  <2> QED
    BY <2>1, <2>2
<1>10. EveryCountIsBounded'
  BY <1>3, <1>9 DEF EveryCountIsBounded
<1> QED
  BY <1>8, <1>10

\* A step that stores nothing, with the counting processes at rest.
LEMMA RestKeepsBound ==
  ASSUME OAuthTypeOK, OAuthTypeOK', CountsInTime, EveryCountIsBounded,
         outages' = outages, clock' \in {clock, clock + 1},
         Waiting' \subseteq Waiting, Pruners' \subseteq Pruners,
         \A i \in Pruners' : work'[i] = work[i]
  PROVE  CountsInTime' /\ EveryCountIsBounded'
<1>1. ASSUME NEW i \in Pruners' PROVE work'[i].now <= clock'
  <2>1. i \in Pruners /\ work'[i] = work[i] /\ work[i].now <= clock
    BY <1>1 DEF CountsInTime
  <2>2. work[i].now \in Nat /\ clock \in Nat
    BY <2>1, PrunersCount DEF OAuthTypeOK
  <2> QED
    BY <2>1, <2>2
<1>2. CountsInTime'
  BY <1>1 DEF CountsInTime
<1> QED
  BY <1>2, OthersKeepBound

LEMMA BoundNext ==
  ASSUME OAuthInvariant, OAuthInvariant', CountsInTime, EveryCountIsBounded, [Next]_vars
  PROVE  CountsInTime' /\ EveryCountIsBounded'
<1> USE DEF around, request
<1>0. OAuthTypeOK /\ OAuthTypeOK' /\ ModesApart /\ NewAttempts
  BY DEF OAuthInvariant
<1>i. Idle \in Job /\ Idle.op = "idle"
  BY DEF Idle, Job
<1>1. CASE UNCHANGED vars \/ Tick \/ \E a \in Attempt : Answer(a)
  <2>1. UNCHANGED <<disk, expires, work, outages>> /\ clock' \in {clock, clock + 1}
    BY <1>1 DEF vars, Tick, Answer
  <2>2. \A a \in Attempt : expires[a] > clock' => expires[a] > clock
    BY <1>0, <2>1 DEF OAuthTypeOK
  <2>3. Waiting' \subseteq Waiting /\ Pruners' = Pruners
    BY <2>1, <2>2 DEF Waiting, Pruners
  <2> QED
    BY <1>0, <2>1, <2>3, RestKeepsBound
<1>2. CASE PowerLoss
  <2>1. outages' # 0
    BY <1>0, <1>2 DEF PowerLoss, OAuthTypeOK
  <2>2. Pruners' = {}
    BY <1>2, <1>i DEF PowerLoss, Pruners
  <2> QED
    BY <2>1, <2>2 DEF EveryCountIsBounded, CountsInTime
<1>3. ASSUME NEW i \in Instance,
             AtCapacity(i) \/ PublishFails(i) \/ Sync(i) \/ SyncFails(i) \/ Crash(i)
      PROVE  CountsInTime' /\ EveryCountIsBounded'
  <2>1. UNCHANGED <<clock, outages, disk, expires>> /\ Do(i, Idle)
    BY <1>3 DEF AtCapacity, PublishFails, Sync, SyncFails, Crash
  <2>2. work'[i] = Idle /\ \A j \in Instance : j # i => work'[j] = work[j]
    BY <1>0, <1>i, <2>1, WorkOfOne
  <2>3. Waiting' = Waiting /\ Pruners' \subseteq Pruners /\ \A j \in Pruners' : work'[j] = work[j]
    BY <1>i, <2>1, <2>2 DEF Waiting, Pruners
  <2> QED
    BY <1>0, <2>1, <2>3, RestKeepsBound
<1>4. ASSUME NEW i \in Instance, NEW a \in Attempt,
             \/ MemoryStart(i, a) \/ MemoryExpired(i, a) \/ MemoryConsume(i, a)
             \/ \E c \in Caller : MemoryRefuse(i, a, c)
      PROVE  CountsInTime' /\ EveryCountIsBounded'
  <2>1. UNCHANGED <<clock, outages, disk, work>> /\ ~shared
    BY <1>4 DEF MemoryStart, MemoryExpired, MemoryConsume, MemoryRefuse
  <2>2. Waiting' = {} /\ Pruners' = {}
    BY <1>0, <1>i, <2>1 DEF ModesApart, Waiting, Pruners
  <2> QED
    BY <1>0, <2>1, <2>2, RestKeepsBound
<1>5. ASSUME NEW i \in Instance, NEW a \in Attempt, NEW c \in Caller, Claim(i, a, c)
      PROVE  CountsInTime' /\ EveryCountIsBounded'
  <2>1. /\ UNCHANGED <<clock, outages, expires>>
        /\ \A b \in Attempt : disk'[b] \in {disk[b], "claimed"}
        /\ Do(i, [op |-> "claimed", attempt |-> a, caller |-> c])
    BY <1>0, <1>5 DEF Claim, OAuthTypeOK
  <2>2. [op |-> "claimed", attempt |-> a, caller |-> c] \in Job
    BY DEF Job
  <2>3. work'[i].op = "claimed" /\ \A j \in Instance : j # i => work'[j] = work[j]
    BY <1>0, <2>1, <2>2, WorkOfOne
  <2>4. Waiting' \subseteq Waiting /\ Pruners' \subseteq Pruners
        /\ \A j \in Pruners' : work'[j] = work[j]
    BY <2>1, <2>3 DEF Waiting, Pruners
  <2> QED
    BY <1>0, <2>1, <2>4, RestKeepsBound
<1>6. ASSUME NEW i \in Instance, Redeem(i)
      PROVE  CountsInTime' /\ EveryCountIsBounded'
  <2>1. UNCHANGED <<clock, outages, expires>> /\ Do(i, Idle)
    BY <1>6 DEF Redeem
  <2>2. \A b \in Attempt : disk'[b] \in {disk[b], "absent"}
    BY <1>0, <1>6 DEF Redeem, OAuthTypeOK
  <2>3. work'[i] = Idle /\ \A j \in Instance : j # i => work'[j] = work[j]
    BY <1>0, <1>i, <2>1, WorkOfOne
  <2>4. Waiting' \subseteq Waiting /\ Pruners' \subseteq Pruners
        /\ \A j \in Pruners' : work'[j] = work[j]
    BY <1>i, <2>1, <2>2, <2>3 DEF Waiting, Pruners
  <2> QED
    BY <1>0, <2>1, <2>4, RestKeepsBound
<1>7. ASSUME NEW i \in Instance, Publish(i)
      PROVE  CountsInTime' /\ EveryCountIsBounded'
  <2>1. work[i].attempt \in Attempt /\ i \in Pruners
    BY <1>0, <1>7, PrunersCount DEF Publish, Counted, Pruners
  <2>2. [op |-> "sync", attempt |-> work[i].attempt] \in Job
    BY <2>1 DEF Job
  <2>3. work'[i].op = "sync" /\ \A j \in Instance : j # i => work'[j] = work[j]
    BY <1>0, <1>7, <2>2, WorkOfOne DEF Publish
  <2>4. CountsInTime'
    BY <1>7, <2>3 DEF Publish, CountsInTime, Pruners
  <2> QED
    BY <1>0, <1>7, <2>4, PublishKeepsBound
<1> QED
  BY <1>0, <1>1, <1>2, <1>3, <1>4, <1>5, <1>6, <1>7, PruneKeepsBound, ListKeepsBound
  DEF Next, Start, Consume

\* Without a power loss, processes that count and store at the same time
\* exceed the capacity by at most one attempt for each further process.
THEOREM PendingIsBounded == Spec => []PendingBounded
<1>1. Init => CountsInTime /\ EveryCountIsBounded
  <2>1. ASSUME Init PROVE Pruners = {} /\ Waiting = {}
    BY <2>1 DEF Init, Idle, Pruners, Waiting
  <2>2. ASSUME Init, NEW S \in SUBSET Pruners, NEW m \in Nat PROVE Bounded(S, m)
    <3>1. Cardinality(Waiting) = 0 /\ Cardinality(S) = 0
      BY <2>1, <2>2, FS_EmptySet
    <3>2. Cardinality(Instance) \in Nat
      BY FiniteCounts
    <3> QED
      BY <3>1, <3>2 DEF Bounded
  <2> QED
    BY <2>1, <2>2 DEF CountsInTime, EveryCountIsBounded
<1>2. OAuthInvariant /\ OAuthInvariant' /\ CountsInTime /\ EveryCountIsBounded /\ [Next]_vars
      => CountsInTime' /\ EveryCountIsBounded'
  BY BoundNext
<1>3. EveryCountIsBounded => PendingBounded
  <2> SUFFICES ASSUME EveryCountIsBounded, outages = 0
               PROVE  Cardinality(Waiting) < Capacity + Cardinality(Instance)
    BY DEF PendingBounded, Waiting
  <2>1. Capacity - 1 \in Nat /\ Capacity <= (Capacity - 1) + 1
    BY DEF OAuthAssumption
  <2>2. Bounded({}, Capacity - 1)
    BY <2>1 DEF EveryCountIsBounded
  <2>3. Cardinality(Waiting) + Cardinality({}) <= (Capacity - 1) + Cardinality(Instance)
    BY <2>2 DEF Bounded
  <2>4. Cardinality({}) = 0
    BY FS_EmptySet
  <2> QED
    BY <2>1, <2>3, <2>4, FiniteCounts
<1> QED
  BY <1>1, <1>2, <1>3, AttemptsAreSpentOnce, PTL DEF Spec

-----------------------------------------------------------------------------
LEMMA SyncedNext ==
  ASSUME OAuthInvariant, IssuedIsSynced, [Next]_vars
  PROVE  IssuedIsSynced'
<1> USE DEF around, request
<1>0. OAuthTypeOK /\ NewAttempts /\ ModesApart
  BY DEF OAuthInvariant
<1>1. CASE PowerLoss
  BY <1>1 DEF PowerLoss, IssuedIsSynced
<1>2. ASSUME NEW i \in Instance, NEW a \in Attempt, MemoryStart(i, a)
      PROVE  IssuedIsSynced'
  BY <1>0, <1>2 DEF MemoryStart, IssuedIsSynced, ModesApart, OAuthTypeOK
<1>3. ASSUME NEW i \in Instance, Prune(i) PROVE IssuedIsSynced'
  <2>1. synced' = synced /\ issued' = issued
    BY <1>3 DEF Prune
  <2>2. PICK n \in work[i].names :
          disk' = [disk EXCEPT ![n.attempt] =
                     IF ~Unexpired(i, n) /\ @ = n.kind THEN "absent" ELSE @]
    BY <1>3 DEF Prune
  <2>3. \A a \in Attempt : disk'[a] \in {disk[a], "absent"}
    BY <1>0, <2>2 DEF OAuthTypeOK
  <2> QED
    BY <1>0, <2>1, <2>3 DEF IssuedIsSynced, OAuthTypeOK
<1>4. ASSUME NEW i \in Instance, Publish(i) PROVE IssuedIsSynced'
  <2>1. i \in Pruners
    BY <1>4 DEF Publish, Counted, Pruners
  <2>2. PICK a \in Attempt : a = work[i].attempt
    BY <1>0, <2>1, PrunersCount
  <2>3. a \notin issued
    BY <1>0, <2>1, <2>2 DEF NewAttempts, Starts, Pruners
  <2>4. synced' = synced /\ issued' = issued /\ disk' = [disk EXCEPT ![a] = "pending"]
    BY <1>4, <2>2 DEF Publish
  <2> QED
    BY <1>0, <2>3, <2>4 DEF IssuedIsSynced, OAuthTypeOK
<1>5. ASSUME NEW i \in Instance, Sync(i) PROVE IssuedIsSynced'
  BY <1>5 DEF Sync, IssuedIsSynced
<1>6. ASSUME NEW i \in Instance, NEW a \in Attempt, NEW c \in Caller, Claim(i, a, c)
      PROVE  IssuedIsSynced'
  BY <1>0, <1>6 DEF Claim, IssuedIsSynced, OAuthTypeOK
<1>7. ASSUME NEW i \in Instance, Redeem(i) PROVE IssuedIsSynced'
  BY <1>0, <1>7 DEF Redeem, IssuedIsSynced, OAuthTypeOK
<1>8. ASSUME UNCHANGED <<disk, synced, issued>> PROVE IssuedIsSynced'
  BY <1>8 DEF IssuedIsSynced
<1> QED
  BY <1>1, <1>2, <1>3, <1>4, <1>5, <1>6, <1>7, <1>8
  DEF Next, Start, Consume, vars, Tick, Answer, Crash, List, AtCapacity, PublishFails,
      SyncFails, MemoryRefuse, MemoryExpired, MemoryConsume

\* storeTransaction answers after the fsync of the directory: a state that was
\* answered and not consumed is on disk after a power loss.
THEOREM IssuedStatesLast == Spec => IssuedSurvivesPowerLoss
<1>1. Init => IssuedIsSynced
  BY DEF Init, IssuedIsSynced
<1>2. OAuthInvariant /\ IssuedIsSynced /\ [Next]_vars => IssuedIsSynced'
  BY SyncedNext
<1>3. OAuthInvariant /\ IssuedIsSynced /\ [Next]_vars
      => [PowerLoss => \A a \in issued : disk[a] = "pending" => disk'[a] = "pending"]_vars
  <2> SUFFICES ASSUME OAuthInvariant, IssuedIsSynced, PowerLoss, NEW a \in issued,
                      disk[a] = "pending"
               PROVE  disk'[a] = "pending"
    OBVIOUS
  <2>1. a \in Attempt /\ synced[a] = "pending"
    BY DEF OAuthInvariant, OAuthTypeOK, IssuedIsSynced
  <2>2. disk'[a] \in Survives(a)
    BY <2>1 DEF PowerLoss
  <2> QED
    BY <2>1, <2>2 DEF Survives
<1> QED
  BY <1>1, <1>2, <1>3, AttemptsAreSpentOnce, PTL DEF Spec, IssuedSurvivesPowerLoss

-----------------------------------------------------------------------------
(***************************************************************************)
(* The panel (OAuthPanel), for any number of attempts, tokens and calls.   *)
(* What the panel holds as relayed belongs to an attempt that it started,  *)
(* and a call keeps what it was pressed with.  A token that was dropped    *)
(* does not come back, because a new token has a number of its own.        *)
(***************************************************************************)
Service == {"tmdb", "trakt", "myanimelist", "simkl", "shikimori", "annict"}
Op == {"start", "exchange", "session", "drop", "device", "poll", "refresh"}
Input == {"client", "secret", "redirect", "state", "code", "token", "device"}
Origin == [state : {"nobody", "start", "relay", "hand"}, code : {"nobody", "relay", "hand"}]
Reply == {"none", "ok", "error"}

Flow ==
  [id : Nat, op : Op, ask : {"new", "asked", "done"}, reply : Reply, gives : Nat,
   open : BOOLEAN, with : SUBSET Input, state : Nat, code : Nat, origin : Origin, token : Nat,
   device : Nat, oob : BOOLEAN]

PanelTypes ==
  /\ service \in Service /\ started \in Nat /\ minted \in Nat /\ made \in Nat
  /\ approved \subseteq Nat /\ decided \subseteq Nat /\ flows \subseteq Flow
  /\ filled \subseteq Input /\ oob \in BOOLEAN
  /\ state \in Nat /\ code \in Nat /\ token \in Nat /\ device \in Nat /\ origin \in Origin
  /\ feedback \in [busy : BOOLEAN, says : {"nothing", "status", "error"}, token : Nat, gone : Nat]

\* The tokens that are shown, held in the field or handed in were given out.
TokensWereMinted ==
  /\ live \subseteq 1..minted
  /\ token <= minted /\ feedback.gone <= minted
  /\ \A f \in flows : f.token <= minted /\ (f.op = "exchange" => f.gives <= minted)

DroppedIsDead ==
  /\ feedback.gone \notin live
  /\ \A f \in flows :
       f.op = "drop" => /\ service \in {"tmdb", "annict"}
                        /\ f.reply = "ok" => f.token \notin live

\* A relayed state and a relayed code beside it.
Together(from, s, c) ==
  from.state = "relay" => s \in mine /\ (from.code = "relay" => c \in {0, s})

RelayedIsMine ==
  /\ browser \in mine \cup {0}
  /\ \A m \in channel : m.state \in Nat /\ m.code \in {0, m.state}
  /\ Together(origin, state, code)
  /\ \A f \in flows : f.op = "exchange" => Together(f.origin, f.state, f.code)

PanelInv == PanelTypes /\ TokensWereMinted /\ DroppedIsDead /\ RelayedIsMine

-----------------------------------------------------------------------------
(* A call that goes on keeps what it was pressed with. *)

Same(f, g) ==
  /\ g.op = f.op /\ g.state = f.state /\ g.code = f.code /\ g.origin = f.origin
  /\ g.token = f.token

\* What is under way after a call went on: the others, and this one if somebody waits for it.
LEMMA OthersStay ==
  ASSUME NEW f \in Flow, NEW g \in Flow, Panel!Becomes(f, g)
  PROVE  \A h \in flows' :
           \/ h \in flows
           \/ h \in Flow /\ Same(g, h) /\ h.reply = g.reply /\ h.gives \in {0, g.gives}
<1>1. LET h == [g EXCEPT !.gives = 0] IN h \in Flow /\ Same(g, h) /\ h.reply = g.reply /\ h.gives = 0
  BY DEF Flow, Same
<1>2. Same(g, g)
  BY DEF Same
<1> QED
  BY <1>1, <1>2 DEF Panel!Becomes

\* The tables for the calls that the argument is about.
LEMMA Tables ==
  /\ service \in Service =>
       /\ Panel!Calls("exchange").transaction = "taken"
       /\ Panel!Calls("exchange").asks \in {"token", "token of this verifier"}
  /\ service \in {"tmdb", "annict"} =>
       Panel!Calls("drop").transaction = "none" /\ Panel!Calls("drop").asks = "drop"
  /\ service \in Service => DOMAIN Panel!Buttons \subseteq Op
  /\ service \in Service /\ "drop" \in DOMAIN Panel!Buttons => service \in {"tmdb", "annict"}
  /\ Panel!Parts("drop") = {"success"}
<1>1. service \in Service =>
        /\ Panel!Calls("exchange").transaction = "taken"
        /\ Panel!Calls("exchange").asks \in {"token", "token of this verifier"}
  BY DEF Service, Panel!Calls, Panel!TmdbAuthorization, Panel!TraktAuthorization,
     Panel!MyAnimeListAuthorization, Panel!SimklAuthorization, Panel!ShikimoriAuthorization,
     Panel!AnnictAuthorization, Panel!Does
<1>2. service \in {"tmdb", "annict"} =>
        Panel!Calls("drop").transaction = "none" /\ Panel!Calls("drop").asks = "drop"
  BY DEF Panel!Calls, Panel!TmdbToken, Panel!AnnictAuthorization, Panel!Does
<1>3. /\ service \in Service => DOMAIN Panel!Buttons \subseteq Op
      /\ service \in Service /\ "drop" \in DOMAIN Panel!Buttons => service \in {"tmdb", "annict"}
  BY DEF Service, Op, Panel!Buttons, Panel!TmdbButtons, Panel!TraktButtons,
     Panel!MyAnimeListButtons, Panel!SimklButtons, Panel!ShikimoriButtons, Panel!AnnictButtons
<1>4. Panel!Parts("drop") = {"success"}
  BY DEF Panel!Parts
<1> QED
  BY <1>1, <1>2, <1>3, <1>4

\* Call f goes on as g, and tokens change in that only new ones are given out.
Serves(f, g) ==
  /\ Same(f, g) /\ Panel!Becomes(f, g)
  /\ f.op = "exchange" => g.gives <= minted'
  /\ f.op = "drop" /\ g.reply = "ok" => f.token \notin live'

OnlyNewTokens ==
  /\ minted' \in Nat /\ minted <= minted'
  /\ live' \subseteq live \cup (minted + 1)..minted'
  /\ started' \in Nat
  /\ UNCHANGED <<service, approved, made>>

LEMMA ApiStep ==
  ASSUME PanelInv, NEW f \in flows, Panel!Api(f)
  PROVE  OnlyNewTokens /\ \E g \in Flow : Serves(f, g)
<1>1. f \in Flow /\ service \in Service /\ minted \in Nat /\ started \in Nat
  BY DEF PanelInv, PanelTypes
<1>2. UNCHANGED <<service, minted, live, approved, made>> /\ started' \in Nat
  BY <1>1 DEF Panel!Api, Panel!Unacceptable, Panel!Store, Panel!Ask, Panel!GiveUp, Panel!provider,
     Panel!transactions
<1>3. OnlyNewTokens
  BY <1>1, <1>2 DEF OnlyNewTokens
<1>4. /\ f.op = "exchange" => f.gives <= minted'
      /\ f.op = "drop" /\ f.reply = "ok" => f.token \notin live'
      /\ f.op = "drop" => service \in {"tmdb", "annict"}
  BY <1>2 DEF PanelInv, TokensWereMinted, DroppedIsDead
<1>5. CASE Panel!Unacceptable(f)
  <2> DEFINE g == [f EXCEPT !.ask = "done", !.reply = "error"]
  <2>1. g \in Flow /\ Same(f, g) /\ g.reply = "error" /\ g.gives = f.gives
    BY <1>1 DEF Flow, Same, Reply
  <2>2. Panel!Becomes(f, g)
    BY <1>5 DEF Panel!Unacceptable, Panel!Fails
  <2> HIDE DEF g
  <2> QED
    BY <1>3, <1>4, <2>1, <2>2 DEF Serves
<1>6. CASE Panel!GiveUp(f)
  <2> DEFINE g == [f EXCEPT !.reply = "error"]
  <2>1. g \in Flow /\ Same(f, g) /\ g.reply = "error" /\ g.gives = f.gives
    BY <1>1 DEF Flow, Same, Reply
  <2>2. Panel!Becomes(f, g)
    BY <1>6 DEF Panel!GiveUp
  <2> HIDE DEF g
  <2> QED
    BY <1>3, <1>4, <2>1, <2>2 DEF Serves
<1>7. CASE Panel!Ask(f)
  <2> DEFINE g == [f EXCEPT !.ask = "asked"]
  <2>1. g \in Flow /\ Same(f, g) /\ g.reply = f.reply /\ g.gives = f.gives
    BY <1>1 DEF Flow, Same
  <2>2. Panel!Becomes(f, g)
    BY <1>7 DEF Panel!Ask
  <2> HIDE DEF g
  <2> QED
    BY <1>3, <1>4, <2>1, <2>2 DEF Serves
<1>8. CASE Panel!Store(f)
  <2> DEFINE g == [f EXCEPT !.ask = "done", !.reply = "ok", !.gives = started']
  <2>1. g \in Flow /\ Same(f, g)
    BY <1>1, <1>2 DEF Flow, Same, Reply
  <2>2. Panel!Becomes(f, g) /\ Panel!Calls(f.op).transaction = "stored"
    BY <1>8 DEF Panel!Store
  <2>3. f.op # "exchange" /\ f.op # "drop"
    BY <1>1, <1>4, <2>2, Tables
  <2> HIDE DEF g
  <2> QED
    BY <1>3, <2>1, <2>2, <2>3 DEF Serves
<1> QED
  BY <1>5, <1>6, <1>7, <1>8 DEF Panel!Api

\* What the API makes of an answer: a success only of one with all its parts.
LEMMA ReceivedStep ==
  ASSUME NEW f \in Flow, NEW parts, NEW gives \in Nat, Panel!Received(f, parts, gives)
  PROVE  \E g \in Flow :
           /\ Same(f, g) /\ Panel!Becomes(f, g) /\ g.gives \in {0, gives}
           /\ g.reply = "ok" => f.reply = "ok" \/ Panel!Valid(f, parts)
<1> DEFINE given == IF f.reply = "none" /\ Panel!Valid(f, parts) THEN gives ELSE 0
           told == IF f.reply # "none" THEN f.reply
                                       ELSE IF Panel!Valid(f, parts) THEN "ok" ELSE "error"
           one == [f EXCEPT !.ask = "done"]
           two == [one EXCEPT !.gives = given]
           g == [two EXCEPT !.reply = told]
<1>1. given \in Nat /\ given \in {0, gives} /\ told \in Reply
  BY DEF Flow, Reply
<1>2. told = "ok" => f.reply = "ok" \/ Panel!Valid(f, parts)
  OBVIOUS
<1>3. one \in Flow /\ Same(f, one) /\ one.reply = f.reply
  BY DEF Flow, Same
<1>4. Panel!Becomes(f, g)
  <2>1. g = [f EXCEPT !.ask = "done",
                      !.gives = given,
                      !.reply = IF @ # "none" THEN @
                                ELSE IF Panel!Valid(f, parts) THEN "ok" ELSE "error"]
    BY <1>3 DEF Flow
  <2> QED
    BY <2>1 DEF Panel!Received
<1> HIDE DEF given, told, one
<1>5. two \in Flow /\ Same(f, two) /\ two.gives = given
  BY <1>1, <1>3 DEF Flow, Same
<1> HIDE DEF two
<1>6. g \in Flow /\ Same(f, g) /\ g.gives = given /\ g.reply = told
  BY <1>1, <1>5 DEF Flow, Same
<1> HIDE DEF g
<1> QED
  BY <1>1, <1>2, <1>4, <1>6

\* The provider gives tokens to what asks for one, and a drop only drops.
LEMMA CarryStep ==
  ASSUME PanelInv, NEW f \in flows, Panel!Carry(f)
  PROVE  OnlyNewTokens /\ \E g \in Flow : Serves(f, g)
<1>1. f \in Flow /\ service \in Service /\ minted \in Nat /\ started \in Nat /\ live \subseteq 1..minted
  BY DEF PanelInv, PanelTypes, TokensWereMinted
<1>2. PICK parts : \/ Panel!GiveToken(f, parts) \/ Panel!RotateToken(f, parts)
                   \/ Panel!DropToken(f, parts) \/ Panel!OpenSession(f, parts)
                   \/ Panel!GiveRequestToken(f, parts) \/ Panel!GiveDeviceCode(f, parts)
  BY DEF Panel!Carry
<1>3. UNCHANGED <<service, approved, made>>
  BY DEF Panel!Carry
<1>4. OnlyNewTokens
  <2>1. \/ minted' = minted /\ live' \subseteq live
        \/ minted' = minted + 1 /\ live' \subseteq live \cup {minted + 1}
    BY <1>2 DEF Panel!GiveToken, Panel!RotateToken, Panel!DropToken, Panel!OpenSession,
       Panel!GiveRequestToken, Panel!GiveDeviceCode
  <2>2. started' \in {started, started + 1}
    BY <1>2 DEF Panel!GiveToken, Panel!RotateToken, Panel!DropToken, Panel!OpenSession,
       Panel!GiveRequestToken, Panel!GiveDeviceCode, Panel!transactions
  <2>3. started' \in Nat
    BY <1>1, <2>2
  <2> QED
    BY <1>1, <1>3, <2>1, <2>3 DEF OnlyNewTokens
<1>5. PICK gives \in Nat :
        /\ Panel!Received(f, parts, gives)
        /\ gives = minted' \/ gives = 0 \/ Panel!GiveRequestToken(f, parts)
           \/ Panel!GiveDeviceCode(f, parts)
  <2>1. minted' \in Nat /\ started' \in Nat
    BY <1>4 DEF OnlyNewTokens
  <2> QED
    BY <1>2, <2>1 DEF Panel!GiveToken, Panel!RotateToken, Panel!DropToken, Panel!OpenSession,
       Panel!GiveRequestToken, Panel!GiveDeviceCode
<1>6. PICK g \in Flow :
        /\ Same(f, g) /\ Panel!Becomes(f, g) /\ g.gives \in {0, gives}
        /\ g.reply = "ok" => f.reply = "ok" \/ Panel!Valid(f, parts)
  BY <1>1, <1>5, ReceivedStep
<1>7. f.op = "exchange" => g.gives <= minted'
  <2> SUFFICES ASSUME f.op = "exchange" PROVE g.gives <= minted'
    OBVIOUS
  <2>1. Panel!Calls(f.op).asks \in {"token", "token of this verifier"}
    BY <1>1, Tables
  <2>2. gives = minted' \/ gives = 0
    BY <1>5, <2>1 DEF Panel!GiveRequestToken, Panel!GiveDeviceCode
  <2> QED
    BY <1>4, <1>6, <2>2 DEF OnlyNewTokens
<1>8. f.op = "drop" => f.token \notin live'
  <2> SUFFICES ASSUME f.op = "drop" PROVE f.token \notin live'
    OBVIOUS
  <2>1. Panel!Calls(f.op).asks = "drop"
    BY Tables DEF PanelInv, DroppedIsDead
  <2>2. live' = live \ {f.token}
    BY <1>2, <2>1 DEF Panel!GiveToken, Panel!RotateToken, Panel!DropToken, Panel!OpenSession,
       Panel!GiveRequestToken, Panel!GiveDeviceCode
  <2> QED
    BY <2>2
<1> QED
  BY <1>4, <1>6, <1>7, <1>8 DEF Serves

\* A drop that the provider did not carry out has no answer that the API takes for one.
LEMMA RefuseStep ==
  ASSUME PanelInv, NEW f \in flows, Panel!Refuse(f)
  PROVE  OnlyNewTokens /\ \E g \in Flow : Serves(f, g)
<1>1. f \in Flow /\ service \in Service /\ minted \in Nat /\ started \in Nat
  BY DEF PanelInv, PanelTypes
<1>2. UNCHANGED <<service, started, approved, minted, live, made>>
  BY DEF Panel!Refuse, Panel!transactions, Panel!provider
<1>3. OnlyNewTokens
  BY <1>1, <1>2 DEF OnlyNewTokens
<1>4. 0 <= minted'
  BY <1>1, <1>2
<1>5. CASE \E parts \in {{}, {"another answer"}} : Panel!Received(f, parts, 0)
  <2>1. PICK parts \in {{}, {"another answer"}} : Panel!Received(f, parts, 0)
    BY <1>5
  <2>2. PICK g \in Flow :
          /\ Same(f, g) /\ Panel!Becomes(f, g) /\ g.gives \in {0, 0}
          /\ g.reply = "ok" => f.reply = "ok" \/ Panel!Valid(f, parts)
    BY <1>1, <2>1, ReceivedStep
  <2>3. f.op = "drop" => ~Panel!Valid(f, parts)
    BY <2>1, Tables DEF Panel!Valid, PanelInv, DroppedIsDead
  <2>4. f.op = "drop" /\ g.reply = "ok" => f.token \notin live'
    BY <1>2, <2>2, <2>3 DEF PanelInv, DroppedIsDead
  <2>5. g.gives = 0
    BY <2>2
  <2> QED
    BY <1>3, <1>4, <2>2, <2>4, <2>5 DEF Serves
<1>6. CASE /\ f.op = "poll"
           /\ Panel!Becomes(f, [f EXCEPT !.ask = "done", !.reply = IF @ = "none" THEN "ok" ELSE @])
  <2> DEFINE g == [f EXCEPT !.ask = "done", !.reply = IF @ = "none" THEN "ok" ELSE @]
  <2>1. g \in Flow /\ Same(f, g)
    BY <1>1 DEF Flow, Same, Reply
  <2>2. Panel!Becomes(f, g)
    BY <1>6
  <2> HIDE DEF g
  <2> QED
    BY <1>3, <1>6, <2>1, <2>2 DEF Serves
<1> QED
  BY <1>5, <1>6 DEF Panel!Refuse

\* A served call and a provider that did no harm keep the invariant.
LEMMA ServedKeeps ==
  ASSUME PanelInv, NEW f \in flows, NEW g \in Flow, Serves(f, g), OnlyNewTokens,
         UNCHANGED <<filled, oob, browser, device, state, code, token, origin, feedback,
                     mine, decided, channel>>
  PROVE  PanelInv'
<1>1. /\ f \in Flow /\ flows \subseteq Flow /\ minted \in Nat
      /\ minted' \in Nat /\ minted <= minted' /\ live \subseteq 1..minted
  BY DEF PanelInv, PanelTypes, TokensWereMinted, OnlyNewTokens
<1>2. \A h \in flows' :
        \/ h \in flows
        \/ h \in Flow /\ Same(g, h) /\ h.reply = g.reply /\ h.gives \in {0, g.gives}
  BY <1>1, OthersStay DEF Serves
<1>3. PanelTypes'
  BY <1>2 DEF PanelInv, PanelTypes, OnlyNewTokens
<1>4. \A t \in live' : t \in live \/ t > minted
  BY <1>1 DEF OnlyNewTokens
<1>5. TokensWereMinted'
  <2>1. live' \subseteq 1..minted'
    BY <1>1 DEF OnlyNewTokens
  <2>2. token' <= minted' /\ feedback'.gone <= minted'
    <3>1. token \in Nat /\ feedback.gone \in Nat
      BY DEF PanelInv, PanelTypes
    <3> QED
      BY <1>1, <3>1 DEF PanelInv, TokensWereMinted
  <2>3. ASSUME NEW h \in flows' PROVE h.token <= minted' /\ (h.op = "exchange" => h.gives <= minted')
    <3>1. CASE h \in flows
      <4>1. h.token \in Nat /\ h.gives \in Nat
        BY <1>1, <3>1 DEF Flow
      <4> QED
        BY <1>1, <3>1, <4>1 DEF PanelInv, TokensWereMinted
    <3>2. CASE Same(g, h) /\ h.gives \in {0, g.gives}
      <4>1. f.token \in Nat /\ f.token <= minted
        BY <1>1 DEF Flow, PanelInv, TokensWereMinted
      <4>2. h.token = f.token /\ h.op = f.op
        BY <3>2 DEF Serves, Same
      <4>3. h.token <= minted'
        BY <1>1, <4>1, <4>2
      <4> QED
        BY <1>1, <3>2, <4>2, <4>3 DEF Serves
    <3> QED
      BY <1>2, <3>1, <3>2
  <2> QED
    BY <2>1, <2>2, <2>3 DEF TokensWereMinted
<1>6. DroppedIsDead'
  <2>1. feedback.gone \in Nat /\ feedback.gone <= minted /\ feedback.gone \notin live
    BY DEF PanelInv, PanelTypes, TokensWereMinted, DroppedIsDead
  <2>2. feedback'.gone \notin live'
    BY <1>1, <1>4, <2>1
  <2>3. ASSUME NEW h \in flows', h.op = "drop"
        PROVE  /\ service' \in {"tmdb", "annict"}
               /\ h.reply = "ok" => h.token \notin live'
    <3>1. CASE h \in flows
      <4>1. h.token \in Nat /\ h.token <= minted
        BY <1>1, <3>1 DEF Flow, PanelInv, TokensWereMinted
      <4>2. h.reply = "ok" => h.token \notin live'
        BY <1>1, <1>4, <2>3, <3>1, <4>1 DEF PanelInv, DroppedIsDead
      <4> QED
        BY <2>3, <3>1, <4>2 DEF PanelInv, DroppedIsDead, OnlyNewTokens
    <3>2. CASE Same(g, h) /\ h.reply = g.reply
      <4>1. h.token = f.token /\ f.op = "drop"
        BY <2>3, <3>2 DEF Serves, Same
      <4> QED
        BY <3>2, <4>1 DEF Serves, PanelInv, DroppedIsDead, OnlyNewTokens
    <3> QED
      BY <1>2, <3>1, <3>2
  <2> QED
    BY <2>2, <2>3 DEF DroppedIsDead
<1>7. RelayedIsMine'
  <2>1. ASSUME NEW h \in flows', h.op = "exchange" PROVE Together(h.origin, h.state, h.code)'
    <3>1. CASE h \in flows
      BY <2>1, <3>1 DEF PanelInv, RelayedIsMine, Together
    <3>2. CASE Same(g, h)
      <4>1. h.op = f.op /\ h.origin = f.origin /\ h.state = f.state /\ h.code = f.code
        BY <3>2 DEF Serves, Same
      <4> QED
        BY <2>1, <4>1 DEF PanelInv, RelayedIsMine, Together
    <3> QED
      BY <1>2, <3>1, <3>2
  <2> QED
    BY <2>1 DEF PanelInv, RelayedIsMine, Together
<1> QED
  BY <1>3, <1>5, <1>6, <1>7 DEF PanelInv

-----------------------------------------------------------------------------
(* The steps of the panel. *)

\* Steps that leave the calls and the tokens alone.
LEMMA CallsUntouched ==
  ASSUME PanelInv, UNCHANGED <<service, minted, live, flows, mine>>
  PROVE  /\ \A f \in flows' : f.token <= minted' /\ (f.op = "exchange" => f.gives <= minted')
         /\ \A f \in flows' :
              f.op = "drop" => /\ service' \in {"tmdb", "annict"}
                               /\ f.reply = "ok" => f.token \notin live'
         /\ \A f \in flows' : f.op = "exchange" => Together(f.origin, f.state, f.code)'
BY DEF PanelInv, TokensWereMinted, DroppedIsDead, RelayedIsMine, Together

\* A message without a token says nothing about one.
LEMMA SaysNothing ==
  ASSUME PanelTypes, TokensWereMinted, NEW says \in {"nothing", "status", "error"}
  PROVE  /\ Panel!Says(says) \in [busy : BOOLEAN, says : {"nothing", "status", "error"},
                                  token : Nat, gone : Nat]
         /\ Panel!Says(says).gone = 0 /\ 0 <= minted /\ 0 \notin live
<1>1. 0 <= minted /\ 0 \notin live
  BY DEF PanelTypes, TokensWereMinted
<1>2. /\ Panel!Says(says) \in [busy : BOOLEAN, says : {"nothing", "status", "error"},
                                token : Nat, gone : Nat]
      /\ Panel!Says(says).gone = 0
  BY DEF Panel!Says, Panel!Quiet
<1> QED
  BY <1>1, <1>2

LEMMA PressKeeps ==
  ASSUME PanelInv, NEW op \in DOMAIN Panel!Buttons, Panel!Press(op)
  PROVE  PanelInv'
<1> DEFINE f == Panel!Payload(op)
<1>1. /\ flows' = flows \cup {f} /\ made' = made + 1 /\ feedback' = Panel!Busy
      /\ UNCHANGED <<service, started, minted, approved, live, filled, oob, browser, device, state,
                     code, token, origin, mine, decided, channel>>
  BY DEF Panel!Press, Panel!server, Panel!transactions, Panel!provider, Panel!fields, Panel!outside
<1>2. /\ PanelTypes /\ TokensWereMinted /\ DroppedIsDead /\ RelayedIsMine
      /\ op \in Op /\ (op = "drop" => service \in {"tmdb", "annict"})
  BY Tables DEF PanelInv, PanelTypes
<1>3. f \in Flow
  <2>1. Panel!Filled \cap Panel!Demands(op) \subseteq Input
    BY <1>2 DEF PanelTypes, Panel!Filled, Input
  <2>2. Panel!Nobody \in Origin
    BY DEF Panel!Nobody, Origin
  <2> QED
    BY <1>2, <2>1, <2>2 DEF Flow, PanelTypes, Panel!Payload, Reply
<1>4. /\ f.token = token \/ f.token = 0
      /\ f.gives = 0 /\ f.op = op /\ f.reply = "none"
      /\ op = "exchange" => f.origin = origin /\ f.state = state /\ f.code = code
  BY DEF Panel!Payload
<1> HIDE DEF f
<1>5. /\ Panel!Busy \in [busy : BOOLEAN, says : {"nothing", "status", "error"},
                         token : Nat, gone : Nat]
      /\ Panel!Busy.gone = 0
  BY DEF Panel!Busy, Panel!Quiet
<1>6. 0 <= minted /\ 0 \notin live
  BY <1>2 DEF PanelTypes, TokensWereMinted
<1>7. PanelTypes'
  BY <1>1, <1>2, <1>3, <1>5 DEF PanelTypes
<1>8. TokensWereMinted'
  BY <1>1, <1>2, <1>4, <1>5, <1>6 DEF TokensWereMinted
<1>9. DroppedIsDead'
  BY <1>1, <1>2, <1>4, <1>5, <1>6 DEF DroppedIsDead
<1>10. RelayedIsMine'
  BY <1>1, <1>2, <1>4 DEF RelayedIsMine, Together
<1> QED
  BY <1>7, <1>8, <1>9, <1>10 DEF PanelInv

\* A call ends for the page, and may stay for the API.
LEMMA ClosedCalls ==
  ASSUME PanelInv, NEW f \in flows, Panel!Becomes(f, [f EXCEPT !.open = FALSE]),
         UNCHANGED <<service, minted, live>>, mine \subseteq mine'
  PROVE  /\ flows' \subseteq Flow
         /\ \A h \in flows' : h.token <= minted' /\ (h.op = "exchange" => h.gives <= minted')
         /\ \A h \in flows' :
              h.op = "drop" => /\ service' \in {"tmdb", "annict"}
                               /\ h.reply = "ok" => h.token \notin live'
         /\ \A h \in flows' : h.op = "exchange" => Together(h.origin, h.state, h.code)'
<1> DEFINE g == [f EXCEPT !.open = FALSE]
<1>1. f \in Flow /\ flows \subseteq Flow /\ minted \in Nat
  BY DEF PanelInv, PanelTypes
<1>2. g \in Flow /\ Same(f, g) /\ g.reply = f.reply /\ g.gives = f.gives
  BY <1>1 DEF Flow, Same
<1>3. Panel!Becomes(f, g)
  OBVIOUS
<1> HIDE DEF g
<1>4. \A h \in flows' :
        \/ h \in flows
        \/ h \in Flow /\ Same(g, h) /\ h.reply = g.reply /\ h.gives \in {0, g.gives}
  BY <1>1, <1>2, <1>3, OthersStay
<1>5. ASSUME NEW h \in flows'
      PROVE  \E e \in flows : Same(e, h) /\ h.reply = e.reply /\ h.gives \in {0, e.gives}
  <2>1. CASE h \in flows
    BY <2>1 DEF Same
  <2>2. CASE Same(g, h) /\ h.reply = g.reply /\ h.gives \in {0, g.gives}
    BY <1>2, <2>2 DEF Same
  <2> QED
    BY <1>4, <2>1, <2>2
<1>6. flows' \subseteq Flow
  BY <1>1, <1>4
<1>7. ASSUME NEW h \in flows'
      PROVE  /\ h.token <= minted' /\ (h.op = "exchange" => h.gives <= minted')
             /\ h.op = "drop" => /\ service' \in {"tmdb", "annict"}
                                 /\ h.reply = "ok" => h.token \notin live'
             /\ h.op = "exchange" => Together(h.origin, h.state, h.code)'
  <2>1. PICK e \in flows : Same(e, h) /\ h.reply = e.reply /\ h.gives \in {0, e.gives}
    BY <1>5
  <2>2. h.token <= minted' /\ (h.op = "exchange" => h.gives <= minted')
    BY <1>1, <2>1 DEF Same, PanelInv, TokensWereMinted
  <2>3. h.op = "drop" => /\ service' \in {"tmdb", "annict"}
                         /\ h.reply = "ok" => h.token \notin live'
    BY <2>1 DEF Same, PanelInv, DroppedIsDead
  <2>4. h.op = "exchange" => Together(h.origin, h.state, h.code)'
    BY <2>1 DEF Same, PanelInv, RelayedIsMine, Together
  <2> QED
    BY <2>2, <2>3, <2>4
<1> QED
  BY <1>6, <1>7

\* What the panel makes of the answers.
LEMMA DeliverKeeps ==
  ASSUME PanelInv, NEW f \in flows, Panel!Deliver(f)
  PROVE  PanelInv'
<1>1. /\ PanelTypes /\ TokensWereMinted /\ DroppedIsDead /\ RelayedIsMine
      /\ f \in Flow /\ minted \in Nat /\ live \subseteq 1..minted /\ token \in Nat
      /\ f.gives \in Nat /\ f.token \in Nat /\ f.token <= minted
  BY DEF PanelInv, PanelTypes, TokensWereMinted, Flow
<1>2. /\ Panel!Becomes(f, [f EXCEPT !.open = FALSE])
      /\ UNCHANGED <<service, started, minted, approved, live, made, filled, oob, decided, channel>>
  BY DEF Panel!Deliver, Panel!server, Panel!transactions, Panel!provider
<1> SUFFICES /\ mine \subseteq mine'
             /\ state' \in Nat /\ code' \in Nat /\ device' \in Nat /\ origin' \in Origin
             /\ token' \in Nat /\ token' <= minted
             /\ feedback' \in [busy : BOOLEAN, says : {"nothing", "status", "error"},
                               token : Nat, gone : Nat]
             /\ feedback'.gone <= minted /\ feedback'.gone \notin live
             /\ browser' \in mine' \cup {0}
             /\ Together(origin, state, code)'
  <2>1. ASSUME mine \subseteq mine'
        PROVE  /\ flows' \subseteq Flow
               /\ \A h \in flows' : h.token <= minted' /\ (h.op = "exchange" => h.gives <= minted')
               /\ \A h \in flows' :
                    h.op = "drop" => /\ service' \in {"tmdb", "annict"}
                                     /\ h.reply = "ok" => h.token \notin live'
               /\ \A h \in flows' : h.op = "exchange" => Together(h.origin, h.state, h.code)'
    BY <1>2, <2>1, ClosedCalls
  <2>2. PanelTypes'
    BY <1>1, <1>2, <2>1 DEF PanelTypes
  <2>3. TokensWereMinted'
    BY <1>1, <1>2, <2>1 DEF TokensWereMinted
  <2>4. DroppedIsDead'
    BY <1>1, <1>2, <2>1 DEF DroppedIsDead
  <2>5. RelayedIsMine'
    BY <1>1, <1>2, <2>1 DEF RelayedIsMine
  <2> QED
    BY <2>2, <2>3, <2>4, <2>5 DEF PanelInv
<1>3. /\ state \in Nat /\ code \in Nat /\ device \in Nat /\ origin \in Origin /\ token <= minted
      /\ browser \in mine \cup {0} /\ Together(origin, state, code)
  BY <1>1 DEF PanelTypes, TokensWereMinted, RelayedIsMine
<1>4. ASSUME NEW says \in {"nothing", "status", "error"}
      PROVE  /\ Panel!Says(says) \in [busy : BOOLEAN, says : {"nothing", "status", "error"},
                                      token : Nat, gone : Nat]
             /\ Panel!Says(says).gone = 0 /\ 0 <= minted /\ 0 \notin live
  BY <1>1, SaysNothing
<1>5. CASE /\ feedback' \in {Panel!Says("error"), Panel!Says("status")}
           /\ device' \in {device, f.gives}
           /\ UNCHANGED <<browser, state, code, token, origin, mine>>
  BY <1>1, <1>3, <1>4, <1>5 DEF Together
<1>6. CASE Panel!Begun(f)
  <2>1. /\ browser' = f.gives /\ mine' = mine \cup {f.gives}
        /\ state' \in {0, f.gives} /\ feedback' = Panel!Says("status")
        /\ UNCHANGED <<device, code, token>>
    BY <1>6 DEF Panel!Begun
  <2>2. origin' \in Origin /\ origin'.state # "relay"
    BY <1>3, <1>6 DEF Panel!Begun, Origin
  <2> QED
    BY <1>1, <1>3, <1>4, <2>1, <2>2 DEF Together
<1>7. CASE Panel!Exchanged(f) /\ f.op \in {"exchange", "refresh", "poll"}
  <2>1. /\ feedback' = [Panel!Says("status") EXCEPT !.token = f.gives]
        /\ token' \in {token, f.gives} /\ (token' = token \/ f.op = "exchange")
        /\ UNCHANGED <<browser, device, mine>>
    BY <1>7 DEF Panel!Exchanged
  <2>2. \/ UNCHANGED <<state, code, origin>>
        \/ state' = 0 /\ code' = 0 /\ origin' = Panel!Nobody
    BY <1>7 DEF Panel!Exchanged
  <2>3. Panel!Nobody \in Origin /\ Panel!Nobody.state # "relay"
    BY DEF Panel!Nobody, Origin
  <2>4. token' \in Nat /\ token' <= minted
    BY <1>1, <1>3, <2>1 DEF TokensWereMinted
  <2>5. /\ feedback' \in [busy : BOOLEAN, says : {"nothing", "status", "error"},
                          token : Nat, gone : Nat]
        /\ feedback'.gone = 0
    BY <1>1, <1>4, <2>1 DEF Panel!Says, Panel!Quiet
  <2>6. 0 <= minted /\ 0 \notin live
    BY <1>1
  <2> QED
    BY <1>3, <2>1, <2>2, <2>3, <2>4, <2>5, <2>6 DEF Together
<1>8. CASE Panel!Dropped(f) /\ f.op = "drop" /\ f.reply = "ok"
  <2>1. /\ token' = 0 /\ feedback' = [Panel!Says("status") EXCEPT !.gone = f.token]
        /\ UNCHANGED <<browser, device, state, code, origin, mine>>
    BY <1>8 DEF Panel!Dropped
  <2>2. /\ feedback' \in [busy : BOOLEAN, says : {"nothing", "status", "error"},
                          token : Nat, gone : Nat]
        /\ feedback'.gone = f.token
    BY <1>1, <2>1 DEF Panel!Says, Panel!Quiet
  <2>3. f.token \notin live
    BY <1>1, <1>8 DEF DroppedIsDead
  <2> QED
    BY <1>1, <1>3, <2>1, <2>2, <2>3 DEF Together
<1>9. \/ /\ feedback' \in {Panel!Says("error"), Panel!Says("status")}
         /\ device' \in {device, f.gives}
         /\ UNCHANGED <<browser, state, code, token, origin, mine>>
      \/ Panel!Begun(f)
      \/ Panel!Exchanged(f) /\ f.op \in {"exchange", "refresh", "poll"}
      \/ Panel!Dropped(f) /\ f.op = "drop" /\ f.reply = "ok"
  <2>1. f.reply \in {"ok", "error"} /\ f.op \in Op
    BY <1>1 DEF Panel!Deliver, Flow, Reply
  <2>2. CASE f.reply = "error"
    BY <2>2 DEF Panel!Deliver
  <2>3. CASE f.reply = "ok"
    BY <2>1, <2>3 DEF Panel!Deliver, Panel!DeviceStarted, Op
  <2> QED
    BY <2>1, <2>2, <2>3
<1> QED
  BY <1>5, <1>6, <1>7, <1>8, <1>9

\* The page stops waiting.
LEMMA DisconnectKeeps ==
  ASSUME PanelInv, NEW f \in flows, Panel!Disconnect(f)
  PROVE  PanelInv'
<1>1. PanelTypes /\ TokensWereMinted /\ DroppedIsDead /\ RelayedIsMine
  BY DEF PanelInv
<1>2. /\ Panel!Becomes(f, [f EXCEPT !.open = FALSE]) /\ feedback' = Panel!Says("error")
      /\ UNCHANGED <<service, started, minted, approved, live, made, filled, oob, browser, device,
                     state, code, token, origin, mine, decided, channel>>
  BY DEF Panel!Disconnect, Panel!server, Panel!transactions, Panel!provider, Panel!fields,
     Panel!outside
<1>3. /\ flows' \subseteq Flow
      /\ \A h \in flows' : h.token <= minted' /\ (h.op = "exchange" => h.gives <= minted')
      /\ \A h \in flows' :
           h.op = "drop" => /\ service' \in {"tmdb", "annict"}
                            /\ h.reply = "ok" => h.token \notin live'
      /\ \A h \in flows' : h.op = "exchange" => Together(h.origin, h.state, h.code)'
  BY <1>2, ClosedCalls
<1>4. /\ Panel!Says("error") \in [busy : BOOLEAN, says : {"nothing", "status", "error"},
                                  token : Nat, gone : Nat]
      /\ Panel!Says("error").gone = 0 /\ 0 <= minted /\ 0 \notin live
  BY <1>1, SaysNothing
<1>5. PanelTypes'
  BY <1>1, <1>2, <1>3, <1>4 DEF PanelTypes
<1>6. TokensWereMinted'
  BY <1>1, <1>2, <1>3, <1>4 DEF TokensWereMinted
<1>7. DroppedIsDead'
  BY <1>1, <1>2, <1>3, <1>4 DEF DroppedIsDead
<1>8. RelayedIsMine'
  BY <1>1, <1>2, <1>3 DEF RelayedIsMine, Together
<1> QED
  BY <1>5, <1>6, <1>7, <1>8 DEF PanelInv

\* The user decides at the provider; a callback tab may relay it.
LEMMA DecideKeeps ==
  ASSUME PanelInv, NEW n \in Nat, NEW outcome, NEW relayed, Panel!Decide(n, outcome, relayed)
  PROVE  PanelInv'
<1>1. PanelTypes /\ TokensWereMinted /\ DroppedIsDead /\ RelayedIsMine
  BY DEF PanelInv
<1>2. UNCHANGED <<service, started, minted, live, flows, made, filled, oob, browser, device, state,
                  code, token, origin, feedback, mine>>
  BY DEF Panel!Decide, Panel!transactions, Panel!fields
<1>3. decided' = decided \cup {n} /\ approved' \subseteq approved \cup {n}
  BY DEF Panel!Decide
<1>4. \A m \in channel' : m.state \in Nat /\ m.code \in {0, m.state}
  <2>1. channel' \subseteq channel \cup {Panel!CallbackQuery(n, outcome)}
    BY DEF Panel!Decide, Panel!parseOAuthCallbackQuery
  <2>2. Panel!CallbackQuery(n, outcome).state = n /\ Panel!CallbackQuery(n, outcome).code \in {0, n}
    BY DEF Panel!CallbackQuery
  <2> QED
    BY <1>1, <2>1, <2>2 DEF RelayedIsMine
<1>5. PanelTypes'
  BY <1>1, <1>2, <1>3 DEF PanelTypes
<1>6. TokensWereMinted'
  BY <1>1, <1>2 DEF TokensWereMinted
<1>7. DroppedIsDead'
  BY <1>1, <1>2 DEF DroppedIsDead
<1>8. RelayedIsMine'
  BY <1>1, <1>2, <1>4 DEF RelayedIsMine, Together
<1> QED
  BY <1>5, <1>6, <1>7, <1>8 DEF PanelInv

\* A message is taken only for the attempt of the last start, which is one of the panel.
LEMMA TakeCallbackKeeps ==
  ASSUME PanelInv, NEW m \in channel, Panel!TakeCallback(m)
  PROVE  PanelInv'
<1>1. PanelTypes /\ TokensWereMinted /\ DroppedIsDead /\ RelayedIsMine
  BY DEF PanelInv
<1>2. /\ UNCHANGED <<service, started, minted, live, approved, flows, made, filled, oob, browser,
                     device, token, mine, decided>>
      /\ channel' \subseteq channel
  BY DEF Panel!TakeCallback, Panel!server, Panel!transactions, Panel!provider
<1>3. /\ \/ UNCHANGED <<state, code, origin>>
         \/ /\ Panel!Accepts(m) /\ state' = m.state /\ code' = m.code
            /\ origin' = [state |-> "relay", code |-> "relay"]
      /\ feedback' \in {feedback, Panel!Says("error"), Panel!Says("status")}
  BY DEF Panel!TakeCallback
<1>4. state' \in Nat /\ code' \in Nat /\ origin' \in Origin
  BY <1>1, <1>3 DEF PanelTypes, RelayedIsMine, Origin
<1>5. Together(origin, state, code)'
  BY <1>1, <1>2, <1>3 DEF RelayedIsMine, Together, Panel!Accepts
<1>6. /\ feedback' \in [busy : BOOLEAN, says : {"nothing", "status", "error"}, token : Nat, gone : Nat]
      /\ feedback'.gone <= minted /\ feedback'.gone \notin live
  <2>1. ASSUME NEW says \in {"nothing", "status", "error"}
        PROVE  /\ Panel!Says(says) \in [busy : BOOLEAN, says : {"nothing", "status", "error"},
                                        token : Nat, gone : Nat]
               /\ Panel!Says(says).gone = 0 /\ 0 <= minted /\ 0 \notin live
    BY <1>1, SaysNothing
  <2> QED
    BY <1>1, <1>3, <2>1 DEF PanelTypes, TokensWereMinted, DroppedIsDead
<1>7. PanelTypes'
  BY <1>1, <1>2, <1>4, <1>6 DEF PanelTypes
<1>8. TokensWereMinted'
  BY <1>1, <1>2, <1>6 DEF TokensWereMinted
<1>9. DroppedIsDead'
  BY <1>1, <1>2, <1>6 DEF DroppedIsDead
<1>10. RelayedIsMine'
  BY <1>1, <1>2, <1>5 DEF RelayedIsMine, Together
<1> QED
  BY <1>7, <1>8, <1>9, <1>10 DEF PanelInv

\* What is filled in by hand was not relayed.
LEMMA TypeKeeps ==
  ASSUME PanelInv, Panel!Type
  PROVE  PanelInv'
<1>1. PanelTypes /\ TokensWereMinted /\ DroppedIsDead /\ RelayedIsMine
  BY DEF PanelInv
<1>2. UNCHANGED <<service, started, minted, live, approved, flows, made, browser, device, feedback,
                  mine, decided, channel>>
  BY DEF Panel!Type, Panel!server, Panel!transactions, Panel!provider, Panel!outside
<1>3. \/ /\ state' \in decided /\ origin' = [origin EXCEPT !.state = "hand"]
         /\ UNCHANGED <<filled, oob, code, token>>
      \/ /\ code' \in approved /\ origin' = [origin EXCEPT !.code = "hand"]
         /\ UNCHANGED <<filled, oob, state, token>>
      \/ token' \in 1..minted /\ UNCHANGED <<filled, oob, state, code, origin>>
      \/ /\ filled' = {"client", "secret", "redirect"} /\ oob' \in BOOLEAN
         /\ UNCHANGED <<state, code, token, origin>>
  BY DEF Panel!Type
<1>4. /\ filled' \subseteq Input /\ oob' \in BOOLEAN
      /\ state' \in Nat /\ code' \in Nat /\ token' \in Nat /\ origin' \in Origin
  BY <1>1, <1>3 DEF PanelTypes, Origin, Input
<1>5. token' <= minted
  BY <1>1, <1>3 DEF PanelTypes, TokensWereMinted
<1>6. Together(origin, state, code)'
  BY <1>1, <1>2, <1>3 DEF PanelTypes, RelayedIsMine, Together, Origin
<1>7. PanelTypes'
  BY <1>1, <1>2, <1>4 DEF PanelTypes
<1>8. TokensWereMinted'
  BY <1>1, <1>2, <1>5 DEF TokensWereMinted
<1>9. DroppedIsDead'
  BY <1>1, <1>2 DEF DroppedIsDead
<1>10. RelayedIsMine'
  BY <1>1, <1>2, <1>6 DEF RelayedIsMine, Together
<1> QED
  BY <1>7, <1>8, <1>9, <1>10 DEF PanelInv

LEMMA ClearKeeps ==
  ASSUME PanelInv, Panel!clearSensitiveValues
  PROVE  PanelInv'
<1>1. PanelTypes /\ TokensWereMinted /\ DroppedIsDead /\ RelayedIsMine
  BY DEF PanelInv
<1>2. /\ UNCHANGED <<service, started, minted, live, approved, flows, made, oob, mine, decided, channel>>
      /\ filled' \subseteq filled
      /\ state' = 0 /\ code' = 0 /\ token' = 0 /\ browser' = 0 /\ device' = 0
      /\ origin' = Panel!Nobody /\ feedback' = Panel!Quiet
  BY DEF Panel!clearSensitiveValues, Panel!server, Panel!transactions, Panel!provider, Panel!outside
<1>3. /\ Panel!Quiet \in [busy : BOOLEAN, says : {"nothing", "status", "error"}, token : Nat, gone : Nat]
      /\ Panel!Quiet.gone = 0 /\ Panel!Nobody \in Origin /\ Panel!Nobody.state = "nobody"
  BY DEF Panel!Quiet, Panel!Nobody, Origin
<1>4. 0 <= minted /\ 0 \notin live
  BY <1>1 DEF PanelTypes, TokensWereMinted
<1>5. PanelTypes'
  BY <1>1, <1>2, <1>3 DEF PanelTypes
<1>6. TokensWereMinted'
  BY <1>1, <1>2, <1>3, <1>4 DEF TokensWereMinted
<1>7. DroppedIsDead'
  BY <1>1, <1>2, <1>3, <1>4 DEF DroppedIsDead
<1>8. RelayedIsMine'
  BY <1>1, <1>2, <1>3 DEF RelayedIsMine, Together
<1> QED
  BY <1>5, <1>6, <1>7, <1>8 DEF PanelInv

-----------------------------------------------------------------------------

LEMMA PanelStarts ==
  ASSUME Panel!Init
  PROVE  PanelInv
<1>1. PanelTypes
  BY DEF Panel!Init, PanelTypes, Service, Input, Origin, Panel!Nobody, Panel!Quiet
<1>2. TokensWereMinted
  BY DEF Panel!Init, TokensWereMinted, Panel!Quiet
<1>3. DroppedIsDead
  BY DEF Panel!Init, DroppedIsDead, Panel!Quiet
<1>4. RelayedIsMine
  BY DEF Panel!Init, RelayedIsMine, Together, Panel!Nobody
<1> QED
  BY <1>1, <1>2, <1>3, <1>4 DEF PanelInv

LEMMA PanelGoesOn ==
  ASSUME PanelInv, [Panel!Next]_(Panel!vars)
  PROVE  PanelInv'
<1>1. CASE \E op \in DOMAIN Panel!Buttons : Panel!Press(op)
  BY <1>1, PressKeeps
<1>2. CASE Panel!Server
  <2>1. PICK f \in flows : Panel!Api(f)
    BY <1>2 DEF Panel!Server
  <2>2. OnlyNewTokens /\ \E g \in Flow : Serves(f, g)
    BY <2>1, ApiStep
  <2>3. UNCHANGED <<filled, oob, browser, device, state, code, token, origin, feedback,
                    mine, decided, channel>>
    BY <1>2 DEF Panel!Server, Panel!fields, Panel!outside
  <2> QED
    BY <2>2, <2>3, ServedKeeps
<1>3. CASE Panel!Provider
  <2>1. PICK f \in flows : Panel!Carry(f) \/ Panel!Refuse(f)
    BY <1>3 DEF Panel!Provider
  <2>2. OnlyNewTokens /\ \E g \in Flow : Serves(f, g)
    BY <2>1, CarryStep, RefuseStep
  <2>3. UNCHANGED <<filled, oob, browser, device, state, code, token, origin, feedback,
                    mine, decided, channel>>
    BY <1>3 DEF Panel!Provider, Panel!fields, Panel!outside
  <2> QED
    BY <2>2, <2>3, ServedKeeps
<1>4. CASE Panel!Answer
  BY <1>4, DeliverKeeps DEF Panel!Answer
<1>5. CASE \E f \in flows : Panel!Disconnect(f)
  BY <1>5, DisconnectKeeps
<1>6. CASE \E n \in 1..MaxAttempts, outcome \in {"approved", "denied"}, relayed \in BOOLEAN :
             Panel!Decide(n, outcome, relayed)
  BY <1>6, DecideKeeps
<1>7. CASE \E m \in channel : Panel!TakeCallback(m)
  BY <1>7, TakeCallbackKeeps
<1>8. CASE Panel!Type \/ Panel!clearSensitiveValues
  BY <1>8, TypeKeeps, ClearKeeps
<1>9. CASE Panel!OtherTab
  BY <1>9 DEF Panel!OtherTab, Panel!provider, Panel!fields, Panel!outside, PanelInv, PanelTypes,
     TokensWereMinted, DroppedIsDead, RelayedIsMine, Together
<1>10. CASE UNCHANGED Panel!vars
  BY <1>10 DEF Panel!vars, Panel!server, Panel!transactions, Panel!provider, Panel!fields,
     Panel!outside, PanelInv, PanelTypes, TokensWereMinted, DroppedIsDead, RelayedIsMine, Together
<1> QED
  BY <1>1, <1>2, <1>3, <1>4, <1>5, <1>6, <1>7, <1>8, <1>9, <1>10 DEF Panel!Next

LEMMA PanelHolds == Panel!Spec => []PanelInv
<1>1. Panel!Init => PanelInv
  BY PanelStarts
<1>2. PanelInv /\ [Panel!Next]_(Panel!vars) => PanelInv'
  BY PanelGoesOn
<1> QED
  BY <1>1, <1>2, PTL DEF Panel!Spec

(***************************************************************************)
(* OAuthPanel: with any number of attempts, callback tabs and calls under  *)
(* way, an exchange that sends a relayed state is for an attempt that this *)
(* panel started, and a relayed code is sent with its own state.           *)
(***************************************************************************)
THEOREM RelayedPairsAreTogether == Panel!Spec => []RelayedPairsStayTogether
<1>1. PanelInv => RelayedPairsStayTogether
  BY DEF PanelInv, RelayedIsMine, Together, RelayedPairsStayTogether, Panel!RelayedPairsStayTogether
<1> QED
  BY <1>1, PanelHolds, PTL

(***************************************************************************)
(* OAuthPanel: as long as the panel shows that a token was logged out or   *)
(* revoked, the provider does not accept it, also when other calls are     *)
(* under way; the API says success only for an answer with all its parts.  *)
(***************************************************************************)
THEOREM RevokedIsDead == Panel!Spec => []SaidRevokedIsRevoked
<1>1. PanelInv => SaidRevokedIsRevoked
  BY DEF PanelInv, DroppedIsDead, SaidRevokedIsRevoked, Panel!SaidRevokedIsRevoked
<1> QED
  BY <1>1, PanelHolds, PTL
=============================================================================
