----------------------------- MODULE ImportCall -----------------------------
(***************************************************************************)
(* The common ground of the account connectors (packages/connectors/src):  *)
(* an import call, the account at the provider, another program that edits *)
(* it, and the writes on their way.  Each connector's own module adds what *)
(* its importer does.                                                      *)
(*                                                                         *)
(* A row is what the provider keeps of an item: a list status (0 absent,   *)
(* 1 planned, 2 in progress, 3 completed), a number of plays, a rating     *)
(* (0 for none) and the rest, which no import is about.  An entry of the   *)
(* call wants some of these fields to have given values.  Every call to    *)
(* the provider is a ProviderCall: a write takes effect at most once, in   *)
(* time, late or never, and an error does not tell which.                  *)
(***************************************************************************)
EXTENDS Naturals, Sequences, FiniteSets, SequencesExt

CONSTANTS
  Item,        \* the items of the account
  Episode,     \* the items that are episodes
  Parent,      \* Parent[e]: the title an episode belongs to
  MaxEdits,    \* bound on the other program's changes
  MaxCalls     \* bound on the calls, the first and the ones after a failure

ASSUME ImportAssumption ==
  /\ Episode \subseteq Item
  /\ Parent \in [Episode -> Item \ Episode]
  /\ MaxEdits \in Nat
  /\ MaxCalls \in Nat \ {0}

VARIABLES
  call,        \* the call: service, feature, dryRun, entries
  pc,          \* where the connector is
  account,     \* account[i]: the row of item i at the provider
  seen,        \* seen[i]: its row when the connector made its plan
  todo,        \* the writes the connector has planned and not confirmed
  wire,        \* the writes sent and not carried out
  answer,      \* what came back for the write under way
  moved,       \* the items that others changed since the connector last read them
  outcome,     \* what the caller was told
  edits, calls \* bounded counters

vars == <<call, pc, account, seen, todo, wire, answer, moved, outcome, edits, calls>>

counters == <<edits, calls>>
provider == <<account, wire, answer>>

Row == [status : 0..3, plays : 0..2, rating : 0..2, rest : 0..1]
Absent == [status |-> 0, plays |-> 0, rating |-> 0, rest |-> 0]

\* An entry that carries what the provider cannot keep: a date, a position, another kind of item.
Unsupported == [unsupported |-> TRUE]

Entries == call.entries
Requested == {e.item : e \in Range(Entries)}
Wanted(i) == {e.want : e \in {x \in Range(Entries) : x.item = i}}
Want(i) == CHOOSE w \in Wanted(i) : TRUE

\* The members of S by their keys, no two of which are the same.
Sorted(S, key) ==
  [k \in 1..Cardinality(S) |-> CHOOSE x \in S : Cardinality({y \in S : key[y] <= key[x]}) = k]

\* The requested items of S in the order of their first entries.
FirstEntry ==
  [i \in Requested |-> CHOOSE n \in DOMAIN Entries :
                         Entries[n].item = i /\ \A m \in 1..(n - 1) : Entries[m].item # i]
InOrder(S) == Sorted(S, FirstEntry)

\* The row has the values an entry wants; "atLeast" is a least number of plays, and what no
\* row has is about the call alone.
Holds(row, want) ==
  \A f \in DOMAIN want :
    IF f = "atLeast" THEN row.plays >= want[f] ELSE f \in DOMAIN row => row[f] = want[f]

Repeated == \E m, n \in DOMAIN Entries : m # n /\ Entries[m].item = Entries[n].item
Conflicting == \E i \in Requested : Cardinality(Wanted(i)) > 1
AnyUnsupported == \E e \in Range(Entries) : e.want = Unsupported

-----------------------------------------------------------------------------
(* Writes: of one item, or of several in one request.  A "put" sets fields, a "play" adds  *)
(* one to the history, a "toggle" follows or unfollows, and "episodes" sets rows of a title *)
(* whose own status the provider works out again.                                           *)

Put(i, fields) == [kind |-> "put", rows |-> [x \in {i} |-> fields]]
Play(i) == [kind |-> "play", rows |-> [x \in {i} |-> <<>>]]
Toggle(i) == [kind |-> "toggle", rows |-> [x \in {i} |-> <<>>]]

\* One write for each of the items, in the order of their first entries.
Each(Write(_), items) ==
  LET order == InOrder(items)
  IN  [n \in DOMAIN order |-> Write(order[n])]

\* What a write does to the row of one of its items.
Effect(row, kind, fields) ==
  CASE kind = "play" -> [row EXCEPT !.plays = @ + 1]
    [] kind = "toggle" -> [row EXCEPT !.status = 1 - @]
    [] OTHER -> [f \in DOMAIN row |-> IF f \in DOMAIN fields THEN fields[f] ELSE row[f]]

Doing(service, feature, label) ==
  pc = label /\ call.service = service /\ call.feature = feature

Fail ==
  /\ pc' = "done"
  /\ outcome' = "failed"
  /\ UNCHANGED <<call, provider, seen, todo, moved, counters>>

\* The import is over, after reading these items again.
Succeed(items) ==
  /\ pc' = "done"
  /\ outcome' = "ok"
  /\ moved' = moved \ items
  /\ UNCHANGED <<call, provider, seen, todo, counters>>

Goto(label) ==
  /\ pc' = label
  /\ UNCHANGED <<call, provider, seen, todo, moved, outcome, counters>>

\* The connector has read the whole account and plans these writes; then it goes on at label.
Plan(writes, label) ==
  /\ seen' = account
  /\ moved' = {}
  /\ todo' = writes
  /\ IF call.dryRun THEN pc' = "done" /\ outcome' = "ok"
     ELSE IF writes = <<>> /\ label = "sending" THEN pc' = "done" /\ outcome' = "ok"
     ELSE pc' = label /\ outcome' = outcome
  /\ UNCHANGED <<call, provider, counters>>

\* The connector reads the rows of these items once more and goes on at label.
Look(items, label) ==
  /\ moved' = moved \ items
  /\ pc' = label
  /\ UNCHANGED <<call, provider, seen, todo, outcome, counters>>

\* The item of a write that has one.
Target(w) == CHOOSE i \in DOMAIN w.rows : TRUE

\* The next planned write leaves.
Send ==
  /\ pc = "sending"
  /\ wire' = wire \cup {[call |-> calls, write |-> Head(todo)]}
  /\ answer' = "none"
  /\ pc' = "waiting"
  /\ UNCHANGED <<call, account, seen, todo, moved, outcome, counters>>

\* A plausible bug: a write is not waited for.
FireAndForget == pc = "waiting" /\ answer \in {"none", "applied", "ignored", "partial"}

\* A 2xx answer, whatever it says.
Answered == pc = "waiting" /\ answer \in {"applied", "ignored", "partial"}

\* A write that got a 2xx answer is looked up again.
Reread ==
  /\ Answered
  /\ call.service \in {"annict", "shikimori", "plex", "kodi", "emby"}
  /\ Goto("verifying")

\* The write under way is done with, after reading these items again; the connector goes on
\* at next, or at last after the last one.
Advance(items, next, last) ==
  /\ todo' = Tail(todo)
  /\ moved' = moved \ items
  /\ IF Len(todo) = 1
     THEN IF last = "done" THEN pc' = "done" /\ outcome' = "ok"
                           ELSE pc' = last /\ outcome' = outcome
     ELSE pc' = next /\ outcome' = outcome
  /\ UNCHANGED <<call, provider, seen, counters>>

-----------------------------------------------------------------------------
(* The provider, the other program and the caller *)

\* The imports that compare what the provider then has, or says it has, with what they
\* wrote; the providers of the others are taken to do what they answer.
ReadsBack ==
  \/ call.service \in {"annict", "shikimori", "plex", "kodi", "jellyfin", "emby", "anilist"}
  \/ call.service = "trakt" /\ call.feature \in {"reviews", "following"}

\* The requests whose answers say which of the records the provider could not find.
TellsNotFound ==
  call.service \in {"simkl", "trakt"} /\ call.feature \in {"ratings", "watched", "watchlist"}

Current(m) == pc = "waiting" /\ m.call = calls

\* A write is carried out, for some of its items or for all, with its answer or with the
\* answer lost; derived is the status a title gets from its episodes.  To a connector that
\* gave the write up it is a change by someone else.
Arrive(m, done, derived) ==
  LET w == m.write
      titles == IF w.kind = "episodes" THEN {Parent[e] : e \in done} ELSE {}
  IN
  /\ done # {}
  /\ done = DOMAIN w.rows \/ TellsNotFound
  /\ wire' = wire \ {m}
  /\ account' = [i \in Item |->
       IF i \in done THEN Effect(account[i], w.kind, w.rows[i])
       ELSE IF i \in titles THEN [account[i] EXCEPT !.status = derived] ELSE account[i]]
  /\ IF Current(m)
     THEN /\ answer' \in {IF done # DOMAIN w.rows THEN "partial"
                         ELSE IF w.kind = "toggle" /\ \E i \in done : account'[i].status = 0
                         THEN "ignored" ELSE "applied", "lost"}
          /\ moved' = moved
     ELSE answer' = answer /\ moved' = moved \cup done \cup titles
  /\ UNCHANGED <<call, pc, seen, todo, outcome, counters>>

\* A write is not carried out: refused, lost, answered as done for none of its items, or
\* answered although the provider dropped or normalised the value.
Vanish(m) ==
  /\ wire' = wire \ {m}
  /\ answer' \in IF ~Current(m) THEN {answer}
                 ELSE {"refused", "lost"}
                        \cup (IF ReadsBack THEN {"ignored"} ELSE {})
                        \cup (IF TellsNotFound THEN {"partial"} ELSE {})
  /\ UNCHANGED <<call, pc, account, seen, todo, moved, outcome, counters>>

\* An error status or a broken connection ends the import; so does the time limit, with the
\* write still on its way.
WriteFails == pc = "waiting" /\ answer \in {"none", "refused", "lost"} /\ Fail

\* A read that fails or whose answer is malformed ends the import.
ReadFails == pc \in {"resolving", "reading", "checking", "rechecking", "verifying", "final"} /\ Fail

\* Some other program of the same user changes a row; before the connector has read the
\* account, that amounts to another account to begin with.
Edit(i, row) ==
  /\ pc \notin {"validating", "resolving", "reading", "done"}
  /\ edits < MaxEdits
  /\ row # account[i]
  /\ account' = [account EXCEPT ![i] = row]
  /\ moved' = moved \cup {i}
  /\ edits' = edits + 1
  /\ UNCHANGED <<call, pc, seen, todo, wire, answer, outcome, calls>>

\* The caller makes a failed call again.
Again ==
  /\ pc = "done"
  /\ outcome = "failed"
  /\ calls < MaxCalls
  /\ ~call.dryRun
  /\ calls' = calls + 1
  /\ pc' = "validating"
  /\ outcome' = "running"
  /\ answer' = "none"
  /\ todo' = <<>>
  /\ UNCHANGED <<call, account, seen, wire, moved, edits>>
=============================================================================
