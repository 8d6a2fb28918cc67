---------------------------- MODULE DevicePolling ----------------------------
(***************************************************************************)
(* Trakt device codes in one API process (apps/api/src/oauth.ts): a session*)
(* per code that is being polled, with the moment of its next poll, and a  *)
(* tombstone per code whose attempt is over, which answers a later poll    *)
(* without asking the provider.  Sessions and tombstones share a limited   *)
(* room.  A poll is answered after the process looked at the clock; other  *)
(* requests run in between.                                                *)
(*                                                                         *)
(* Each code belongs to one client id: a poll with another one is refused  *)
(* like Refuse, or without any change.                                     *)
(***************************************************************************)
EXTENDS Integers, FiniteSets, SequencesExt

CONSTANTS
  Device,       \* device codes
  Poller,       \* requests that can be polling at once
  Capacities,   \* the values MAX_TRAKT_DEVICE_STATES stands for
  Lifetimes,    \* the values of expires_in of a code started here
  Intervals,    \* the intervals the provider may grant a code started here
  Interval,     \* DEFAULT_TRAKT_DEVICE_INTERVAL_MS, of a code started elsewhere
  MaxInterval,  \* what slowing down stops at
  ExternalTtl,  \* EXTERNAL_TRAKT_DEVICE_TTL_MS
  TombstoneTtl, \* TRAKT_TERMINAL_STATE_TTL_MS
  Timeout,      \* timeoutMs of the request to the provider
  MaxTime       \* bound on the clock

DeviceAssumption ==
  /\ Capacities \subseteq Nat \ {0}
  /\ Lifetimes \cup Intervals \subseteq Nat \ {0}
  /\ {Interval, MaxInterval, ExternalTtl, TombstoneTtl, Timeout} \subseteq Nat \ {0}
  /\ MaxTime \in Nat

VARIABLES
  clock,      \* Date.now()
  sessions,   \* traktDeviceSessions: from codes to their session
  tombstones, \* traktDeviceTerminalStates: from codes to the end of their tombstone
  buried,     \* its keys in the order of the Map, oldest first
  poll,       \* poll[p]: the request of poller p to the provider, or Idle
  asked,      \* asked[d]: when the provider was last asked about d, 0 if never
  lifetime,   \* lifetime[d]: expires_in of a code started here, 0 before
  deadline,   \* deadline[d]: when it ends
  redeemed,   \* the codes the provider gave a token for
  overlapped, \* the codes that were asked for while an answer about them was due
  late,       \* the codes told to slow down, since they were last asked for, by the
              \* answer to an earlier request
  capacity    \* MAX_TRAKT_DEVICE_STATES, which never changes

stones == <<tombstones, buried>>
vars == <<clock, sessions, stones, poll, asked, lifetime, deadline, redeemed,
          overlapped, late, capacity>>
provider == <<lifetime, deadline, redeemed>>

Idle == [device |-> "none"]

Init ==
  /\ clock = 1
  /\ sessions = [d \in {} |-> Idle] /\ tombstones = [d \in {} |-> 0] /\ buried = <<>>
  /\ poll = [p \in Poller |-> Idle]
  /\ asked = [d \in Device |-> 0] /\ deadline = asked /\ lifetime = asked
  /\ redeemed = {} /\ overlapped = {} /\ late = {} /\ capacity \in Capacities

\* Sessions and tombstones without the expired ones.
Unexpired(now) == RestrictDomain(sessions, LAMBDA d : sessions[d].until > now)
Standing(now) == RestrictDomain(tombstones, LAMBDA d : tombstones[d] > now)

InOrder(kept) == SelectSeq(buried, LAMBDA d : d \in DOMAIN kept)

\* The oldest tombstones make room for one more state.
Evict(held, kept) ==
  LET room == Max({capacity - 1 - Cardinality(DOMAIN held), 0})
      order == InOrder(kept)
      youngest == ToSet(SubSeq(order, Len(order) - room + 1, Len(order)))
  IN IF Cardinality(DOMAIN kept) <= room THEN kept
     ELSE RestrictDomain(kept, LAMBDA d : d \in youngest)

HasRoom(held, kept) == Cardinality(DOMAIN held) + Cardinality(DOMAIN kept) < capacity

Put(f, d, s) == [e \in DOMAIN f \cup {d} |-> IF e = d THEN s ELSE f[e]]

\* A code that is buried already keeps its place.
BuryUntil(d, now, until) ==
  LET held == RestrictDomain(Unexpired(now), LAMBDA e : e # d)
      kept == Evict(held, Standing(now))
  IN
  /\ sessions' = held
  /\ tombstones' = IF HasRoom(held, kept) THEN Put(kept, d, until) ELSE kept
  /\ buried' = InOrder(kept)
               \o (IF HasRoom(held, kept) /\ d \notin DOMAIN kept THEN <<d>> ELSE <<>>)

\* A plausible bug: a tombstone may end before the code does.
BuryBriefly(d, now) == BuryUntil(d, now, now + TombstoneTtl)

\* rememberTraktTerminalState, with the clock of when the request began.
Bury(d, now) ==
  LET until == IF d \in DOMAIN sessions THEN sessions[d].until ELSE 0
  IN BuryUntil(d, now, Max({now + TombstoneTtl, until}))

Keep(kept) == tombstones' = kept /\ buried' = InOrder(kept)

\* makeRoomForTraktDeviceState, then the session is stored if there is room.
Open(d, s) ==
  LET held == Unexpired(clock)
      kept == Evict(held, Standing(clock))
  IN
  /\ Keep(kept)
  /\ sessions' = IF HasRoom(held, kept) THEN Put(held, d, s) ELSE held

Opened(d) == d \in DOMAIN sessions'
-----------------------------------------------------------------------------
\* The provider answered with a new code; it is stored, or the start refused.
Start(d) ==
  /\ deadline[d] = 0 /\ asked[d] = 0
  /\ \E life \in Lifetimes, i \in Intervals :
       /\ Open(d, [until |-> clock + life, next |-> clock + i, interval |-> i,
                   granted |-> i, waiting |-> {}])
       /\ IF Opened(d) THEN /\ lifetime' = [lifetime EXCEPT ![d] = life]
                            /\ deadline' = [deadline EXCEPT ![d] = clock + life]
          ELSE UNCHANGED <<lifetime, deadline>>
  /\ UNCHANGED <<clock, poll, asked, redeemed, overlapped, late, capacity>>

Ask(p, d) ==
  /\ poll' = [poll EXCEPT ![p] = [device |-> d, now |-> clock]]
  /\ asked' = [asked EXCEPT ![d] = clock]
  /\ overlapped' = IF \E q \in Poller : poll[q] # Idle /\ poll[q].device = d
                   THEN overlapped \cup {d} ELSE overlapped
  /\ late' = late \ {d}

Buried(d) == d \in DOMAIN tombstones /\ tombstones[d] > clock
Known(d) == d \in DOMAIN sessions /\ sessions[d].until > clock

\* The session is over: it becomes a tombstone.
Expire(d) ==
  /\ d \in DOMAIN sessions /\ ~Known(d)
  /\ Bury(d, clock)
  /\ UNCHANGED <<clock, poll, asked, provider, overlapped, late, capacity>>

\* A tombstone answers, or it is too early.
Refuse(d) ==
  /\ IF d \in DOMAIN sessions THEN Known(d) /\ sessions[d].next > clock
     ELSE Buried(d)
  /\ sessions' = Unexpired(clock) /\ Keep(Standing(clock))
  /\ UNCHANGED <<clock, poll, asked, provider, overlapped, late, capacity>>

Due(d) == sessions[d].next <= clock

Poll(p, d) ==
  /\ poll[p] = Idle /\ Known(d) /\ Due(d)
  /\ sessions' = [Unexpired(clock) EXCEPT ![d].next = clock + sessions[d].interval,
                                          ![d].waiting = @ \cup {p}]
  /\ Keep(Standing(clock))
  /\ Ask(p, d)
  /\ UNCHANGED <<clock, provider, capacity>>

\* A code of another process, or one this process forgot.
PollUnknown(p, d) ==
  /\ poll[p] = Idle
  /\ d \notin DOMAIN sessions
  /\ ~Buried(d)
  /\ Open(d, [until |-> clock + ExternalTtl, next |-> clock + Interval,
              interval |-> Interval, granted |-> 0, waiting |-> {p}])
  /\ IF Opened(d) THEN Ask(p, d) ELSE UNCHANGED <<poll, asked, overlapped, late>>
  /\ UNCHANGED <<clock, provider, capacity>>

\* The request of p is over; its session, if it is still stored, forgets it.
Answered(p) ==
  /\ poll[p] # Idle
  /\ poll' = [poll EXCEPT ![p] = Idle]
  /\ UNCHANGED <<clock, asked, lifetime, deadline, overlapped, capacity>>

Refers(p) == {d \in DOMAIN sessions : p \in sessions[d].waiting}

Release(p) == [d \in DOMAIN sessions |-> [sessions[d] EXCEPT !.waiting = @ \ {p}]]

\* Pending, an unexpected status, a network failure or the timeout.
Pending(p) ==
  /\ Answered(p)
  /\ sessions' = Release(p)
  /\ UNCHANGED <<stones, redeemed, late>>

\* A plausible bug: the session slows down, but keeps the date of its next poll.
SlowDownLater(p) ==
  /\ Answered(p)
  /\ sessions' = [d \in DOMAIN sessions |->
       IF d \notin Refers(p) THEN sessions[d]
       ELSE [sessions[d] EXCEPT !.waiting = @ \ {p},
                                !.interval = Min({2 * @, MaxInterval})]]
  /\ UNCHANGED <<stones, redeemed, late>>

SlowDown(p) ==
  /\ Answered(p)
  /\ sessions' = [d \in DOMAIN sessions |->
       IF d \notin Refers(p) THEN sessions[d]
       ELSE LET interval == Min({2 * sessions[d].interval, MaxInterval}) IN
            [sessions[d] EXCEPT !.waiting = @ \ {p}, !.interval = interval,
                                !.next = poll[p].now + interval]]
  /\ late' = late \cup {d \in Refers(p) : asked[d] # poll[p].now}
  /\ UNCHANGED <<stones, redeemed>>

\* Invalid, used, expired or denied.
Rejected(p) ==
  /\ Answered(p)
  /\ Bury(poll[p].device, poll[p].now)
  /\ UNCHANGED <<redeemed, late>>

\* The code is spent, whatever the body of the answer.
Authorized(p) ==
  /\ Answered(p)
  /\ poll[p].device \notin redeemed
  /\ Bury(poll[p].device, poll[p].now)
  /\ redeemed' = redeemed \cup {poll[p].device}
  /\ UNCHANGED late

Tick ==
  /\ clock < MaxTime
  /\ \A p \in Poller : poll[p] # Idle => clock < poll[p].now + Timeout
  /\ clock' = clock + 1
  /\ UNCHANGED <<sessions, stones, poll, asked, provider, overlapped, late, capacity>>

Next ==
  \/ \E d \in Device : Start(d) \/ Expire(d) \/ Refuse(d)
  \/ \E p \in Poller, d \in Device : Poll(p, d) \/ PollUnknown(p, d)
  \/ \E p \in Poller : Pending(p) \/ SlowDown(p) \/ Rejected(p) \/ Authorized(p)
  \/ Tick

Spec == Init /\ [][Next]_vars
-----------------------------------------------------------------------------
Asks(d) == \E p \in Poller : poll[p] = Idle /\ poll'[p] # Idle /\ poll'[p].device = d

\* A code whose session was opened when this process started it.
StartedHere(d) == d \in DOMAIN sessions /\ sessions[d].granted # 0

\* oauth.ts 1302 and 1347: between two requests about a code started here lies
\* its interval, doubled by each answer that told to slow down as far as the
\* limit allows and never below what both the provider and the limit grant,
\* also when requests overlap; only an answer that tells to slow down after a
\* later request was made may date the next one too early.
IntervalEnforced ==
  [][\A d \in Device :
       StartedHere(d) /\ asked[d] # 0 /\ Asks(d)
         => /\ sessions[d].interval >= Min({sessions[d].granted, MaxInterval})
            /\ d \notin late => clock >= asked[d] + sessions[d].interval]_vars

\* OAUTH_SETUP.md 95, "The API enforces the interval for device codes started
\* by the same process": between two requests about such a code lies at least
\* the interval the provider granted it.
GrantedIntervalEnforced ==
  [][\A d \in Device :
       StartedHere(d) /\ asked[d] # 0 /\ Asks(d)
         => clock >= asked[d] + sessions[d].granted]_vars

\* oauth.ts 1366, "so a retry cannot redeem it twice": as long as there is room
\* for the states of all codes, a code whose token was delivered is not taken
\* to the provider again while it could still be valid, unless it lives longer
\* than a tombstone and two answers about it were due at once.
RedeemedStaysRedeemed ==
  [][\A d \in redeemed :
       /\ capacity > Cardinality(Device) /\ Asks(d)
       /\ d \notin overlapped \/ lifetime[d] <= TombstoneTtl
       => clock >= deadline[d]]_vars
=============================================================================
