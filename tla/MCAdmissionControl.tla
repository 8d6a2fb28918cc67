------------------------- MODULE MCAdmissionControl -------------------------
(***************************************************************************)
(* Instances of AdmissionControl and, beside it, of DevicePolling: what the*)
(* API keeps in memory to limit how much and how often it is asked.  A     *)
(* behaviour is one of the former or of the latter, and the other one      *)
(* stays in its initial state.  Device codes and pollers are               *)
(* interchangeable.                                                        *)
(***************************************************************************)
EXTENDS AdmissionControl, TLC

CONSTANTS
  a, d1, d2, p1, p2, Device, Poller,
  Capacities, Lifetimes, Intervals, Interval, MaxInterval, ExternalTtl, TombstoneTtl, Timeout, MaxDeviceTime

VARIABLES
  part,      \* which of the two runs
  deviceClock, sessions, tombstones, buried, poll, asked, lifetime, deadline, redeemed, overlapped,
  late, capacity

device == <<deviceClock, sessions, tombstones, buried, poll, asked, lifetime, deadline,
            redeemed, overlapped, late, capacity>>

Interchangeable == Permutations(Device) \cup Permutations(Poller)

Devices == INSTANCE DevicePolling
  WITH clock <- deviceClock, MaxTime <- MaxDeviceTime

ASSUME DeviceConstants == Devices!DeviceAssumption

EitherInit ==
  /\ Init /\ Devices!Init
  /\ part \in {"requests", "devices"}
  /\ part = "requests" => \A c \in Capacities : capacity <= c
  /\ part = "devices" => \A r \in Request : kind[r] = "plain" /\ key[r] = a

EitherNext ==
  \/ part = "requests" /\ Next /\ UNCHANGED <<part, device>>
  \/ part = "devices" /\ Devices!Next /\ UNCHANGED <<part, vars>>

EitherSpec == EitherInit /\ [][EitherNext]_<<part, vars, device>>

\* Between two requests about a code started here lies the interval the API keeps for
\* it, unless a late answer told to slow down (DevicePolling).
IntervalEnforced == Devices!IntervalEnforced

\* Between two requests about a code started here lies the interval the provider
\* granted it, OAUTH_SETUP.md 95 (DevicePolling).
GrantedIntervalEnforced == Devices!GrantedIntervalEnforced

\* A code whose token was delivered is not taken to the provider again (DevicePolling).
RedeemedStaysRedeemed == Devices!RedeemedStaysRedeemed
=============================================================================
