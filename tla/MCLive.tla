---------------------------------- MODULE MCLive ----------------------------------
(***************************************************************************)
(* What a process holds open, lets in and calls, for TLC: the circuit to   *)
(* the provider, the relay of a run's progress, the leases of its streams  *)
(* and the admission of its requests share nothing, and are explored one   *)
(* at a time.                                                              *)
(***************************************************************************)
EXTENDS CircuitBreaker, FiniteSets, TLC

CONSTANTS t1, t2, t3, t4,
          Skews, MaxReports, MaxFaults, MaxAttempts,
          q1, q2, q3, q4, LeaseRequest, LeaseClient, MaxTotal, MaxPerClient,
          Peer, Limit, Window, Second, MaxTracked, Ceiling, MaxTime

ASSUME LiveSizes ==
    /\ Skews \subseteq Int /\ MaxReports \in Nat /\ MaxFaults \in Nat /\ MaxAttempts \in Nat
    /\ IsFiniteSet(LeaseRequest) /\ MaxTotal \in Nat /\ MaxPerClient \in Nat
    /\ Limit \in Nat \ {0} /\ Window \in Nat /\ Second \in Nat \ {0}
    /\ MaxTracked \in Nat /\ Ceiling \in Nat /\ MaxTime \in Nat

VARIABLES part,
          ahead, clock, progress, row, unsaid, cancel, flushed, store, resting, channel, relay, latest, queue,
          phase, initial, updated, attempts, shown, faults,
          leasePhase, perClient, total, stopping, event, waking,
          now, seen, inFlight, admitted, told

R == INSTANCE Relay

S == INSTANCE Streams WITH Request <- LeaseRequest, ClientOf <- LeaseClient, phase <- leasePhase

A == INSTANCE Admission WITH Caller <- Peer

watched == <<ahead, clock, progress, row, unsaid, cancel, flushed, store, resting, channel, relay, latest, queue,
             phase, initial, updated, attempts, shown, faults>>
leases == <<leasePhase, perClient, total, stopping, event, waking>>
requests == <<now, seen, inFlight, admitted, told>>

MCCaller == {t1, t2, t3, t4}
MCSkews == {-2, 1}
MCLeaseRequest == {q1, q2, q3, q4}
MCLeaseClient == q1 :> "a" @@ q2 :> "a" @@ q3 :> "a" @@ q4 :> "b"

MCInit == /\ Init /\ R!Init /\ S!Init /\ A!Init
          /\ part \in {"breaker", "relay", "streams", "requests"}
          /\ part # "relay" => ahead = 1
MCNext == \/ part = "breaker" /\ Next /\ UNCHANGED <<part, watched, leases, requests>>
          \/ part = "relay" /\ R!Next /\ UNCHANGED <<part, vars, leases, requests>>
          \/ part = "streams" /\ S!Next /\ UNCHANGED <<part, vars, watched, requests>>
          \/ part = "requests" /\ A!Next /\ UNCHANGED <<part, vars, watched, leases>>
MCSpec == /\ MCInit /\ [][MCNext]_<<part, vars, watched, leases, requests>>
          /\ WF_vars(part = "breaker" /\ Tick)
          /\ WF_watched(part = "relay" /\ R!Talk) /\ WF_watched(part = "relay" /\ R!Relaying)
          /\ WF_watched(part = "relay" /\ R!Cancelled)
          /\ WF_watched(part = "relay" /\ R!Watch) /\ WF_watched(part = "relay" /\ R!Expire)

\* see Streams and Admission: the counters are the leases held, no ceiling is passed, a signal wakes every
\* stream whenever it comes; no window holds more than its limit, and a wait that was asked for is enough
LimitsAreKept ==
    /\ S!TypeOK /\ R!TypeOK /\ S!LeasesAreCounted /\ S!NobodySleepsThrough
    /\ A!TypeOK /\ A!LimitIsHonest

\* see Relay: a browser comes to show how the run it watches has ended, unless a cancel crossed that end
OutcomeComesThrough == R!OutcomeComesThrough

\* see Relay: no screen goes back to less progress
ScreenNeverGoesBack == R!ScreenNeverGoesBack
================================================================================
