-------------------------------- MODULE LiveProofs --------------------------------
(***************************************************************************)
(* Theorems about CircuitBreaker, Streams, Admission and Relay, for any    *)
(* number of threads, requests and callers, and any limits, windows and    *)
(* clocks.  The argument:                                                  *)
(*  - a lease is counted from the step that takes it to the one that gives *)
(*    it back, and a stream only waits on an event that has its loop;      *)
(*  - a window is the end of its caller's history, and what it has let go  *)
(*    of lies a whole window behind;                                       *)
(*  - of any two frames that anything still holds the later one is no less *)
(*    far, and whatever moves a frame makes no new one.                    *)
(***************************************************************************)
EXTENDS MCLive, Sequences, FunctionTheorems, FiniteSetTheorems, WellFoundedInduction, TLAPS

-----------------------------------------------------------------------------
(* That the circuit is off only after Threshold failures in a row, and     *)
(* that no claim outlives its trial, for every set of threads, every       *)
(* threshold and every cooldown.                                           *)

\* The two properties need each other's types and no more: a failure in a
\* half-open circuit finds failures at the threshold already.
IInv == TypeOK /\ OffAfterThreshold /\ ClaimIsCurrent

LEMMA InitIInv == Init => IInv
  BY BreakerAssumption DEF Init, IInv, TypeOK, OffAfterThreshold, ClaimIsCurrent, None

LEMMA StepIInv == IInv /\ [Next]_vars => IInv'
<1> SUFFICES ASSUME IInv, [Next]_vars PROVE IInv'
  OBVIOUS
<1> USE DEF IInv, TypeOK, OffAfterThreshold, ClaimIsCurrent, None
<1>1. ASSUME NEW c \in Caller, Allowed(c) PROVE IInv'
  BY <1>1, BreakerAssumption DEF Allowed, Goes, breaker, Current, Cooled, Claimed
<1>2. ASSUME NEW c \in Caller, Probe(c) PROVE IInv'
  BY <1>2 DEF Probe, Goes, breaker
<1>3. ASSUME NEW c \in Caller, Succeed(c) PROVE IInv'
  BY <1>3, BreakerAssumption DEF Succeed, Goes
<1>4. ASSUME NEW c \in Caller, Fail(c) PROVE IInv'
  BY <1>4, BreakerAssumption DEF Fail, Goes
<1>5. ASSUME NEW c \in Caller, HandBack(c) PROVE IInv'
  BY <1>5 DEF HandBack, Goes
<1>6. ASSUME NEW c \in Caller, Vanish(c) PROVE IInv'
  BY <1>6 DEF Vanish, Goes, breaker
<1>7. CASE Look
  BY <1>7 DEF Look, Cooled
<1>8. CASE Tick
  BY <1>8, BreakerAssumption DEF Tick, Older
<1>9. CASE UNCHANGED vars
  BY <1>9 DEF vars, breaker
<1> QED
  BY <1>1, <1>2, <1>3, <1>4, <1>5, <1>6, <1>7, <1>8, <1>9 DEF Next

LEMMA Invariance == Spec => []IInv
  BY InitIInv, StepIInv, PTL DEF Spec

\* The state of the circuit is always one of the code's, within its counters'
\* bounds.
THEOREM TypeCorrectness == Spec => []TypeOK
<1>1. IInv => TypeOK
  BY DEF IInv
<1> QED
  BY <1>1, Invariance, PTL

\* Whatever the threads report and however late, record_failure opens the
\* circuit only when the threshold is reached with no success between.
THEOREM OffOnlyAfterThreshold == Spec => []OffAfterThreshold
<1>1. IInv => OffAfterThreshold
  BY DEF IInv
<1> QED
  BY <1>1, Invariance, PTL

-----------------------------------------------------------------------------
(* The leases of the streams. *)

\* While the event is made without its loop, the stream that makes it is in the middle of it; whoever
\* looks at the event or waits on it finds it with its loop, so the signal can schedule its wake.
Looped ==
    /\ event.made => event.looped \/ \E q \in LeaseRequest : leasePhase[q] = "making"
    /\ \A q \in LeaseRequest : /\ leasePhase[q] = "making" => event.made
                               /\ leasePhase[q] \in {"checking", "waiting"} => event.made /\ event.looped

StreamsInv == S!TypeOK /\ S!LeasesAreCounted /\ Looped /\ S!NobodySleepsThrough

\* The two readings of cardinality are one.
LEMMA StreamsCount == \A F : S!Cardinality(F) = Cardinality(F)
BY DEF S!Cardinality, Cardinality, S!IsFiniteSet, IsFiniteSet

LEMMA InitStreams == S!Init => StreamsInv
<1> SUFFICES ASSUME S!Init PROVE StreamsInv
  OBVIOUS
<1>1. S!Holding = {}
  BY DEF S!Init, S!Holding, S!Mid
<1>2. \A c \in S!Client : {q \in S!Holding : LeaseClient[q] = c} = {}
  BY <1>1
<1>3. S!TypeOK
  BY DEF S!Init, S!TypeOK, S!Phases
<1>4. S!LeasesAreCounted
  <2>1. S!Cardinality(S!Holding) = 0
    BY <1>1, FS_EmptySet, StreamsCount
  <2>2. \A c \in S!Client : S!Cardinality({q \in S!Holding : LeaseClient[q] = c}) = 0
    BY <1>2, FS_EmptySet, StreamsCount
  <2> QED BY <2>1, <2>2, LiveSizes DEF S!Init, S!LeasesAreCounted
<1>5. Looped /\ S!NobodySleepsThrough
  BY DEF S!Init, Looped, S!NobodySleepsThrough
<1> QED BY <1>3, <1>4, <1>5 DEF StreamsInv

Leases(phases) == {q \in LeaseRequest : phases[q] \in {"leased", "handed", "open", "waiting", "unread",
                                                       "making", "checking"}}
LeasesOf(phases, c) == {q \in Leases(phases) : LeaseClient[q] = c}

\* Both counters, in one reading of cardinality.
LEMMA CountsAre ==
  /\ S!LeasesAreCounted <=>
        /\ total = Cardinality(Leases(leasePhase)) /\ total <= MaxTotal
        /\ \A c \in S!Client : /\ perClient[c] = Cardinality(LeasesOf(leasePhase, c))
                               /\ perClient[c] <= MaxPerClient
  /\ S!LeasesAreCounted' <=>
        /\ total' = Cardinality(Leases(leasePhase')) /\ total' <= MaxTotal
        /\ \A c \in S!Client : /\ perClient'[c] = Cardinality(LeasesOf(leasePhase', c))
                               /\ perClient'[c] <= MaxPerClient
<1>1. S!Holding = Leases(leasePhase) /\ S!Holding' = Leases(leasePhase')
  BY DEF S!Holding, S!Mid, Leases
<1>2. \A c : /\ {q \in S!Holding : LeaseClient[q] = c} = LeasesOf(leasePhase, c)
             /\ {q \in S!Holding' : LeaseClient[q] = c} = LeasesOf(leasePhase', c)
  BY <1>1 DEF LeasesOf
<1>3. S!Client' = S!Client
  BY DEF S!Client
<1> QED BY <1>1, <1>2, <1>3, StreamsCount DEF S!LeasesAreCounted

\* A request whose step takes a lease changes its own client's count by one, and no other.
LEMMA OneMoreLease ==
  ASSUME NEW q \in LeaseRequest, NEW old, NEW new, q \notin Leases(old), q \in Leases(new),
         \A r \in LeaseRequest : r # q => new[r] = old[r]
  PROVE  /\ Cardinality(Leases(new)) = Cardinality(Leases(old)) + 1
         /\ \A c : Cardinality(LeasesOf(new, c)) =
                     IF c = LeaseClient[q] THEN Cardinality(LeasesOf(old, c)) + 1
                     ELSE Cardinality(LeasesOf(old, c))
<1>1. Leases(old) \in SUBSET LeaseRequest /\ IsFiniteSet(Leases(old))
  BY LiveSizes, FS_Subset DEF Leases
<1>2. Leases(new) = Leases(old) \cup {q}
  BY DEF Leases
<1>3. Cardinality(Leases(old) \cup {q}) = Cardinality(Leases(old)) + 1
  BY <1>1, FS_AddElement
<1>4. ASSUME NEW c
      PROVE  Cardinality(LeasesOf(new, c)) = IF c = LeaseClient[q] THEN Cardinality(LeasesOf(old, c)) + 1
                                             ELSE Cardinality(LeasesOf(old, c))
  <2>1. LeasesOf(old, c) \in SUBSET Leases(old)
    BY DEF LeasesOf
  <2>2. IsFiniteSet(LeasesOf(old, c))
    BY <1>1, <2>1, FS_Subset
  <2>3. q \notin LeasesOf(old, c)
    BY DEF LeasesOf
  <2>4. LeasesOf(new, c) = IF c = LeaseClient[q] THEN LeasesOf(old, c) \cup {q} ELSE LeasesOf(old, c)
    BY <1>2 DEF LeasesOf
  <2>5. Cardinality(LeasesOf(old, c) \cup {q}) = Cardinality(LeasesOf(old, c)) + 1
    BY <2>2, <2>3, FS_AddElement
  <2> QED BY <2>4, <2>5
<1> QED BY <1>2, <1>3, <1>4

\* There are so many of them, and no more.
LEMMA CountsAreNumbers ==
  ASSUME NEW phases
  PROVE  Cardinality(Leases(phases)) \in Nat /\ \A c : Cardinality(LeasesOf(phases, c)) \in Nat
<1>1. Leases(phases) \in SUBSET LeaseRequest /\ IsFiniteSet(Leases(phases))
  BY LiveSizes, FS_Subset DEF Leases
<1>2. ASSUME NEW c PROVE IsFiniteSet(LeasesOf(phases, c))
  <2>1. LeasesOf(phases, c) \in SUBSET Leases(phases)
    BY DEF LeasesOf
  <2> QED BY <1>1, <2>1, FS_Subset
<1> QED BY <1>1, <1>2, FS_CardinalityType

\* A step that leaves the counters and the requests that hold alone keeps their agreement.
LEMMA SameCount ==
  ASSUME StreamsInv, UNCHANGED <<perClient, total>>, Leases(leasePhase') = Leases(leasePhase)
  PROVE  S!LeasesAreCounted'
<1>1. \A c : LeasesOf(leasePhase', c) = LeasesOf(leasePhase, c)
  BY DEF LeasesOf
<1> QED BY <1>1, CountsAre DEF StreamsInv

\* A stream that is opened is counted, and one that ends is no longer.
LEMMA AcquireCounts ==
  ASSUME StreamsInv, NEW q \in LeaseRequest, S!Acquire(q)
  PROVE  S!TypeOK' /\ S!LeasesAreCounted'
<1> DEFINE c == LeaseClient[q]
<1>0. c \in S!Client /\ S!TypeOK
  BY DEF S!Client, StreamsInv
<1>1. CASE S!Full(c)
  <2>1. /\ leasePhase[q] = "none" /\ leasePhase' = [leasePhase EXCEPT ![q] = "refused"]
        /\ UNCHANGED <<perClient, total, stopping, event, waking>>
    BY <1>1 DEF S!Acquire, S!Go, S!registry, S!drain
  <2>2. Leases(leasePhase') = Leases(leasePhase)
    BY <2>1, <1>0 DEF S!TypeOK, Leases
  <2>3. S!TypeOK'
    BY <1>0, <2>1 DEF S!TypeOK, S!Phases
  <2> QED BY <2>1, <2>2, <2>3, SameCount
<1>2. CASE ~S!Full(c)
  <2>1. /\ leasePhase[q] = "none" /\ leasePhase' = [leasePhase EXCEPT ![q] = "leased"]
        /\ perClient' = [perClient EXCEPT ![c] = @ + 1] /\ total' = total + 1
        /\ total < MaxTotal /\ perClient[c] < MaxPerClient
        /\ UNCHANGED <<stopping, event, waking>>
    BY <1>0, <1>2, LiveSizes DEF S!Acquire, S!Go, S!drain, S!Full, S!TypeOK
  <2>2. S!TypeOK'
    BY <1>0, <2>1 DEF S!TypeOK, S!Phases
  <2>3. /\ q \notin Leases(leasePhase) /\ q \in Leases(leasePhase')
        /\ \A r \in LeaseRequest : r # q => leasePhase'[r] = leasePhase[r]
    BY <1>0, <2>1 DEF S!TypeOK, Leases
  <2>4. /\ Cardinality(Leases(leasePhase')) = Cardinality(Leases(leasePhase)) + 1
        /\ \A d : Cardinality(LeasesOf(leasePhase', d)) =
                    IF d = c THEN Cardinality(LeasesOf(leasePhase, d)) + 1
                    ELSE Cardinality(LeasesOf(leasePhase, d))
    BY <2>3, OneMoreLease
  <2>5. total' = Cardinality(Leases(leasePhase')) /\ total' <= MaxTotal
    BY <1>0, <2>1, <2>4, CountsAre, LiveSizes DEF StreamsInv, S!TypeOK
  <2>6. ASSUME NEW d \in S!Client
        PROVE  perClient'[d] = Cardinality(LeasesOf(leasePhase', d)) /\ perClient'[d] <= MaxPerClient
    <3>1. /\ perClient[d] = Cardinality(LeasesOf(leasePhase, d))
          /\ perClient[d] <= MaxPerClient /\ perClient[d] \in Nat
      BY <1>0, CountsAre DEF StreamsInv, S!TypeOK
    <3>2. perClient'[d] = IF d = c THEN perClient[d] + 1 ELSE perClient[d]
      BY <1>0, <2>1 DEF S!TypeOK
    <3>3. Cardinality(LeasesOf(leasePhase', d)) =
             IF d = c THEN Cardinality(LeasesOf(leasePhase, d)) + 1 ELSE Cardinality(LeasesOf(leasePhase, d))
      BY <2>4
    <3>4. perClient'[d] = Cardinality(LeasesOf(leasePhase', d))
      BY <3>1, <3>2, <3>3
    <3>5. d = c => perClient[d] < MaxPerClient
      BY <2>1
    <3> HIDE DEF c
    <3>6. perClient'[d] <= MaxPerClient
      BY <3>1, <3>2, <3>5, LiveSizes
    <3> QED BY <3>4, <3>6
  <2> QED BY <2>2, <2>5, <2>6, CountsAre
<1> QED BY <1>1, <1>2

LEMMA ReleaseCounts ==
  ASSUME StreamsInv, NEW q \in LeaseRequest, S!Release(q), UNCHANGED S!drain,
         leasePhase[q] \in {"leased", "open", "waiting"},
         NEW to \in {"failed", "closed"}, leasePhase' = [leasePhase EXCEPT ![q] = to]
  PROVE  S!TypeOK' /\ S!LeasesAreCounted'
<1> DEFINE c == LeaseClient[q]
<1>0. c \in S!Client /\ S!TypeOK
  BY DEF S!Client, StreamsInv
<1>1. /\ perClient' = [perClient EXCEPT ![c] = IF perClient[c] > 0 THEN perClient[c] - 1 ELSE 0]
      /\ total' = IF total > 0 THEN total - 1 ELSE 0
      /\ UNCHANGED <<stopping, event, waking>>
  BY DEF S!Release, S!drain
<1>2. S!TypeOK'
  BY <1>0, <1>1 DEF S!TypeOK, S!Phases
<1>3. /\ q \in Leases(leasePhase) /\ q \notin Leases(leasePhase')
      /\ \A r \in LeaseRequest : r # q => leasePhase'[r] = leasePhase[r]
  BY <1>0 DEF S!TypeOK, Leases
<1>4. /\ Cardinality(Leases(leasePhase)) = Cardinality(Leases(leasePhase')) + 1
      /\ \A d : Cardinality(LeasesOf(leasePhase, d)) =
                  IF d = c THEN Cardinality(LeasesOf(leasePhase', d)) + 1
                  ELSE Cardinality(LeasesOf(leasePhase', d))
  <2>1. ASSUME NEW old, NEW new, old = leasePhase', new = leasePhase
        PROVE  /\ Cardinality(Leases(new)) = Cardinality(Leases(old)) + 1
               /\ \A d : Cardinality(LeasesOf(new, d)) =
                           IF d = c THEN Cardinality(LeasesOf(old, d)) + 1
                           ELSE Cardinality(LeasesOf(old, d))
    <3>1. q \notin Leases(old) /\ q \in Leases(new)
      BY <1>3, <2>1
    <3>2. \A r \in LeaseRequest : r # q => new[r] = old[r]
      BY <1>3, <2>1
    <3> QED BY <3>1, <3>2, OneMoreLease
  <2> QED BY <2>1
<1>5. total' = Cardinality(Leases(leasePhase')) /\ total' <= MaxTotal
  <2>1. total = Cardinality(Leases(leasePhase)) /\ total <= MaxTotal /\ total \in Nat
    BY <1>0, CountsAre DEF StreamsInv, S!TypeOK
  <2>2. Cardinality(Leases(leasePhase')) \in Nat
    BY CountsAreNumbers
  <2>3. total' = total - 1
    BY <1>1, <1>4, <2>1, <2>2
  <2> QED BY <1>4, <2>1, <2>2, <2>3, LiveSizes
<1>6. ASSUME NEW d \in S!Client
      PROVE  perClient'[d] = Cardinality(LeasesOf(leasePhase', d)) /\ perClient'[d] <= MaxPerClient
  <2>1. /\ perClient[d] = Cardinality(LeasesOf(leasePhase, d))
        /\ perClient[d] <= MaxPerClient /\ perClient[d] \in Nat
    BY <1>0, CountsAre DEF StreamsInv, S!TypeOK
  <2>2. perClient'[d] = IF d = c THEN IF perClient[d] > 0 THEN perClient[d] - 1 ELSE 0 ELSE perClient[d]
    BY <1>0, <1>1 DEF S!TypeOK
  <2>3. Cardinality(LeasesOf(leasePhase', d)) \in Nat
    BY CountsAreNumbers
  <2>4. Cardinality(LeasesOf(leasePhase, d)) =
           IF d = c THEN Cardinality(LeasesOf(leasePhase', d)) + 1 ELSE Cardinality(LeasesOf(leasePhase', d))
    BY <1>4
  <2> HIDE DEF c
  <2>5. perClient'[d] = Cardinality(LeasesOf(leasePhase', d))
    BY <2>1, <2>2, <2>3, <2>4
  <2>6. perClient'[d] <= perClient[d]
    BY <2>1, <2>2
  <2> QED BY <2>1, <2>5, <2>6, <2>3, LiveSizes
<1> QED BY <1>2, <1>5, <1>6, CountsAre

LEMMA StepStreams ==
  ASSUME StreamsInv, S!Next
  PROVE  StreamsInv'
<1>0. S!TypeOK /\ Looped /\ S!NobodySleepsThrough
  BY DEF StreamsInv
<1> USE DEF S!registry, S!drain
<1>1. ASSUME NEW q \in LeaseRequest, S!Acquire(q) PROVE StreamsInv'
  <2>0. /\ leasePhase[q] = "none" /\ \E to \in {"refused", "leased"} : leasePhase' = [leasePhase EXCEPT ![q] = to]
        /\ UNCHANGED <<stopping, event, waking>>
    BY <1>1 DEF S!Acquire, S!Go
  <2>1. \A r \in LeaseRequest : \/ leasePhase'[r] = leasePhase[r]
                                \/ leasePhase[r] = "none" /\ leasePhase'[r] \in {"refused", "leased"}
    BY <1>0, <2>0 DEF S!TypeOK
  <2>2. Looped'
    BY <1>0, <2>0, <2>1 DEF Looped
  <2>3. S!NobodySleepsThrough'
    BY <1>0, <2>0, <2>1 DEF S!NobodySleepsThrough
  <2> QED BY <1>1, <2>2, <2>3, AcquireCounts DEF StreamsInv
<1>2. ASSUME NEW q \in LeaseRequest, S!Prepare(q) \/ S!Begin(q) \/ S!Leave(q) PROVE StreamsInv'
  <2>1. /\ leasePhase[q] \in {"leased", "handed"}
        /\ \E to \in {"handed", "open", "unread"} : leasePhase' = [leasePhase EXCEPT ![q] = to]
        /\ UNCHANGED <<perClient, total, stopping, event, waking>>
    BY <1>2 DEF S!Prepare, S!Begin, S!Leave, S!Go
  <2>2. Leases(leasePhase') = Leases(leasePhase)
    BY <1>0, <2>1 DEF Leases, S!TypeOK
  <2>3. S!TypeOK'
    BY <1>0, <2>1 DEF S!TypeOK, S!Phases
  <2>4. Looped' /\ S!NobodySleepsThrough'
    BY <1>0, <2>1 DEF Looped, S!NobodySleepsThrough, S!TypeOK
  <2> QED BY <2>1, <2>2, <2>3, <2>4, SameCount DEF StreamsInv
<1>3. ASSUME NEW q \in LeaseRequest, S!Fail(q) \/ S!Close(q) PROVE StreamsInv'
  <2>1. /\ leasePhase[q] \in {"leased", "open", "waiting"} /\ S!Release(q) /\ S!Free
        /\ \E to \in {"failed", "closed"} : leasePhase' = [leasePhase EXCEPT ![q] = to]
        /\ UNCHANGED <<stopping, event, waking>>
    BY <1>3 DEF S!Fail, S!Close, S!Go
  <2>2. S!TypeOK' /\ S!LeasesAreCounted'
    BY <2>1, ReleaseCounts
  <2>3. Looped' /\ S!NobodySleepsThrough'
    BY <1>0, <2>1 DEF Looped, S!NobodySleepsThrough, S!TypeOK
  <2> QED BY <2>2, <2>3 DEF StreamsInv
<1>4. ASSUME NEW q \in LeaseRequest, S!Ask(q) PROVE StreamsInv'
  <2>1. /\ leasePhase[q] = "open" /\ S!Free
        /\ leasePhase' = [leasePhase EXCEPT ![q] = IF event.made THEN "checking" ELSE "making"]
        /\ event' = [event EXCEPT !.made = TRUE]
        /\ UNCHANGED <<perClient, total, stopping, waking>>
    BY <1>4 DEF S!Ask, S!Go
  <2>2. Leases(leasePhase') = Leases(leasePhase)
    BY <1>0, <2>1 DEF Leases, S!TypeOK
  <2>3. S!TypeOK'
    BY <1>0, <2>1 DEF S!TypeOK, S!Phases
  <2>4. event.made => event.looped
    BY <1>0, <2>1 DEF Looped, S!Free, S!Mid
  <2>5. /\ event'.made /\ event'.looped = event.looped /\ event'.set = event.set
        /\ leasePhase'[q] = IF event.made THEN "checking" ELSE "making"
        /\ \A r \in LeaseRequest : r # q => leasePhase'[r] = leasePhase[r] /\ leasePhase[r] \notin {"making", "checking"}
    BY <1>0, <2>1 DEF S!TypeOK, S!Free, S!Mid
  <2>6. Looped'
    BY <1>0, <2>4, <2>5 DEF Looped
  <2>7. S!NobodySleepsThrough'
    BY <1>0, <2>1, <2>5 DEF S!NobodySleepsThrough
  <2> QED BY <2>1, <2>2, <2>3, <2>6, <2>7, SameCount DEF StreamsInv
<1>5. ASSUME NEW q \in LeaseRequest, S!Loop(q) PROVE StreamsInv'
  <2>1. /\ leasePhase[q] = "making"
        /\ leasePhase' = [leasePhase EXCEPT ![q] = "checking"]
        /\ event' = [event EXCEPT !.looped = TRUE]
        /\ UNCHANGED <<perClient, total, stopping, waking>>
    BY <1>5 DEF S!Loop, S!Go
  <2>2. Leases(leasePhase') = Leases(leasePhase)
    BY <1>0, <2>1 DEF Leases, S!TypeOK
  <2>3. S!TypeOK'
    BY <1>0, <2>1 DEF S!TypeOK, S!Phases
  <2>4. event'.made = event.made /\ event'.looped /\ event'.set = event.set
    BY <1>0, <2>1 DEF S!TypeOK
  <2>5. Looped' /\ S!NobodySleepsThrough'
    BY <1>0, <2>1, <2>4 DEF Looped, S!NobodySleepsThrough, S!TypeOK
  <2> QED BY <2>1, <2>2, <2>3, <2>5, SameCount DEF StreamsInv
<1>6. ASSUME NEW q \in LeaseRequest, S!Check(q) PROVE StreamsInv'
  <2>1. /\ leasePhase[q] = "checking"
        /\ leasePhase' = [leasePhase EXCEPT ![q] = "waiting"]
        /\ event' = IF stopping THEN [event EXCEPT !.set = TRUE] ELSE event
        /\ UNCHANGED <<perClient, total, stopping, waking>>
    BY <1>6 DEF S!Check, S!Go
  <2>2. Leases(leasePhase') = Leases(leasePhase)
    BY <1>0, <2>1 DEF Leases, S!TypeOK
  <2>3. S!TypeOK'
    BY <1>0, <2>1 DEF S!TypeOK, S!Phases
  <2>4. event'.made = event.made /\ event'.looped = event.looped /\ (stopping => event'.set)
    BY <1>0, <2>1 DEF S!TypeOK
  <2>5. Looped' /\ S!NobodySleepsThrough'
    BY <1>0, <2>1, <2>4 DEF Looped, S!NobodySleepsThrough, S!TypeOK
  <2> QED BY <2>1, <2>2, <2>3, <2>5, SameCount DEF StreamsInv
<1>7. CASE S!BeginShutdown
  <2>1. UNCHANGED <<leasePhase, perClient, total, event>> /\ waking' = (event.made /\ event.looped)
        /\ stopping' = TRUE
    BY <1>7 DEF S!BeginShutdown
  <2>2. S!TypeOK' /\ Looped' /\ S!NobodySleepsThrough'
    BY <1>0, <2>1 DEF S!TypeOK, Looped, S!NobodySleepsThrough
  <2> QED BY <2>1, <2>2, SameCount DEF StreamsInv
<1>8. CASE S!Wake
  <2>1. UNCHANGED <<leasePhase, perClient, total, stopping>> /\ waking' = FALSE
        /\ event' = [event EXCEPT !.set = TRUE]
    BY <1>8 DEF S!Wake
  <2>2. S!TypeOK' /\ event'.made = event.made /\ event'.looped = event.looped /\ event'.set
    BY <1>0, <2>1 DEF S!TypeOK
  <2>3. Looped' /\ S!NobodySleepsThrough'
    BY <1>0, <2>1, <2>2 DEF Looped, S!NobodySleepsThrough
  <2> QED BY <2>1, <2>2, <2>3, SameCount DEF StreamsInv
<1> QED BY <1>1, <1>2, <1>3, <1>4, <1>5, <1>6, <1>7, <1>8 DEF S!Next

-----------------------------------------------------------------------------
(* The windows of the rate limit. *)

Entry == [caller : Peer, times : Seq(Int)]

WindowsTyped ==
    /\ now \in 0..MaxTime /\ inFlight \in 0..Ceiling
    /\ seen \in Seq(Entry) /\ Len(seen) <= MaxTracked
    /\ \A i, j \in 1..Len(seen) : seen[i].caller = seen[j].caller => i = j
    /\ admitted \in [Peer -> Seq(Int)]
    /\ told = <<>> \/ told \in Peer \X Int

\* the history of a caller goes back one request further than a window holds, and that one is out of it
Spaced(times) ==
    /\ Len(times) <= Limit + 1
    /\ Len(times) = Limit + 1 => times[1] <= times[Limit + 1] - Window

\* a caller's window is the end of its history, and what the window has let go is out of it
Ends(times, history, t) ==
    /\ Len(times) <= Limit /\ Len(times) <= Len(history)
    /\ \A j \in 1..Len(times) : times[j] = history[Len(history) - Len(times) + j]
    /\ \A j \in 1..(Len(history) - Len(times)) : history[j] <= t - Window

Enough(times, t) == Len(times) = Limit => times[1] <= t - Window

AdmissionInv ==
    /\ WindowsTyped
    /\ \A c \in Peer : Spaced(admitted[c]) /\ (c \notin A!Callers => admitted[c] = <<>>)
    /\ \A i \in 1..Len(seen) : Ends(seen[i].times, admitted[seen[i].caller], now)
    /\ told # <<>> => \A i \in 1..Len(seen) : seen[i].caller = told[1] => Enough(seen[i].times, told[2])

LessThan == OpToRel(<, Nat)

\* A non-empty set of natural numbers has a least element.
LEMMA LeastNatural ==
  ASSUME NEW T, T \subseteq Nat, T # {}
  PROVE  \E m \in T : \A k \in T : m <= k
<1>1. IsWellFoundedOn(LessThan, Nat)
  BY NatLessThanWellFounded, Zenon DEF LessThan
<1>2. LessThan = {s \in Nat \X Nat : s[1] < s[2]}
  BY Zenon DEF LessThan, OpToRel
<1>3. PICK m \in T : \A k \in T : ~ (<<k, m>> \in LessThan)
  BY <1>1, WFMin, Zenon
<1>4. ASSUME NEW k \in T PROVE m <= k
  <2>1. m \in Nat /\ k \in Nat
    OBVIOUS
  <2>2. (k < m) => <<k, m>> \in LessThan
    BY <1>2, <2>1
  <2> QED BY <1>3, <2>1, <2>2
<1> QED BY <1>4

\* The popleft loop stops: at the first request that is still in the window, or at the end.
LEMMA ExpiredIs ==
  ASSUME NEW times \in Seq(Int), now \in Int
  PROVE  /\ A!Expired(times) \in 0..Len(times)
         /\ \A i \in 1..A!Expired(times) : times[i] <= now - Window
         /\ A!Expired(times) < Len(times) => times[A!Expired(times) + 1] > now - Window
<1> DEFINE Stops == {k \in 0..Len(times) : k < Len(times) => times[k + 1] > now - Window}
<1>1. Stops \subseteq Nat /\ Len(times) \in Stops
  OBVIOUS
<1>2. PICK m \in Stops : \A k \in Stops : m <= k
  <2> HIDE DEF Stops
  <2> QED BY <1>1, LeastNatural
<1>3. ASSUME NEW i \in 1..m PROVE times[i] <= now - Window
  <2>1. i - 1 \in 0..Len(times) /\ i - 1 < Len(times) /\ times[i] \in Int
    OBVIOUS
  <2>2. i - 1 \notin Stops
    <3>1. m \in Nat /\ ~(m <= i - 1)
      BY <1>1
    <3> HIDE DEF Stops
    <3> QED BY <1>2, <3>1
  <2> QED BY <2>1, <2>2, LiveSizes
<1>4. \E k \in 0..Len(times) : /\ \A i \in 1..k : times[i] <= now - Window
                               /\ k < Len(times) => times[k + 1] > now - Window
  BY <1>2, <1>3
<1> QED BY <1>4 DEF A!Expired

LEMMA Cut ==
  ASSUME NEW T, NEW s \in Seq(T), NEW a \in 1..(Len(s) + 1), NEW b \in (a - 1)..Len(s)
  PROVE  /\ SubSeq(s, a, b) \in Seq(T) /\ Len(SubSeq(s, a, b)) = (b - a) + 1
         /\ \A i \in 1..((b - a) + 1) : SubSeq(s, a, b)[i] = s[(a + i) - 1]
<1>1. SubSeq(s, a, b) = [i \in 1..((b - a) + 1) |-> s[(a + i) - 1]]
  OBVIOUS
<1>2. (b - a) + 1 \in Nat /\ \A i \in 1..((b - a) + 1) : (a + i) - 1 \in 1..Len(s)
  OBVIOUS
<1>3. \A i \in 1..((b - a) + 1) : s[(a + i) - 1] \in T
  BY <1>2
<1> QED BY <1>1, <1>2, <1>3

LEMMA Joined ==
  ASSUME NEW T, NEW s \in Seq(T), NEW t \in Seq(T)
  PROVE  /\ \A i \in 1..Len(s) : (s \o t)[i] = s[i]
         /\ \A i \in 1..Len(t) : (s \o t)[Len(s) + i] = t[i]
OBVIOUS

LEMMA PlaceIs ==
  ASSUME NEW c \in A!Callers
  PROVE  A!Place(c) \in DOMAIN seen /\ seen[A!Place(c)].caller = c
<1>1. \E i \in DOMAIN seen : seen[i].caller = c
  BY DEF A!Callers, A!CallersOf
<1> QED BY <1>1 DEF A!Place

\* What is left of the windows without a caller's: every other one, once.
LEMMA OthersAre ==
  ASSUME WindowsTyped, NEW c \in Peer
  PROVE  /\ A!Others(c) \in Seq(Entry)
         /\ Len(A!Others(c)) = IF c \in A!Callers THEN Len(seen) - 1 ELSE Len(seen)
         /\ \A i \in 1..Len(A!Others(c)) : /\ A!Others(c)[i].caller # c
                                          /\ \E j \in 1..Len(seen) : A!Others(c)[i] = seen[j]
         /\ \A i, j \in 1..Len(A!Others(c)) : A!Others(c)[i].caller = A!Others(c)[j].caller => i = j
         /\ \A j \in 1..Len(seen) : seen[j].caller # c => \E i \in 1..Len(A!Others(c)) : A!Others(c)[i] = seen[j]
<1>0. seen \in Seq(Entry) /\ DOMAIN seen = 1..Len(seen)
      /\ \A i, j \in 1..Len(seen) : seen[i].caller = seen[j].caller => i = j
  BY DEF WindowsTyped
<1>1. CASE c \notin A!Callers
  <2>1. A!Others(c) = seen
    BY <1>1 DEF A!Others
  <2>2. \A i \in 1..Len(seen) : seen[i].caller # c
    BY <1>0, <1>1 DEF A!Callers, A!CallersOf
  <2> QED BY <1>0, <1>1, <2>1, <2>2
<1>2. CASE c \in A!Callers
  <2> DEFINE p == A!Place(c)
             n == Len(seen)
             o == A!Others(c)
  <2>1. p \in 1..n /\ seen[p].caller = c /\ n \in Nat
    BY <1>0, <1>2, PlaceIs
  <2>2. o = SubSeq(seen, 1, p - 1) \o SubSeq(seen, p + 1, n)
    BY <1>2 DEF A!Others, A!RemoveAt
  <2> HIDE DEF p, o
  <2>3. /\ SubSeq(seen, 1, p - 1) \in Seq(Entry) /\ Len(SubSeq(seen, 1, p - 1)) = p - 1
        /\ \A i \in 1..(p - 1) : SubSeq(seen, 1, p - 1)[i] = seen[i]
    <3>1. 1 \in 1..(n + 1) /\ p - 1 \in (1 - 1)..n /\ ((p - 1) - 1) + 1 = p - 1
          /\ \A i \in 1..(p - 1) : (1 + i) - 1 = i
      BY <2>1
    <3> HIDE DEF n
    <3> QED BY <1>0, <2>1, <3>1, Cut DEF n
  <2>4. /\ SubSeq(seen, p + 1, n) \in Seq(Entry) /\ Len(SubSeq(seen, p + 1, n)) = n - p
        /\ \A i \in 1..(n - p) : SubSeq(seen, p + 1, n)[i] = seen[i + p]
    <3>1. p + 1 \in 1..(n + 1) /\ n \in ((p + 1) - 1)..n /\ (n - (p + 1)) + 1 = n - p
          /\ \A i \in 1..(n - p) : ((p + 1) + i) - 1 = i + p
      BY <2>1
    <3> HIDE DEF n
    <3>2. n = Len(seen)
      BY DEF n
    <3>3. /\ SubSeq(seen, p + 1, n) \in Seq(Entry) /\ Len(SubSeq(seen, p + 1, n)) = (n - (p + 1)) + 1
          /\ \A i \in 1..((n - (p + 1)) + 1) : SubSeq(seen, p + 1, n)[i] = seen[((p + 1) + i) - 1]
      BY <1>0, <3>1, <3>2, Cut
    <3> QED BY <3>1, <3>3
  <2> DEFINE front == SubSeq(seen, 1, p - 1)
             back == SubSeq(seen, p + 1, n)
  <2> HIDE DEF n, front, back
  <2>5. o \in Seq(Entry) /\ Len(o) = n - 1 /\ \A i \in 1..(n - 1) : o[i] = IF i < p THEN seen[i] ELSE seen[i + 1]
    <3>1. o = front \o back /\ front \in Seq(Entry) /\ back \in Seq(Entry)
          /\ Len(front) = p - 1 /\ Len(back) = n - p
      BY <2>2, <2>3, <2>4 DEF front, back
    <3>2. o \in Seq(Entry) /\ Len(o) = Len(front) + Len(back)
      <4>1. \A s, t \in Seq(Entry) : s \o t \in Seq(Entry) /\ Len(s \o t) = Len(s) + Len(t)
        OBVIOUS
      <4> QED BY <3>1, <4>1
    <3>3. ASSUME NEW i \in 1..(n - 1) PROVE o[i] = IF i < p THEN seen[i] ELSE seen[i + 1]
      <4>1. CASE i < p
        <5>1. i \in 1..(p - 1)
          BY <2>1, <4>1
        <5>2. o[i] = front[i]
          BY <3>1, <5>1, Joined
        <5> QED BY <2>3, <4>1, <5>1, <5>2 DEF front
      <4>2. CASE ~(i < p)
        <5>1. i - (p - 1) \in 1..(n - p) /\ (i - (p - 1)) + p = i + 1 /\ i > p - 1
          BY <2>1, <4>2
        <5>2. o[i] = back[i - (p - 1)]
          <6>1. i - (p - 1) \in 1..Len(back) /\ Len(front) + (i - (p - 1)) = i
            BY <2>1, <3>1, <5>1
          <6> QED BY <3>1, <6>1, Joined
        <5> QED BY <2>4, <4>2, <5>1, <5>2 DEF back
      <4> QED BY <4>1, <4>2
    <3>4. \A i \in 1..(n - 1) : o[i] = IF i < p THEN seen[i] ELSE seen[i + 1]
      BY <3>3
    <3>5. Len(o) = n - 1
      BY <2>1, <3>1, <3>2
    <3> QED BY <3>2, <3>4, <3>5
  <2>6. \A i \in 1..(n - 1) : o[i] = IF i < p THEN seen[i] ELSE seen[i + 1]
    BY <2>5
  <2>7. \A i \in 1..(n - 1) : \E j \in 1..n : j # p /\ o[i] = seen[j] /\ j = IF i < p THEN i ELSE i + 1
    BY <2>1, <2>6
  <2>8. \A i \in 1..(n - 1) : o[i].caller # c
    BY <1>0, <2>1, <2>7 DEF n
  <2>9. \A i, j \in 1..(n - 1) : o[i].caller = o[j].caller => i = j
    <3> SUFFICES ASSUME NEW i \in 1..(n - 1), NEW j \in 1..(n - 1), o[i].caller = o[j].caller PROVE i = j
      OBVIOUS
    <3>1. PICK k \in 1..n : o[i] = seen[k] /\ k = IF i < p THEN i ELSE i + 1
      BY <2>7
    <3>2. PICK l \in 1..n : o[j] = seen[l] /\ l = IF j < p THEN j ELSE j + 1
      BY <2>7
    <3>3. k = l
      BY <1>0, <3>1, <3>2 DEF n
    <3> QED BY <2>1, <3>1, <3>2, <3>3
  <2>10. ASSUME NEW j \in 1..n, seen[j].caller # c PROVE \E i \in 1..(n - 1) : o[i] = seen[j]
    <3>1. CASE j < p
      <4>1. j \in 1..(n - 1) /\ o[j] = seen[j]
        BY <2>1, <2>6, <3>1
      <4> QED BY <4>1
    <3>2. CASE j > p
      <4>1. j - 1 \in 1..(n - 1) /\ ~(j - 1 < p) /\ (j - 1) + 1 = j
        BY <2>1, <3>2
      <4>2. o[j - 1] = seen[j]
        BY <2>6, <4>1
      <4> QED BY <4>1, <4>2
    <3> QED BY <2>1, <2>10, <3>1, <3>2
  <2> QED BY <1>2, <2>5, <2>7, <2>8, <2>9, <2>10 DEF o, n
<1> QED BY <1>1, <1>2

With(c, times) == Append(A!Others(c), [caller |-> c, times |-> times])

\* A caller that is seen comes last, and the first is forgotten when there are too many.
LEMMA SeenAgain ==
  ASSUME WindowsTyped, NEW c \in Peer, NEW times \in Seq(Int)
  PROVE  /\ With(c, times) \in Seq(Entry)
         /\ Len(With(c, times)) = IF c \in A!Callers THEN Len(seen) ELSE Len(seen) + 1
         /\ \A i \in 1..Len(With(c, times)) :
               IF With(c, times)[i].caller = c THEN With(c, times)[i].times = times
               ELSE \E j \in 1..Len(seen) : With(c, times)[i] = seen[j]
         /\ \A i, j \in 1..Len(With(c, times)) :
               With(c, times)[i].caller = With(c, times)[j].caller => i = j
<1> DEFINE w == With(c, times)
<1>0. /\ A!Others(c) \in Seq(Entry)
      /\ Len(A!Others(c)) = IF c \in A!Callers THEN Len(seen) - 1 ELSE Len(seen)
      /\ \A i \in 1..Len(A!Others(c)) : /\ A!Others(c)[i].caller # c
                                       /\ \E j \in 1..Len(seen) : A!Others(c)[i] = seen[j]
      /\ \A i, j \in 1..Len(A!Others(c)) : A!Others(c)[i].caller = A!Others(c)[j].caller => i = j
  BY OthersAre
<1> DEFINE o == A!Others(c)
           e == [caller |-> c, times |-> times]
<1>1. e \in Entry /\ e.caller = c /\ e.times = times
  BY DEF Entry
<1>2. PICK n \in Nat : n = Len(o)
  BY <1>0
<1> HIDE DEF o, e
<1>3. /\ o \in Seq(Entry) /\ Len(o) = n
      /\ \A i \in 1..n : o[i].caller # c /\ \E j \in 1..Len(seen) : o[i] = seen[j]
      /\ \A i, j \in 1..n : o[i].caller = o[j].caller => i = j
  BY <1>0, <1>2 DEF o
<1>4. w \in Seq(Entry) /\ Len(w) = n + 1 /\ w[n + 1] = e /\ \A i \in 1..n : w[i] = o[i]
  <2>1. w = Append(o, e)
    BY DEF With, o, e
  <2> HIDE DEF w
  <2> QED BY <1>1, <1>3, <2>1
<1> HIDE DEF w
<1>5. \A i \in 1..(n + 1) : i = n + 1 \/ i \in 1..n
  OBVIOUS
<1>6. ASSUME NEW i \in 1..(n + 1)
      PROVE  IF w[i].caller = c THEN i = n + 1 /\ w[i].times = times
             ELSE i \in 1..n /\ \E j \in 1..Len(seen) : w[i] = seen[j]
  <2>1. CASE i = n + 1
    BY <1>1, <1>4, <2>1
  <2>2. CASE i \in 1..n
    <3>1. w[i] = o[i] /\ o[i].caller # c /\ \E j \in 1..Len(seen) : o[i] = seen[j]
      BY <1>3, <1>4, <2>2
    <3> QED BY <2>2, <3>1
  <2> QED BY <1>5, <2>1, <2>2
<1>7. ASSUME NEW i \in 1..(n + 1), NEW j \in 1..(n + 1), w[i].caller = w[j].caller PROVE i = j
  <2>1. CASE w[i].caller = c
    BY <1>6, <1>7, <2>1
  <2>2. CASE w[i].caller # c
    <3>1. i \in 1..n /\ j \in 1..n
      BY <1>6, <1>7, <2>2
    <3>2. w[i] = o[i] /\ w[j] = o[j]
      BY <1>4, <3>1
    <3> QED BY <1>3, <1>7, <3>1, <3>2
  <2> QED BY <2>1, <2>2
<1>8. Len(seen) \in Nat /\ n = IF c \in A!Callers THEN Len(seen) - 1 ELSE Len(seen)
  BY <1>0, <1>2 DEF WindowsTyped, o
<1> QED BY <1>4, <1>6, <1>7, <1>8 DEF w

LEMMA PrunedIs ==
  ASSUME NEW w \in Seq(Entry), Len(w) <= MaxTracked + 1,
         \A i, j \in 1..Len(w) : w[i].caller = w[j].caller => i = j
  PROVE  /\ A!Pruned(w) \in Seq(Entry) /\ Len(A!Pruned(w)) <= MaxTracked
         /\ \A i \in 1..Len(A!Pruned(w)) : \E j \in 1..Len(w) : A!Pruned(w)[i] = w[j]
         /\ \A i, j \in 1..Len(A!Pruned(w)) : A!Pruned(w)[i].caller = A!Pruned(w)[j].caller => i = j
<1>1. CASE Len(w) > MaxTracked
  <2>1. A!Pruned(w) = Tail(w)
    BY <1>1 DEF A!Pruned
  <2>2. Tail(w) \in Seq(Entry) /\ Len(Tail(w)) = Len(w) - 1 /\ \A i \in 1..(Len(w) - 1) : Tail(w)[i] = w[i + 1]
    BY <1>1, LiveSizes
  <2>3. \A i \in 1..(Len(w) - 1) : i + 1 \in 1..Len(w)
    OBVIOUS
  <2>4. \A i, j \in 1..(Len(w) - 1) : Tail(w)[i].caller = Tail(w)[j].caller => i = j
    BY <2>2, <2>3
  <2> QED BY <2>1, <2>2, <2>3, <2>4, LiveSizes
<1>2. CASE ~(Len(w) > MaxTracked)
  <2>1. A!Pruned(w) = w
    BY <1>2 DEF A!Pruned
  <2> QED BY <1>2, <2>1, LiveSizes
<1> QED BY <1>1, <1>2

\* What is read of a caller's window belongs to the end of its history, and when it was told to wait
\* enough of it is behind.
LEMMA RecentIs ==
  ASSUME AdmissionInv, NEW c \in Peer
  PROVE  /\ A!Recent(A!TimesOf(c)) \in Seq(Int)
         /\ Ends(A!Recent(A!TimesOf(c)), admitted[c], now)
         /\ told # <<>> /\ told[1] = c /\ now >= told[2] => Len(A!Recent(A!TimesOf(c))) < Limit
<1> DEFINE T == A!TimesOf(c)
           H == admitted[c]
           k == A!Expired(T)
           K == A!Recent(T)
<1>0. now \in Int /\ H \in Seq(Int) /\ (told # <<>> => told[2] \in Int)
  BY DEF AdmissionInv, WindowsTyped
<1>1. T \in Seq(Int) /\ Ends(T, H, now) /\ (told # <<>> /\ told[1] = c => Enough(T, told[2]))
  <2>1. CASE c \in A!Callers
    <3>1. A!Place(c) \in 1..Len(seen) /\ seen[A!Place(c)].caller = c
      BY <2>1, PlaceIs DEF AdmissionInv, WindowsTyped
    <3>2. T = seen[A!Place(c)].times
      BY <2>1 DEF A!TimesOf
    <3>3. seen[A!Place(c)] \in Entry
      BY <3>1 DEF AdmissionInv, WindowsTyped
    <3> QED BY <3>1, <3>2, <3>3 DEF AdmissionInv, Entry
  <2>2. CASE c \notin A!Callers
    <3>1. T = <<>> /\ H = <<>>
      BY <2>2 DEF AdmissionInv, A!TimesOf
    <3> QED BY <3>1, LiveSizes DEF Ends, Enough
  <2> QED BY <2>1, <2>2
<1>2. /\ k \in 0..Len(T)
      /\ \A i \in 1..k : T[i] <= now - Window
      /\ k < Len(T) => T[k + 1] > now - Window
  BY <1>0, <1>1, ExpiredIs
<1>3. K \in Seq(Int) /\ Len(K) = Len(T) - k /\ \A j \in 1..(Len(T) - k) : K[j] = T[k + j]
  <2>1. K = SubSeq(T, k + 1, Len(T))
    BY DEF A!Recent
  <2> HIDE DEF k, T, K
  <2>2. k + 1 \in 1..(Len(T) + 1) /\ Len(T) \in ((k + 1) - 1)..Len(T) /\ (Len(T) - (k + 1)) + 1 = Len(T) - k
        /\ \A j \in 1..(Len(T) - k) : ((k + 1) + j) - 1 = k + j
    BY <1>1, <1>2
  <2> QED BY <1>1, <2>1, <2>2, Cut
<1> HIDE DEF T, H, k, K
<1>4. PICK t \in Nat, h \in Nat, r \in Nat : t = Len(T) /\ h = Len(H) /\ r = Len(K) /\ r = t - k /\ t <= Limit /\ t <= h
  <2>1. Len(T) \in Nat /\ Len(H) \in Nat /\ Len(K) \in Nat
    BY <1>0, <1>1, <1>3
  <2>2. Len(T) <= Limit /\ Len(T) <= Len(H)
    BY <1>1 DEF Ends
  <2> QED BY <1>3, <2>1, <2>2
<1>5. ASSUME NEW j \in 1..r PROVE K[j] = H[(h - r) + j]
  <2>1. k + j \in 1..t /\ (h - t) + (k + j) = (h - r) + j
    BY <1>2, <1>4
  <2>2. T[k + j] = H[(h - t) + (k + j)]
    BY <1>1, <1>4, <2>1 DEF Ends
  <2> QED BY <1>3, <1>4, <2>1, <2>2
<1>6. ASSUME NEW j \in 1..(h - r) PROVE H[j] <= now - Window
  <2>1. CASE j <= h - t
    BY <1>1, <1>4, <2>1 DEF Ends
  <2>2. CASE j > h - t
    <3>1. j - (h - t) \in 1..k /\ j - (h - t) \in 1..t /\ (h - t) + (j - (h - t)) = j
      BY <1>2, <1>4, <2>2
    <3>2. T[j - (h - t)] = H[(h - t) + (j - (h - t))]
      BY <1>1, <1>4, <3>1 DEF Ends
    <3>3. T[j - (h - t)] <= now - Window
      BY <1>2, <3>1
    <3> QED BY <3>1, <3>2, <3>3
  <2> QED BY <1>4, <2>1, <2>2
<1>7. Ends(K, H, now)
  BY <1>2, <1>4, <1>5, <1>6, LiveSizes DEF Ends
<1>8. ASSUME told # <<>>, told[1] = c, now >= told[2] PROVE Len(K) < Limit
  <2>1. CASE t = Limit
    <3>0. T[1] \in Int /\ Len(T) > 0
      <4>1. 1 \in 1..Len(T)
        BY <1>4, <2>1, LiveSizes
      <4> QED BY <1>1, <1>4, <4>1
    <3>1. T[1] <= now - Window
      <4>1. T[1] <= told[2] - Window
        BY <1>1, <1>4, <1>8, <2>1 DEF Enough
      <4> QED BY <3>0, <4>1, <1>0, <1>8, LiveSizes
    <3>2. k # 0
      <4> SUFFICES ASSUME k = 0 PROVE FALSE
        OBVIOUS
      <4>1. T[1] > now - Window
        BY <1>2, <3>0
      <4> QED BY <3>0, <3>1, <4>1, <1>0, LiveSizes
    <3> QED BY <1>2, <1>4, <2>1, <3>2, LiveSizes
  <2>2. CASE t < Limit
    BY <1>2, <1>4, <2>2, LiveSizes
  <2> QED BY <1>4, <2>1, <2>2, LiveSizes
<1> QED BY <1>3, <1>7, <1>8 DEF K, T, H

\* Whole seconds and one more are never too few.
LEMMA SecondsRoundUp ==
  ASSUME NEW x \in Int
  PROVE  Second * (x \div Second + 1) \in Int /\ Second * (x \div Second + 1) > x
<1>1. Second \in Nat \ {0}
  BY LiveSizes
<1>2. x \div Second \in Int
  BY <1>1
<1>3. x = Second * (x \div Second) + (x % Second) /\ x % Second \in 0..(Second - 1)
  BY <1>1, SMTT(30)
<1> QED BY <1>1, <1>2, <1>3

\* A caller that is let through has so few requests in its window that the one which leaves its
\* history has long been out of it.
LEMMA AdmittedIs ==
  ASSUME AdmissionInv, NEW c \in Peer, NEW K \in Seq(Int), Ends(K, admitted[c], now), Len(K) < Limit
  PROVE  LET new == A!LastFew(Append(admitted[c], now)) IN
         new \in Seq(Int) /\ Spaced(new) /\ Ends(Append(K, now), new, now)
<1> DEFINE H == admitted[c]
           long == Append(H, now)
           new == A!LastFew(long)
           S_ == Append(K, now)
<1>0. now \in Int /\ H \in Seq(Int) /\ Spaced(H)
  BY DEF AdmissionInv, WindowsTyped
<1>1. PICK h \in Nat, r \in Nat : h = Len(H) /\ r = Len(K) /\ r < Limit /\ r <= h /\ h <= Limit + 1
  <2>1. Len(H) \in Nat /\ Len(K) \in Nat
    BY <1>0
  <2>2. Len(K) <= Len(H) /\ Len(H) <= Limit + 1
    BY <1>0 DEF Ends, Spaced
  <2> QED BY <2>1, <2>2
<1>2. /\ long \in Seq(Int) /\ Len(long) = h + 1 /\ long[h + 1] = now /\ \A i \in 1..h : long[i] = H[i]
      /\ S_ \in Seq(Int) /\ Len(S_) = r + 1 /\ S_[r + 1] = now /\ \A i \in 1..r : S_[i] = K[i]
  BY <1>0, <1>1
<1>3. PICK d \in {0, 1} : /\ new \in Seq(Int) /\ Len(new) = (h + 1) - d /\ \A i \in 1..((h + 1) - d) : new[i] = long[i + d]
                          /\ (h + 1) - d <= Limit + 1 /\ (d = 1 => h = Limit + 1)
  <2> HIDE DEF long
  <2>1. CASE h + 1 > Limit + 1
    <3>1. new = Tail(long) /\ h = Limit + 1
      <4>1. Len(long) > Limit + 1
        BY <1>2, <2>1
      <4>2. new = Tail(long)
        BY <4>1 DEF A!LastFew
      <4>3. h = Limit + 1
        BY <1>1, <2>1, LiveSizes
      <4> QED BY <4>2, <4>3
    <3>2. Tail(long) \in Seq(Int) /\ Len(Tail(long)) = (h + 1) - 1 /\ \A i \in 1..((h + 1) - 1) : Tail(long)[i] = long[i + 1]
      BY <1>2
    <3> QED BY <3>1, <3>2
  <2>2. CASE ~(h + 1 > Limit + 1)
    <3>1. new = long
      BY <1>2, <2>2 DEF A!LastFew
    <3>2. \A i \in 1..((h + 1) - 0) : i + 0 = i
      BY <1>1
    <3> QED BY <1>1, <1>2, <2>2, <3>1, <3>2, LiveSizes
  <2> QED BY <2>1, <2>2
<1>4. /\ \A j \in 1..r : K[j] = H[(h - r) + j]
      /\ \A j \in 1..(h - r) : H[j] <= now - Window
  BY <1>1 DEF Ends
<1> HIDE DEF H, long, new, S_
<1>5. d < (h - r) + 1 /\ (d = 1 => d + 1 <= h - r)
  BY <1>1, <1>3, LiveSizes
<1>6. ASSUME NEW j \in 1..(r + 1) PROVE S_[j] = new[(((h + 1) - d) - (r + 1)) + j]
  <2>1. /\ (((h + 1) - d) - (r + 1)) + j \in 1..((h + 1) - d)
        /\ ((((h + 1) - d) - (r + 1)) + j) + d = (h - r) + j
    BY <1>1, <1>3, <1>5
  <2>2. new[(((h + 1) - d) - (r + 1)) + j] = long[(h - r) + j]
    BY <1>3, <2>1
  <2>3. CASE j = r + 1
    BY <1>1, <1>2, <2>2, <2>3
  <2>4. CASE j \in 1..r
    <3>1. (h - r) + j \in 1..h
      BY <1>1, <2>4
    <3> QED BY <1>2, <1>4, <2>2, <2>4, <3>1
  <2> QED BY <2>3, <2>4
<1>7. ASSUME NEW j \in 1..(((h + 1) - d) - (r + 1)) PROVE new[j] <= now - Window
  <2>1. j \in 1..((h + 1) - d) /\ j + d \in 1..(h - r) /\ j + d \in 1..h
    <3>1. j \in Nat /\ 1 <= j /\ j <= (h - r) - d
      BY <1>1
    <3>2. d \in Nat /\ d <= 1
      OBVIOUS
    <3> QED BY <1>1, <3>1, <3>2
  <2>2. new[j] = H[j + d]
    BY <1>2, <1>3, <2>1
  <2> QED BY <1>4, <2>1, <2>2
<1>8. Ends(S_, new, now)
  <2>1. r + 1 <= Limit /\ r + 1 <= (h + 1) - d
    BY <1>1, <1>3, <1>5, LiveSizes
  <2> QED BY <1>2, <1>3, <1>6, <1>7, <2>1 DEF Ends
<1>9. Spaced(new)
  <2>1. SUFFICES ASSUME (h + 1) - d = Limit + 1 PROVE new[1] <= new[Limit + 1] - Window
    BY <1>3 DEF Spaced
  <2>2. 1 \in 1..(((h + 1) - d) - (r + 1))
    BY <1>1, <2>1, LiveSizes
  <2>3. (h + 1) - d \in 1..((h + 1) - d) /\ ((h + 1) - d) + d = h + 1
    BY <1>1, <1>3, <2>1, LiveSizes
  <2>4. new[Limit + 1] = now
    BY <1>2, <1>3, <2>1, <2>3
  <2> QED BY <1>7, <2>2, <2>4
<1> QED BY <1>3, <1>8, <1>9 DEF new, S_, long, H

LEMMA RefuseAdmission ==
  ASSUME AdmissionInv, NEW c \in Peer, A!Refuse(c)
  PROVE  AdmissionInv'
<1> DEFINE K == A!Recent(A!TimesOf(c))
           w == With(c, K)
<1>0. WindowsTyped /\ now \in Int
  BY DEF AdmissionInv, WindowsTyped
<1>1. K \in Seq(Int) /\ Ends(K, admitted[c], now)
  BY RecentIs
<1>2. /\ Len(K) >= Limit
      /\ seen' = Append(A!Others(c), [caller |-> c, times |-> K])
      /\ told' = <<c, now + A!RetryAfter(Head(K))>>
      /\ UNCHANGED <<now, inFlight, admitted>>
  BY DEF A!Refuse
<1>3. c \in A!Callers
  <2> SUFFICES ASSUME c \notin A!Callers PROVE FALSE
    OBVIOUS
  <2>1. admitted[c] = <<>>
    BY DEF AdmissionInv
  <2> QED BY <1>1, <1>2, <2>1, LiveSizes DEF Ends
<1> HIDE DEF K
<1>4. /\ seen' \in Seq(Entry) /\ Len(seen') = Len(seen)
      /\ \A i \in 1..Len(seen') : IF seen'[i].caller = c THEN seen'[i].times = K
                                  ELSE \E j \in 1..Len(seen) : seen'[i] = seen[j]
      /\ \A i, j \in 1..Len(seen') : seen'[i].caller = seen'[j].caller => i = j
  <2>1. seen' = w
    BY <1>2 DEF With
  <2>2. /\ w \in Seq(Entry) /\ Len(w) = IF c \in A!Callers THEN Len(seen) ELSE Len(seen) + 1
        /\ \A i \in 1..Len(w) : IF w[i].caller = c THEN w[i].times = K
                                ELSE \E j \in 1..Len(seen) : w[i] = seen[j]
        /\ \A i, j \in 1..Len(w) : w[i].caller = w[j].caller => i = j
    BY <1>0, <1>1, SeenAgain
  <2> HIDE DEF w
  <2> QED BY <1>3, <2>1, <2>2
<1>5. K[1] \in Int /\ Head(K) = K[1] /\ Len(K) # 0
  BY <1>1, <1>2, LiveSizes
<1>6. A!RetryAfter(K[1]) \in Int /\ A!RetryAfter(K[1]) > K[1] + Window - now
  <2>1. PICK x \in Int : x = K[1] + (Window - now)
    BY <1>0, <1>5, LiveSizes
  <2>2. A!RetryAfter(K[1]) = Second * (x \div Second + 1)
    BY <2>1, Zenon DEF A!RetryAfter
  <2>3. Second * (x \div Second + 1) \in Int /\ Second * (x \div Second + 1) > x
    BY SecondsRoundUp
  <2>4. A!RetryAfter(K[1]) \in Int /\ A!RetryAfter(K[1]) > x
    BY <2>2, <2>3, Zenon
  <2> QED BY <2>1, <2>4
<1>7. told' # <<>> /\ told'[1] = c /\ told'[2] = now + A!RetryAfter(K[1]) /\ told' \in Peer \X Int
  BY <1>0, <1>2, <1>5, <1>6
<1>8. Enough(K, told'[2])
  BY <1>0, <1>5, <1>6, <1>7, LiveSizes DEF Enough
<1>9. WindowsTyped'
  BY <1>0, <1>2, <1>4, <1>7 DEF WindowsTyped
<1>10. A!Callers \subseteq A!Callers'
  <2> SUFFICES ASSUME NEW x \in A!Callers PROVE x \in A!Callers'
    OBVIOUS
  <2>0. seen' \in Seq(Entry) /\ seen \in Seq(Entry) /\ Len(A!Others(c)) = Len(seen) - 1 /\ A!Others(c) \in Seq(Entry)
    BY <1>0, <1>3, <1>4, OthersAre DEF WindowsTyped
  <2>1. PICK j \in 1..Len(seen) : seen[j].caller = x
    BY <2>0 DEF A!Callers, A!CallersOf
  <2>2. \E i \in 1..Len(seen') : seen'[i].caller = x
    <3>1. CASE x = c
      <4>1. seen'[Len(seen)] = [caller |-> c, times |-> K] /\ Len(seen) \in 1..Len(seen')
        BY <1>2, <1>4, <2>0, <2>1
      <4> QED BY <3>1, <4>1
    <3>2. CASE x # c
      <4>1. PICK i \in 1..Len(A!Others(c)) : A!Others(c)[i] = seen[j]
        BY <1>0, <2>1, <3>2, OthersAre
      <4>2. seen'[i] = A!Others(c)[i] /\ i \in 1..Len(seen')
        BY <1>2, <1>4, <2>0
      <4> QED BY <2>1, <4>1, <4>2
    <3> QED BY <3>1, <3>2
  <2> QED BY <2>0, <2>2 DEF A!Callers, A!CallersOf
<1>11. \A d \in Peer : Spaced(admitted'[d]) /\ (d \notin A!Callers' => admitted'[d] = <<>>)
  BY <1>2, <1>10 DEF AdmissionInv
<1>12. ASSUME NEW i \in 1..Len(seen')
       PROVE  /\ Ends(seen'[i].times, admitted'[seen'[i].caller], now')
              /\ seen'[i].caller = told'[1] => Enough(seen'[i].times, told'[2])
  <2>1. CASE seen'[i].caller = c
    BY <1>1, <1>2, <1>4, <1>8, <2>1
  <2>2. CASE seen'[i].caller # c
    <3>1. PICK j \in 1..Len(seen) : seen'[i] = seen[j]
      BY <1>4, <2>2
    <3> QED BY <1>2, <1>7, <2>2, <3>1 DEF AdmissionInv
  <2> QED BY <2>1, <2>2
<1> QED BY <1>7, <1>9, <1>11, <1>12 DEF AdmissionInv

LEMMA AdmitAdmission ==
  ASSUME AdmissionInv, NEW c \in Peer, A!Admit(c)
  PROVE  AdmissionInv'
<1> DEFINE K == A!Recent(A!TimesOf(c))
           w == With(c, Append(K, now))
           kept == A!CallersOf(A!Pruned(w))
           new == A!LastFew(Append(admitted[c], now))
<1>0. WindowsTyped /\ now \in Int
  BY DEF AdmissionInv, WindowsTyped
<1>1. K \in Seq(Int) /\ Ends(K, admitted[c], now)
  BY RecentIs
<1>2. /\ Len(K) < Limit
      /\ inFlight' = IF inFlight >= Ceiling THEN inFlight ELSE inFlight + 1
      /\ seen' = A!Pruned(w)
      /\ admitted' = [d \in Peer |-> IF d \notin kept THEN <<>>
                                     ELSE IF d = c THEN A!LastFew(Append(admitted[d], now)) ELSE admitted[d]]
      /\ told' = IF told # <<>> /\ told[1] = c THEN <<>> ELSE told
      /\ now' = now
  BY DEF A!Admit, With
<1> HIDE DEF K, kept
<1>3. new \in Seq(Int) /\ Spaced(new) /\ Ends(Append(K, now), new, now) /\ Append(K, now) \in Seq(Int)
  BY <1>0, <1>1, <1>2, AdmittedIs
<1> HIDE DEF w, new
<1>4. /\ w \in Seq(Entry) /\ Len(w) <= MaxTracked + 1
      /\ \A i \in 1..Len(w) : IF w[i].caller = c THEN w[i].times = Append(K, now)
                              ELSE \E j \in 1..Len(seen) : w[i] = seen[j]
      /\ \A i, j \in 1..Len(w) : w[i].caller = w[j].caller => i = j
  <2>1. /\ w \in Seq(Entry) /\ Len(w) = IF c \in A!Callers THEN Len(seen) ELSE Len(seen) + 1
        /\ \A i \in 1..Len(w) : IF w[i].caller = c THEN w[i].times = Append(K, now)
                                ELSE \E j \in 1..Len(seen) : w[i] = seen[j]
        /\ \A i, j \in 1..Len(w) : w[i].caller = w[j].caller => i = j
    BY <1>0, <1>3, SeenAgain DEF w
  <2>2. Len(seen) \in Nat /\ Len(seen) <= MaxTracked /\ MaxTracked \in Nat
    BY <1>0, LiveSizes DEF WindowsTyped
  <2>3. Len(w) <= MaxTracked + 1
    BY <2>1, <2>2
  <2> QED BY <2>1, <2>3
<1>5. /\ seen' \in Seq(Entry) /\ Len(seen') <= MaxTracked
      /\ \A i \in 1..Len(seen') : \E j \in 1..Len(w) : seen'[i] = w[j]
      /\ \A i, j \in 1..Len(seen') : seen'[i].caller = seen'[j].caller => i = j
  <2>1. /\ A!Pruned(w) \in Seq(Entry) /\ Len(A!Pruned(w)) <= MaxTracked
        /\ \A i \in 1..Len(A!Pruned(w)) : \E j \in 1..Len(w) : A!Pruned(w)[i] = w[j]
        /\ \A i, j \in 1..Len(A!Pruned(w)) : A!Pruned(w)[i].caller = A!Pruned(w)[j].caller => i = j
    BY <1>4, PrunedIs
  <2> QED BY <1>2, <2>1
<1>6. \A i \in 1..Len(seen') : IF seen'[i].caller = c THEN seen'[i].times = Append(K, now)
                               ELSE \E j \in 1..Len(seen) : seen'[i] = seen[j]
  BY <1>4, <1>5
<1>7. A!Callers' = kept /\ \A i \in 1..Len(seen') : seen'[i].caller \in kept /\ seen'[i].caller \in Peer
  <2>1. \A i \in 1..Len(seen') : seen'[i] \in Entry
    BY <1>5
  <2> QED BY <1>2, <1>5, <2>1 DEF A!Callers, A!CallersOf, kept, Entry
<1>8. \A d \in Peer : admitted'[d] = IF d \notin kept THEN <<>> ELSE IF d = c THEN new ELSE admitted[d]
  BY <1>2 DEF new
<1>9. /\ inFlight' \in 0..Ceiling /\ now' \in 0..MaxTime
      /\ (told' = <<>> \/ told' \in Peer \X Int)
  BY <1>0, <1>2, LiveSizes DEF WindowsTyped
<1>10. admitted' \in [Peer -> Seq(Int)]
  <2>1. ASSUME NEW d \in Peer PROVE admitted'[d] \in Seq(Int)
    <3>1. <<>> \in Seq(Int) /\ admitted[d] \in Seq(Int)
      BY <1>0 DEF WindowsTyped
    <3> QED BY <1>3, <1>8, <3>1
  <2> QED BY <1>2, <2>1
<1>11. WindowsTyped'
  BY <1>5, <1>9, <1>10 DEF WindowsTyped
<1>12. ASSUME NEW d \in Peer PROVE Spaced(admitted'[d]) /\ (d \notin A!Callers' => admitted'[d] = <<>>)
  <2>1. Spaced(<<>>) /\ Spaced(admitted[d])
    BY LiveSizes DEF AdmissionInv, Spaced
  <2> QED BY <1>3, <1>7, <1>8, <2>1
<1>13. ASSUME NEW i \in 1..Len(seen')
       PROVE  /\ Ends(seen'[i].times, admitted'[seen'[i].caller], now')
              /\ told' # <<>> /\ seen'[i].caller = told'[1] => Enough(seen'[i].times, told'[2])
  <2>1. CASE seen'[i].caller = c
    BY <1>2, <1>3, <1>6, <1>7, <1>8, <2>1
  <2>2. CASE seen'[i].caller # c
    <3>1. PICK j \in 1..Len(seen) : seen'[i] = seen[j]
      BY <1>6, <2>2
    <3>2. admitted'[seen[j].caller] = admitted[seen[j].caller]
      BY <1>7, <1>8, <2>2, <3>1
    <3> QED BY <1>2, <2>2, <3>1, <3>2 DEF AdmissionInv
  <2> QED BY <2>1, <2>2
<1> QED BY <1>11, <1>12, <1>13 DEF AdmissionInv

LEMMA StepAdmission ==
  ASSUME AdmissionInv, A!Next
  PROVE  AdmissionInv'
<1>1. CASE A!Finish
  <2>1. inFlight > 0 /\ inFlight' = inFlight - 1 /\ UNCHANGED <<now, seen, admitted, told>>
    BY <1>1 DEF A!Finish
  <2>2. WindowsTyped'
    BY <2>1, LiveSizes DEF AdmissionInv, WindowsTyped
  <2> QED BY <2>1, <2>2 DEF AdmissionInv, A!Callers, A!CallersOf
<1>2. CASE A!Tick
  <2>1. now < MaxTime /\ now' = now + 1 /\ UNCHANGED <<seen, inFlight, admitted, told>>
    BY <1>2 DEF A!Tick
  <2>2. WindowsTyped' /\ now \in Int
    BY <2>1, LiveSizes DEF AdmissionInv, WindowsTyped
  <2>3. ASSUME NEW i \in 1..Len(seen') PROVE Ends(seen'[i].times, admitted'[seen'[i].caller], now')
    <3>1. seen[i] \in Entry /\ Ends(seen[i].times, admitted[seen[i].caller], now)
      BY <2>1 DEF AdmissionInv, WindowsTyped
    <3>2. admitted[seen[i].caller] \in Seq(Int)
      BY <3>1 DEF AdmissionInv, WindowsTyped, Entry
    <3>3. ASSUME NEW j \in 1..(Len(admitted[seen[i].caller]) - Len(seen[i].times))
          PROVE  admitted[seen[i].caller][j] <= now' - Window
      <4>1. admitted[seen[i].caller][j] <= now - Window
        BY <3>1 DEF Ends
      <4>2. admitted[seen[i].caller][j] \in Int
        BY <3>1, <3>2 DEF Entry
      <4>3. now \in Int /\ now' \in Int /\ now <= now'
        BY <2>1, <2>2
      <4>4. Window \in Int
        BY LiveSizes
      <4> QED BY <4>1, <4>2, <4>3, <4>4
    <3> QED BY <2>1, <3>1, <3>3 DEF Ends
  <2> QED BY <2>1, <2>2, <2>3 DEF AdmissionInv, A!Callers, A!CallersOf
<1> QED BY <1>1, <1>2, RefuseAdmission, AdmitAdmission DEF A!Next

LEMMA InitAdmission == A!Init => AdmissionInv
<1> SUFFICES ASSUME A!Init PROVE AdmissionInv
  OBVIOUS
<1>1. /\ now = 0 /\ seen = <<>> /\ inFlight = 0 /\ told = <<>>
      /\ admitted = [c \in Peer |-> <<>>]
  BY DEF A!Init
<1>2. WindowsTyped
  BY <1>1, LiveSizes DEF WindowsTyped
<1>3. \A c \in Peer : Spaced(admitted[c])
  BY <1>1, LiveSizes DEF Spaced
<1> QED BY <1>1, <1>2, <1>3 DEF AdmissionInv

\* The two readings of cardinality are one.
LEMMA AdmissionCounts == \A F : A!Cardinality(F) = Cardinality(F)
BY DEF A!Cardinality, Cardinality, A!IsFiniteSet, IsFiniteSet

LEMMA AdmissionHolds ==
  ASSUME AdmissionInv
  PROVE  A!TypeOK /\ A!LimitIsHonest
<1>0. WindowsTyped
  BY DEF AdmissionInv
<1>1. A!TypeOK
  <2>1. A!Callers \subseteq Peer
    <3>1. \A i \in DOMAIN seen : seen[i] \in Entry
      BY <1>0 DEF WindowsTyped
    <3> QED BY <3>1 DEF Entry, A!Callers, A!CallersOf
  <2> QED BY <1>0, <2>1 DEF WindowsTyped, A!TypeOK
<1>2. ASSUME NEW c \in Peer, NEW t \in 0..MaxTime
      PROVE  Cardinality(A!InOneWindow(admitted[c], t)) <= Limit
  <2> DEFINE H == admitted[c]
             I == A!InOneWindow(H, t)
  <2>1. H \in Seq(Int) /\ Spaced(H) /\ t \in Int /\ Limit \in Nat /\ Window \in Nat
    BY <1>0, LiveSizes DEF AdmissionInv, WindowsTyped
  <2>2. I \in SUBSET (1..Len(H)) /\ \A i \in I : H[i] > t - Window /\ H[i] <= t
    BY <2>1 DEF A!InOneWindow
  <2> HIDE DEF H, I
  <2>3. \E a, b \in Int : I \in SUBSET (a..b) /\ b - a < Limit
    <3>1. CASE Len(H) <= Limit
      <4>1. Len(H) \in Int /\ 1 \in Int /\ Len(H) - 1 < Limit /\ I \in SUBSET (1..Len(H))
        BY <2>1, <2>2, <3>1
      <4> QED BY <4>1
    <3>2. CASE Len(H) = Limit + 1
      <4>1. H[1] <= H[Limit + 1] - Window /\ H[1] \in Int /\ H[Limit + 1] \in Int
        BY <2>1, <3>2 DEF Spaced
      <4>2. 1 \notin I \/ Limit + 1 \notin I
        BY <2>1, <2>2, <4>1
      <4>3. CASE 1 \notin I
        <5>1. I \in SUBSET (2..(Limit + 1))
          BY <2>1, <2>2, <3>2, <4>3
        <5>2. 2 \in Int /\ Limit + 1 \in Int /\ (Limit + 1) - 2 < Limit
          BY <2>1
        <5> QED BY <5>1, <5>2
      <4>4. CASE Limit + 1 \notin I
        <5>1. I \in SUBSET (1..Limit)
          BY <2>1, <2>2, <3>2, <4>4
        <5>2. 1 \in Int /\ Limit \in Int /\ Limit - 1 < Limit
          BY <2>1
        <5> QED BY <5>1, <5>2
      <4> QED BY <4>2, <4>3, <4>4
    <3> QED BY <2>1, <3>1, <3>2 DEF Spaced
  <2>4. PICK a \in Int, b \in Int : I \in SUBSET (a..b) /\ b - a < Limit
    BY <2>3
  <2>5. IsFiniteSet(a..b) /\ Cardinality(a..b) <= Limit
    <3>1. IsFiniteSet(a..b) /\ Cardinality(a..b) = IF a > b THEN 0 ELSE (b - a) + 1
      BY FS_Interval
    <3> QED BY <2>1, <2>4, <3>1
  <2>6. IsFiniteSet(I) /\ Cardinality(I) <= Cardinality(a..b)
    BY <2>4, <2>5, FS_Subset
  <2>7. Cardinality(I) \in Nat /\ Cardinality(a..b) \in Nat
    BY <2>5, <2>6, FS_CardinalityType
  <2> QED BY <2>1, <2>5, <2>6, <2>7 DEF I, H
<1>3. ASSUME told # <<>>, now >= told[2] PROVE Len(A!Recent(A!TimesOf(told[1]))) < Limit
  <2>1. told[1] \in Peer
    BY <1>0, <1>3 DEF WindowsTyped
  <2> QED BY <1>3, <2>1, RecentIs
<1> QED BY <1>1, <1>2, <1>3, AdmissionCounts DEF A!LimitIsHonest
-----------------------------------------------------------------------------
(* The frames of a watched run. *)

Sent(frames) == {frames[i] : i \in DOMAIN frames}
Held == {row, store, latest, initial, shown} \cup unsaid \cup Sent(channel) \cup Sent(queue)

Known(f) == f \in R!Frames /\ (f.status = "none" => f = R!None)
Running(f) == f.status = "running"

\* a frame is the worker's, from before now
Dated(f) == Running(f) => f.progress <= progress /\ (ahead >= 0 => f.stamp < R!WorkerStamp)

\* of two frames the later one is no less far
Agree(f, g) == Running(f) /\ Running(g) /\ f.stamp > g.stamp => f.progress >= g.progress

\* wherever frames are kept
FramesHeld ==
    /\ ahead \in Int /\ clock \in Int /\ progress \in 0..MaxReports
    /\ \A f \in Held : Known(f) /\ Dated(f)
    /\ ahead >= 0 => \A f, g \in Held : Agree(f, g)

Browsing ==
    /\ channel \in Seq(R!Frames) /\ queue \in Seq(R!Frames)
    /\ phase \in {"closed", "reading", "greeting", "joining", "waiting", "ended", "polling", "done"}
    /\ attempts \in 0..(MaxAttempts + 1) /\ (phase \notin {"polling", "done"} => attempts <= MaxAttempts)

RelayInv == FramesHeld /\ Browsing

\* A frame that no browser takes for progress.
Settled(f) == Known(f) /\ ~Running(f)

Fresh(f) == f \in Held \/ Settled(f)
Made(f) == f = R!Frame("running", progress + 1, R!WorkerStamp)

LEMMA SentIs ==
  ASSUME NEW s \in Seq(R!Frames), NEW f \in R!Frames
  PROVE  /\ Append(s, f) \in Seq(R!Frames) /\ Sent(Append(s, f)) \subseteq Sent(s) \cup {f}
         /\ s # <<>> => /\ Head(s) \in Sent(s)
                        /\ Tail(s) \in Seq(R!Frames) /\ Sent(Tail(s)) \subseteq Sent(s)
         /\ <<f>> \in Seq(R!Frames) /\ Sent(<<f>>) = {f} /\ Sent(<<>>) = {} /\ <<>> \in Seq(R!Frames)
<1>1. Append(s, f) \in Seq(R!Frames) /\ Sent(Append(s, f)) \subseteq Sent(s) \cup {f}
  <2>1. /\ Append(s, f) \in Seq(R!Frames) /\ DOMAIN Append(s, f) = 1..(Len(s) + 1) /\ DOMAIN s = 1..Len(s)
        /\ Append(s, f)[Len(s) + 1] = f /\ \A i \in 1..Len(s) : Append(s, f)[i] = s[i]
    OBVIOUS
  <2>2. \A i \in 1..(Len(s) + 1) : i = Len(s) + 1 \/ i \in 1..Len(s)
    OBVIOUS
  <2> QED BY <2>1, <2>2 DEF Sent
<1>2. ASSUME s # <<>>
      PROVE  Head(s) \in Sent(s) /\ Tail(s) \in Seq(R!Frames) /\ Sent(Tail(s)) \subseteq Sent(s)
  <2>1. /\ Tail(s) \in Seq(R!Frames) /\ DOMAIN Tail(s) = 1..(Len(s) - 1) /\ DOMAIN s = 1..Len(s)
        /\ \A i \in 1..(Len(s) - 1) : Tail(s)[i] = s[i + 1]
        /\ Head(s) = s[1] /\ 1 \in 1..Len(s)
    BY <1>2
  <2>2. \A i \in 1..(Len(s) - 1) : i + 1 \in 1..Len(s)
    OBVIOUS
  <2> QED BY <2>1, <2>2 DEF Sent
<1>3. <<f>> \in Seq(R!Frames) /\ Sent(<<f>>) = {f} /\ Sent(<<>>) = {} /\ <<>> \in Seq(R!Frames)
  BY DEF Sent
<1> QED BY <1>1, <1>2, <1>3

LEMMA LaterStamp ==
  ASSUME NEW a \in Int, NEW b \in Int, NEW k \in Int, b >= a
  PROVE  /\ 2 * ((a + 1) + k) + 1 \in Int /\ 2 * ((b + 1) + k) + 1 \in Int
         /\ 2 * ((b + 1) + k) + 1 >= 2 * ((a + 1) + k) + 1
OBVIOUS

\* A step after which one frame is held that was not keeps them in order, when that frame is no progress
\* or the worker's next.
LEMMA FramesGo ==
  ASSUME FramesHeld, NEW new, Held' \subseteq Held \cup {new},
         ahead' = ahead, clock' = clock \/ clock' = clock + 1,
         \/ progress' = progress /\ Fresh(new)
         \/ progress < MaxReports /\ progress' = progress + 1 /\ clock' = clock + 1 /\ Made(new)
  PROVE  FramesHeld'
<1>0. /\ ahead \in Int /\ clock \in Int /\ progress \in 0..MaxReports /\ MaxReports \in Nat
      /\ \A f \in Held : Known(f) /\ Dated(f)
      /\ ahead >= 0 => \A f, g \in Held : Agree(f, g)
  BY LiveSizes DEF FramesHeld
<1>1. ahead' \in Int /\ clock' \in Int /\ progress' \in 0..MaxReports /\ progress <= progress'
  BY <1>0
<1>2. R!WorkerStamp' >= R!WorkerStamp /\ R!WorkerStamp \in Int /\ R!WorkerStamp' \in Int
  <2>1. R!WorkerStamp = 2 * ((clock + 1) + ahead) + 1 /\ R!WorkerStamp' = 2 * ((clock' + 1) + ahead) + 1
    BY DEF R!WorkerStamp
  <2>2. clock' >= clock
    BY <1>0
  <2>3. clock \in Int /\ clock' \in Int /\ ahead \in Int
    BY <1>0, <1>1
  <2> QED BY <2>1, <2>2, <2>3, LaterStamp
<1>3. ASSUME NEW f \in Held PROVE Known(f)' /\ Dated(f)'
  <2>1. f \in R!Frames /\ Known(f) /\ Dated(f)
    BY <1>0 DEF Known
  <2>2. f.progress \in Int /\ f.stamp \in Int
    BY <2>1, <1>0 DEF R!Frames
  <2> QED BY <1>0, <1>1, <1>2, <2>1, <2>2 DEF Known, Dated, Running
<1>4. CASE Fresh(new)
  <2>1. Known(new)' /\ Dated(new)' /\ (new \notin Held => ~Running(new))
    BY <1>3, <1>4 DEF Fresh, Settled, Known, Dated, Running
  <2>2. \A f \in Held' : Known(f)' /\ Dated(f)'
    BY <1>3, <2>1
  <2>3. ahead' >= 0 => \A f, g \in Held' : Agree(f, g)
    BY <1>0, <2>1 DEF Agree
  <2> QED BY <1>1, <2>2, <2>3 DEF FramesHeld, Agree, Running
<1>5. CASE Made(new) /\ progress < MaxReports /\ progress' = progress + 1 /\ clock' = clock + 1
  <2>1. new = [status |-> "running", progress |-> progress + 1, stamp |-> R!WorkerStamp]
    BY <1>5 DEF Made, R!Frame
  <2>2. /\ new.status = "running" /\ new.progress = progress + 1 /\ new.stamp = R!WorkerStamp
        /\ new \in R!Frames
    BY <1>0, <1>2, <1>5, <2>1 DEF R!Frames
  <2>3. R!WorkerStamp' > R!WorkerStamp
    BY <1>0, <1>1, <1>5 DEF R!WorkerStamp
  <2>4. Known(new)' /\ Dated(new)'
    BY <1>0, <1>2, <1>5, <2>2, <2>3 DEF Known, Dated, Running
  <2>5. \A f \in Held' : Known(f)' /\ Dated(f)'
    BY <1>3, <2>4
  <2>6. ASSUME ahead >= 0, NEW f \in Held, Running(f)
        PROVE  f.stamp < new.stamp /\ f.progress <= new.progress
    <3>1. f.progress \in Int /\ f.progress <= progress /\ f.stamp < R!WorkerStamp
      BY <1>0, <2>6 DEF Known, Dated, R!Frames
    <3> QED BY <1>0, <2>2, <3>1
  <2>7. ASSUME ahead >= 0, NEW f \in Held', NEW g \in Held' PROVE Agree(f, g)
    <3>1. CASE f \in Held /\ g \in Held
      BY <1>0, <2>7, <3>1
    <3>2. CASE f = new /\ g \in Held
      <4>1. Running(g) => g.progress <= new.progress /\ g.progress \in Int
        BY <1>0, <2>6, <2>7, <3>2 DEF Known, R!Frames
      <4> QED BY <1>0, <2>2, <3>2, <4>1 DEF Agree
    <3>3. CASE f \in Held /\ g = new
      <4>1. Running(f) => f.stamp < new.stamp /\ f.stamp \in Int
        BY <1>0, <2>6, <2>7, <3>3 DEF Known, R!Frames
      <4> QED BY <1>2, <2>2, <3>3, <4>1 DEF Agree
    <3>4. CASE f = new /\ g = new
      BY <1>0, <2>2, <3>4 DEF Agree
    <3> QED BY <2>7, <3>1, <3>2, <3>3, <3>4
  <2> QED BY <1>1, <2>5, <2>7 DEF FramesHeld, Agree, Running
<1> QED BY <1>4, <1>5

\* What the store's script does with a frame.
LEMMA PublishLatestIs ==
  ASSUME RelayInv, NEW f \in R!Frames, R!PublishLatest(f) \/ UNCHANGED <<store, channel>>
  PROVE  /\ store' \in {store, f} /\ channel' \in Seq(R!Frames)
         /\ Sent(channel') \subseteq Sent(channel) \cup {f}
<1>1. store' \in {store, f} /\ (channel' = channel \/ channel' = Append(channel, f))
  BY DEF R!PublishLatest
<1>2. channel \in Seq(R!Frames)
  BY DEF RelayInv, Browsing
<1>3. Append(channel, f) \in Seq(R!Frames) /\ Sent(Append(channel, f)) \subseteq Sent(channel) \cup {f}
  BY <1>2, SentIs
<1>4. CASE channel' = channel
  BY <1>1, <1>2, <1>4
<1>5. CASE channel' = Append(channel, f)
  BY <1>1, <1>3, <1>5
<1> QED BY <1>1, <1>4, <1>5

LEMMA FromWorkerIs ==
  ASSUME RelayInv, NEW f \in R!Frames, NEW outcome, R!PublishFromWorker(f, outcome)
  PROVE  /\ store' \in {store, f} /\ channel' \in Seq(R!Frames)
         /\ Sent(channel') \subseteq Sent(channel) \cup {f}
<1>1. R!PublishLatest(f) \/ UNCHANGED <<store, channel>>
  BY DEF R!PublishFromWorker
<1> QED BY <1>1, PublishLatestIs

\* What the bus of the web process does with one.
LEMMA BusPublishIs ==
  ASSUME RelayInv, NEW f \in R!Frames, R!BusPublish(f)
  PROVE  /\ latest' \in {latest, f} /\ queue' \in Seq(R!Frames)
         /\ Sent(queue') \subseteq Sent(queue) \cup {f}
<1>1. latest' \in {latest, f} /\ (queue' = queue \/ queue' = Append(queue, f))
  BY DEF R!BusPublish
<1>2. queue \in Seq(R!Frames)
  BY DEF RelayInv, Browsing
<1>3. Append(queue, f) \in Seq(R!Frames) /\ Sent(Append(queue, f)) \subseteq Sent(queue) \cup {f}
  BY <1>2, SentIs
<1>4. CASE queue' = queue
  BY <1>1, <1>2, <1>4
<1>5. CASE queue' = Append(queue, f)
  BY <1>1, <1>3, <1>5
<1> QED BY <1>1, <1>4, <1>5

\* A stream starts from one of what it read.
LEMMA CurrentIs ==
  ASSUME NEW f, NEW g
  PROVE  R!Current(f, g) \in {f, latest, g}
BY DEF R!Current, R!Latest, R!Further

\* What the browser is handed, it shows or not; and when it shows it, it is no step back.
LEMMA ApplyIs ==
  ASSUME RelayInv, NEW f, Fresh(f), R!Apply(f)
  PROVE  /\ shown' \in {shown, f}
         /\ ahead >= 0 /\ shown'.status = "running" => shown'.progress >= shown.progress
<1>0. Known(f) /\ Known(shown) /\ f \in R!Frames /\ shown \in R!Frames /\ MaxReports \in Nat
  BY LiveSizes DEF RelayInv, FramesHeld, Held, Fresh, Settled, Known
<1>1. f.stamp \in Int /\ f.progress \in Nat /\ shown.stamp \in Int /\ shown.progress \in Nat
  BY <1>0 DEF R!Frames
<1>2. shown' \in {shown, f}
  BY DEF R!Apply
<1>3. ASSUME ahead >= 0, shown' # shown, shown'.status = "running" PROVE shown'.progress >= shown.progress
  <2>1. shown' = f /\ Running(f) /\ shown.status \in {"none", "running"} /\ f.stamp > shown.stamp
    <3>1. shown' = f /\ shown.status \notin R!Terminal /\ f.stamp # shown.stamp
          /\ ~(f.stamp < shown.stamp /\ f.status \notin R!Terminal)
      BY <1>3 DEF R!Apply
    <3>2. f.status = "running" /\ f.status \notin R!Terminal /\ shown.status \in {"none", "running"}
      BY <1>0, <1>3, <3>1 DEF R!Terminal, R!Frames
    <3> QED BY <1>1, <3>1, <3>2 DEF Running
  <2>2. CASE shown.status = "none"
    <3>1. shown.progress = 0
      BY <1>0, <2>2 DEF Known, R!None
    <3> QED BY <1>1, <2>1, <3>1
  <2>3. CASE Running(shown)
    <3>1. f \in Held /\ shown \in Held
      BY <2>1 DEF Fresh, Settled, Held
    <3>2. Agree(f, shown)
      BY <1>3, <3>1 DEF RelayInv, FramesHeld
    <3> QED BY <2>1, <2>3, <3>2 DEF Agree
  <2> QED BY <2>1, <2>2, <2>3 DEF Running
<1>4. shown' = shown => shown'.progress >= shown.progress
  BY <1>1
<1> QED BY <1>2, <1>3, <1>4

LEMMA RelayFrames ==
  ASSUME RelayInv
  PROVE  /\ {row, store, latest, initial, shown} \subseteq R!Frames /\ unsaid \subseteq R!Frames
         /\ Sent(channel) \subseteq R!Frames /\ Sent(queue) \subseteq R!Frames
         /\ R!None \in R!Frames /\ Settled(R!None)
<1>1. R!None \in R!Frames /\ R!None.status = "none"
  BY LiveSizes DEF R!None, R!Frames
<1>2. \A f \in Held : f \in R!Frames
  BY DEF RelayInv, FramesHeld, Known
<1> QED BY <1>1, <1>2 DEF Held, Settled, Known, Running

\* What a worker says of a run: its next progress, or the outcome of the run.
LEMMA WorkerSteps ==
  ASSUME RelayInv,
         \/ \E stored \in BOOLEAN, outcome \in R!Outcome : R!Report(stored, outcome)
         \/ \E status \in R!Terminal : R!End(status)
         \/ R!Talk \/ R!Forgotten
  PROVE  RelayInv' /\ shown' = shown
<1>0. FramesHeld /\ Browsing /\ row \in R!Frames /\ clock \in Int /\ ahead \in Int /\ progress \in 0..MaxReports
  BY RelayFrames DEF RelayInv, FramesHeld
<1> USE DEF R!run, R!broker, R!web, R!browser
<1>1. ASSUME NEW stored \in BOOLEAN, NEW outcome \in R!Outcome, R!Report(stored, outcome)
      PROVE  RelayInv' /\ shown' = shown
  <2> DEFINE f == R!Frame("running", progress + 1, R!WorkerStamp)
  <2>1. /\ progress < MaxReports /\ progress' = progress + 1 /\ clock' = clock + 1
        /\ row' \in {row, f} /\ R!PublishFromWorker(f, outcome)
        /\ UNCHANGED <<ahead, unsaid, relay, latest, queue, phase, initial, updated, attempts, shown>>
    BY <1>1 DEF R!Report
  <2>2. f \in R!Frames
    BY <1>0, <2>1, LiveSizes DEF R!Frame, R!Frames, R!WorkerStamp
  <2> HIDE DEF f
  <2>3. /\ store' \in {store, f} /\ channel' \in Seq(R!Frames)
        /\ Sent(channel') \subseteq Sent(channel) \cup {f}
    BY <2>1, <2>2, FromWorkerIs
  <2>4. Held' \subseteq Held \cup {f}
    BY <2>1, <2>3 DEF Held
  <2>5. FramesHeld'
    BY <1>0, <2>1, <2>4, FramesGo DEF Made, f
  <2>6. Browsing'
    BY <1>0, <2>1, <2>3 DEF Browsing
  <2> QED BY <2>1, <2>5, <2>6 DEF RelayInv
<1>2. ASSUME NEW status \in R!Terminal, R!End(status) PROVE RelayInv' /\ shown' = shown
  <2>1. /\ clock' = clock + 1 /\ row' = R!Frame(status, progress, R!WorkerStamp) /\ unsaid' = {row'}
        /\ UNCHANGED <<ahead, progress, store, channel, relay, latest, queue, phase, initial, updated, attempts, shown>>
    BY <1>2 DEF R!End
  <2>2. row' \in R!Frames /\ row'.status = status
    BY <1>0, <2>1 DEF R!Frame, R!Frames, R!WorkerStamp
  <2>3. Settled(row')
    BY <2>2 DEF Settled, Known, Running, R!Terminal
  <2>4. Held' \subseteq Held \cup {row'}
    BY <2>1 DEF Held
  <2>5. FramesHeld'
    BY <1>0, <2>1, <2>3, <2>4, FramesGo DEF Fresh
  <2>6. Browsing'
    BY <1>0, <2>1 DEF Browsing
  <2> QED BY <2>1, <2>5, <2>6 DEF RelayInv
<1>3. ASSUME NEW outcome, R!Announce(outcome) PROVE RelayInv' /\ shown' = shown
  <2>1. PICK f \in unsaid : R!PublishFromWorker(f, outcome)
    BY <1>3 DEF R!Announce
  <2>2. /\ unsaid' = {}
        /\ UNCHANGED <<ahead, clock, progress, row, relay, latest, queue, phase, initial, updated, attempts, shown>>
    BY <1>3 DEF R!Announce
  <2>3. /\ store' \in {store, f} /\ channel' \in Seq(R!Frames)
        /\ Sent(channel') \subseteq Sent(channel) \cup {f}
    BY <2>1, FromWorkerIs, RelayFrames
  <2>4. Held' \subseteq Held \cup {f} /\ Fresh(f)
    BY <2>1, <2>2, <2>3 DEF Held, Fresh
  <2>5. FramesHeld'
    BY <1>0, <2>2, <2>4, FramesGo
  <2>6. Browsing'
    BY <1>0, <2>2, <2>3 DEF Browsing
  <2> QED BY <2>2, <2>5, <2>6 DEF RelayInv
<1>4. CASE R!Forgotten
  <2>1. /\ unsaid' = {}
        /\ UNCHANGED <<ahead, clock, progress, row, store, channel, latest, queue, phase, initial, updated, attempts, shown>>
    BY <1>4 DEF R!Forgotten
  <2>2. Held' \subseteq Held \cup {row} /\ Fresh(row)
    BY <2>1 DEF Held, Fresh
  <2>3. FramesHeld'
    BY <1>0, <2>1, <2>2, FramesGo
  <2>4. Browsing'
    BY <1>0, <2>1 DEF Browsing
  <2> QED BY <2>1, <2>3, <2>4 DEF RelayInv
<1> QED BY <1>1, <1>2, <1>3, <1>4 DEF R!Talk

\* The request that cancels the run holds an end of it, or nothing.
Cancelling ==
    /\ Settled(flushed)
    /\ cancel \in {"none", "read", "flushed", "overruled", "undone"}

LEMMA NoneIsSettled == Settled(R!None)
BY LiveSizes DEF Settled, Known, Running, R!None, R!Frames

LEMMA CancelSteps ==
  ASSUME RelayInv, Cancelling, R!Next
  PROVE  Cancelling'
<1>0. row \in R!Frames /\ clock \in Int
  BY RelayFrames DEF RelayInv, FramesHeld
<1>1. CASE UNCHANGED <<cancel, flushed>>
  BY <1>1 DEF Cancelling, Settled, Known, Running
<1>2. CASE cancel' = "read" /\ flushed' = flushed
  BY <1>2 DEF Cancelling, Settled, Known, Running
<1>3. CASE cancel' = "flushed" /\ flushed' = R!Frame("failed", row.progress, R!WebStamp)
  <2>1. flushed' \in R!Frames /\ flushed'.status = "failed"
    BY <1>0, <1>3 DEF R!Frame, R!Frames, R!WebStamp, R!Terminal
  <2> QED BY <1>3, <2>1 DEF Cancelling, Settled, Known, Running
<1>4. CASE cancel' \in {"none", "overruled", "undone"} /\ flushed' = R!None
  BY <1>4, NoneIsSettled DEF Cancelling, Settled, Known, Running
<1>5. \/ UNCHANGED <<cancel, flushed>>
      \/ cancel' = "read" /\ flushed' = flushed
      \/ cancel' = "flushed" /\ flushed' = R!Frame("failed", row.progress, R!WebStamp)
      \/ cancel' \in {"none", "overruled", "undone"} /\ flushed' = R!None
  <2>1. R!CancelRead \/ (\E sent \in BOOLEAN : R!CancelFlush(sent)) \/ R!Cancelled =>
          \/ cancel' = "read" /\ flushed' = flushed
          \/ cancel' = "flushed" /\ flushed' = R!Frame("failed", row.progress, R!WebStamp)
          \/ cancel' \in {"none", "overruled", "undone"} /\ flushed' = R!None
    BY DEF R!CancelRead, R!CancelFlush, R!Cancelled, R!CancelCommit, R!CancelUndone
  <2>2. (\E stored \in BOOLEAN, outcome \in R!Outcome : R!Report(stored, outcome)) => UNCHANGED <<cancel, flushed>>
    BY DEF R!Report, R!request
  <2>3. (\E status \in R!Terminal : R!End(status)) \/ R!Forgotten \/ R!CoolDown => UNCHANGED <<cancel, flushed>>
    BY DEF R!End, R!Forgotten, R!CoolDown, R!request
  <2>4. R!Talk => UNCHANGED <<cancel, flushed>>
    BY DEF R!Talk, R!Announce, R!request
  <2>5. R!Relaying \/ R!Drop => UNCHANGED <<cancel, flushed>>
    BY DEF R!Relaying, R!Receive, R!Reconnect, R!Drop, R!run, R!request
  <2>6. R!Watch \/ R!Break => UNCHANGED <<cancel, flushed>>
    BY DEF R!Watch, R!Open, R!Greet, R!Join, R!Take, R!Expire, R!Retry, R!Merge, R!Poll, R!Break, R!run, R!request
  <2> QED BY <2>1, <2>2, <2>3, <2>4, <2>5, <2>6 DEF R!Next
<1> QED BY <1>1, <1>2, <1>3, <1>4, <1>5

\* What the web process's bus is given: by a cancel, and by the channel.
LEMMA BusSteps ==
  ASSUME RelayInv, Cancelling,
         \/ R!CancelRead \/ (\E sent \in BOOLEAN : R!CancelFlush(sent)) \/ R!Cancelled
         \/ R!CoolDown \/ R!Relaying \/ R!Drop
  PROVE  RelayInv' /\ shown' = shown
<1>0. FramesHeld /\ Browsing /\ row \in R!Frames /\ clock \in Int /\ ahead \in Int /\ progress \in 0..MaxReports
      /\ channel \in Seq(R!Frames)
  BY RelayFrames DEF RelayInv, FramesHeld, Browsing
<1> USE DEF R!run, R!broker, R!web, R!browser
<1>1. ASSUME NEW sent \in BOOLEAN, R!CancelFlush(sent) PROVE RelayInv' /\ shown' = shown
  <2> DEFINE f == R!Frame("failed", row.progress, R!WebStamp)
  <2>1. /\ R!BusPublish(f) /\ (R!PublishLatest(f) \/ UNCHANGED <<store, channel>>)
        /\ UNCHANGED <<ahead, clock, progress, row, unsaid, relay, phase, initial, updated, attempts, shown>>
    BY <1>1 DEF R!CancelFlush
  <2>2. f \in R!Frames /\ f.status = "failed"
    BY <1>0 DEF R!Frame, R!Frames, R!WebStamp, R!Terminal
  <2>3. Fresh(f)
    BY <2>2 DEF Fresh, Settled, Known, Running
  <2> HIDE DEF f
  <2>4. /\ store' \in {store, f} /\ channel' \in Seq(R!Frames)
        /\ Sent(channel') \subseteq Sent(channel) \cup {f}
    BY <2>1, <2>2, PublishLatestIs
  <2>5. /\ latest' \in {latest, f} /\ queue' \in Seq(R!Frames)
        /\ Sent(queue') \subseteq Sent(queue) \cup {f}
    BY <2>1, <2>2, BusPublishIs
  <2>6. Held' \subseteq Held \cup {f}
    BY <2>1, <2>4, <2>5 DEF Held
  <2>7. FramesHeld'
    BY <1>0, <2>1, <2>3, <2>6, FramesGo
  <2>8. Browsing'
    BY <1>0, <2>1, <2>4, <2>5 DEF Browsing
  <2> QED BY <2>1, <2>7, <2>8 DEF RelayInv
<1>4. CASE R!CancelRead \/ R!Cancelled
  <2>1. /\ row' \in {row, flushed}
        /\ UNCHANGED <<ahead, clock, progress, unsaid, store, channel, latest, queue, phase, initial, updated, attempts, shown>>
    BY <1>4 DEF R!CancelRead, R!Cancelled, R!CancelCommit, R!CancelUndone
  <2>2. Held' \subseteq Held \cup {flushed} /\ Fresh(flushed)
    BY <2>1 DEF Held, Fresh, Cancelling
  <2>3. FramesHeld'
    BY <1>0, <2>1, <2>2, FramesGo
  <2>4. Browsing'
    BY <1>0, <2>1 DEF Browsing
  <2> QED BY <2>1, <2>3, <2>4 DEF RelayInv
<1>2. CASE R!Receive
  <2> DEFINE f == Head(channel)
  <2>1. /\ channel # <<>> /\ channel' = Tail(channel) /\ R!BusPublish(f)
        /\ UNCHANGED <<ahead, clock, progress, row, unsaid, store, phase, initial, updated, attempts, shown>>
    BY <1>2 DEF R!Receive
  <2>2. f \in Sent(channel) /\ channel' \in Seq(R!Frames) /\ Sent(channel') \subseteq Sent(channel)
    BY <1>0, <2>1, SentIs
  <2>3. f \in R!Frames /\ Fresh(f)
    BY <2>2, RelayFrames DEF Fresh, Held
  <2> HIDE DEF f
  <2>4. /\ latest' \in {latest, f} /\ queue' \in Seq(R!Frames)
        /\ Sent(queue') \subseteq Sent(queue) \cup {f}
    BY <2>1, <2>3, BusPublishIs
  <2>5. Held' \subseteq Held \cup {f}
    BY <2>1, <2>2, <2>4 DEF Held
  <2>6. FramesHeld'
    BY <1>0, <2>1, <2>3, <2>5, FramesGo
  <2>7. Browsing'
    BY <1>0, <2>1, <2>2, <2>4 DEF Browsing
  <2> QED BY <2>1, <2>6, <2>7 DEF RelayInv
<1>3. CASE R!CoolDown \/ R!Drop \/ R!Reconnect
  <2>1. /\ channel' = channel \/ channel' = <<>>
        /\ UNCHANGED <<ahead, clock, progress, row, unsaid, store, latest, queue, phase, initial, updated, attempts, shown>>
    BY <1>3 DEF R!CoolDown, R!Drop, R!Reconnect
  <2>2. channel' \in Seq(R!Frames) /\ Sent(channel') \subseteq Sent(channel)
    BY <1>0, <2>1, SentIs
  <2>3. Held' \subseteq Held \cup {row} /\ Fresh(row)
    BY <2>1, <2>2 DEF Held, Fresh
  <2>4. FramesHeld'
    BY <1>0, <2>1, <2>3, FramesGo
  <2>5. Browsing'
    BY <1>0, <2>1, <2>2 DEF Browsing
  <2> QED BY <2>1, <2>4, <2>5 DEF RelayInv
<1> QED BY <1>1, <1>2, <1>3, <1>4 DEF R!Relaying

NoStepBack == ahead >= 0 /\ shown'.status = "running" => shown'.progress >= shown.progress

\* What the browser's stream does, and the browser with it.
LEMMA BrowserSteps ==
  ASSUME RelayInv, R!Watch \/ R!Break
  PROVE  RelayInv' /\ NoStepBack
<1>0. /\ FramesHeld /\ Browsing /\ {row, store, latest, initial, shown} \subseteq R!Frames
      /\ queue \in Seq(R!Frames) /\ MaxAttempts \in Nat
      /\ Fresh(row) /\ Fresh(store) /\ Fresh(latest) /\ Fresh(initial) /\ Fresh(shown) /\ Fresh(R!None)
  BY RelayFrames, LiveSizes DEF RelayInv, Browsing, Fresh, Held
<1>1. shown' = shown => NoStepBack
  <2>1. shown.progress \in Int
    BY <1>0 DEF R!Frames
  <2> QED BY <2>1 DEF NoStepBack
<1> USE DEF R!run, R!broker, R!web, R!browser
<1>2. CASE R!Open
  <2>1. /\ phase' = "reading" /\ initial' = row /\ phase = "closed"
        /\ UNCHANGED <<ahead, clock, progress, row, unsaid, store, channel, latest, queue, updated, attempts, shown>>
    BY <1>2 DEF R!Open
  <2>2. Held' \subseteq Held \cup {row}
    BY <2>1 DEF Held
  <2>3. FramesHeld'
    BY <1>0, <2>1, <2>2, FramesGo
  <2>4. Browsing'
    BY <1>0, <2>1 DEF Browsing
  <2> QED BY <1>1, <2>1, <2>3, <2>4 DEF RelayInv
<1>3. ASSUME NEW restored \in R!Restored, R!Merge(restored) PROVE RelayInv' /\ NoStepBack
  <2>1. /\ phase' = "greeting" /\ initial' = R!Current(initial, restored) /\ phase = "reading"
        /\ UNCHANGED <<ahead, clock, progress, row, unsaid, store, channel, latest, queue, updated, attempts, shown>>
    BY <1>3 DEF R!Merge
  <2>2. initial' \in {initial, latest, store, R!None}
    BY <1>3, <2>1, CurrentIs DEF R!Restored
  <2>3. Held' \subseteq Held \cup {initial'} /\ Fresh(initial')
    BY <1>0, <2>1, <2>2 DEF Held
  <2>4. FramesHeld'
    BY <1>0, <2>1, <2>3, FramesGo
  <2>5. Browsing'
    BY <1>0, <2>1 DEF Browsing
  <2> QED BY <1>1, <2>1, <2>4, <2>5 DEF RelayInv
<1>4. CASE R!Greet
  <2>1. /\ R!Apply(initial) /\ attempts' = 0 /\ phase' \in {"ended", "joining", "done"}
        /\ UNCHANGED <<ahead, clock, progress, row, unsaid, store, channel, latest, queue, initial>>
    BY <1>4 DEF R!Greet, R!After
  <2>2. shown' \in {shown, initial} /\ NoStepBack
    BY <1>0, <2>1, ApplyIs DEF NoStepBack
  <2>3. Held' \subseteq Held \cup {initial}
    BY <2>1, <2>2 DEF Held
  <2>4. FramesHeld'
    BY <1>0, <2>1, <2>3, FramesGo
  <2>5. Browsing'
    BY <1>0, <2>1 DEF Browsing
  <2> QED BY <2>2, <2>4, <2>5 DEF RelayInv
<1>5. CASE R!Join
  <2>1. /\ latest' \in {latest, initial} /\ queue' = <<latest'>> /\ phase' = "waiting" /\ phase = "joining"
        /\ UNCHANGED <<ahead, clock, progress, row, unsaid, store, channel, initial, updated, attempts, shown>>
    BY <1>5 DEF R!Join
  <2>2. queue' \in Seq(R!Frames) /\ Sent(queue') = {latest'}
    <3>1. PICK f \in R!Frames : f = latest'
      BY <1>0, <2>1
    <3>2. <<f>> \in Seq(R!Frames) /\ Sent(<<f>>) = {f}
      BY <1>0, SentIs
    <3>3. queue' = <<f>>
      BY <2>1, <3>1
    <3> QED BY <3>1, <3>2, <3>3
  <2>3. Held' \subseteq Held \cup {initial}
    BY <2>1, <2>2 DEF Held
  <2>4. FramesHeld'
    BY <1>0, <2>1, <2>3, FramesGo
  <2>5. Browsing'
    BY <1>0, <2>1, <2>2 DEF Browsing
  <2> QED BY <1>1, <2>1, <2>4, <2>5 DEF RelayInv
<1>6. CASE R!Take
  <2> DEFINE f == Head(queue)
  <2>1. /\ queue # <<>> /\ phase = "waiting" /\ phase' \in {"ended", "waiting", "done"}
        /\ queue' \in {Tail(queue), <<>>}
        /\ R!Apply(f) \/ shown' = shown
        /\ UNCHANGED <<ahead, clock, progress, row, unsaid, store, channel, latest, initial, attempts>>
    BY <1>6 DEF R!Take, R!After
  <2>2. f \in Sent(queue) /\ queue' \in Seq(R!Frames) /\ Sent(queue') \subseteq Sent(queue)
    <3>1. latest \in R!Frames
      BY <1>0
    <3>2. /\ Head(queue) \in Sent(queue) /\ Tail(queue) \in Seq(R!Frames) /\ Sent(Tail(queue)) \subseteq Sent(queue)
          /\ <<>> \in Seq(R!Frames) /\ Sent(<<>>) = {}
      BY <1>0, <2>1, <3>1, SentIs
    <3> QED BY <2>1, <3>2
  <2>3. Fresh(f)
    BY <2>2 DEF Fresh, Held
  <2> HIDE DEF f
  <2>4. shown' \in {shown, f} /\ NoStepBack
    BY <1>1, <2>1, <2>3, ApplyIs DEF NoStepBack
  <2>5. Held' \subseteq Held \cup {f}
    BY <2>1, <2>2, <2>4 DEF Held
  <2>6. FramesHeld'
    BY <1>0, <2>1, <2>3, <2>5, FramesGo
  <2>7. Browsing'
    BY <1>0, <2>1, <2>2 DEF Browsing
  <2> QED BY <2>4, <2>6, <2>7 DEF RelayInv
<1>7. CASE R!Expire \/ R!Retry \/ R!Break
  <2>1. /\ queue' \in {queue, <<>>}
        /\ UNCHANGED <<ahead, clock, progress, row, unsaid, store, channel, latest, initial, shown>>
    BY <1>7 DEF R!Expire, R!Retry, R!Break
  <2>2. \/ phase' \in {"closed", "ended"} /\ phase \notin {"polling", "done"} /\ attempts' \in {0, attempts}
        \/ /\ phase = "ended" /\ attempts' = attempts + 1
           /\ phase' = IF attempts' > MaxAttempts THEN "polling" ELSE "closed"
    BY <1>7 DEF R!Expire, R!Retry, R!Break
  <2>3. queue' \in Seq(R!Frames) /\ Sent(queue') \subseteq Sent(queue)
    BY <1>0, <2>1, SentIs
  <2>4. Held' \subseteq Held \cup {row}
    BY <2>1, <2>3 DEF Held
  <2>5. FramesHeld'
    BY <1>0, <2>1, <2>4, FramesGo
  <2>6. Browsing'
    BY <1>0, <2>1, <2>2, <2>3 DEF Browsing
  <2> QED BY <1>1, <2>1, <2>5, <2>6 DEF RelayInv
<1>8. ASSUME NEW restored \in R!Restored, R!Poll(restored) PROVE RelayInv' /\ NoStepBack
  <2> DEFINE f == R!Current(row, restored)
  <2>1. /\ R!Apply(f) /\ phase = "polling" /\ phase' \in {"polling", "done"}
        /\ UNCHANGED <<ahead, clock, progress, row, unsaid, store, channel, latest, queue, initial, updated, attempts>>
    BY <1>8 DEF R!Poll, R!After
  <2>2. f \in {row, latest, store, R!None}
    BY <1>8, CurrentIs DEF R!Restored
  <2> HIDE DEF f
  <2>3. shown' \in {shown, f} /\ NoStepBack /\ Fresh(f)
    BY <1>0, <2>1, <2>2, ApplyIs DEF NoStepBack
  <2>4. Held' \subseteq Held \cup {f}
    BY <2>1, <2>3 DEF Held
  <2>5. FramesHeld'
    BY <1>0, <2>1, <2>3, <2>4, FramesGo
  <2>6. Browsing'
    BY <1>0, <2>1 DEF Browsing
  <2> QED BY <2>3, <2>5, <2>6 DEF RelayInv
<1> QED BY <1>2, <1>3, <1>4, <1>5, <1>6, <1>7, <1>8 DEF R!Watch

LEMMA StepRelay ==
  ASSUME RelayInv, Cancelling, R!Next
  PROVE  RelayInv' /\ Cancelling' /\ NoStepBack
<1>1. shown' = shown => NoStepBack
  <2>1. shown.progress \in Int
    BY RelayFrames DEF R!Frames
  <2> QED BY <2>1 DEF NoStepBack
<1>2. RelayInv' /\ NoStepBack
  BY <1>1, WorkerSteps, BusSteps, BrowserSteps DEF R!Next
<1> QED BY <1>2, CancelSteps

LEMMA InitRelay == R!Init => RelayInv /\ Cancelling
<1> SUFFICES ASSUME R!Init PROVE RelayInv /\ Cancelling
  OBVIOUS
<1>1. /\ ahead \in Skews /\ clock = MaxReports + 2 /\ progress = 0 /\ row = R!Frame("running", 0, R!FirstStamp)
      /\ unsaid = {} /\ store = R!None /\ channel = <<>> /\ latest = R!None /\ queue = <<>> /\ phase = "closed"
      /\ initial = R!None /\ attempts = 0 /\ shown = R!None
  BY DEF R!Init
<1>2. MaxReports \in Nat /\ ahead \in Int /\ clock \in Int
  BY <1>1, LiveSizes
<1>3. row \in R!Frames /\ row.status = "running" /\ row.progress = 0 /\ row.stamp = 2 * (MaxReports + 2)
  BY <1>1, <1>2 DEF R!Frame, R!Frames, R!FirstStamp
<1>4. R!None \in R!Frames /\ R!None.status = "none"
  BY <1>2 DEF R!None, R!Frames
<1>5. Held = {row, R!None}
  BY <1>1 DEF Held, Sent
<1>6. Known(row) /\ Dated(row) /\ Known(R!None) /\ Dated(R!None)
  <2>1. R!WorkerStamp = 2 * ((clock + 1) + ahead) + 1
    BY DEF R!WorkerStamp
  <2>2. ahead >= 0 => row.stamp < R!WorkerStamp
    BY <1>1, <1>2, <1>3, <2>1
  <2> QED BY <1>1, <1>3, <1>4, <2>2 DEF Known, Dated, Running
<1>7. Agree(row, row) /\ Agree(row, R!None) /\ Agree(R!None, row) /\ Agree(R!None, R!None)
  BY <1>3, <1>4 DEF Agree, Running
<1>8. FramesHeld
  BY <1>1, <1>2, <1>5, <1>6, <1>7 DEF FramesHeld
<1>9. Browsing
  BY <1>1, LiveSizes DEF Browsing
<1>10. Cancelling
  BY NoneIsSettled DEF Cancelling, R!Init
<1> QED BY <1>8, <1>9, <1>10 DEF RelayInv

-----------------------------------------------------------------------------
(* All of them, a part at a time. *)

LiveInv ==
    /\ IInv
    /\ part \in {"breaker", "relay", "streams", "requests"}
    /\ StreamsInv /\ AdmissionInv /\ RelayInv /\ Cancelling

LEMMA InitLive == MCInit => LiveInv
BY InitIInv, InitStreams, InitAdmission, InitRelay DEF MCInit, LiveInv

LEMMA StepLive ==
  ASSUME LiveInv, [MCNext]_<<part, vars, watched, leases, requests>>
  PROVE  LiveInv' /\ NoStepBack
<1>0. /\ IInv /\ StreamsInv /\ AdmissionInv /\ RelayInv /\ Cancelling
      /\ part \in {"breaker", "relay", "streams", "requests"}
  BY DEF LiveInv
<1>1. UNCHANGED vars => IInv'
  BY <1>0, StepIInv
<1>2. UNCHANGED leases => StreamsInv'
  <2> SUFFICES ASSUME UNCHANGED leases PROVE StreamsInv'
    OBVIOUS
  <2>1. UNCHANGED <<leasePhase, perClient, total, stopping, event, waking>>
    BY DEF leases
  <2>2. S!TypeOK'
    BY <1>0, <2>1 DEF StreamsInv, S!TypeOK, S!Client
  <2>3. Looped' /\ S!NobodySleepsThrough'
    BY <1>0, <2>1 DEF StreamsInv, Looped, S!NobodySleepsThrough
  <2> QED BY <1>0, <2>1, <2>2, <2>3, SameCount DEF StreamsInv
<1>3. UNCHANGED requests => AdmissionInv'
  BY <1>0 DEF requests, AdmissionInv, WindowsTyped, A!Callers, A!CallersOf
<1>4. UNCHANGED watched => RelayInv' /\ Cancelling' /\ NoStepBack
  <2> SUFFICES ASSUME UNCHANGED watched PROVE RelayInv' /\ Cancelling' /\ NoStepBack
    OBVIOUS
  <2>1. UNCHANGED <<ahead, clock, progress, row, unsaid, store, channel, latest, queue, phase, initial, attempts, shown>>
    BY DEF watched
  <2>2. shown.progress \in Int
    BY <1>0, RelayFrames DEF R!Frames
  <2>3. Browsing' /\ NoStepBack
    BY <1>0, <2>1, <2>2 DEF RelayInv, Browsing, NoStepBack
  <2>4. Held' \subseteq Held \cup {row} /\ Fresh(row)
    BY <2>1 DEF Held, Fresh
  <2>5. FramesHeld'
    BY <1>0, <2>1, <2>4, FramesGo DEF RelayInv
  <2>6. Cancelling'
    BY <1>0 DEF watched, Cancelling, Settled, Known, Running
  <2> QED BY <2>3, <2>5, <2>6 DEF RelayInv
<1>5. CASE part = "breaker" /\ Next /\ UNCHANGED <<part, watched, leases, requests>>
  BY <1>0, <1>2, <1>3, <1>4, <1>5, StepIInv DEF LiveInv
<1>6. CASE part = "relay" /\ R!Next /\ UNCHANGED <<part, vars, leases, requests>>
  BY <1>0, <1>1, <1>2, <1>3, <1>6, StepRelay DEF LiveInv
<1>7. CASE part = "streams" /\ S!Next /\ UNCHANGED <<part, vars, watched, requests>>
  BY <1>0, <1>1, <1>3, <1>4, <1>7, StepStreams DEF LiveInv
<1>8. CASE part = "requests" /\ A!Next /\ UNCHANGED <<part, vars, watched, leases>>
  BY <1>0, <1>1, <1>2, <1>4, <1>8, StepAdmission DEF LiveInv
<1>9. CASE UNCHANGED <<part, vars, watched, leases, requests>>
  BY <1>0, <1>1, <1>2, <1>3, <1>4, <1>9 DEF LiveInv
<1> QED BY <1>5, <1>6, <1>7, <1>8, <1>9 DEF MCNext

LEMMA LiveInvariance == MCSpec => []LiveInv
<1>1. LiveInv /\ [MCNext]_<<part, vars, watched, leases, requests>> => LiveInv'
  BY StepLive
<1> QED BY <1>1, InitLive, PTL DEF MCSpec

\* A trial is claimed in a half-open circuit only: every report and every transition of breaker.py takes
\* the claim away with the state it belonged to, whichever threads report and however late.
THEOREM ClaimsAreCurrent == MCSpec => []ClaimIsCurrent
<1>1. LiveInv => ClaimIsCurrent
  BY DEF LiveInv, IInv
<1> QED BY <1>1, LiveInvariance, PTL

\* For any number of clients and whatever the ceilings: the registry of streams counts the leases that are
\* held and passes no ceiling, no signal is slept through, no window lets more than its limit through,
\* and a caller that waits as it was told is let in; and what the relay hands on has its type.
THEOREM LimitsAlwaysKept == MCSpec => []LimitsAreKept
<1>1. LiveInv => LimitsAreKept
  <2> SUFFICES ASSUME LiveInv PROVE LimitsAreKept
    OBVIOUS
  <2>1. S!TypeOK /\ S!LeasesAreCounted /\ S!NobodySleepsThrough
    BY DEF LiveInv, StreamsInv
  <2>2. A!TypeOK /\ A!LimitIsHonest
    BY AdmissionHolds DEF LiveInv
  <2>3. R!TypeOK
    <3>1. RelayInv /\ Browsing
      BY DEF LiveInv, RelayInv
    <3>2. /\ \A i \in DOMAIN channel : channel[i] \in R!Frames
          /\ \A i \in DOMAIN queue : queue[i] \in R!Frames
      BY <3>1 DEF Browsing
    <3>3. flushed \in R!Frames /\ cancel \in {"none", "read", "flushed", "overruled", "undone"}
      BY DEF LiveInv, Cancelling, Settled, Known
    <3> QED BY <3>1, <3>2, <3>3, RelayFrames DEF R!TypeOK, Browsing
  <2> QED BY <2>1, <2>2, <2>3 DEF LimitsAreKept
<1> QED BY <1>1, LiveInvariance, PTL

\* A browser's bar never goes back, as long as the worker's clock is not behind: of any two frames that
\* anything still holds the later one is no less far, and the browser only takes later ones.
THEOREM ProgressOnlyGrows == MCSpec => ScreenNeverGoesBack
<1>1. LiveInv /\ [MCNext]_<<part, vars, watched, leases, requests>>
        => [ahead >= 0 /\ shown'.status = "running" => shown'.progress >= shown.progress]_(R!vars)
  BY StepLive DEF NoStepBack
<1>2. MCSpec => [][ahead >= 0 /\ shown'.status = "running" => shown'.progress >= shown.progress]_(R!vars)
  BY <1>1, LiveInvariance, PTL DEF MCSpec
<1> QED BY <1>2, Zenon DEF ScreenNeverGoesBack, R!ScreenNeverGoesBack
=============================================================================
