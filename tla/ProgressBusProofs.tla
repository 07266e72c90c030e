------------------------- MODULE ProgressBusProofs -------------------------
(***************************************************************************)
(* That a watched run's outcome reaches its browsers, for any number of    *)
(* browsers, any size of the queues and any number of frames.              *)
(*                                                                         *)
(* The argument is about the frames there are anywhere (Around).  A step   *)
(* adds at most one (Growth), whose stamp is new or is the one a cancel    *)
(* reserved, and a browser is only sent one that there is (Sending).  The  *)
(* rest of the invariant orders the frames by what they say, and follows   *)
(* from these two facts.                                                   *)
(***************************************************************************)
EXTENDS ProgressBus, TLAPS

(* Frames. *)

Statuses == {"none", "running", "absent"} \cup Terminal
FrameSet == [status : Statuses, stamp : Nat]

Elements(q) == {q[i] : i \in 1..Len(q)}

\* every frame there is: on its way, held by a stream, or what one may read
Around ==
  {row, latest} \cup Elements(channel)
    \cup {held[s] : s \in Stream} \cup UNION {Elements(queue[s]) : s \in Stream}

Live == {"running"} \cup Terminal
Ends(f) == f.status \in Terminal

(* The invariant. *)

Types ==
  /\ TypeOK
  /\ channel \in Seq(FrameSet) /\ held \in [Stream -> FrameSet]
  /\ queue \in [Stream -> Seq(FrameSet)]
  /\ \A f \in Elements(channel) : f.status = "running"
  /\ \A s \in Stream : \A f \in Elements(queue[s]) : f.status \in Live
  /\ \A s \in Stream : phase[s] \in {"read", "greeting"} => held[s].status \in Live
  /\ latest.status = "none" => latest = None
  /\ \A s \in subs : phase[s] = "waiting"
  /\ \A f \in Around : f.stamp <= clock /\ (f.status \in Live => f.stamp > 0)

\* What the writers are in the middle of.  Nothing has ended while the task
\* is about its work, and a worker that goes on after that was abandoned by
\* a cancel, whose stamp nothing else bears.
Written ==
  /\ writer \in {"idle", "saying"} =>
       /\ draft = 0 /\ \A f \in Around : ~Ends(f)
       /\ \A s \in Stream : told[s] \notin Terminal
  /\ job = "fitting" => writer = "idle"
  /\ job = "abandoned" => draft # 0
  /\ writer = "completing" => row.status \in Terminal
  /\ writer \in {"cancelling", "cancelled"} =>
       /\ draft # 0 /\ \A f \in Around : f.stamp # draft
       /\ \A s \in Stream : seen[s] # draft

\* A frame that says the run goes on was stamped before each that says how it
\* ended, unless after a cancel by a worker that it abandoned.
RunningIsEarlier ==
  \A f, g \in Around : f.status = "running" /\ Ends(g) =>
     f.stamp < g.stamp \/ (draft # 0 /\ f.stamp > draft)

\* A browser that has not been told the outcome has yet to see a frame as late.
OutcomeIsAhead ==
  \A s \in Stream, g \in Around : Ends(g) =>
     told[s] \in Terminal \/ Overtaken(s) \/ seen[s] < g.stamp

\* As long as the bus has dropped no terminal frame, whoever asks how the run
\* ended can know it from the row or from the bus.
Settled == row.status \in Terminal \cup {"absent"} \/ latest.status \in Terminal
OutcomeIsKept ==
  ~dropped =>
    /\ \A f \in Around : Ends(f) => Settled
    /\ \A s \in Stream : told[s] \in Terminal =>
         /\ Settled
         /\ phase[s] \notin {"joining", "waiting"}
         /\ phase[s] = "read" => Ends(held[s]) \/ latest.status \in Terminal
         /\ phase[s] = "greeting" => Ends(held[s])

\* What is queued is not later than the bus.
QueuesLag == \A s \in subs : \A f \in Elements(queue[s]) : f.stamp <= latest.stamp

IInv ==
  /\ Types /\ Written /\ RunningIsEarlier /\ OutcomeIsAhead /\ OutcomeIsKept
  /\ QueuesLag /\ QueuesInOrder /\ NoMissedOutcome /\ OutcomeIsShown

-----------------------------------------------------------------------------
(* Sequences of frames. *)

\* What is in a sequence that loses its first element, or gains a last one.
LEMMA ElementsOfTail ==
  ASSUME NEW S, NEW q \in Seq(S), q # <<>>
  PROVE /\ Tail(q) \in Seq(S) /\ Len(Tail(q)) = Len(q) - 1
        /\ \A i \in 1..Len(Tail(q)) : Tail(q)[i] = q[i + 1]
        /\ Elements(Tail(q)) \subseteq Elements(q)
        /\ q[1] \in Elements(q) /\ q[1] \in S
<1>1. Len(q) \in Nat \ {0}
  OBVIOUS
<1>2. /\ Tail(q) \in Seq(S) /\ Len(Tail(q)) = Len(q) - 1
      /\ \A i \in 1..Len(Tail(q)) : Tail(q)[i] = q[i + 1]
  OBVIOUS
<1>3. \A i \in 1..Len(Tail(q)) : i + 1 \in 1..Len(q)
  BY <1>1, <1>2
<1>4. q[1] \in S /\ 1 \in 1..Len(q)
  BY <1>1
<1> QED BY <1>2, <1>3, <1>4 DEF Elements

LEMMA ElementsOfAppend ==
  ASSUME NEW S, NEW q \in Seq(S), NEW f \in S
  PROVE /\ Append(q, f) \in Seq(S) /\ Len(Append(q, f)) = Len(q) + 1
        /\ \A i \in 1..Len(q) : Append(q, f)[i] = q[i]
        /\ Append(q, f)[Len(q) + 1] = f
        /\ Elements(Append(q, f)) \subseteq Elements(q) \cup {f}
<1>1. /\ Append(q, f) \in Seq(S) /\ Len(Append(q, f)) = Len(q) + 1
      /\ \A i \in 1..Len(q) : Append(q, f)[i] = q[i]
      /\ Append(q, f)[Len(q) + 1] = f
  OBVIOUS
<1>2. Len(q) \in Nat
  OBVIOUS
<1>3. \A i \in 1..Len(Append(q, f)) : i \in 1..Len(q) \/ i = Len(q) + 1
  BY <1>1, <1>2
<1> QED BY <1>1, <1>3 DEF Elements

\* Put keeps the order of what stays, and the new frame comes last.
LEMMA PutKeepsTheOrder ==
  ASSUME NEW q \in Seq(FrameSet), NEW f \in FrameSet, Len(q) <= QueueSize
  PROVE /\ Put(q, f) \in Seq(FrameSet) /\ Len(Put(q, f)) <= QueueSize
        /\ Elements(Put(q, f)) \subseteq Elements(q) \cup {f}
        /\ Len(Put(q, f)) > 0 /\ Put(q, f)[Len(Put(q, f))] = f
        /\ \E d \in {0, 1} : \A i \in 1..(Len(Put(q, f)) - 1) :
             i + d \in 1..Len(q) /\ Put(q, f)[i] = q[i + d]
<1> DEFINE p == IF Len(q) = QueueSize THEN Tail(q) ELSE q
<1>0. Put(q, f) = Append(p, f) /\ QueueSize \in Nat \ {0} /\ Len(q) \in Nat
  BY ProgressBusAssumption DEF Put
<1>1. /\ p \in Seq(FrameSet) /\ Len(p) + 1 <= QueueSize
      /\ Elements(p) \subseteq Elements(q) /\ Len(p) \in Nat
      /\ \E d \in {0, 1} : \A i \in 1..Len(p) : i + d \in 1..Len(q) /\ p[i] = q[i + d]
  <2>1. CASE Len(q) = QueueSize
    <3>1. q # <<>> /\ p = Tail(q)
      BY <1>0, <2>1
    <3>2. /\ p \in Seq(FrameSet) /\ Len(p) = Len(q) - 1
          /\ \A i \in 1..Len(p) : p[i] = q[i + 1]
          /\ Elements(p) \subseteq Elements(q)
      BY <3>1, ElementsOfTail
    <3>3. \A i \in 1..Len(p) : i + 1 \in 1..Len(q) /\ p[i] = q[i + 1]
      BY <1>0, <3>2
    <3> HIDE DEF p
    <3> QED BY <1>0, <2>1, <3>2, <3>3
  <2>2. CASE Len(q) # QueueSize
    <3>1. p = q
      BY <2>2
    <3>2. \A i \in 1..Len(p) : i + 0 \in 1..Len(q) /\ p[i] = q[i + 0]
      BY <1>0, <3>1
    <3> HIDE DEF p
    <3> QED BY <1>0, <2>2, <3>1, <3>2
  <2> QED BY <2>1, <2>2
<1> HIDE DEF p
<1>2. /\ Append(p, f) \in Seq(FrameSet) /\ Len(Append(p, f)) = Len(p) + 1
      /\ \A i \in 1..Len(p) : Append(p, f)[i] = p[i]
      /\ Append(p, f)[Len(p) + 1] = f
      /\ Elements(Append(p, f)) \subseteq Elements(p) \cup {f}
  BY <1>1, ElementsOfAppend
<1>3. PICK d \in {0, 1} : \A i \in 1..Len(p) : i + d \in 1..Len(q) /\ p[i] = q[i + d]
  BY <1>1
<1>4. Len(Append(p, f)) - 1 = Len(p)
  BY <1>1, <1>2
<1>5. \A i \in 1..(Len(Put(q, f)) - 1) : i + d \in 1..Len(q) /\ Put(q, f)[i] = q[i + d]
  BY <1>0, <1>2, <1>3, <1>4
<1>6. /\ Len(Put(q, f)) > 0 /\ Put(q, f)[Len(Put(q, f))] = f
      /\ Len(Put(q, f)) <= QueueSize /\ Put(q, f) \in Seq(FrameSet)
  BY <1>0, <1>1, <1>2
<1>7. Elements(Put(q, f)) \subseteq Elements(q) \cup {f}
  BY <1>0, <1>1, <1>2
<1> QED BY <1>5, <1>6, <1>7

-----------------------------------------------------------------------------
(* The bus. *)

Queues == QueuesLag /\ QueuesInOrder /\ NoMissedOutcome

\* The parts of Types that a proof about the bus needs.
LEMMA Typed ==
  ASSUME Types
  PROVE /\ clock \in Nat /\ draft \in Nat /\ draft <= clock /\ row \in FrameSet
        /\ row.stamp <= clock /\ latest \in FrameSet /\ latest.stamp <= clock
        /\ latest.status \in {"none"} \cup Live /\ row.status \in {"absent"} \cup Live
        /\ seen \in [Stream -> Nat] /\ \A s \in Stream : seen[s] <= clock
        /\ told \in [Stream -> {"none"} \cup Live]
        /\ phase \in [Stream -> Phases] /\ held \in [Stream -> FrameSet]
        /\ queue \in [Stream -> Seq(FrameSet)] /\ channel \in Seq(FrameSet)
        /\ \A s \in Stream : Len(queue[s]) <= QueueSize
        /\ subs \subseteq Stream /\ dropped \in BOOLEAN
BY DEF Types, TypeOK, FrameSet, Statuses, Live, Terminal

\* What a publication does to the bus and its queues, whoever makes it.
LEMMA PublishStep ==
  ASSUME Types, Queues, NEW f \in FrameSet, f.status \in Live,
         f.status = "running" \/ f.stamp > latest.stamp,
         Publish(f)
  PROVE /\ latest' \in {latest, f} /\ subs' = subs /\ dropped' = dropped
        /\ latest.status \in Terminal => latest' = latest
        /\ f.status \in Terminal => latest'.status \in Terminal
        /\ queue' \in [Stream -> Seq(FrameSet)]
        /\ \A s \in Stream : /\ Len(queue'[s]) <= QueueSize
                             /\ Elements(queue'[s]) \subseteq Elements(queue[s]) \cup {f}
        /\ Queues'
<1>0. /\ latest \in FrameSet /\ queue \in [Stream -> Seq(FrameSet)]
      /\ \A s \in Stream : Len(queue[s]) <= QueueSize
      /\ subs \subseteq Stream
  BY Typed
<1>1. CASE ~Accepts(f)
  <2>1. UNCHANGED bus
    BY <1>1 DEF Publish
  <2>2. UNCHANGED <<latest, dropped, subs, queue>>
    BY <2>1 DEF bus
  <2>3. Queues'
    BY <2>2 DEF Queues, QueuesLag, QueuesInOrder, NoMissedOutcome
  <2>4. f.status \in Terminal => latest.status \in Terminal
    BY <1>1 DEF Accepts
  <2> QED BY <1>0, <2>2, <2>3, <2>4
<1>2. CASE Accepts(f)
  <2>1. /\ latest' = f /\ subs' = subs /\ dropped' = dropped
        /\ queue' = [s \in Stream |-> IF s \in subs THEN Put(queue[s], f) ELSE queue[s]]
        /\ latest.status \notin Terminal /\ f.stamp > latest.stamp
    BY <1>2 DEF Publish, Accepts, Terminal
  <2>2. ASSUME NEW s \in Stream
        PROVE /\ queue'[s] \in Seq(FrameSet) /\ Len(queue'[s]) <= QueueSize
              /\ Elements(queue'[s]) \subseteq Elements(queue[s]) \cup {f}
    <3>1. CASE s \in subs
      BY <1>0, <2>1, <3>1, PutKeepsTheOrder
    <3>2. CASE s \notin subs
      BY <1>0, <2>1, <3>2
    <3> QED BY <3>1, <3>2
  <2>3. ASSUME NEW s \in subs
        PROVE /\ \A g \in Elements(queue'[s]) : g.stamp <= f.stamp
              /\ \A i, j \in 1..Len(queue'[s]) :
                   i < j /\ queue'[s][j].status = "running"
                     => queue'[s][i].stamp < queue'[s][j].stamp
              /\ queue'[s] # <<>> /\ queue'[s][Len(queue'[s])] = f
    <3> DEFINE q == queue[s]  r == queue'[s]
    <3>0. s \in Stream /\ q \in Seq(FrameSet) /\ Len(q) <= QueueSize /\ r = Put(q, f)
      BY <1>0, <2>1
    <3>1. /\ \A g \in Elements(q) : g.stamp <= latest.stamp
          /\ \A i, j \in 1..Len(q) :
               i < j /\ q[j].status = "running" => q[i].stamp < q[j].stamp
      BY DEF Queues, QueuesLag, QueuesInOrder
    <3> HIDE DEF q, r
    <3>2. /\ r \in Seq(FrameSet) /\ Len(r) > 0 /\ r[Len(r)] = f
          /\ Elements(r) \subseteq Elements(q) \cup {f}
      BY <3>0, PutKeepsTheOrder
    <3>3. PICK d \in {0, 1} : \A i \in 1..(Len(r) - 1) :
             i + d \in 1..Len(q) /\ r[i] = q[i + d]
      <4>1. \E d \in {0, 1} : \A i \in 1..(Len(Put(q, f)) - 1) :
               i + d \in 1..Len(q) /\ Put(q, f)[i] = q[i + d]
        BY <3>0, PutKeepsTheOrder, Zenon
      <4> QED BY <3>0, <4>1, Zenon
    <3>4. \A i \in 1..Len(q) : q[i] \in FrameSet /\ q[i].stamp <= latest.stamp
      BY <3>0, <3>1 DEF Elements
    <3>5. \A g \in Elements(r) : g.stamp <= f.stamp
      <4>1. \A g \in Elements(q) : g \in FrameSet
        BY <3>4 DEF Elements
      <4>2. f.stamp \in Nat /\ latest.stamp \in Nat /\ f.stamp > latest.stamp
        BY <1>0, <2>1 DEF FrameSet
      <4>3. ASSUME NEW g \in Elements(q) PROVE g.stamp <= f.stamp
        <5>1. g.stamp \in Nat /\ g.stamp <= latest.stamp
          BY <3>1, <4>1, <4>3 DEF FrameSet
        <5> QED BY <4>2, <5>1
      <4>4. f.stamp <= f.stamp
        BY <4>2
      <4> QED BY <3>2, <4>3, <4>4
    <3>6. ASSUME NEW i \in 1..Len(r), NEW j \in 1..Len(r), i < j, r[j].status = "running"
          PROVE r[i].stamp < r[j].stamp
      <4>0. Len(r) \in Nat /\ i \in 1..(Len(r) - 1)
        BY <3>2, <3>6
      <4>1. i + d \in 1..Len(q) /\ r[i] = q[i + d]
        BY <3>3, <4>0
      <4>2. CASE j = Len(r)
        BY <1>0, <2>1, <3>2, <3>4, <4>1, <4>2 DEF FrameSet
      <4>3. CASE j # Len(r)
        <5>1. j \in 1..(Len(r) - 1)
          BY <4>0, <4>3
        <5>2. j + d \in 1..Len(q) /\ r[j] = q[j + d]
          BY <3>3, <5>1
        <5>3. i + d < j + d
          BY <3>6
        <5> QED BY <3>1, <3>6, <4>1, <5>2, <5>3
      <4> QED BY <4>2, <4>3
    <3>7. r # <<>>
      BY <3>2
    <3> QED BY <3>2, <3>5, <3>6, <3>7 DEF r
  <2>4. Queues'
    <3>1. latest' = f /\ subs' = subs
      BY <2>1
    <3>2. QueuesLag'
      BY <3>1, <2>3 DEF QueuesLag
    <3>3. QueuesInOrder'
      BY <3>1, <2>3 DEF QueuesInOrder
    <3>4. NoMissedOutcome'
      BY <3>1, <2>3 DEF NoMissedOutcome
    <3> QED BY <3>2, <3>3, <3>4 DEF Queues
  <2>5. queue' \in [Stream -> Seq(FrameSet)]
    BY <2>1, <2>2
  <2> QED BY <2>1, <2>2, <2>4, <2>5
<1> QED BY <1>1, <1>2

-----------------------------------------------------------------------------
(* The frames there are. *)

LEMMA Members ==
  /\ row \in Around /\ latest \in Around /\ Elements(channel) \subseteq Around
  /\ \A s \in Stream : held[s] \in Around /\ Elements(queue[s]) \subseteq Around
BY DEF Around

LEMMA Reach ==
  ASSUME NEW n, row' \in Around \cup {n}, latest' \in Around \cup {n},
         Elements(channel') \subseteq Around \cup {n},
         \A s \in Stream : held'[s] \in Around \cup {n},
         \A s \in Stream : Elements(queue'[s]) \subseteq Around \cup {n}
  PROVE Around' \subseteq Around \cup {n}
BY DEF Around

\* A frame that a step adds, and what the step then is about.
Fresh(n) ==
  \/ n \in Around
  \/ n = None
  \/ n.status = "absent" /\ n.stamp <= clock /\ writer = "done" /\ writer' = "erased"
  \/ /\ n.stamp = clock + 1 /\ clock' = clock + 1 /\ draft' = draft
     /\ \/ n.status = "running" /\ (draft # 0 \/ writer \in {"idle", "saying"})
        \/ n.status \in Terminal /\ writer' \in {"completing", "done", "cancelled"} /\ Settled'
  \/ /\ n = Frame("failed", draft) /\ UNCHANGED <<clock, draft>> /\ Settled'
     /\ writer = "cancelled" /\ writer' = "done"

\* Each frame is typed.
LEMMA AroundTyped ==
  ASSUME Types PROVE \A f \in Around : f \in FrameSet /\ f.stamp <= clock
<1>1. \A f \in Around : f.stamp <= clock
  BY DEF Types
<1>2. /\ row \in FrameSet /\ latest \in FrameSet /\ held \in [Stream -> FrameSet]
      /\ queue \in [Stream -> Seq(FrameSet)] /\ channel \in Seq(FrameSet)
  BY Typed
<1>3. \A f \in Elements(channel) : f \in FrameSet
  BY <1>2 DEF Elements
<1>4. \A s \in Stream : \A f \in Elements(queue[s]) : f \in FrameSet
  BY <1>2 DEF Elements
<1> QED BY <1>1, <1>2, <1>3, <1>4 DEF Around

\* The frame that a stream waits for next.
LEMMA NextFrame ==
  ASSUME Types, NEW s \in Stream, queue[s] # <<>>
  PROVE /\ queue[s][1] \in Elements(queue[s]) /\ queue[s][1] \in FrameSet
        /\ queue[s][1] \in Around /\ queue[s][1].status \in Live
        /\ Tail(queue[s]) \in Seq(FrameSet) /\ Len(Tail(queue[s])) = Len(queue[s]) - 1
        /\ Len(Tail(queue[s])) <= QueueSize
        /\ \A i \in 1..Len(Tail(queue[s])) : Tail(queue[s])[i] = queue[s][i + 1]
        /\ Elements(Tail(queue[s])) \subseteq Elements(queue[s])
<1>1. queue[s] \in Seq(FrameSet) /\ Len(queue[s]) <= QueueSize
  BY Typed
<1>2. \A f \in Elements(queue[s]) : f.status \in Live
  BY DEF Types
<1>3. Len(queue[s]) - 1 <= QueueSize
  BY <1>1, ProgressBusAssumption
<1> QED BY <1>1, <1>2, <1>3, ElementsOfTail, Members

\* The frame at the head of the channel.
LEMMA NextReport ==
  ASSUME Types, channel # <<>>
  PROVE /\ channel[1] \in Elements(channel) /\ channel[1] \in FrameSet
        /\ channel[1] \in Around /\ channel[1].status = "running"
        /\ Tail(channel) \in Seq(FrameSet) /\ Len(Tail(channel)) = Len(channel) - 1
        /\ Elements(Tail(channel)) \subseteq Elements(channel)
<1>1. channel \in Seq(FrameSet)
  BY Typed
<1>2. \A f \in Elements(channel) : f.status = "running"
  BY DEF Types
<1> QED BY <1>1, <1>2, ElementsOfTail, Members

LEMMA NothingInTheEmpty == Elements(<<>>) = {} /\ <<>> \in Seq(FrameSet) /\ Len(<<>>) = 0
BY DEF Elements

\* A step adds at most one frame.
LEMMA Growth ==
  ASSUME Types, Written, Queues, [Next]_vars
  PROVE \E n \in FrameSet : Around' \subseteq Around \cup {n} /\ Fresh(n)
<1> DEFINE Goal == \E n \in FrameSet : Around' \subseteq Around \cup {n} /\ Fresh(n)
<1>0. /\ row \in Around /\ latest \in Around /\ Elements(channel) \subseteq Around
      /\ \A s \in Stream : held[s] \in Around
      /\ \A s \in Stream : Elements(queue[s]) \subseteq Around
      /\ row \in FrameSet /\ latest \in FrameSet /\ channel \in Seq(FrameSet)
      /\ held \in [Stream -> FrameSet] /\ queue \in [Stream -> Seq(FrameSet)]
      /\ clock \in Nat /\ draft \in Nat /\ latest.stamp <= clock
  BY Members, Typed
<1>u1. UNCHANGED <<channel, held>> =>
         /\ Elements(channel') \subseteq Around /\ \A s \in Stream : held'[s] \in Around
  BY <1>0
<1>u2. UNCHANGED queue => \A s \in Stream : Elements(queue'[s]) \subseteq Around
  BY <1>0
<1> USE DEF run, bus, sse
<1>1. CASE Checkpoint
  <2> DEFINE n == Frame("running", clock + 1)
  <2>1. /\ row' = n /\ clock' = clock + 1 /\ writer = "idle"
        /\ UNCHANGED <<draft, channel, latest, queue, held>>
    BY <1>1 DEF Checkpoint
  <2>2. n \in FrameSet /\ n.status = "running" /\ n.stamp = clock + 1
    BY <1>0 DEF Frame, FrameSet, Statuses
  <2>3. Fresh(n)
    BY <2>1, <2>2 DEF Fresh
  <2> HIDE DEF n
  <2>4. Around' \subseteq Around \cup {n}
    <3>1. row' \in Around \cup {n} /\ latest' \in Around
      BY <1>0, <2>1
    <3>2. Elements(channel') \subseteq Around /\ \A s \in Stream : held'[s] \in Around
      BY <1>u1, <2>1
    <3>3. \A s \in Stream : Elements(queue'[s]) \subseteq Around
      BY <1>u2, <2>1
    <3> QED BY <3>1, <3>2, <3>3, Reach
  <2> QED BY <2>2, <2>3, <2>4
<1>2. CASE Say
  <2> DEFINE n == Frame("running", clock + 1)
  <2>1. /\ Publish(n) /\ clock' = clock + 1 /\ writer = "saying"
        /\ UNCHANGED <<draft, row, channel, held>>
    BY <1>2 DEF Say
  <2>2. n \in FrameSet /\ n.status = "running" /\ n.stamp = clock + 1
    BY <1>0 DEF Frame, FrameSet, Statuses
  <2>3. Fresh(n)
    BY <2>1, <2>2 DEF Fresh
  <2> HIDE DEF n
  <2>4. /\ latest' \in {latest, n}
        /\ \A s \in Stream : Elements(queue'[s]) \subseteq Elements(queue[s]) \cup {n}
    BY <2>1, <2>2, PublishStep DEF Live
  <2>5. Around' \subseteq Around \cup {n}
    <3>1. row' \in Around /\ latest' \in Around \cup {n}
      BY <1>0, <2>1, <2>4
    <3>2. Elements(channel') \subseteq Around /\ \A s \in Stream : held'[s] \in Around
      BY <1>u1, <2>1
    <3>3. \A s \in Stream : Elements(queue'[s]) \subseteq Around \cup {n}
      BY <1>0, <2>4
    <3> QED BY <3>1, <3>2, <3>3, Reach
  <2> QED BY <2>2, <2>3, <2>5
<1>3. CASE Report
  <2> DEFINE n == Frame("running", clock + 1)
  <2>1. /\ clock' = clock + 1 /\ job # "none"
        /\ channel' \in {channel, Append(channel, n)}
        /\ UNCHANGED <<row, draft, writer, latest, queue, held>>
    BY <1>3 DEF Report
  <2>2. n \in FrameSet /\ n.status = "running" /\ n.stamp = clock + 1
    BY <1>0 DEF Frame, FrameSet, Statuses
  <2>3. draft # 0 \/ writer = "idle"
    BY <2>1 DEF Types, TypeOK, Written
  <2>4. Fresh(n)
    BY <2>1, <2>2, <2>3 DEF Fresh
  <2> HIDE DEF n
  <2>5. Elements(channel') \subseteq Elements(channel) \cup {n}
    BY <1>0, <2>1, <2>2, ElementsOfAppend
  <2>6. Around' \subseteq Around \cup {n}
    BY <1>0, <1>u2, <2>1, <2>5, Reach
  <2> QED BY <2>2, <2>4, <2>6
<1>4. CASE Deliver
  <2>1. /\ Publish(channel[1]) /\ channel' = Tail(channel) /\ channel # <<>>
        /\ UNCHANGED <<row, held>>
    BY <1>4 DEF Deliver
  <2>2. /\ channel[1] \in Around /\ channel[1] \in FrameSet /\ channel[1].status = "running"
        /\ Elements(channel') \subseteq Elements(channel)
    BY <2>1, NextReport
  <2>3. /\ latest' \in {latest, channel[1]}
        /\ \A s \in Stream : Elements(queue'[s]) \subseteq Elements(queue[s]) \cup {channel[1]}
    BY <2>1, <2>2, PublishStep DEF Live
  <2>4. /\ latest' \in Around /\ row' \in Around /\ Elements(channel') \subseteq Around
        /\ \A s \in Stream : held'[s] \in Around
    BY <1>0, <2>1, <2>2, <2>3
  <2>5. \A s \in Stream : Elements(queue'[s]) \subseteq Around
    BY <1>0, <2>2, <2>3
  <2>6. Around' \subseteq Around \cup {row}
    BY <2>4, <2>5, Reach
  <2> QED BY <1>0, <2>6 DEF Fresh
<1>5. ASSUME NEW end \in Terminal, Finish(end) PROVE Goal
  <2> DEFINE n == Frame(end, clock + 1)
  <2>1. /\ row' = n /\ clock' = clock + 1 /\ writer' = "completing"
        /\ UNCHANGED <<draft, channel, latest, queue, held>>
    BY <1>5 DEF Finish
  <2>2. n \in FrameSet /\ n.status \in Terminal /\ n.stamp = clock + 1
    BY <1>0 DEF Frame, FrameSet, Statuses
  <2>3. Fresh(n)
    BY <2>1, <2>2 DEF Fresh, Settled
  <2> HIDE DEF n
  <2>4. Around' \subseteq Around \cup {n}
    <3>1. row' \in Around \cup {n} /\ latest' \in Around
      BY <1>0, <2>1
    <3>2. Elements(channel') \subseteq Around /\ \A s \in Stream : held'[s] \in Around
      BY <1>u1, <2>1
    <3>3. \A s \in Stream : Elements(queue'[s]) \subseteq Around
      BY <1>u2, <2>1
    <3> QED BY <3>1, <3>2, <3>3, Reach
  <2> QED BY <2>2, <2>3, <2>4
<1>6. ASSUME NEW end \in Terminal, Publish(Frame(end, clock')), clock' = clock + 1,
             writer' \in {"done", "cancelled"}, UNCHANGED <<row, draft, channel, held>>
      PROVE Goal
  <2> DEFINE n == Frame(end, clock + 1)
  <2>1. Publish(n)
    BY <1>6
  <2>2. n \in FrameSet /\ n.status \in Terminal /\ n.stamp = clock + 1
    BY <1>0 DEF Frame, FrameSet, Statuses
  <2> HIDE DEF n
  <2>3. n.stamp > latest.stamp /\ n.status \in Live
    BY <1>0, <2>2 DEF Live, FrameSet
  <2>4. /\ latest' \in {latest, n} /\ latest'.status \in Terminal
        /\ \A s \in Stream : Elements(queue'[s]) \subseteq Elements(queue[s]) \cup {n}
    BY <2>1, <2>2, <2>3, PublishStep
  <2>5. Fresh(n)
    BY <1>6, <2>2, <2>4 DEF Fresh, Settled
  <2>6. Around' \subseteq Around \cup {n}
    <3>1. row' \in Around /\ latest' \in Around \cup {n}
      BY <1>0, <1>6, <2>4
    <3>2. Elements(channel') \subseteq Around /\ \A s \in Stream : held'[s] \in Around
      BY <1>u1, <1>6
    <3>3. \A s \in Stream : Elements(queue'[s]) \subseteq Around \cup {n}
      BY <1>0, <2>4
    <3> QED BY <3>1, <3>2, <3>3, Reach
  <2> QED BY <2>2, <2>5, <2>6
<1>7. CASE Announce
  <2>1. row.status \in Terminal
    BY <1>7 DEF Announce, Written
  <2> QED BY <1>6, <1>7, <2>1 DEF Announce
<1>8. CASE SayCancelled
  BY <1>6, <1>8 DEF SayCancelled, Terminal
<1>9. CASE CancelCommit
  <2> DEFINE n == Frame("failed", draft)
  <2>1. /\ row' = n /\ writer = "cancelled" /\ writer' = "done"
        /\ UNCHANGED <<clock, draft, channel, latest, queue, held>>
    BY <1>9 DEF CancelCommit
  <2>2. n \in FrameSet
    BY <1>0 DEF Frame, FrameSet, Statuses, Terminal
  <2>3. Fresh(n)
    BY <2>1 DEF Fresh, Settled, Frame, Terminal
  <2> HIDE DEF n
  <2>4. Around' \subseteq Around \cup {n}
    <3>1. row' \in Around \cup {n} /\ latest' \in Around
      BY <1>0, <2>1
    <3>2. Elements(channel') \subseteq Around /\ \A s \in Stream : held'[s] \in Around
      BY <1>u1, <2>1
    <3>3. \A s \in Stream : Elements(queue'[s]) \subseteq Around
      BY <1>u2, <2>1
    <3> QED BY <3>1, <3>2, <3>3, Reach
  <2> QED BY <2>2, <2>3, <2>4
<1>10. CASE Erase
  <2> DEFINE n == [row EXCEPT !.status = "absent"]
  <2>1. /\ row' = n /\ writer = "done" /\ writer' = "erased"
        /\ UNCHANGED <<channel, latest, queue, held>>
    BY <1>10 DEF Erase
  <2>2. n \in FrameSet /\ n.status = "absent" /\ n.stamp <= clock
    BY <1>0, Typed DEF FrameSet, Statuses
  <2>3. Fresh(n)
    BY <2>1, <2>2 DEF Fresh
  <2> HIDE DEF n
  <2>4. Around' \subseteq Around \cup {n}
    <3>1. row' \in Around \cup {n} /\ latest' \in Around
      BY <1>0, <2>1
    <3>2. Elements(channel') \subseteq Around /\ \A s \in Stream : held'[s] \in Around
      BY <1>u1, <2>1
    <3>3. \A s \in Stream : Elements(queue'[s]) \subseteq Around
      BY <1>u2, <2>1
    <3> QED BY <3>1, <3>2, <3>3, Reach
  <2> QED BY <2>2, <2>3, <2>4
<1>11. CASE Forget \/ Trim
  <2>1. latest' = None /\ UNCHANGED <<row, channel, queue, held>>
    BY <1>11 DEF Forget, Trim
  <2>2. Around' \subseteq Around \cup {None}
    BY <1>0, <1>u1, <1>u2, <2>1, Reach
  <2>3. None \in FrameSet
    BY DEF None, FrameSet, Statuses
  <2> QED BY <2>2, <2>3 DEF Fresh
<1>12. ASSUME NEW n \in Around, Around' \subseteq Around \cup {n} PROVE Goal
  BY <1>12, AroundTyped DEF Fresh
<1>13. CASE StartJob \/ JobDone \/ Cancel \/ CancelUndone \/ UNCHANGED vars
  <2>1. UNCHANGED <<row, latest, channel, queue, held>>
    BY <1>13 DEF StartJob, JobDone, Cancel, CancelUndone, vars
  <2>2. Around' \subseteq Around \cup {row}
    BY <1>0, <1>u1, <1>u2, <2>1, Reach
  <2> QED BY <1>0, <1>12, <2>2
<1>14. ASSUME NEW s \in Stream, Open(s) \/ Initial(s) PROVE Goal
  <2>1. /\ UNCHANGED <<row, latest, channel, queue>>
        /\ \E f \in {row, latest, held[s]} : held' = [held EXCEPT ![s] = f]
    BY <1>14 DEF Open, Initial, Later
  <2>2. \A z \in Stream : held'[z] \in Around
    BY <1>0, <2>1
  <2>3. Around' \subseteq Around \cup {row}
    BY <1>0, <1>u2, <2>1, <2>2, Reach
  <2> QED BY <1>0, <1>12, <2>3
<1>15. ASSUME NEW s \in Stream, Greet(s) PROVE Goal
  <2>1. UNCHANGED <<row, channel, held>>
    BY <1>15 DEF Greet
  <2>2. CASE held[s].status \in Terminal
    <3>1. UNCHANGED <<latest, queue>>
      BY <1>15, <2>2 DEF Greet
    <3>2. Around' \subseteq Around \cup {row}
      BY <1>0, <1>u1, <1>u2, <2>1, <3>1, Reach
    <3> QED BY <1>0, <1>12, <3>2
  <2>3. CASE held[s].status \notin Terminal
    <3>1. Publish(held[s]) /\ held[s].status = "running" /\ held[s] \in FrameSet
      BY <1>0, <1>15, <2>3 DEF Greet, Types, Live
    <3>2. /\ latest' \in {latest, held[s]}
          /\ \A z \in Stream : Elements(queue'[z]) \subseteq Elements(queue[z]) \cup {held[s]}
      BY <3>1, PublishStep DEF Live
    <3>3. latest' \in Around /\ \A z \in Stream : Elements(queue'[z]) \subseteq Around
      BY <1>0, <3>2
    <3>4. Around' \subseteq Around \cup {row}
      BY <1>0, <1>u1, <2>1, <3>3, Reach
    <3> QED BY <1>0, <1>12, <3>4
  <2> QED BY <2>2, <2>3
<1>16. ASSUME NEW s \in Stream, Join(s) \/ Take(s) \/ Reconnect(s) PROVE Goal
  <2>1. /\ UNCHANGED <<row, latest, channel, held>>
        /\ \/ queue' = [queue EXCEPT ![s] = <<>>]
           \/ queue[s] # <<>> /\ queue' = [queue EXCEPT ![s] = Tail(queue[s])]
    BY <1>16 DEF Join, Take, Reconnect
  <2>2. \A z \in Stream : Elements(queue'[z]) \subseteq Elements(queue[z])
    <3>1. CASE queue' = [queue EXCEPT ![s] = <<>>]
      <4>1. ASSUME NEW z \in Stream PROVE Elements(queue'[z]) \subseteq Elements(queue[z])
        <5>1. queue'[z] = <<>> \/ queue'[z] = queue[z]
          BY <1>0, <3>1
        <5> QED BY <5>1, NothingInTheEmpty
      <4> QED BY <4>1
    <3>2. CASE queue[s] # <<>> /\ queue' = [queue EXCEPT ![s] = Tail(queue[s])]
      <4>1. ASSUME NEW z \in Stream PROVE Elements(queue'[z]) \subseteq Elements(queue[z])
        <5>1. (z = s /\ queue'[z] = Tail(queue[s])) \/ queue'[z] = queue[z]
          BY <1>0, <3>2
        <5> QED BY <3>2, <5>1, NextFrame
      <4> QED BY <4>1
    <3> QED BY <2>1, <3>1, <3>2
  <2>3. Around' \subseteq Around \cup {row}
    BY <1>0, <1>u1, <2>1, <2>2, Reach
  <2> QED BY <1>0, <1>12, <2>3
<1>17. "completed" \in Terminal /\ "failed" \in Terminal
  BY DEF Terminal
<1> QED BY <1>1, <1>2, <1>3, <1>4, <1>5, <1>7, <1>8, <1>9, <1>10, <1>11, <1>13, <1>14,
           <1>15, <1>16, <1>17 DEF Next, RunStep, StreamStep

\* A browser is only sent a frame that there is, later than the one it has,
\* and the run does not move meanwhile.
Sent(s, f) ==
  /\ f.status \in Live /\ f.stamp > seen[s]
  /\ seen'[s] = f.stamp /\ told'[s] = f.status
  /\ UNCHANGED <<clock, row, draft, writer, job>>

LEMMA Sending ==
  ASSUME Types, [Next]_vars, NEW s \in Stream
  PROVE \/ seen'[s] = seen[s] /\ told'[s] = told[s]
        \/ \E f \in Around : Sent(s, f)
<1> DEFINE Goal(z) == \/ seen'[z] = seen[z] /\ told'[z] = told[z]
                     \/ \E f \in Around : Sent(z, f)
<1>0. /\ seen \in [Stream -> Nat] /\ told \in [Stream -> {"none"} \cup Live]
      /\ latest.status \in {"none"} \cup Live /\ latest \in Around
      /\ latest.status = "none" => latest = None
  BY Typed, Members DEF Types
<1>1. ASSUME NEW z \in Stream, NEW f \in Around, f.status \in Live, Send(z, f), UNCHANGED run
      PROVE Goal(s)
  BY <1>0, <1>1 DEF Send, Sent, run
<1>2. ASSUME UNCHANGED <<seen, told>> PROVE Goal(s)
  BY <1>2
<1>3. CASE RunStep \/ Trim \/ UNCHANGED vars
  BY <1>2, <1>3 DEF RunStep, Checkpoint, Say, StartJob, Report, JobDone, Deliver, Finish, Announce,
    Cancel, SayCancelled, CancelCommit, CancelUndone, Erase, Forget, Trim, vars, sse
<1>4. ASSUME NEW z \in Stream, Open(z) \/ Initial(z) \/ Reconnect(z) PROVE Goal(s)
  BY <1>2, <1>4 DEF Open, Initial, Reconnect
<1>5. ASSUME NEW z \in Stream, Greet(z) PROVE Goal(s)
  <2>1. held[z].status \in Live /\ held[z] \in Around
    BY <1>5, Members DEF Greet, Types
  <2> QED BY <1>1, <1>5, <2>1 DEF Greet
<1>6. ASSUME NEW z \in Stream, Join(z) PROVE Goal(s)
  <2>1. CASE latest = None
    BY <1>2, <1>6, <2>1 DEF Join
  <2>2. CASE latest # None
    BY <1>0, <1>1, <1>6, <2>2 DEF Join
  <2> QED BY <2>1, <2>2
<1>7. ASSUME NEW z \in Stream, Take(z) PROVE Goal(s)
  <2>1. queue[z] # <<>> /\ Send(z, queue[z][1]) /\ UNCHANGED run
    BY <1>7 DEF Take
  <2> QED BY <1>1, <2>1, NextFrame
<1> QED BY <1>3, <1>4, <1>5, <1>6, <1>7 DEF Next, StreamStep

-----------------------------------------------------------------------------
(* The parts of the invariant. *)

\* What a step does to the run's own clock.
LEMMA RunMoves ==
  ASSUME Types, [Next]_vars
  PROVE /\ clock' \in {clock, clock + 1}
        /\ \/ draft' = draft
           \/ /\ Cancel /\ draft' = clock + 1 /\ writer \in {"idle", "saying"}
              /\ clock' = clock + 1
              /\ Around' = Around /\ UNCHANGED <<seen, told, phase>>
<1> USE DEF run, bus, sse
<1>1. clock \in Nat
  BY Typed
<1>2. CASE Cancel
  <2>1. UNCHANGED <<row, channel, latest, queue, held, seen, told, phase>>
    BY <1>2 DEF Cancel
  <2>2. Around' = Around
    BY <2>1 DEF Around
  <2> QED BY <1>2, <2>1, <2>2 DEF Cancel
<1>3. CASE RunStep /\ ~Cancel
  BY <1>3 DEF RunStep, Checkpoint, Say, StartJob, Report, JobDone, Deliver, Finish, Announce,
    SayCancelled, CancelCommit, CancelUndone, Erase, Forget
<1>4. CASE Trim \/ UNCHANGED vars \/ \E s \in Stream : Open(s) \/ StreamStep(s) \/ Reconnect(s)
  BY <1>4 DEF Trim, vars, Open, StreamStep, Initial, Greet, Join, Take, Reconnect
<1> QED BY <1>2, <1>3, <1>4 DEF Next

\* The same, one queue q at a time, on a bus that holds f.
QueueIsSound(q, f) ==
  /\ \A g \in Elements(q) : g.stamp <= f.stamp
  /\ \A i, j \in 1..Len(q) :
       i < j /\ q[j].status = "running" => q[i].stamp < q[j].stamp
  /\ f.status \in Terminal => q # <<>> /\ q[Len(q)] = f

LEMMA QueueByQueue ==
  /\ Queues <=> \A s \in subs : QueueIsSound(queue[s], latest)
  /\ Queues' <=> \A s \in subs' : QueueIsSound(queue'[s], latest')
BY DEF Queues, QueuesLag, QueuesInOrder, NoMissedOutcome, QueueIsSound

\* A queue that loses its first frame, which is not how the run ended.
LEMMA SoundTail ==
  ASSUME Types, NEW s \in Stream, queue[s] # <<>>, queue[s][1].status \notin Terminal,
         QueueIsSound(queue[s], latest)
  PROVE QueueIsSound(Tail(queue[s]), latest)
<1> DEFINE q == queue[s]  r == Tail(queue[s])
<1>1. /\ q \in Seq(FrameSet) /\ q # <<>> /\ r \in Seq(FrameSet)
      /\ Len(r) = Len(q) - 1 /\ \A i \in 1..Len(r) : r[i] = q[i + 1]
      /\ Elements(r) \subseteq Elements(q) /\ q[1].status \notin Terminal
  BY NextFrame, Typed
<1>2. QueueIsSound(q, latest)
  OBVIOUS
<1> HIDE DEF q, r
<1>3. Len(q) \in Nat \ {0} /\ Len(r) \in Nat
  BY <1>1
<1>4. ASSUME NEW i \in 1..Len(r), NEW j \in 1..Len(r), i < j, r[j].status = "running"
      PROVE r[i].stamp < r[j].stamp
  <2>1. i + 1 \in 1..Len(q) /\ j + 1 \in 1..Len(q) /\ i + 1 < j + 1
    BY <1>1, <1>3, <1>4
  <2> QED BY <1>1, <1>2, <1>4, <2>1 DEF QueueIsSound
<1>5. ASSUME latest.status \in Terminal PROVE r # <<>> /\ r[Len(r)] = latest
  <2>1. q[Len(q)] = latest
    BY <1>2, <1>5 DEF QueueIsSound
  <2>2. Len(q) # 1
    BY <1>1, <1>5, <2>1
  <2>3. Len(r) >= 1 /\ Len(r) + 1 = Len(q)
    BY <1>1, <1>3, <2>2
  <2>4. r[Len(r)] = q[Len(r) + 1]
    BY <1>1, <1>3, <2>3
  <2> QED BY <1>3, <2>1, <2>3, <2>4
<1>6. \A g \in Elements(r) : g.stamp <= latest.stamp
  BY <1>1, <1>2 DEF QueueIsSound
<1>7. QueueIsSound(r, latest)
  BY <1>4, <1>5, <1>6 DEF QueueIsSound
<1> QED BY <1>7 DEF r

LEMMA QueuesStep ==
  ASSUME Types, Written, Queues, [Next]_vars PROVE Queues'
<1>0. /\ latest \in FrameSet /\ queue \in [Stream -> Seq(FrameSet)] /\ subs \subseteq Stream
      /\ clock \in Nat /\ latest.stamp <= clock
  BY Typed
<1> USE DEF run, bus, sse
<1>1. CASE UNCHANGED <<latest, subs, queue>>
  BY <1>1 DEF Queues, QueuesLag, QueuesInOrder, NoMissedOutcome
<1>2. CASE subs' = {}
  BY <1>2 DEF Queues, QueuesLag, QueuesInOrder, NoMissedOutcome
<1>3. ASSUME NEW f \in FrameSet, f.status \in Live, f.status = "running" \/ f.stamp > latest.stamp,
             Publish(f)
      PROVE Queues'
  BY <1>3, PublishStep
<1>4. ASSUME NEW status \in Live, Publish(Frame(status, clock')), clock' = clock + 1
      PROVE Queues'
  <2>1. Frame(status, clock') \in FrameSet
    BY <1>0, <1>4 DEF Frame, FrameSet, Statuses, Live
  <2>2. Frame(status, clock').status = status /\ Frame(status, clock').stamp > latest.stamp
    BY <1>0, <1>4 DEF Frame, FrameSet
  <2> QED BY <1>3, <1>4, <2>1, <2>2
<1>5. CASE Say
  BY <1>4, <1>5 DEF Say, Live
<1>6. CASE Announce
  BY <1>4, <1>6 DEF Announce, Written, Live
<1>7. CASE SayCancelled
  BY <1>4, <1>7 DEF SayCancelled, Live, Terminal
<1>8. CASE Deliver
  BY <1>3, <1>8, NextReport DEF Deliver, Live
<1>9. CASE Forget \/ Trim
  BY <1>2, <1>9 DEF Forget, Trim
<1>10. CASE \/ Checkpoint \/ StartJob \/ Report \/ JobDone \/ Finish("completed") \/ Finish("failed")
            \/ Cancel \/ CancelCommit \/ CancelUndone \/ Erase \/ UNCHANGED vars
  BY <1>1, <1>10 DEF Checkpoint, StartJob, Report, JobDone, Finish, Cancel, CancelCommit,
    CancelUndone, Erase, vars
<1>11. ASSUME NEW s \in Stream, Open(s) \/ Initial(s) PROVE Queues'
  BY <1>1, <1>11 DEF Open, Initial
<1>12. ASSUME NEW s \in Stream, Greet(s) PROVE Queues'
  <2>1. CASE held[s].status \in Terminal
    BY <1>1, <1>12, <2>1 DEF Greet
  <2>2. CASE held[s].status \notin Terminal
    BY <1>3, <1>12, <2>2, Typed DEF Greet, Types, Live
  <2> QED BY <2>1, <2>2
<1>13. ASSUME NEW s \in Stream, latest' = latest, subs' \subseteq subs \cup {s},
              \A z \in Stream \ {s} : queue'[z] = queue[z],
              s \in subs' => QueueIsSound(queue'[s], latest)
       PROVE Queues'
  <2>1. ASSUME NEW z \in subs' PROVE QueueIsSound(queue'[z], latest)
    BY <1>0, <1>13, QueueByQueue
  <2> QED BY <1>13, <2>1, QueueByQueue
<1>14. ASSUME NEW s \in Stream, Reconnect(s) PROVE Queues'
  BY <1>0, <1>13, <1>14 DEF Reconnect
<1>15. ASSUME NEW s \in Stream, Join(s) PROVE Queues'
  <2>1. /\ latest' = latest /\ queue'[s] = <<>> /\ \A z \in Stream \ {s} : queue'[z] = queue[z]
        /\ subs' \subseteq subs \cup {s}
    BY <1>0, <1>15 DEF Join
  <2>2. CASE latest.status \in Terminal
    <3>1. subs' = subs
      BY <1>15, <2>2 DEF Join
    <3>2. phase[s] = "joining"
      BY <1>15 DEF Join
    <3>3. s \notin subs
      BY <3>2 DEF Types
    <3> QED BY <1>13, <2>1, <3>1, <3>3
  <2>3. CASE latest.status \notin Terminal
    <3>1. QueueIsSound(<<>>, latest)
      BY <2>3, NothingInTheEmpty DEF QueueIsSound
    <3> QED BY <1>13, <2>1, <3>1
  <2> QED BY <2>2, <2>3
<1>16. ASSUME NEW s \in Stream, Take(s) PROVE Queues'
  <2>1. /\ latest' = latest /\ queue[s] # <<>> /\ queue'[s] = Tail(queue[s])
        /\ subs' \subseteq subs /\ \A z \in Stream \ {s} : queue'[z] = queue[z]
    BY <1>0, <1>16 DEF Take
  <2>2. CASE queue[s][1].status \in Terminal
    <3>1. subs' = subs \ {s}
      BY <1>16, <2>2 DEF Take
    <3> QED BY <1>13, <2>1, <3>1
  <2>3. CASE queue[s][1].status \notin Terminal
    <3>1. s \in subs' => QueueIsSound(queue'[s], latest)
      BY <1>0, <2>1, <2>3, SoundTail, QueueByQueue
    <3> QED BY <1>13, <2>1, <3>1
  <2> QED BY <2>2, <2>3
<1> QED BY <1>5, <1>6, <1>7, <1>8, <1>9, <1>10, <1>11, <1>12, <1>14, <1>15, <1>16
        DEF Next, RunStep, StreamStep

LEMMA WrittenStep ==
  ASSUME Types, Written, Queues, [Next]_vars PROVE Written'
<1>0. /\ clock \in Nat /\ draft \in Nat /\ draft <= clock /\ writer \in Writers
      /\ job \in {"none", "fitting", "abandoned"}
      /\ \A s \in Stream : seen[s] \in Nat /\ seen[s] <= clock
      /\ \A f \in Around : f \in FrameSet /\ f.stamp <= clock
  BY Typed, AroundTyped DEF Types, TypeOK
<1>1. PICK n \in FrameSet : Around' \subseteq Around \cup {n} /\ Fresh(n)
  BY Growth
<1>2. \A s \in Stream : \/ seen'[s] = seen[s] /\ told'[s] = told[s]
                       \/ \E f \in Around : Sent(s, f)
  BY Sending
<1>3. /\ clock' \in {clock, clock + 1}
      /\ \/ draft' = draft
         \/ /\ Cancel /\ draft' = clock + 1 /\ writer \in {"idle", "saying"}
            /\ Around' = Around /\ UNCHANGED <<seen, told>>
  BY RunMoves
<1>4. /\ writer' \in {"idle", "saying"} => draft' = draft /\ writer \in {"idle", "saying"}
      /\ writer' \in {"cancelling", "cancelled"} =>
           \/ Cancel
           \/ writer \in {"cancelling", "cancelled"} /\ draft' = draft
      /\ job' = "fitting" => writer' = "idle"
      /\ job' = "abandoned" => draft' # 0
      /\ writer' = "completing" => row'.status \in Terminal
  <2> USE DEF Written, run, bus, sse
  <2>1. CASE Checkpoint \/ Say \/ StartJob \/ Report \/ JobDone \/ Deliver
    BY <1>0, <2>1 DEF Checkpoint, Say, StartJob, Report, JobDone, Deliver
  <2>2. ASSUME NEW end \in Terminal, Finish(end)
        PROVE /\ writer' = "completing" /\ row'.status \in Terminal /\ job' = "none"
    BY <1>0, <2>2 DEF Finish, Frame
  <2>3. CASE Announce \/ SayCancelled \/ CancelCommit \/ CancelUndone \/ Erase \/ Forget
    BY <1>0, <2>3 DEF Announce, SayCancelled, CancelCommit, CancelUndone, Erase, Forget
  <2>4. CASE Cancel
    BY <1>0, <2>4 DEF Cancel
  <2>5. CASE UNCHANGED <<row, draft, writer, job>>
    BY <1>0, <2>5
  <2>6. CASE Trim \/ UNCHANGED vars \/ \E s \in Stream : Open(s) \/ StreamStep(s) \/ Reconnect(s)
    BY <2>5, <2>6 DEF Trim, vars, Open, StreamStep, Initial, Greet, Join, Take, Reconnect
  <2> QED BY <2>1, <2>2, <2>3, <2>4, <2>6 DEF Next, RunStep, Terminal
<1>5. ASSUME writer' \in {"idle", "saying"}
      PROVE /\ draft' = 0 /\ \A f \in Around' : ~Ends(f)
            /\ \A s \in Stream : told'[s] \notin Terminal
  <2>1. /\ draft = 0 /\ draft' = draft /\ \A f \in Around : ~Ends(f)
        /\ \A s \in Stream : told[s] \notin Terminal
    BY <1>4, <1>5 DEF Written
  <2>2. ~Ends(n)
    BY <1>1, <1>5, <2>1 DEF Fresh, Ends, None, Terminal
  <2> QED BY <1>1, <1>2, <2>1, <2>2 DEF Ends, Sent
<1>6. ASSUME writer' \in {"cancelling", "cancelled"}
      PROVE /\ draft' # 0 /\ \A f \in Around' : f.stamp # draft'
            /\ \A s \in Stream : seen'[s] # draft'
  <2>1. CASE draft' = draft
    <3>1. /\ draft # 0 /\ \A f \in Around : f.stamp # draft
          /\ \A s \in Stream : seen[s] # draft
      <4>1. ~Cancel
        BY <1>0, <2>1 DEF Cancel
      <4> QED BY <1>4, <1>6, <4>1 DEF Written
    <3>2. n.stamp # draft
      BY <1>0, <1>1, <1>6, <3>1 DEF Fresh, None
    <3> QED BY <1>1, <1>2, <2>1, <3>1, <3>2 DEF Sent
  <2>2. CASE draft' # draft
    BY <1>0, <1>3, <2>2 DEF FrameSet
  <2> QED BY <2>1, <2>2
<1> QED BY <1>4, <1>5, <1>6 DEF Written

LEMMA RunningIsEarlierStep ==
  ASSUME Types, Written, Queues, RunningIsEarlier, [Next]_vars PROVE RunningIsEarlier'
<1>0. /\ clock \in Nat /\ draft \in Nat /\ draft <= clock
      /\ \A f \in Around : f \in FrameSet /\ f.stamp <= clock
  BY Typed, AroundTyped
<1>1. PICK n \in FrameSet : Around' \subseteq Around \cup {n} /\ Fresh(n)
  BY Growth
<1>2. ASSUME NEW f \in Around', NEW g \in Around', f.status = "running", Ends(g)
      PROVE f.stamp < g.stamp \/ (draft' # 0 /\ f.stamp > draft')
  <2>1. CASE draft' # draft
    <3>1. Around' = Around /\ writer \in {"idle", "saying"}
      BY <2>1, RunMoves
    <3> QED BY <1>2, <3>1 DEF Written
  <2>2. CASE draft' = draft /\ f \in Around /\ g \in Around
    BY <1>2, <2>2 DEF RunningIsEarlier
  <2>3. CASE draft' = draft /\ f \notin Around
    <3>1. f = n
      BY <1>1, <2>3
    <3>2. f.stamp = clock + 1 /\ (draft # 0 \/ writer \in {"idle", "saying"})
      BY <1>1, <1>2, <2>3, <3>1 DEF Fresh, None, Terminal, Frame
    <3>3. g # f
      BY <1>2 DEF Ends, Terminal
    <3>4. g \in Around
      BY <1>1, <3>1, <3>3
    <3>5. draft # 0
      BY <1>2, <3>2, <3>4 DEF Written
    <3> QED BY <1>0, <2>3, <3>2, <3>5
  <2>4. CASE draft' = draft /\ f \in Around /\ g \notin Around
    <3>1. g = n
      BY <1>1, <2>4
    <3>2. CASE g.stamp = clock + 1
      BY <1>0, <2>4, <3>2 DEF FrameSet
    <3>3. CASE g.stamp # clock + 1
      <4>1. g = Frame("failed", draft) /\ writer = "cancelled"
        BY <1>1, <1>2, <2>4, <3>1, <3>3 DEF Fresh, None, Terminal, Ends
      <4>2. draft # 0 /\ f.stamp # draft /\ g.stamp = draft
        BY <2>4, <4>1 DEF Written, Frame
      <4> QED BY <1>0, <2>4, <4>2 DEF FrameSet
    <3> QED BY <3>2, <3>3
  <2> QED BY <2>1, <2>2, <2>3, <2>4
<1> QED BY <1>2 DEF RunningIsEarlier

LEMMA OutcomeIsAheadStep ==
  ASSUME Types, Written, Queues, RunningIsEarlier, OutcomeIsAhead, [Next]_vars
  PROVE OutcomeIsAhead'
<1>0. /\ clock \in Nat /\ draft \in Nat /\ draft <= clock
      /\ \A f \in Around : f \in FrameSet /\ f.stamp <= clock
      /\ \A s \in Stream : seen[s] \in Nat /\ seen[s] <= clock
  BY Typed, AroundTyped
<1>1. PICK n \in FrameSet : Around' \subseteq Around \cup {n} /\ Fresh(n)
  BY Growth
<1>2. ASSUME NEW s \in Stream, NEW g \in Around', Ends(g)
      PROVE told'[s] \in Terminal \/ (draft' # 0 /\ seen'[s] > draft') \/ seen'[s] < g.stamp
  <2>1. CASE draft' # draft
    <3>1. Around' = Around /\ writer \in {"idle", "saying"}
      BY <2>1, RunMoves
    <3> QED BY <1>2, <3>1 DEF Written
  <2>2. CASE draft' = draft /\ seen'[s] = seen[s] /\ told'[s] = told[s]
    <3>1. CASE g \in Around
      BY <1>2, <2>2, <3>1 DEF OutcomeIsAhead, Overtaken
    <3>2. CASE g \notin Around
      <4>1. g = n
        BY <1>1, <3>2
      <4>2. CASE g.stamp = clock + 1
        BY <1>0, <2>2, <4>2
      <4>3. CASE g.stamp # clock + 1
        <5>1. g = Frame("failed", draft) /\ writer = "cancelled"
          BY <1>1, <1>2, <3>2, <4>1, <4>3 DEF Fresh, None, Terminal, Ends
        <5>2. draft # 0 /\ seen[s] # draft /\ g.stamp = draft
          BY <5>1 DEF Written, Frame
        <5> QED BY <1>0, <2>2, <5>2
      <4> QED BY <4>2, <4>3
    <3> QED BY <3>1, <3>2
  <2>3. ASSUME NEW f \in Around, Sent(s, f), draft' = draft
        PROVE told'[s] \in Terminal \/ (draft' # 0 /\ seen'[s] > draft') \/ seen'[s] < g.stamp
    <3>1. /\ seen'[s] = f.stamp /\ told'[s] = f.status /\ f.status \in Live
          /\ clock' = clock /\ writer' = writer
      BY <2>3 DEF Sent
    <3>2. g \in Around
      BY <1>0, <1>1, <1>2, <3>1 DEF Fresh, Ends, None, Terminal
    <3>3. CASE f.status = "running"
      BY <1>2, <2>3, <3>1, <3>2, <3>3 DEF RunningIsEarlier
    <3>4. CASE f.status \in Terminal
      BY <3>1, <3>4
    <3> QED BY <3>1, <3>3, <3>4 DEF Live
  <2> QED BY <2>1, <2>2, <2>3, Sending
<1> QED BY <1>2 DEF OutcomeIsAhead, Overtaken

\* A stream ends with a frame that says how the run did, sent or seen before.
LEMMA EndingShows ==
  ASSUME Types, OutcomeIsAhead, NEW s \in Stream, NEW f \in Around, Ends(f), Send(s, f),
         UNCHANGED draft
  PROVE told'[s] \in Terminal \/ (draft' # 0 /\ seen'[s] > draft')
<1>0. /\ seen \in [Stream -> Nat] /\ told \in [Stream -> {"none"} \cup Live]
      /\ f \in FrameSet
  BY Typed, AroundTyped
<1>1. CASE f.stamp > seen[s]
  BY <1>0, <1>1 DEF Send, Ends
<1>2. CASE ~(f.stamp > seen[s])
  <2>1. UNCHANGED <<seen, told>>
    BY <1>2 DEF Send
  <2>2. told[s] \in Terminal \/ Overtaken(s) \/ seen[s] < f.stamp
    BY DEF OutcomeIsAhead
  <2> QED BY <1>0, <1>2, <2>1, <2>2 DEF Overtaken, FrameSet
<1> QED BY <1>1, <1>2

LEMMA OutcomeIsShownStep ==
  ASSUME Types, Written, OutcomeIsAhead, OutcomeIsShown, [Next]_vars PROVE OutcomeIsShown'
<1> DEFINE Shown(s) == told'[s] \in Terminal \/ (draft' # 0 /\ seen'[s] > draft')
<1>0. /\ phase \in [Stream -> Phases] /\ latest \in Around /\ latest.status \in {"none"} \cup Live
      /\ seen \in [Stream -> Nat] /\ told \in [Stream -> {"none"} \cup Live]
  BY Typed, Members
<1> USE DEF run, bus, sse
<1>1. ASSUME NEW s \in Stream, phase'[s] = "ended" PROVE Shown(s)
  <2>1. CASE draft' # draft
    <3>1. phase'[s] = phase[s] /\ writer \in {"idle", "saying"} /\ told'[s] = told[s]
      BY <2>1, RunMoves
    <3>2. told[s] \in Terminal \/ Overtaken(s)
      BY <1>1, <3>1 DEF OutcomeIsShown
    <3> QED BY <3>1, <3>2 DEF Written, Overtaken
  <2>2. CASE draft' = draft /\ phase'[s] = phase[s] /\ seen'[s] = seen[s] /\ told'[s] = told[s]
    BY <1>1, <2>2 DEF OutcomeIsShown, Overtaken
  <2>3. CASE draft' = draft /\ (RunStep \/ Trim \/ UNCHANGED vars)
    <3>1. UNCHANGED <<phase, seen, told>>
      BY <2>3 DEF RunStep, Checkpoint, Say, StartJob, Report, JobDone, Deliver, Finish, Announce,
        Cancel, SayCancelled, CancelCommit, CancelUndone, Erase, Forget, Trim, vars
    <3> QED BY <2>2, <2>3, <3>1
  <2>4. ASSUME NEW z \in Stream, Open(z) \/ Initial(z) \/ Reconnect(z), draft' = draft
        PROVE Shown(s)
    <3>1. /\ UNCHANGED <<seen, told>>
          /\ \E p \in {"gone", "read", "greeting", "closed"} : phase' = [phase EXCEPT ![z] = p]
      BY <2>4 DEF Open, Initial, Reconnect, Goes
    <3>2. phase'[s] = phase[s]
      BY <1>0, <1>1, <3>1
    <3> QED BY <2>2, <2>4, <3>1, <3>2
  <2>5. ASSUME NEW z \in Stream, z # s, Greet(z) \/ Join(z) \/ Take(z), draft' = draft
        PROVE Shown(s)
    <3>1. phase'[s] = phase[s]
      BY <1>0, <2>5 DEF Greet, Join, Take, Goes
    <3>2. seen'[s] = seen[s] /\ told'[s] = told[s]
      BY <1>0, <2>5 DEF Greet, Join, Take, Send
    <3> QED BY <2>2, <2>5, <3>1, <3>2
  <2>6. CASE Greet(s)
    <3>1. held[s] \in Around /\ Ends(held[s]) /\ Send(s, held[s]) /\ UNCHANGED draft
      BY <1>0, <1>1, <2>6, Members DEF Greet, Goes, Ends
    <3> QED BY <3>1, EndingShows
  <2>7. CASE Join(s)
    <3>1. Ends(latest) /\ Send(s, latest) /\ UNCHANGED draft
      BY <1>0, <1>1, <2>7 DEF Join, Goes, Ends, None, Terminal
    <3> QED BY <1>0, <3>1, EndingShows
  <2>8. CASE Take(s)
    <3>1. /\ queue[s][1] \in Around /\ Ends(queue[s][1]) /\ Send(s, queue[s][1])
          /\ UNCHANGED draft
      BY <1>0, <1>1, <2>8, NextFrame DEF Take, Goes, Ends
    <3> QED BY <3>1, EndingShows
  <2> QED BY <2>1, <2>3, <2>4, <2>5, <2>6, <2>7, <2>8 DEF Next, StreamStep
<1> QED BY <1>1 DEF OutcomeIsShown, Overtaken

\* Once the row or the bus says how the run ended, one of them goes on to, as
\* long as the bus drops nothing.
LEMMA SettledStays ==
  ASSUME Types, Written, Queues, [Next]_vars, Settled, ~dropped'
  PROVE Settled' \/ writer \in {"idle", "saying"}
<1>0. latest \in FrameSet /\ row \in FrameSet
  BY Typed
<1> USE DEF run, bus, sse, Settled
<1>1. ASSUME latest'.status = latest.status \/ latest.status \notin Terminal,
             row'.status = row.status
      PROVE Settled'
  BY <1>1
<1>2. ASSUME NEW f, Publish(f), UNCHANGED row PROVE Settled'
  <2>1. latest' = latest \/ latest.status \notin Terminal
    BY <1>2 DEF Publish, Accepts
  <2> QED BY <1>1, <1>2, <2>1
<1>3. CASE Say \/ Deliver \/ Announce \/ SayCancelled
  BY <1>2, <1>3 DEF Say, Deliver, Announce, SayCancelled
<1>4. CASE Checkpoint \/ Finish("completed") \/ Finish("failed")
  BY <1>4 DEF Checkpoint, Finish
<1>5. CASE CancelCommit \/ Erase
  BY <1>0, <1>5 DEF CancelCommit, Erase, Frame, Terminal, FrameSet
<1>6. CASE Forget \/ Trim
  <2>1. latest.status \notin Terminal /\ UNCHANGED row
    BY <1>6 DEF Forget, Trim
  <2> QED BY <1>1, <2>1
<1>7. CASE UNCHANGED <<latest, row>>
  BY <1>7
<1>8. CASE StartJob \/ Report \/ JobDone \/ Cancel \/ CancelUndone \/ UNCHANGED vars
  BY <1>7, <1>8 DEF StartJob, Report, JobDone, Cancel, CancelUndone, vars
<1>9. ASSUME NEW s \in Stream, Open(s) \/ Initial(s) \/ Join(s) \/ Take(s) \/ Reconnect(s)
      PROVE Settled'
  BY <1>7, <1>9 DEF Open, Initial, Join, Take, Reconnect
<1>10. ASSUME NEW s \in Stream, Greet(s) PROVE Settled'
  BY <1>2, <1>7, <1>10 DEF Greet
<1> QED BY <1>3, <1>4, <1>5, <1>6, <1>8, <1>9, <1>10 DEF Next, RunStep, StreamStep

LEMMA DroppedStays ==
  ASSUME Types, [Next]_vars, ~dropped'
  PROVE ~dropped /\ (latest.status \in Terminal => latest'.status \in Terminal)
<1> USE DEF run, bus, sse
<1>1. dropped \in BOOLEAN
  BY Typed
<1>2. ASSUME NEW f, Publish(f)
      PROVE dropped' = dropped /\ (latest' = latest \/ latest.status \notin Terminal)
  BY <1>2 DEF Publish, Accepts
<1>3. CASE Say \/ Deliver \/ Announce \/ SayCancelled
  BY <1>2, <1>3 DEF Say, Deliver, Announce, SayCancelled
<1>4. CASE Forget \/ Trim
  BY <1>1, <1>4 DEF Forget, Trim
<1>5. CASE UNCHANGED <<latest, dropped>>
  BY <1>5
<1>6. CASE \/ Checkpoint \/ StartJob \/ Report \/ JobDone \/ Finish("completed") \/ Finish("failed")
           \/ Cancel \/ CancelCommit \/ CancelUndone \/ Erase \/ UNCHANGED vars
  BY <1>5, <1>6 DEF Checkpoint, StartJob, Report, JobDone, Finish, Cancel, CancelCommit,
    CancelUndone, Erase, vars
<1>7. ASSUME NEW s \in Stream, Open(s) \/ Initial(s) \/ Join(s) \/ Take(s) \/ Reconnect(s)
      PROVE UNCHANGED <<latest, dropped>>
  BY <1>7 DEF Open, Initial, Join, Take, Reconnect
<1>8. ASSUME NEW s \in Stream, Greet(s)
      PROVE dropped' = dropped /\ (latest' = latest \/ latest.status \notin Terminal)
  BY <1>2, <1>8 DEF Greet
<1> QED BY <1>3, <1>4, <1>5, <1>6, <1>7, <1>8 DEF Next, RunStep, StreamStep

LEMMA OutcomeIsKeptStep ==
  ASSUME Types, Written, Queues, OutcomeIsKept, [Next]_vars PROVE OutcomeIsKept'
<1> SUFFICES ASSUME ~dropped' PROVE OutcomeIsKept'
  BY DEF OutcomeIsKept
<1>0. /\ ~dropped
      /\ latest.status \in Terminal => latest'.status \in Terminal
      /\ phase \in [Stream -> Phases] /\ held \in [Stream -> FrameSet]
      /\ seen \in [Stream -> Nat] /\ told \in [Stream -> {"none"} \cup Live]
      /\ row.status \in {"absent"} \cup Live
  BY DroppedStays, Typed
<1>1. /\ \A f \in Around : Ends(f) => Settled
      /\ \A s \in Stream : told[s] \in Terminal =>
           /\ Settled /\ phase[s] \notin {"joining", "waiting"}
           /\ phase[s] = "read" => Ends(held[s]) \/ latest.status \in Terminal
           /\ phase[s] = "greeting" => Ends(held[s])
  BY <1>0 DEF OutcomeIsKept
<1>2. ASSUME NEW f \in Around, Ends(f) PROVE Settled'
  <2>1. Settled /\ writer \notin {"idle", "saying"}
    BY <1>1, <1>2 DEF Written
  <2> QED BY <2>1, SettledStays
<1>3. ASSUME NEW f \in Around', Ends(f) PROVE Settled'
  <2>1. PICK n \in FrameSet : Around' \subseteq Around \cup {n} /\ Fresh(n)
    BY Growth
  <2>2. CASE f \notin Around
    BY <1>3, <2>1, <2>2 DEF Fresh, Ends, None, Terminal
  <2> QED BY <1>2, <1>3, <2>2
<1>4. ASSUME NEW s \in Stream, told'[s] \in Terminal PROVE Settled'
  <2>1. CASE told'[s] = told[s]
    <3>1. Settled /\ writer \notin {"idle", "saying"}
      BY <1>1, <1>4, <2>1 DEF Written
    <3> QED BY <3>1, SettledStays
  <2>2. ASSUME NEW f \in Around, Sent(s, f) PROVE Settled'
    BY <1>2, <1>4, <2>2 DEF Sent, Ends
  <2> QED BY <2>1, <2>2, Sending
<1>5. ASSUME NEW s \in Stream, told'[s] \in Terminal
      PROVE /\ phase'[s] \notin {"joining", "waiting"}
            /\ phase'[s] = "read" => Ends(held'[s]) \/ latest'.status \in Terminal
            /\ phase'[s] = "greeting" => Ends(held'[s])
  <2> USE DEF run, bus, sse, Goes
  <2>1. CASE UNCHANGED <<phase[s], held[s], told[s]>>
    BY <1>0, <1>1, <1>5, <2>1 DEF Ends
  <2>2. CASE RunStep \/ Trim \/ UNCHANGED vars
    <3>1. UNCHANGED <<phase, held, told>>
      BY <2>2 DEF RunStep, Checkpoint, Say, StartJob, Report, JobDone, Deliver, Finish, Announce,
        Cancel, SayCancelled, CancelCommit, CancelUndone, Erase, Forget, Trim, vars
    <3> QED BY <2>1, <3>1
  <2>3. ASSUME NEW z \in Stream, z # s, Open(z) \/ StreamStep(z) \/ Reconnect(z)
        PROVE UNCHANGED <<phase[s], held[s], told[s]>>
    BY <1>0, <2>3 DEF Open, StreamStep, Initial, Greet, Join, Take, Reconnect, Send
  <2>4. CASE Open(s)
    <3>1. /\ told[s] \in Terminal /\ held'[s] = row /\ phase'[s] \in {"gone", "read"}
          /\ phase'[s] = "read" => row.status # "absent" /\ latest' = latest
      BY <1>0, <1>5, <2>4 DEF Open
    <3>2. Settled
      BY <1>1, <3>1
    <3> QED BY <3>1, <3>2 DEF Settled, Ends
  <2>5. CASE Initial(s)
    <3>1. told[s] \in Terminal /\ phase[s] = "read" /\ phase'[s] = "greeting"
      BY <1>0, <1>5, <2>5 DEF Initial
    <3>2. Ends(held[s]) \/ latest.status \in Terminal
      BY <1>1, <3>1
    <3>3. held'[s] = IF held[s].status \in Terminal THEN held[s]
                     ELSE IF latest.status \in Terminal THEN latest ELSE Later(held[s], latest)
      BY <1>0, <2>5 DEF Initial
    <3> QED BY <3>1, <3>2, <3>3 DEF Ends
  <2>6. CASE Greet(s)
    <3>1. CASE held[s].status \in Terminal
      BY <1>0, <2>6, <3>1 DEF Greet
    <3>2. CASE held[s].status \notin Terminal
      <4>1. told'[s] = told[s]
        BY <1>0, <1>5, <2>6, <3>2 DEF Greet, Send
      <4> QED BY <1>1, <1>5, <2>6, <3>2, <4>1 DEF Greet, Ends
    <3> QED BY <3>1, <3>2
  <2>7. CASE Join(s)
    <3>1. CASE latest.status \in Terminal
      BY <1>0, <2>7, <3>1 DEF Join
    <3>2. CASE latest.status \notin Terminal
      <4>1. told'[s] = told[s]
        BY <1>0, <1>5, <2>7, <3>2 DEF Join, Send
      <4> QED BY <1>1, <1>5, <2>7, <4>1 DEF Join
    <3> QED BY <3>1, <3>2
  <2>8. CASE Take(s)
    <3>1. CASE queue[s][1].status \in Terminal
      BY <1>0, <2>8, <3>1 DEF Take
    <3>2. CASE queue[s][1].status \notin Terminal
      <4>1. told'[s] = told[s]
        BY <1>0, <1>5, <2>8, <3>2 DEF Take, Send
      <4> QED BY <1>1, <1>5, <2>8, <4>1 DEF Take
    <3> QED BY <3>1, <3>2
  <2>9. CASE Reconnect(s)
    BY <1>0, <2>9 DEF Reconnect
  <2> QED BY <2>1, <2>2, <2>3, <2>4, <2>5, <2>6, <2>7, <2>8, <2>9 DEF Next, StreamStep
<1> QED BY <1>3, <1>4, <1>5 DEF OutcomeIsKept

-----------------------------------------------------------------------------
(* Types. *)

\* The frames of the bus and of its queues, after a publication.
BusTypes ==
  /\ latest \in [status : {"none", "running"} \cup Terminal, stamp : 0..clock]
  /\ latest.status = "none" => latest = None
  /\ dropped \in BOOLEAN /\ subs \subseteq Stream
  /\ queue \in [Stream -> Seq(FrameSet)]
  /\ \A s \in Stream : Len(queue[s]) <= QueueSize
  /\ \A s \in Stream : \A f \in Elements(queue[s]) : f.status \in Live

LEMMA PublishTypes ==
  ASSUME Types, Queues, NEW f \in FrameSet, f.status \in Live,
         f.status = "running" \/ f.stamp > latest.stamp,
         f.stamp <= clock', clock' \in {clock, clock + 1}, Publish(f)
  PROVE BusTypes' /\ subs' = subs
<1>1. /\ latest' \in {latest, f} /\ subs' = subs /\ dropped' = dropped
      /\ queue' \in [Stream -> Seq(FrameSet)]
      /\ \A s \in Stream : /\ Len(queue'[s]) <= QueueSize
                           /\ Elements(queue'[s]) \subseteq Elements(queue[s]) \cup {f}
  BY PublishStep
<1>2. /\ latest \in [status : {"none", "running"} \cup Terminal, stamp : 0..clock]
      /\ latest.status = "none" => latest = None
      /\ dropped \in BOOLEAN /\ subs \subseteq Stream /\ clock \in Nat
      /\ \A s \in Stream : \A g \in Elements(queue[s]) : g.status \in Live
  BY DEF Types, TypeOK
<1>3. /\ latest' \in [status : {"none", "running"} \cup Terminal, stamp : 0..clock']
      /\ latest'.status = "none" => latest' = None
  <2>1. CASE latest' = latest
    BY <1>2, <2>1
  <2>2. CASE latest' = f
    BY <1>2, <2>2 DEF FrameSet, Live, Terminal
  <2> QED BY <1>1, <2>1, <2>2
<1>4. \A s \in Stream : \A g \in Elements(queue'[s]) : g.status \in Live
  BY <1>1, <1>2
<1> QED BY <1>1, <1>2, <1>3, <1>4 DEF BusTypes

\* What a step does not touch keeps its type as the clock goes on.
LEMMA SameBus ==
  ASSUME Types, UNCHANGED bus, clock' \in {clock, clock + 1} PROVE BusTypes'
<1>1. /\ latest \in [status : {"none", "running"} \cup Terminal, stamp : 0..clock]
      /\ latest.status = "none" => latest = None
      /\ dropped \in BOOLEAN /\ subs \subseteq Stream /\ clock \in Nat
      /\ queue \in [Stream -> Seq(FrameSet)]
      /\ \A s \in Stream : Len(queue[s]) <= QueueSize
      /\ \A s \in Stream : \A g \in Elements(queue[s]) : g.status \in Live
  BY DEF Types, TypeOK
<1>2. UNCHANGED <<latest, dropped, subs, queue>>
  BY DEF bus
<1> QED BY <1>1, <1>2 DEF BusTypes

RunTypes ==
  /\ clock \in Nat
  /\ row \in [status : {"running", "absent"} \cup Terminal, stamp : 0..clock]
  /\ draft \in 0..clock /\ writer \in Writers /\ job \in {"none", "fitting", "abandoned"}

ChannelTypes ==
  /\ channel \in Seq(FrameSet) /\ Len(channel) <= ChannelSize
  /\ \A f \in Elements(channel) : f.status = "running"

StreamTypes ==
  /\ phase \in [Stream -> Phases] /\ held \in [Stream -> FrameSet]
  /\ seen \in [Stream -> 0..clock] /\ told \in [Stream -> {"none", "running"} \cup Terminal]
  /\ \A s \in Stream : phase[s] \in {"read", "greeting"} => held[s].status \in Live
  /\ \A s \in subs : phase[s] = "waiting"

\* a stamp is one that the clock has given out
StampsRise == \A f \in Around' : f.stamp <= clock' /\ (f.status \in Live => f.stamp > 0)

LEMMA TypesInParts ==
  /\ Types => BusTypes /\ RunTypes /\ ChannelTypes /\ StreamTypes
  /\ BusTypes' /\ RunTypes' /\ ChannelTypes' /\ StreamTypes' /\ StampsRise => Types'
<1>1. Types => BusTypes /\ RunTypes /\ ChannelTypes /\ StreamTypes
  BY DEF Types, TypeOK, BusTypes, RunTypes, ChannelTypes, StreamTypes
<1>2. BusTypes' /\ RunTypes' /\ ChannelTypes' /\ StreamTypes' /\ StampsRise => Types'
  BY DEF StampsRise, Types, TypeOK, BusTypes, RunTypes, ChannelTypes, StreamTypes
<1> QED BY <1>1, <1>2

LEMMA AroundIsPast ==
  ASSUME Types, Written, Queues, [Next]_vars PROVE StampsRise
<1>0. /\ clock \in Nat /\ draft \in Nat /\ draft <= clock
      /\ \A f \in Around : f \in FrameSet /\ f.stamp <= clock /\ (f.status \in Live => f.stamp > 0)
  BY Typed, AroundTyped DEF Types
<1>1. PICK n \in FrameSet : Around' \subseteq Around \cup {n} /\ Fresh(n)
  BY Growth
<1>2. clock' \in {clock, clock + 1}
  BY RunMoves
<1>3. writer = "cancelled" => draft > 0
  BY <1>0 DEF Written
<1>4. n.stamp <= clock' /\ (n.status \in Live => n.stamp > 0)
  <2>1. CASE n \in Around
    BY <1>0, <1>2, <2>1 DEF FrameSet
  <2>2. CASE n.stamp = clock + 1 /\ clock' = clock + 1
    BY <1>0, <2>2
  <2>3. CASE n = Frame("failed", draft) /\ writer = "cancelled"
    BY <1>0, <1>2, <1>3, <2>3 DEF Frame
  <2>4. CASE n = None \/ (n.status = "absent" /\ n.stamp <= clock)
    BY <1>0, <1>2, <2>4 DEF None, Live, Terminal, FrameSet
  <2> QED BY <1>1, <2>1, <2>2, <2>3, <2>4 DEF Fresh
<1>5. \A f \in Around : f.stamp <= clock' /\ (f.status \in Live => f.stamp > 0)
  BY <1>0, <1>2 DEF FrameSet
<1> QED BY <1>1, <1>4, <1>5 DEF StampsRise

LEMMA RunTypesStep ==
  ASSUME Types, Written, [Next]_vars PROVE RunTypes'
<1>0. RunTypes
  BY TypesInParts
<1> USE DEF RunTypes, run, Writers
<1>1. CASE UNCHANGED <<clock, row, draft, writer, job>>
  BY <1>0, <1>1
<1>2. CASE Checkpoint \/ Say \/ StartJob \/ Report \/ JobDone \/ Deliver
  BY <1>0, <1>2 DEF Checkpoint, Say, StartJob, Report, JobDone, Deliver, Frame
<1>3. ASSUME NEW end \in Terminal, Finish(end) PROVE RunTypes'
  BY <1>0, <1>3 DEF Finish, Frame
<1>4. CASE Announce \/ SayCancelled \/ CancelUndone \/ Erase \/ Forget
  BY <1>0, <1>4 DEF Announce, SayCancelled, CancelUndone, Erase, Forget
<1>5. CASE Cancel
  BY <1>0, <1>5 DEF Cancel
<1>6. CASE CancelCommit
  BY <1>0, <1>6 DEF CancelCommit, Frame, Terminal
<1>7. CASE Trim \/ UNCHANGED vars \/ \E s \in Stream : Open(s) \/ StreamStep(s) \/ Reconnect(s)
  BY <1>1, <1>7 DEF Trim, vars, Open, StreamStep, Initial, Greet, Join, Take, Reconnect
<1> QED BY <1>2, <1>3, <1>4, <1>5, <1>6, <1>7 DEF Next, RunStep, Terminal

LEMMA ChannelTypesStep ==
  ASSUME Types, [Next]_vars PROVE ChannelTypes'
<1>0. ChannelTypes /\ clock \in Nat
  BY TypesInParts, Typed
<1>1. CASE UNCHANGED channel
  BY <1>0, <1>1 DEF ChannelTypes
<1>2. CASE Report
  <2>1. CASE channel' = channel
    BY <1>1, <2>1
  <2>2. CASE channel' # channel
    <3> DEFINE n == Frame("running", clock + 1)
    <3>1. channel' = Append(channel, n) /\ Len(channel) < ChannelSize
      BY <1>2, <2>2 DEF Report
    <3>2. n \in FrameSet /\ n.status = "running"
      BY <1>0 DEF Frame, FrameSet, Statuses
    <3> HIDE DEF n
    <3>3. /\ channel' \in Seq(FrameSet) /\ Len(channel') = Len(channel) + 1
          /\ Elements(channel') \subseteq Elements(channel) \cup {n}
      BY <1>0, <3>1, <3>2, ElementsOfAppend DEF ChannelTypes
    <3>4. Len(channel') <= ChannelSize
      <4>1. Len(channel) \in Nat /\ ChannelSize \in Nat
        BY <1>0, ProgressBusAssumption DEF ChannelTypes
      <4> QED BY <3>1, <3>3, <4>1
    <3> QED BY <1>0, <3>2, <3>3, <3>4 DEF ChannelTypes
  <2> QED BY <2>1, <2>2
<1>3. CASE Deliver
  <2>1. channel # <<>> /\ channel' = Tail(channel)
    BY <1>3 DEF Deliver
  <2>2. /\ Tail(channel) \in Seq(FrameSet) /\ Len(Tail(channel)) = Len(channel) - 1
        /\ Elements(Tail(channel)) \subseteq Elements(channel)
    BY <2>1, NextReport
  <2>3. Len(channel) \in Nat /\ ChannelSize \in Nat /\ Len(channel) <= ChannelSize
    BY <1>0, ProgressBusAssumption DEF ChannelTypes
  <2>4. Len(channel') <= ChannelSize
    BY <2>1, <2>2, <2>3
  <2> QED BY <1>0, <2>1, <2>2, <2>4 DEF ChannelTypes
<1>4. CASE RunStep /\ ~Report /\ ~Deliver
  BY <1>1, <1>4 DEF RunStep, Checkpoint, Say, StartJob, JobDone, Finish, Announce, Cancel,
    SayCancelled, CancelCommit, CancelUndone, Erase, Forget
<1>5. CASE Trim \/ UNCHANGED vars \/ \E s \in Stream : Open(s) \/ StreamStep(s) \/ Reconnect(s)
  BY <1>1, <1>5 DEF Trim, vars, Open, StreamStep, Initial, Greet, Join, Take, Reconnect
<1> QED BY <1>2, <1>3, <1>4, <1>5 DEF Next

LEMMA BusTypesStep ==
  ASSUME Types, Written, Queues, [Next]_vars PROVE BusTypes'
<1>0. /\ clock' \in {clock, clock + 1} /\ BusTypes /\ clock \in Nat
      /\ latest \in FrameSet /\ latest.stamp <= clock
  BY RunMoves, TypesInParts, Typed
<1> USE DEF run, bus, sse
<1>1. CASE UNCHANGED bus
  BY <1>0, <1>1, SameBus
<1>2. ASSUME NEW status \in Live, Publish(Frame(status, clock')), clock' = clock + 1
      PROVE BusTypes'
  <2> DEFINE n == Frame(status, clock + 1)
  <2>1. /\ n \in FrameSet /\ n.status = status /\ n.stamp = clock + 1
        /\ n.stamp > latest.stamp /\ Publish(n)
    BY <1>0, <1>2 DEF Frame, FrameSet, Statuses, Live
  <2> HIDE DEF n
  <2>2. n.stamp <= clock'
    BY <1>0, <1>2, <2>1
  <2> QED BY <1>0, <1>2, <2>1, <2>2, PublishTypes
<1>3. CASE Say
  BY <1>2, <1>3 DEF Say, Live
<1>4. CASE Announce
  BY <1>2, <1>4 DEF Announce, Written, Live
<1>5. CASE SayCancelled
  BY <1>2, <1>5 DEF SayCancelled, Live, Terminal
<1>6. ASSUME NEW f \in Around, f.status = "running", Publish(f), clock' = clock
      PROVE BusTypes' /\ subs' = subs
  <2>1. f \in FrameSet /\ f.stamp <= clock' /\ f.status \in Live
    BY <1>6, AroundTyped DEF Live
  <2> QED BY <1>0, <1>6, <2>1, PublishTypes
<1>7. CASE Deliver
  BY <1>6, <1>7, NextReport DEF Deliver
<1>8. CASE Forget \/ Trim
  <2>1. /\ latest' = None /\ clock' = clock /\ queue' = queue
        /\ dropped' \in BOOLEAN /\ subs' \subseteq Stream
    BY <1>0, <1>8 DEF Forget, Trim, BusTypes
  <2>2. None \in [status : {"none", "running"} \cup Terminal, stamp : 0..clock]
    BY <1>0 DEF None
  <2> QED BY <1>0, <2>1, <2>2 DEF BusTypes
<1>9. CASE \/ Checkpoint \/ StartJob \/ Report \/ JobDone \/ Finish("completed") \/ Finish("failed")
           \/ Cancel \/ CancelCommit \/ CancelUndone \/ Erase \/ UNCHANGED vars
  BY <1>1, <1>9 DEF Checkpoint, StartJob, Report, JobDone, Finish, Cancel, CancelCommit,
    CancelUndone, Erase, vars
<1>10. ASSUME NEW s \in Stream, Open(s) \/ Initial(s) PROVE BusTypes'
  BY <1>1, <1>10 DEF Open, Initial
<1>11. ASSUME NEW s \in Stream, Greet(s) PROVE BusTypes'
  <2>1. CASE held[s].status \in Terminal
    BY <1>1, <1>11, <2>1 DEF Greet
  <2>2. CASE held[s].status \notin Terminal
    <3>1. held[s] \in Around /\ held[s].status = "running"
      BY <1>11, <2>2, Members DEF Greet, Types, Live
    <3> QED BY <1>6, <1>11, <2>2, <3>1 DEF Greet
  <2> QED BY <2>1, <2>2
<1>12. ASSUME NEW s \in Stream, NEW q \in Seq(FrameSet), queue' = [queue EXCEPT ![s] = q],
              Len(q) <= QueueSize, \A f \in Elements(q) : f.status \in Live,
              UNCHANGED <<clock, latest, dropped>>, subs' \subseteq Stream
       PROVE BusTypes'
  <2>1. queue' \in [Stream -> Seq(FrameSet)]
    BY <1>0, <1>12 DEF BusTypes
  <2>2. ASSUME NEW z \in Stream
        PROVE Len(queue'[z]) <= QueueSize /\ \A f \in Elements(queue'[z]) : f.status \in Live
    <3>1. CASE z = s
      BY <1>0, <1>12, <3>1 DEF BusTypes
    <3>2. CASE z # s
      BY <1>0, <1>12, <3>2 DEF BusTypes
    <3> QED BY <3>1, <3>2
  <2>3. UNCHANGED <<clock, latest, dropped>> /\ subs' \subseteq Stream
    BY <1>12
  <2> QED BY <1>0, <2>1, <2>2, <2>3 DEF BusTypes
<1>13. ASSUME NEW s \in Stream, Join(s) \/ Reconnect(s) PROVE BusTypes'
  <2>1. /\ queue' = [queue EXCEPT ![s] = <<>>] /\ UNCHANGED <<clock, latest, dropped>>
        /\ subs' \subseteq Stream
    BY <1>0, <1>13 DEF Join, Reconnect, BusTypes
  <2>2. Len(<<>>) <= QueueSize
    BY NothingInTheEmpty, ProgressBusAssumption
  <2> QED BY <1>12, <2>1, <2>2, NothingInTheEmpty
<1>14. ASSUME NEW s \in Stream, Take(s) PROVE BusTypes'
  <2>1. /\ queue' = [queue EXCEPT ![s] = Tail(queue[s])] /\ UNCHANGED <<clock, latest, dropped>>
        /\ subs' \subseteq Stream /\ queue[s] # <<>>
    BY <1>0, <1>14 DEF Take, BusTypes
  <2>2. /\ Tail(queue[s]) \in Seq(FrameSet) /\ Len(Tail(queue[s])) <= QueueSize
        /\ Elements(Tail(queue[s])) \subseteq Elements(queue[s])
    BY <2>1, NextFrame
  <2>3. \A f \in Elements(Tail(queue[s])) : f.status \in Live
    BY <1>0, <2>2 DEF BusTypes
  <2> QED BY <1>12, <2>1, <2>2, <2>3
<1> QED BY <1>3, <1>4, <1>5, <1>7, <1>8, <1>9, <1>10, <1>11, <1>13, <1>14
        DEF Next, RunStep, StreamStep

LEMMA StreamTypesStep ==
  ASSUME Types, Written, Queues, [Next]_vars PROVE StreamTypes'
<1>0. /\ StreamTypes /\ clock \in Nat /\ clock' \in {clock, clock + 1} /\ subs \subseteq Stream
      /\ latest \in FrameSet /\ latest.stamp <= clock /\ row \in FrameSet
      /\ latest.status \in {"none"} \cup Live /\ row.status \in {"absent"} \cup Live
      /\ latest.status = "none" => latest = None
  BY RunMoves, TypesInParts, Typed DEF Types
<1>1. /\ seen' \in [Stream -> 0..clock'] /\ told' \in [Stream -> {"none", "running"} \cup Terminal]
  <2>1. seen \in [Stream -> 0..clock'] /\ told \in [Stream -> {"none", "running"} \cup Terminal]
    BY <1>0 DEF StreamTypes
  <2>2. ASSUME NEW s \in Stream, NEW f \in Around, f.status \in Live, Send(s, f)
        PROVE /\ seen' \in [Stream -> 0..clock']
              /\ told' \in [Stream -> {"none", "running"} \cup Terminal]
    <3>1. f.stamp \in 0..clock'
      BY <1>0, AroundTyped DEF FrameSet
    <3> QED BY <2>1, <2>2, <3>1 DEF Send, Live
  <2>3. CASE UNCHANGED <<seen, told>>
    BY <2>1, <2>3
  <2>4. CASE RunStep \/ Trim \/ UNCHANGED vars
    BY <2>3, <2>4 DEF RunStep, Checkpoint, Say, StartJob, Report, JobDone, Deliver, Finish, Announce,
      Cancel, SayCancelled, CancelCommit, CancelUndone, Erase, Forget, Trim, vars, sse
  <2>5. ASSUME NEW s \in Stream, Open(s) \/ Initial(s) \/ Reconnect(s)
        PROVE UNCHANGED <<seen, told>>
    BY <2>5 DEF Open, Initial, Reconnect
  <2>6. ASSUME NEW s \in Stream, Greet(s)
        PROVE held[s] \in Around /\ held[s].status \in Live /\ Send(s, held[s])
    BY <2>6, Members DEF Greet, Types
  <2>7. ASSUME NEW s \in Stream, Join(s)
        PROVE UNCHANGED <<seen, told>> \/ (latest \in Around /\ latest.status \in Live /\ Send(s, latest))
    BY <1>0, <2>7, Members DEF Join
  <2>8. ASSUME NEW s \in Stream, Take(s)
        PROVE /\ queue[s][1] \in Around /\ queue[s][1].status \in Live
              /\ Send(s, queue[s][1])
    BY <2>8, NextFrame DEF Take
  <2> QED BY <2>2, <2>3, <2>4, <2>5, <2>6, <2>7, <2>8 DEF Next, StreamStep
<1>2. /\ phase' \in [Stream -> Phases] /\ held' \in [Stream -> FrameSet]
      /\ \A s \in Stream : phase'[s] \in {"read", "greeting"} => held'[s].status \in Live
      /\ \A s \in subs' : phase'[s] = "waiting"
  <2> USE DEF StreamTypes, run, bus, sse, Goes, Phases
  <2>1. CASE UNCHANGED <<phase, held>> /\ subs' \subseteq subs
    BY <1>0, <2>1
  <2>2. CASE \/ Checkpoint \/ StartJob \/ Report \/ JobDone \/ Finish("completed") \/ Finish("failed")
             \/ Cancel \/ CancelCommit \/ CancelUndone \/ Erase \/ Forget \/ Trim \/ UNCHANGED vars
    BY <2>1, <2>2 DEF Checkpoint, StartJob, Report, JobDone, Finish, Cancel, CancelCommit,
      CancelUndone, Erase, Forget, Trim, vars
  <2>3. ASSUME NEW f, Publish(f) PROVE subs' = subs
    BY <2>3 DEF Publish
  <2>4. CASE Say \/ Deliver \/ Announce \/ SayCancelled
    BY <2>1, <2>3, <2>4 DEF Say, Deliver, Announce, SayCancelled
  <2>5. ASSUME NEW s \in Stream, Open(s)
        PROVE /\ phase' \in [Stream -> Phases] /\ held' \in [Stream -> FrameSet]
              /\ \A z \in Stream : phase'[z] \in {"read", "greeting"} => held'[z].status \in Live
              /\ \A z \in subs' : phase'[z] = "waiting"
    BY <1>0, <2>5 DEF Open
  <2>6. ASSUME NEW s \in Stream, Initial(s)
        PROVE /\ phase' \in [Stream -> Phases] /\ held' \in [Stream -> FrameSet]
              /\ \A z \in Stream : phase'[z] \in {"read", "greeting"} => held'[z].status \in Live
              /\ \A z \in subs' : phase'[z] = "waiting"
    <3> DEFINE f == IF held[s].status \in Terminal THEN held[s]
                    ELSE IF latest.status \in Terminal THEN latest ELSE Later(held[s], latest)
    <3>1. held[s] \in FrameSet /\ held[s].status \in Live /\ held[s].stamp > 0
      BY <1>0, <2>6, Members DEF Initial, Types
    <3>2. f \in FrameSet /\ f.status \in Live
      <4>1. CASE latest.status = "none"
        BY <1>0, <3>1, <4>1 DEF Later, None, FrameSet, Terminal
      <4>2. CASE latest.status # "none"
        BY <1>0, <3>1, <4>2 DEF Later
      <4> QED BY <4>1, <4>2
    <3>3. /\ held' = [held EXCEPT ![s] = f] /\ phase' = [phase EXCEPT ![s] = "greeting"]
          /\ subs' = subs /\ phase[s] = "read"
      BY <1>0, <2>6 DEF Initial
    <3> HIDE DEF f
    <3> QED BY <1>0, <3>2, <3>3
  <2>7. ASSUME NEW s \in Stream, Greet(s)
        PROVE /\ phase' \in [Stream -> Phases] /\ held' \in [Stream -> FrameSet]
              /\ \A z \in Stream : phase'[z] \in {"read", "greeting"} => held'[z].status \in Live
              /\ \A z \in subs' : phase'[z] = "waiting"
    <3>1. /\ held' = held /\ subs' = subs /\ phase[s] = "greeting"
          /\ \E p \in {"ended", "joining"} : phase' = [phase EXCEPT ![s] = p]
      BY <2>3, <2>7 DEF Greet
    <3> QED BY <1>0, <3>1
  <2>8. ASSUME NEW s \in Stream, Join(s) \/ Take(s) \/ Reconnect(s)
        PROVE /\ phase' \in [Stream -> Phases] /\ held' \in [Stream -> FrameSet]
              /\ \A z \in Stream : phase'[z] \in {"read", "greeting"} => held'[z].status \in Live
              /\ \A z \in subs' : phase'[z] = "waiting"
    <3>1. held' = held
      BY <2>8 DEF Join, Take, Reconnect
    <3>2. \/ phase' = [phase EXCEPT ![s] = "waiting"] /\ subs' = subs \cup {s}
          \/ phase' = phase /\ subs' = subs
          \/ phase' = [phase EXCEPT ![s] = "ended"] /\ subs' = subs /\ phase[s] = "joining"
          \/ \E p \in {"ended", "closed"} : phase' = [phase EXCEPT ![s] = p] /\ subs' = subs \ {s}
      BY <2>8 DEF Join, Take, Reconnect
    <3> QED BY <1>0, <3>1, <3>2
  <2> QED BY <2>2, <2>4, <2>5, <2>6, <2>7, <2>8 DEF Next, RunStep, StreamStep
<1> QED BY <1>1, <1>2 DEF StreamTypes

-----------------------------------------------------------------------------
(* The invariant, and what follows from it. *)

LEMMA InitIsInvariant == Init => IInv
<1> SUFFICES ASSUME Init PROVE IInv
  OBVIOUS
<1> DEFINE first == Frame("running", 1)
<1>1. first \in FrameSet /\ first.status = "running" /\ first.stamp = 1
  BY DEF Frame, FrameSet, Statuses
<1>2. None \in FrameSet /\ None.status = "none" /\ None.stamp = 0
  BY DEF None, FrameSet, Statuses
<1>3. /\ row = first /\ latest = None /\ channel = <<>>
      /\ \A s \in Stream : held[s] = None /\ queue[s] = <<>>
  BY DEF Init
<1>4. \A f \in Around : f = first \/ f = None
  BY <1>3, NothingInTheEmpty DEF Around
<1> HIDE DEF first
<1>5. TypeOK
  <2>1. Len(channel) <= ChannelSize /\ \A s \in Stream : Len(queue[s]) <= QueueSize
    BY <1>3, NothingInTheEmpty, ProgressBusAssumption
  <2>2. /\ row \in [status : {"running", "absent"} \cup Terminal, stamp : 0..clock]
        /\ latest \in [status : {"none", "running"} \cup Terminal, stamp : 0..clock]
    BY DEF Init, Frame, None
  <2>3. clock = 1 /\ draft = 0 /\ writer = "idle" /\ job = "none" /\ dropped = FALSE /\ subs = {}
    BY DEF Init
  <2>4. /\ clock \in Nat /\ draft \in 0..clock /\ writer \in Writers
        /\ job \in {"none", "fitting", "abandoned"} /\ subs \subseteq Stream
    BY <2>3 DEF Writers
  <2>6. dropped \in BOOLEAN
    BY <2>3
  <2>5. /\ phase \in [Stream -> Phases] /\ seen \in [Stream -> 0..clock]
        /\ told \in [Stream -> {"none", "running"} \cup Terminal]
    BY <2>3 DEF Init, Phases
  <2> QED BY <2>1, <2>2, <2>4, <2>5, <2>6 DEF TypeOK
<1>6. Types
  <2>1. held \in [Stream -> FrameSet] /\ queue \in [Stream -> Seq(FrameSet)] /\ subs = {}
    BY <1>2, NothingInTheEmpty DEF Init
  <2>2. \A s \in Stream : phase[s] = "closed"
    BY DEF Init
  <2>3. clock = 1
    BY DEF Init
  <2>4. \A f \in Around : f.stamp <= clock /\ (f.status \in Live => f.stamp > 0)
    BY <1>1, <1>2, <1>4, <2>3 DEF Live, Terminal
  <2> QED BY <1>2, <1>3, <1>5, <2>1, <2>2, <2>4, NothingInTheEmpty DEF Types
<1>7. \A f \in Around : ~Ends(f)
  BY <1>1, <1>2, <1>4 DEF Ends, Terminal
<1>8. Written
  BY <1>7 DEF Init, Written, Terminal
<1>9. RunningIsEarlier /\ OutcomeIsAhead
  BY <1>7 DEF RunningIsEarlier, OutcomeIsAhead
<1>10. OutcomeIsKept
  BY <1>7 DEF Init, OutcomeIsKept, Terminal
<1>11. QueuesLag /\ QueuesInOrder /\ NoMissedOutcome /\ OutcomeIsShown
  BY DEF Init, QueuesLag, QueuesInOrder, NoMissedOutcome, OutcomeIsShown
<1> QED BY <1>6, <1>8, <1>9, <1>10, <1>11 DEF IInv

LEMMA StepKeepsInvariant == IInv /\ [Next]_vars => IInv'
<1> SUFFICES ASSUME IInv, [Next]_vars PROVE IInv'
  OBVIOUS
<1>1. /\ Types /\ Written /\ Queues /\ RunningIsEarlier /\ OutcomeIsAhead /\ OutcomeIsKept
      /\ OutcomeIsShown
  BY DEF IInv, Queues
<1>2. Types'
  BY <1>1, BusTypesStep, RunTypesStep, ChannelTypesStep, StreamTypesStep, AroundIsPast, TypesInParts
<1>3. Written' /\ Queues'
  BY <1>1, WrittenStep, QueuesStep
<1>4. RunningIsEarlier' /\ OutcomeIsAhead'
  BY <1>1, RunningIsEarlierStep, OutcomeIsAheadStep
<1>5. OutcomeIsKept' /\ OutcomeIsShown'
  BY <1>1, OutcomeIsKeptStep, OutcomeIsShownStep
<1> QED BY <1>2, <1>3, <1>4, <1>5 DEF IInv, Queues

\* The invariant holds in every state.
THEOREM Invariance == Spec => []IInv
BY InitIsInvariant, StepKeepsInvariant, PTL DEF Spec

\* The variables keep their types: no queue outgrows its bound, and no browser
\* or bus has a stamp that the clock has not given out.
THEOREM TypeCorrectness == Spec => []TypeOK
<1>1. IInv => TypeOK
  BY DEF IInv, Types
<1> QED BY <1>1, Invariance, PTL

\* _progress_stream and publish: a stream that waits on its queue has the
\* outcome in it when the bus does.
THEOREM WaitingStreamsHaveTheOutcome == Spec => []NoMissedOutcome
<1>1. IInv => NoMissedOutcome
  BY DEF IInv
<1> QED BY <1>1, Invariance, PTL

\* event_source: a stream does not end on its run before its browser knows how.
THEOREM EndedStreamsShowTheOutcome == Spec => []OutcomeIsShown
<1>1. IInv => OutcomeIsShown
  BY DEF IInv
<1> QED BY <1>1, Invariance, PTL

\* publish and pump: the frames of a queue are in the order of their stamps,
\* though the task and its worker process publish along two paths.
THEOREM QueuesAreOrdered == Spec => []QueuesInOrder
<1>1. IInv => QueuesInOrder
  BY DEF IInv
<1> QED BY <1>1, Invariance, PTL

\* A browser is not told that a run it saw end goes on.
LEMMA TheOutcomeStays ==
  IInv /\ [Next]_vars => \A s \in Stream : told[s] \in Terminal => told'[s] \in Terminal \/ dropped
<1> SUFFICES ASSUME IInv, [Next]_vars, NEW s \in Stream, told[s] \in Terminal, ~dropped
             PROVE told'[s] \in Terminal
  OBVIOUS
<1>0. /\ phase[s] \notin {"joining", "waiting"}
      /\ phase[s] = "greeting" => Ends(held[s])
      /\ told \in [Stream -> {"none"} \cup Live]
  BY Typed DEF IInv, OutcomeIsKept
<1> USE DEF run, bus, sse
<1>1. CASE UNCHANGED told
  BY <1>1
<1>2. CASE RunStep \/ Trim \/ UNCHANGED vars
  BY <1>1, <1>2 DEF RunStep, Checkpoint, Say, StartJob, Report, JobDone, Deliver, Finish, Announce,
    Cancel, SayCancelled, CancelCommit, CancelUndone, Erase, Forget, Trim, vars
<1>3. ASSUME NEW z \in Stream, Open(z) \/ Initial(z) \/ Reconnect(z) PROVE UNCHANGED told
  BY <1>3 DEF Open, Initial, Reconnect
<1>4. ASSUME NEW z \in Stream, z # s, Greet(z) \/ Join(z) \/ Take(z) PROVE told'[s] = told[s]
  BY <1>0, <1>4 DEF Greet, Join, Take, Send
<1>5. CASE Greet(s)
  <2>1. phase[s] = "greeting" /\ Send(s, held[s])
    BY <1>5 DEF Greet
  <2> QED BY <1>0, <2>1 DEF Send, Ends
<1>6. ~Join(s) /\ ~Take(s)
  BY <1>0 DEF Join, Take
<1> QED BY <1>1, <1>2, <1>3, <1>4, <1>5, <1>6 DEF Next, StreamStep

\* _progress_stream with Last-Event-ID, publish and cancel_run: whatever an
\* abandoned worker still reports and however often a browser reconnects, it
\* is not told that a run goes on after it was told how the run ended.
THEOREM TheOutcomeIsTheLastWord == Spec => OutcomeIsLast
<1>1. IInv /\ [Next]_vars =>
        [\A s \in Stream : told[s] \in Terminal => told'[s] \in Terminal \/ dropped]_vars
  BY TheOutcomeStays
<1> QED BY <1>1, Invariance, PTL DEF Spec, OutcomeIsLast
=============================================================================
