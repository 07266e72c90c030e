---------------------------- MODULE SchedulerProofs ----------------------------
(***************************************************************************)
(* Theorems about Scheduler, for every set of runs, of pieces and every    *)
(* number of slots.  The argument: a waiter means a full pool, so whoever  *)
(* leaves frees one slot and _promote serves exactly one live waiter, the  *)
(* least of them under Precedes, if there is one.                          *)
(***************************************************************************)
EXTENDS Scheduler, FiniteSetTheorems, TLAPS

(* Natural numbers: a non-empty set of them has a least element. *)

LessThan == OpToRel(<, Nat)

LEMMA LeastNatural ==
  ASSUME NEW T, T \subseteq Nat, T # {}
  PROVE  \E m \in T : \A k \in T : m <= k
<1>1. IsWellFoundedOn(LessThan, Nat)
  BY NatLessThanWellFounded, Zenon DEF LessThan
<1>2. LessThan = {s \in Nat \X Nat : s[1] < s[2]}
  BY Zenon DEF LessThan, OpToRel
<1>3. PICK m \in T : \A k \in T : ~ (<<k, m>> \in LessThan)
  BY <1>1, WFMin, Zenon
<1>4. ASSUME NEW k \in T PROVE m <= k
  <2>1. m \in Nat /\ k \in Nat
    OBVIOUS
  <2>2. (k < m) => <<k, m>> \in LessThan
    BY <1>2, <2>1
  <2> QED BY <1>3, <2>1, <2>2
<1> QED BY <1>4

(* The counts.  Unrolled(h): h holds the slots 1..Count(h, r) of every run. *)

Unrolled(h) ==
  /\ h \subseteq Run \X Nat
  /\ IsFiniteSet(h)
  /\ \A r \in Run, i \in Nat : <<r, i>> \in h <=> 1 <= i /\ i <= Count(h, r)

LEMMA CountType ==
  ASSUME NEW h, IsFiniteSet(h), NEW r
  PROVE  /\ Count(h, r) \in Nat
         /\ Cardinality(h) \in Nat
         /\ Count(h, r) <= Cardinality(h)
         /\ IsFiniteSet({s \in h : s[1] = r})
<1> DEFINE hr == {s \in h : s[1] = r}
<1>1. hr \in SUBSET h
  OBVIOUS
<1>2. IsFiniteSet(hr) /\ Cardinality(hr) <= Cardinality(h)
  BY <1>1, FS_Subset
<1> QED BY <1>2, FS_CardinalityType DEF Count

\* Taking the next slot of r, or giving the last one back, changes r's count by
\* one, nobody else's, and leaves the counts unrolled.
LEMMA TakeSlot ==
  ASSUME NEW h, Unrolled(h), NEW r \in Run,
         NEW k, k = h \cup {<<r, Count(h, r) + 1>>}
  PROVE  /\ Unrolled(k)
         /\ Cardinality(k) = Cardinality(h) + 1
         /\ \A q \in Run : Count(k, q) = IF q = r THEN Count(h, r) + 1 ELSE Count(h, q)
<1> DEFINE c == Count(h, r)
           x == <<r, c + 1>>
<1>1. IsFiniteSet(h) /\ c \in Nat
  BY CountType DEF Unrolled
<1>2. x \notin h
  BY <1>1 DEF Unrolled
<1>3. IsFiniteSet(k) /\ Cardinality(k) = Cardinality(h) + 1
  BY <1>1, <1>2, FS_AddElement
<1>4. ASSUME NEW q \in Run
      PROVE  Count(k, q) = IF q = r THEN c + 1 ELSE Count(h, q)
  <2> DEFINE hq == {s \in h : s[1] = q}
             kq == {s \in k : s[1] = q}
  <2>1. IsFiniteSet(hq)
    BY <1>1, CountType
  <2>2. CASE q = r
    <3>1. kq = hq \cup {x} /\ x \notin hq
      BY <1>2, <2>2
    <3>2. Cardinality(kq) = Cardinality(hq) + 1
      BY <2>1, <3>1, FS_AddElement
    <3> QED BY <2>2, <3>2 DEF Count
  <2>3. CASE q # r
    <3>1. kq = hq
      BY <2>3
    <3> QED BY <2>3, <3>1 DEF Count
  <2> QED BY <2>2, <2>3
<1>5. ASSUME NEW q \in Run, NEW i \in Nat
      PROVE  <<q, i>> \in k <=> 1 <= i /\ i <= Count(k, q)
  <2>1. <<q, i>> \in k <=> <<q, i>> \in h \/ (q = r /\ i = c + 1)
    OBVIOUS
  <2>2. <<q, i>> \in h <=> 1 <= i /\ i <= Count(h, q)
    BY DEF Unrolled
  <2>3. CASE q = r
    <3>1. Count(k, q) = c + 1 /\ Count(h, q) = c
      BY <1>4, <2>3
    <3> QED BY <1>1, <2>1, <2>2, <2>3, <3>1
  <2>4. CASE q # r
    <3>1. Count(k, q) = Count(h, q)
      BY <1>4, <2>4
    <3> QED BY <2>1, <2>2, <2>4, <3>1
  <2> QED BY <2>3, <2>4
<1>6. k \subseteq Run \X Nat
  BY <1>1 DEF Unrolled
<1> QED BY <1>3, <1>4, <1>5, <1>6 DEF Unrolled

LEMMA DropSlot ==
  ASSUME NEW h, Unrolled(h), NEW r \in Run, Count(h, r) > 0,
         NEW k, k = h \ {<<r, Count(h, r)>>}
  PROVE  /\ Unrolled(k)
         /\ Cardinality(k) = Cardinality(h) - 1
         /\ \A q \in Run : Count(k, q) = IF q = r THEN Count(h, r) - 1 ELSE Count(h, q)
<1> DEFINE c == Count(h, r)
           x == <<r, c>>
<1>1. IsFiniteSet(h) /\ c \in Nat
  BY CountType DEF Unrolled
<1>2. x \in h
  BY <1>1 DEF Unrolled
<1>3. IsFiniteSet(k) /\ Cardinality(k) = Cardinality(h) - 1
  BY <1>1, <1>2, FS_RemoveElement
<1>4. ASSUME NEW q \in Run
      PROVE  Count(k, q) = IF q = r THEN c - 1 ELSE Count(h, q)
  <2> DEFINE hq == {s \in h : s[1] = q}
             kq == {s \in k : s[1] = q}
  <2>1. IsFiniteSet(hq)
    BY <1>1, CountType
  <2>2. CASE q = r
    <3>1. kq = hq \ {x} /\ x \in hq
      BY <1>2, <2>2
    <3>2. Cardinality(kq) = Cardinality(hq) - 1
      BY <2>1, <3>1, FS_RemoveElement
    <3> QED BY <2>2, <3>2 DEF Count
  <2>3. CASE q # r
    <3>1. kq = hq
      BY <2>3
    <3> QED BY <2>3, <3>1 DEF Count
  <2> QED BY <2>2, <2>3
<1>5. ASSUME NEW q \in Run, NEW i \in Nat
      PROVE  <<q, i>> \in k <=> 1 <= i /\ i <= Count(k, q)
  <2>1. <<q, i>> \in k <=> <<q, i>> \in h /\ ~(q = r /\ i = c)
    OBVIOUS
  <2>2. <<q, i>> \in h <=> 1 <= i /\ i <= Count(h, q)
    BY DEF Unrolled
  <2> QED BY <1>1, <1>4, <2>1, <2>2
<1>6. k \subseteq Run \X Nat
  BY DEF Unrolled
<1> QED BY <1>3, <1>4, <1>5, <1>6 DEF Unrolled

--------------------------------------------------------------------------------
(* The queue: who is served next. *)

ArrivalOrder ==
  /\ waiting \subseteq Piece
  /\ earlier \subseteq waiting \X waiting
  /\ \A p \in waiting : <<p, p>> \notin earlier
  /\ \A p, q, r \in waiting :
        <<p, q>> \in earlier /\ <<q, r>> \in earlier => <<p, r>> \in earlier
  /\ \A p, q \in waiting : p = q \/ <<p, q>> \in earlier \/ <<q, p>> \in earlier

LEMMA FinitePieces ==
  ASSUME ArrivalOrder, NEW S, S \subseteq Live
  PROVE  IsFiniteSet(S) /\ Cardinality(S) \in Nat
<1>1. S \in SUBSET Piece
  BY DEF ArrivalOrder, Live
<1>2. IsFiniteSet(S)
  BY <1>1, SchedulerAssumption, FS_Subset
<1> QED BY <1>2, FS_CardinalityType

\* Within a run, turns follow the order of arrival.
LEMMA TurnType ==
  ASSUME ArrivalOrder, NEW h, IsFiniteSet(h)
  PROVE  /\ \A w \in Live : Turn(h, w) \in Nat /\ Turn(h, w) >= Count(h, RunOf[w])
         /\ \A v, w \in Live : RunOf[v] = RunOf[w] /\ <<v, w>> \in earlier
                                 => Turn(h, v) <= Turn(h, w)
<1> DEFINE Ahead(w) == {u \in Live : RunOf[u] = RunOf[w] /\ <<u, w>> \in earlier}
<1>1. ASSUME NEW w \in Live
      PROVE  /\ IsFiniteSet(Ahead(w)) /\ Cardinality(Ahead(w)) \in Nat
             /\ Count(h, RunOf[w]) \in Nat
             /\ Turn(h, w) = Count(h, RunOf[w]) + Cardinality(Ahead(w))
  <2>1. IsFiniteSet(Ahead(w)) /\ Cardinality(Ahead(w)) \in Nat
    BY FinitePieces
  <2>2. Count(h, RunOf[w]) \in Nat
    BY CountType
  <2> QED BY <2>1, <2>2 DEF Turn
<1>2. ASSUME NEW v \in Live, NEW w \in Live,
             RunOf[v] = RunOf[w], <<v, w>> \in earlier
      PROVE  Turn(h, v) <= Turn(h, w)
  <2>1. Ahead(v) \subseteq Ahead(w)
    BY <1>2 DEF ArrivalOrder, Live
  <2>2. Cardinality(Ahead(v)) <= Cardinality(Ahead(w))
    BY <1>1, <2>1, FS_Subset
  <2>3. /\ Turn(h, v) = Count(h, RunOf[w]) + Cardinality(Ahead(v))
        /\ Turn(h, w) = Count(h, RunOf[w]) + Cardinality(Ahead(w))
    BY <1>1, <1>2
  <2>4. Cardinality(Ahead(v)) \in Nat /\ Cardinality(Ahead(w)) \in Nat
    BY <1>1
  <2> HIDE DEF Ahead
  <2> QED BY <1>1, <2>2, <2>3, <2>4
<1>3. ASSUME NEW w \in Live
      PROVE  Turn(h, w) \in Nat /\ Turn(h, w) >= Count(h, RunOf[w])
  <2> HIDE DEF Ahead
  <2> QED BY <1>1
<1> QED BY <1>2, <1>3

\* Precedes is a strict total order of the live waiters.
LEMMA PrecedesOrder ==
  ASSUME ArrivalOrder, NEW h, IsFiniteSet(h)
  PROVE  /\ \A u \in Live : ~Precedes(h, u, u)
         /\ \A u, v, w \in Live :
              Precedes(h, u, v) /\ Precedes(h, v, w) => Precedes(h, u, w)
         /\ \A u, v \in Live : u = v \/ Precedes(h, u, v) \/ Precedes(h, v, u)
<1>1. \A u \in Live : Turn(h, u) \in Nat /\ u \in waiting
  BY TurnType DEF Live
<1> QED BY <1>1 DEF ArrivalOrder, Precedes

\* The rank of a live waiter: how many live ones _promote would serve before it.
Rank(h, w) == Cardinality({v \in Live : Precedes(h, v, w)})

LEMMA LeastWaiter ==
  ASSUME ArrivalOrder, NEW h, IsFiniteSet(h), Live # {}
  PROVE  \E w \in Live : \A v \in Live : ~Precedes(h, v, w)
<1> DEFINE Before(w) == {v \in Live : Precedes(h, v, w)}
           T == {Rank(h, w) : w \in Live}
<1>1. \A w \in Live : IsFiniteSet(Before(w)) /\ Rank(h, w) \in Nat
  BY FinitePieces DEF Rank
<1>2. T \subseteq Nat /\ T # {}
  BY <1>1
<1>3. PICK m \in T : \A k \in T : m <= k
  BY <1>2, LeastNatural
<1>4. PICK w \in Live : Rank(h, w) = m
  BY <1>3
<1>5. \A v \in Live : Rank(h, w) <= Rank(h, v)
  BY <1>3, <1>4
<1>6. ASSUME NEW v \in Live, Precedes(h, v, w) PROVE FALSE
  <2>1. Before(v) \subseteq Before(w) /\ v \in Before(w) /\ v \notin Before(v)
    BY <1>6, PrecedesOrder
  <2>2. Before(v) \in SUBSET Before(w) /\ Before(v) # Before(w)
    BY <2>1
  <2>3. Cardinality(Before(v)) < Cardinality(Before(w))
    <3>1. /\ Cardinality(Before(v)) <= Cardinality(Before(w))
          /\ Cardinality(Before(w)) = Cardinality(Before(v)) => Before(w) = Before(v)
      BY <1>1, <2>2, FS_Subset
    <3>2. Cardinality(Before(v)) \in Nat /\ Cardinality(Before(w)) \in Nat
      BY <1>1 DEF Rank
    <3> QED BY <2>2, <3>1, <3>2
  <2> QED BY <1>1, <1>5, <2>3 DEF Rank
<1> QED BY <1>6

\* With one slot free, _promote serves one live waiter if there is one, and that
\* waiter's run holds exactly what the code's key read for it.
LEMMA ServesOne ==
  ASSUME ArrivalOrder, NEW h, IsFiniteSet(h), Cardinality(h) = Slots - 1,
         Live # {}
  PROVE  \E w \in Live : Granted(h) = {w} /\ Turn(h, w) = Count(h, RunOf[w])
<1>1. PICK w \in Live : \A v \in Live : ~Precedes(h, v, w)
  BY LeastWaiter
<1>2. \A u \in Live : IsFiniteSet({v \in Live : Precedes(h, v, u)}) /\ Rank(h, u) \in Nat
  BY FinitePieces DEF Rank
<1>3. Slots \in Nat \ {0}
  BY SchedulerAssumption
<1>4. \A u \in Live : u \in Granted(h) <=> Rank(h, u) < 1
  BY <1>3 DEF Granted, Reached, Rank, Live
<1>5. \A u \in Live : Rank(h, u) < 1 <=> {v \in Live : Precedes(h, v, u)} = {}
  <2> SUFFICES ASSUME NEW u \in Live
               PROVE  Rank(h, u) < 1 <=> {v \in Live : Precedes(h, v, u)} = {}
    OBVIOUS
  <2>1. Rank(h, u) = 0 <=> {v \in Live : Precedes(h, v, u)} = {}
    BY <1>2, FS_EmptySet DEF Rank
  <2>2. Rank(h, u) \in Nat
    BY <1>2
  <2> QED BY <2>1, <2>2
<1>6. \A u \in Live : u \in Granted(h) <=> u = w
  BY <1>1, <1>4, <1>5, PrecedesOrder
<1>7. Granted(h) = {w}
  BY <1>6 DEF Granted
<1>8. {v \in Live : RunOf[v] = RunOf[w] /\ <<v, w>> \in earlier} = {}
  <2> SUFFICES ASSUME NEW v \in Live, RunOf[v] = RunOf[w], <<v, w>> \in earlier
               PROVE  FALSE
    OBVIOUS
  <2>1. Turn(h, v) <= Turn(h, w) /\ Turn(h, v) \in Nat /\ Turn(h, w) \in Nat
    BY TurnType
  <2> QED BY <1>1, <2>1 DEF Precedes
<1>9. Turn(h, w) = Count(h, RunOf[w])
  <2>1. Cardinality({v \in Live : RunOf[v] = RunOf[w] /\ <<v, w>> \in earlier}) = 0
    BY <1>8, FS_EmptySet
  <2>2. Count(h, RunOf[w]) \in Nat
    BY CountType
  <2> QED BY <2>1, <2>2 DEF Turn
<1> QED BY <1>7, <1>9

LEMMA ServesNobody ==
  ASSUME ArrivalOrder, NEW h, Cardinality(h) = Slots
  PROVE  Reached(h) = {}
<1>1. \A w \in waiting : Cardinality({v \in Live : Precedes(h, v, w)}) \in Nat
  BY FinitePieces
<1> QED BY <1>1, SchedulerAssumption DEF Reached


--------------------------------------------------------------------------------
(* The inductive invariant. *)

\* Where a piece is suspended agrees with its place in the queue.
QueueInv ==
  /\ \A p \in waiting : /\ step[p] \in {"announcing", "parked"}
                        /\ admitted[p] \in {"pending", "cancelled"}
  /\ \A p \in Piece : admitted[p] = "granted" => p \notin waiting

Types ==
  /\ admitted \in [Piece -> {"none", "pending", "granted", "cancelled"}]
  /\ closed \in BOOLEAN
  /\ step \in [Piece -> Steps]
  /\ cancelling \in [Piece -> BOOLEAN]
  /\ job \in [Piece -> {"none", "queued", "running", "done"}]
  /\ abandoned \in Nat
  /\ broken \in BOOLEAN

PoolInv == Cardinality(Running) + abandoned <= Slots

IInv ==
  /\ Types
  /\ PoolInv
  /\ Unrolled(held)
  /\ ArrivalOrder
  /\ QueueInv
  /\ SlotAccounting
  /\ WorkConserving

OwnersOf(r) == {p \in Owners : RunOf[p] = r}

LEMMA OwnersFinite ==
  ASSUME NEW r
  PROVE  IsFiniteSet(OwnersOf(r)) /\ IsFiniteSet(OwnersOf(r)')
<1>1. OwnersOf(r) \in SUBSET Piece /\ OwnersOf(r)' \in SUBSET Piece
  BY DEF OwnersOf, Owners
<1> QED BY <1>1, SchedulerAssumption, FS_Subset

\* _release and _promote, called by a piece that owns a slot and is off the
\* queue: the slot goes to the next live waiter or, without one, back.
LEMMA ReleaseStep ==
  ASSUME IInv, NEW p \in Owners, Release(p), Resumed(p, "idle")
  PROVE  /\ Unrolled(held)'
         /\ ArrivalOrder'
         /\ QueueInv'
         /\ SlotAccounting'
         /\ WorkConserving'
         /\ admitted' \in [Piece -> {"none", "pending", "granted", "cancelled"}]
         /\ step' \in [Piece -> Steps]
         /\ cancelling' \in [Piece -> BOOLEAN]
<1> DEFINE r == RunOf[p]
           h == held \ {<<r, Count(held, r)>>}
<1> USE DEF IInv
<1>1. p \in Piece /\ r \in Run /\ p \notin waiting
  BY SchedulerAssumption DEF Owners, QueueInv
<1>2. IsFiniteSet(held) /\ Cardinality(held) \in Nat /\ Slots \in Nat \ {0}
  BY CountType, SchedulerAssumption DEF Unrolled
<1>3. Count(held, r) > 0
  <2>1. p \in OwnersOf(r)
    BY DEF OwnersOf
  <2>2. Count(held, r) = Cardinality(OwnersOf(r))
    BY <1>1 DEF SlotAccounting, OwnersOf
  <2>3. Cardinality(OwnersOf(r)) \in Nat /\ Cardinality(OwnersOf(r)) # 0
    BY <2>1, OwnersFinite, FS_EmptySet, FS_CardinalityType
  <2> QED BY <2>2, <2>3
<1>4. /\ Unrolled(h)
      /\ Cardinality(h) = Cardinality(held) - 1
      /\ \A q \in Run : Count(h, q) = IF q = r THEN Count(held, r) - 1 ELSE Count(held, q)
  BY <1>1, <1>3, DropSlot
<1>5. IsFiniteSet(h) /\ Cardinality(h) \in Nat
  BY <1>4, CountType DEF Unrolled
<1>6. /\ held' = h \cup {<<RunOf[w], Turn(h, w) + 1>> : w \in Granted(h)}
      /\ waiting' = waiting \ Reached(h)
      /\ earlier' = {e \in earlier : e[1] \notin Reached(h) /\ e[2] \notin Reached(h)}
      /\ admitted' = [q \in Piece |-> IF q = p THEN "none"
                                      ELSE IF q \in Granted(h) THEN "granted"
                                      ELSE admitted[q]]
      /\ step' = [step EXCEPT ![p] = "idle"]
      /\ cancelling' = [cancelling EXCEPT ![p] = FALSE]
  BY DEF Release, Remove, Resumed
<1>7. Reached(h) \subseteq waiting /\ Granted(h) \subseteq Live /\ Live \subseteq waiting
  BY DEF Reached, Granted, Live
<1>8. ArrivalOrder'
  BY <1>6, <1>7 DEF ArrivalOrder
<1>9. QueueInv'
  BY <1>1, <1>6, <1>7 DEF QueueInv, ArrivalOrder, Types, Granted
<1>10. /\ admitted' \in [Piece -> {"none", "pending", "granted", "cancelled"}]
       /\ step' \in [Piece -> Steps]
       /\ cancelling' \in [Piece -> BOOLEAN]
  BY <1>6 DEF Types, Steps
<1>11. Owners' = (Owners \ {p}) \cup Granted(h)
  <2>1. \A q \in Granted(h) : q \in Piece /\ q # p /\ step[q] \in {"announcing", "parked"}
    BY <1>1, <1>7 DEF QueueInv, ArrivalOrder
  <2> QED BY <1>1, <1>6, <2>1 DEF Owners, Types
<1>12. CASE Live = {}
  <2>1. Granted(h) = {}
    BY <1>7, <1>12
  <2>2. held' = h /\ Owners' = Owners \ {p}
    BY <1>6, <1>11, <2>1
  <2>3. Unrolled(held)'
    BY <1>4, <2>2 DEF Unrolled, Count
  <2>4. SlotAccounting'
    <3>1. Cardinality(held') <= Slots
      BY <1>2, <1>4, <2>2 DEF SlotAccounting
    <3>2. ASSUME NEW q \in Run PROVE Count(held', q) = Cardinality(OwnersOf(q)')
      <4>1. OwnersOf(q)' = OwnersOf(q) \ {p} /\ (p \in OwnersOf(q) <=> q = r)
        BY <2>2 DEF OwnersOf
      <4>2. Cardinality(OwnersOf(q)') =
              IF q = r THEN Cardinality(OwnersOf(q)) - 1 ELSE Cardinality(OwnersOf(q))
        BY <4>1, OwnersFinite, FS_RemoveElement
      <4>3. Count(held, q) = Cardinality(OwnersOf(q))
        BY DEF SlotAccounting, OwnersOf
      <4> QED BY <1>4, <2>2, <4>2, <4>3
    <3> QED BY <3>1, <3>2 DEF SlotAccounting, OwnersOf, Count
  <2>5. WorkConserving'
    <3>1. ASSUME NEW w \in waiting PROVE w \in Reached(h)
      <4>1. {v \in Live : Precedes(h, v, w)} = {}
        BY <1>12
      <4>2. Cardinality({v \in Live : Precedes(h, v, w)}) = 0
        BY <4>1, FS_EmptySet
      <4>3. 0 < Slots - Cardinality(h)
        BY <1>2, <1>4 DEF SlotAccounting
      <4> QED BY <4>2, <4>3 DEF Reached
    <3> QED BY <1>6, <3>1 DEF WorkConserving
  <2> QED BY <1>8, <1>9, <1>10, <2>3, <2>4, <2>5
<1>13. CASE Live # {}
  <2>1. Cardinality(h) = Slots - 1
    BY <1>4, <1>7, <1>13 DEF WorkConserving
  <2>2. PICK w \in Live : Granted(h) = {w} /\ Turn(h, w) = Count(h, RunOf[w])
    BY <1>5, <1>13, <2>1, ServesOne
  <2>3. w \in Piece /\ w # p /\ RunOf[w] \in Run /\ w \notin Owners
    BY <1>1, <1>7, SchedulerAssumption DEF ArrivalOrder, QueueInv, Owners
  <2>4. held' = h \cup {<<RunOf[w], Count(h, RunOf[w]) + 1>>}
    BY <1>6, <2>2
  <2>5. /\ Unrolled(held')
        /\ Cardinality(held') = Cardinality(h) + 1
        /\ \A q \in Run : Count(held', q) =
              IF q = RunOf[w] THEN Count(h, RunOf[w]) + 1 ELSE Count(h, q)
    <3>1. Unrolled(h) /\ RunOf[w] \in Run
      BY <1>4, <2>3
    <3> HIDE DEF h
    <3> QED BY <2>4, <3>1, TakeSlot
  <2>6. SlotAccounting'
    <3>1. Cardinality(held') <= Slots
      BY <1>2, <2>1, <2>5
    <3>2. ASSUME NEW q \in Run PROVE Count(held', q) = Cardinality(OwnersOf(q)')
      <4> DEFINE left == OwnersOf(q) \ {p}
      <4>1. p \in OwnersOf(q) <=> q = r
        BY DEF OwnersOf
      <4>2. /\ IsFiniteSet(left)
            /\ Cardinality(left) = IF q = r THEN Cardinality(OwnersOf(q)) - 1
                                            ELSE Cardinality(OwnersOf(q))
        BY <4>1, OwnersFinite, FS_RemoveElement
      <4>3. OwnersOf(q)' = IF q = RunOf[w] THEN left \cup {w} ELSE left
        BY <1>11, <2>2 DEF OwnersOf
      <4>4. w \notin left
        BY <2>3 DEF OwnersOf
      <4>5. Cardinality(OwnersOf(q)') =
              IF q = RunOf[w] THEN Cardinality(left) + 1 ELSE Cardinality(left)
        BY <4>2, <4>3, <4>4, FS_AddElement
      <4>6. Count(held, q) = Cardinality(OwnersOf(q))
        BY DEF SlotAccounting, OwnersOf
      <4>7. Count(h, q) = Cardinality(left)
        BY <1>4, <4>2, <4>6
      <4> QED BY <2>5, <4>5, <4>7
    <3> QED BY <3>1, <3>2 DEF SlotAccounting, OwnersOf, Count
  <2>7. WorkConserving'
    BY <1>2, <2>1, <2>5 DEF WorkConserving
  <2>8. Unrolled(held)'
    BY <2>5 DEF Unrolled, Count
  <2> QED BY <1>8, <1>9, <1>10, <2>6, <2>7, <2>8
<1> QED BY <1>12, <1>13


LEMMA InitInvariant ==
  Init => IInv
<1> SUFFICES ASSUME Init PROVE IInv
  OBVIOUS
<1> USE DEF Init
<1>1. Types
  BY DEF Types, Steps
<1>2. PoolInv
  <2>1. Running = {}
    BY DEF Running
  <2> QED BY <2>1, FS_EmptySet, SchedulerAssumption DEF PoolInv
<1>3. \A r : Count(held, r) = 0
  <2> SUFFICES ASSUME NEW r PROVE Count(held, r) = 0
    OBVIOUS
  <2>1. {s \in held : s[1] = r} = {}
    OBVIOUS
  <2> QED BY <2>1, FS_EmptySet DEF Count
<1>4. Unrolled(held)
  BY <1>3, FS_EmptySet DEF Unrolled
<1>5. ArrivalOrder /\ QueueInv /\ WorkConserving
  BY DEF ArrivalOrder, QueueInv, WorkConserving
<1>6. SlotAccounting
  <2>1. \A r \in Run : {p \in Owners : RunOf[p] = r} = {}
    BY DEF Owners
  <2> QED BY <1>3, <2>1, FS_EmptySet, SchedulerAssumption DEF SlotAccounting
<1> QED BY <1>1, <1>2, <1>4, <1>5, <1>6 DEF IInv

\* The parts of the invariant about slots survive a step that keeps the counts,
\* the queue and the owners.
LEMMA SameOwners ==
  ASSUME IInv, held' = held, Owners' = Owners
  PROVE  Unrolled(held)' /\ SlotAccounting'
<1>1. Unrolled(held)'
  BY DEF IInv, Unrolled, Count
<1>2. SlotAccounting'
  BY DEF IInv, SlotAccounting, Count
<1> QED BY <1>1, <1>2

\* The pool's bound survives a step that starts no job and abandons none.
LEMMA SamePool ==
  ASSUME IInv, Running' \subseteq Running, abandoned' \in Nat, abandoned' <= abandoned
  PROVE  PoolInv'
<1>1. Running \in SUBSET Piece
  BY DEF Running
<1>2. IsFiniteSet(Running) /\ Cardinality(Running) \in Nat
  BY <1>1, SchedulerAssumption, FS_Subset, FS_CardinalityType
<1>3. IsFiniteSet(Running') /\ Cardinality(Running') <= Cardinality(Running)
  BY <1>2, FS_Subset
<1>4. Cardinality(Running') \in Nat
  BY <1>3, FS_CardinalityType
<1> QED BY <1>2, <1>3, <1>4, SchedulerAssumption DEF IInv, PoolInv, Types


LEMMA AcquireStep ==
  ASSUME IInv, NEW p \in Piece, Acquire(p)
  PROVE  IInv'
<1> USE DEF IInv
<1>1. p \notin waiting /\ p \notin Owners /\ step[p] = "idle"
  BY DEF Acquire, AcquireRefused, AcquireAtOnce, AcquireLater, QueueInv, Owners
<1>2. PoolInv'
  BY DEF Acquire, AcquireRefused, AcquireAtOnce, AcquireLater, pool, PoolInv, Running
<1>3. CASE AcquireRefused(p)
  <2> USE <1>3 DEF AcquireRefused, Resumed, queue, pool
  <2>1. Types'
    BY DEF Types, Steps
  <2>2. ArrivalOrder' /\ QueueInv' /\ WorkConserving'
    BY <1>1 DEF ArrivalOrder, QueueInv, WorkConserving, Types
  <2>3. Owners' = Owners
    BY <1>1 DEF Owners, Types
  <2> QED BY <1>2, <2>1, <2>2, <2>3, SameOwners
<1>4. CASE AcquireAtOnce(p)
  <2> DEFINE r == RunOf[p]
  <2> USE <1>4 DEF AcquireAtOnce, Resumed, queue, pool
  <2>1. Types'
    BY DEF Types, Steps
  <2>2. ArrivalOrder' /\ QueueInv'
    BY <1>1 DEF ArrivalOrder, QueueInv, Types
  <2>3. WorkConserving'
    BY DEF WorkConserving
  <2>4. Owners' = Owners \cup {p}
    BY <1>1 DEF Owners, Types
  <2>5. r \in Run
    BY SchedulerAssumption
  <2>6. /\ Unrolled(held')
        /\ Cardinality(held') = Cardinality(held) + 1
        /\ \A q \in Run : Count(held', q) = IF q = r THEN Count(held, r) + 1 ELSE Count(held, q)
    BY <2>5, TakeSlot
  <2>7. SlotAccounting'
    <3>1. Cardinality(held) \in Nat /\ Slots \in Nat
      BY CountType, SchedulerAssumption DEF Unrolled
    <3>2. Cardinality(held') <= Slots
      BY <2>6, <3>1
    <3>3. ASSUME NEW q \in Run PROVE Count(held', q) = Cardinality(OwnersOf(q)')
      <4>1. OwnersOf(q)' = IF q = r THEN OwnersOf(q) \cup {p} ELSE OwnersOf(q)
        BY <2>4 DEF OwnersOf
      <4>2. p \notin OwnersOf(q)
        BY <1>1 DEF OwnersOf
      <4>3. Cardinality(OwnersOf(q)') =
              IF q = r THEN Cardinality(OwnersOf(q)) + 1 ELSE Cardinality(OwnersOf(q))
        BY <4>1, <4>2, OwnersFinite, FS_AddElement
      <4>4. Count(held, q) = Cardinality(OwnersOf(q))
        BY DEF SlotAccounting, OwnersOf
      <4> QED BY <2>6, <4>3, <4>4
    <3> QED BY <3>2, <3>3 DEF SlotAccounting, OwnersOf, Count
  <2>8. Unrolled(held)'
    BY <2>6 DEF Unrolled, Count
  <2> QED BY <1>2, <2>1, <2>2, <2>3, <2>7, <2>8
<1>5. CASE AcquireLater(p)
  <2> USE <1>5 DEF AcquireLater, Resumed, pool
  <2>1. Types'
    BY DEF Types, Steps
  <2>2. ArrivalOrder'
    BY <1>1 DEF ArrivalOrder
  <2>3. QueueInv'
    BY <1>1 DEF QueueInv, Types
  <2>4. WorkConserving'
    <3>1. Cardinality(held) \in Nat /\ Slots \in Nat
      BY CountType, SchedulerAssumption DEF Unrolled
    <3> QED BY <3>1 DEF WorkConserving, SlotAccounting
  <2>5. Owners' = Owners
    BY <1>1 DEF Owners, Types
  <2> QED BY <1>2, <2>1, <2>2, <2>3, <2>4, <2>5, SameOwners
<1> QED BY <1>3, <1>4, <1>5 DEF Acquire

LEMMA AdmittedStep ==
  ASSUME IInv, NEW p \in Piece, Announced(p) \/ Wake(p) \/ Submit(p)
  PROVE  IInv'
<1> USE DEF IInv
<1>1. CASE Announced(p) \/ Wake(p)
  <2> USE <1>1 DEF Announced, Wake, Resumed, queue, pool
  <2>1. Types'
    BY DEF Types, Steps
  <2>2. PoolInv'
    BY DEF PoolInv, Running
  <2>3. ArrivalOrder' /\ WorkConserving'
    BY DEF ArrivalOrder, WorkConserving
  <2>4. QueueInv'
    <3>1. p \in waiting => step'[p] = "parked"
      BY DEF QueueInv, Types
    <3>2. \A q \in Piece \ {p} : step'[q] = step[q]
      BY DEF Types
    <3>3. admitted' = admitted /\ waiting' = waiting
      OBVIOUS
    <3> QED BY <3>1, <3>2, <3>3 DEF QueueInv, ArrivalOrder
  <2>5. Owners' = Owners
    BY DEF Owners, Types
  <2> QED BY <2>1, <2>2, <2>3, <2>4, <2>5, SameOwners
<1>2. CASE Submit(p)
  <2> USE <1>2 DEF Submit, Resumed, queue
  <2>1. Types'
    BY DEF Types, Steps
  <2>2. PoolInv'
    <3>1. Running' \subseteq Running
      BY DEF Running, Types
    <3> QED BY <3>1, SamePool DEF Types
  <2>3. ArrivalOrder' /\ WorkConserving'
    BY DEF ArrivalOrder, WorkConserving
  <2>4. QueueInv'
    BY DEF QueueInv, Types
  <2>5. Owners' = Owners
    BY DEF Owners, Types
  <2> QED BY <2>1, <2>2, <2>3, <2>4, <2>5, SameOwners
<1> QED BY <1>1, <1>2

LEMMA UnwindStep ==
  ASSUME IInv, NEW p \in Piece, Unwind(p)
  PROVE  IInv'
<1> USE DEF IInv
<1>1. /\ step[p] \in {"announcing", "parked"}
      /\ Resumed(p, "idle")
      /\ UNCHANGED <<closed, job, abandoned, broken>>
  BY DEF Unwind, pool
<1>2. PoolInv'
  BY <1>1 DEF PoolInv, Running
<1>3. CASE p \notin waiting /\ admitted[p] = "granted"
  <2>1. Release(p)
    BY <1>3 DEF Unwind
  <2>2. p \in Owners
    BY <1>1, <1>3 DEF Owners
  <2> QED BY <1>1, <1>2, <2>1, <2>2, ReleaseStep DEF Types
<1>4. CASE ~(p \notin waiting /\ admitted[p] = "granted")
  <2>1. /\ held' = held
        /\ waiting' = waiting \ {p}
        /\ earlier' = {e \in earlier : e[1] # p /\ e[2] # p}
        /\ admitted' = [admitted EXCEPT ![p] = "none"]
    <3>1. CASE p \in waiting
      BY <1>4, <3>1 DEF Unwind, Remove
    <3>2. CASE p \notin waiting
      <4>1. {e \in earlier : e[1] # p /\ e[2] # p} = earlier
        BY <3>2 DEF ArrivalOrder
      <4> QED BY <1>4, <3>2, <4>1 DEF Unwind
    <3> QED BY <3>1, <3>2
  <2> USE DEF Resumed
  <2>2. Types'
    BY <1>1, <2>1 DEF Types, Steps
  <2>3. ArrivalOrder' /\ WorkConserving'
    BY <2>1 DEF ArrivalOrder, WorkConserving
  <2>4. QueueInv'
    BY <1>1, <2>1 DEF QueueInv, Types
  <2>5. Owners' = Owners
    <3>1. p \notin Owners
      BY <1>1, <1>4 DEF Owners, QueueInv
    <3> QED BY <1>1, <2>1, <3>1 DEF Owners, Types
  <2> QED BY <1>2, <2>1, <2>2, <2>3, <2>4, <2>5, SameOwners
<1> QED BY <1>3, <1>4

LEMMA GiveBackStep ==
  ASSUME IInv, NEW p \in Piece, GiveBack(p)
  PROVE  IInv'
<1> USE DEF IInv
<1>1. p \in Owners /\ Release(p) /\ Resumed(p, "idle")
  BY DEF GiveBack, Owners
<1>2. /\ job' = [job EXCEPT ![p] = "none"]
      /\ UNCHANGED <<closed, abandoned, broken>>
  BY DEF GiveBack
<1>3. PoolInv'
  <2>1. Running' \subseteq Running
    BY <1>2 DEF Running, Types
  <2> QED BY <1>2, <2>1, SamePool DEF Types
<1>4. job' \in [Piece -> {"none", "queued", "running", "done"}]
  BY <1>2 DEF Types
<1>5. /\ Unrolled(held)' /\ ArrivalOrder' /\ QueueInv' /\ SlotAccounting'
      /\ WorkConserving'
      /\ admitted' \in [Piece -> {"none", "pending", "granted", "cancelled"}]
      /\ step' \in [Piece -> Steps]
      /\ cancelling' \in [Piece -> BOOLEAN]
  BY <1>1, ReleaseStep
<1>6. Types'
  BY <1>2, <1>4, <1>5 DEF Types
<1> QED BY <1>3, <1>5, <1>6


\* Cancelling a piece whose job a worker already runs moves that worker from the
\* running jobs to the abandoned ones.
LEMMA CancelStep ==
  ASSUME IInv, NEW p \in Piece, Cancel(p)
  PROVE  IInv'
<1> USE DEF IInv
<1> USE DEF Cancel
<1>1. Types'
  BY DEF Types, Steps
<1>2. PoolInv'
  <2>1. CASE job[p] = "running"
    <3>1. Running \in SUBSET Piece
      BY DEF Running
    <3>2. IsFiniteSet(Running) /\ Cardinality(Running) \in Nat
      BY <3>1, SchedulerAssumption, FS_Subset, FS_CardinalityType
    <3>3. Running' = Running \ {p} /\ p \in Running
      BY <2>1 DEF Running, Types
    <3>4. Cardinality(Running') = Cardinality(Running) - 1
      BY <3>2, <3>3, FS_RemoveElement
    <3> QED BY <2>1, <3>2, <3>4, SchedulerAssumption DEF PoolInv, Types
  <2>2. CASE job[p] # "running"
    <3>1. Running' \subseteq Running
      BY DEF Running, Types
    <3> QED BY <2>2, <3>1, SamePool DEF Types
  <2> QED BY <2>1, <2>2
<1>3. ArrivalOrder' /\ WorkConserving'
  BY DEF ArrivalOrder, WorkConserving
<1>4. QueueInv'
  BY DEF QueueInv, Types, ArrivalOrder
<1>5. Owners' = Owners
  BY DEF Owners, Types
<1> QED BY <1>1, <1>2, <1>3, <1>4, <1>5, SameOwners

LEMMA CloseStep ==
  ASSUME IInv, Close
  PROVE  IInv'
<1> USE DEF IInv
<1> USE DEF Close, pool
<1>1. Types'
  BY DEF Types, Steps
<1>2. PoolInv'
  BY DEF PoolInv, Running
<1>3. waiting' = {} /\ earlier' = {}
  BY DEF Remove, ArrivalOrder
<1>4. ArrivalOrder' /\ WorkConserving' /\ QueueInv'
  BY <1>3 DEF ArrivalOrder, WorkConserving, QueueInv
<1>5. Owners' = Owners
  BY DEF Owners, Types, Live, QueueInv
<1> QED BY <1>1, <1>2, <1>4, <1>5, SameOwners

LEMMA PoolStep ==
  ASSUME IInv,
         (\E p \in Piece : Pick(p) \/ Finish(p)) \/ FinishAbandoned \/ WorkerDies
  PROVE  IInv'
<1> USE DEF IInv
<1>1. /\ UNCHANGED <<held, queue, closed, step, cancelling>>
      /\ job' \in [Piece -> {"none", "queued", "running", "done"}]
      /\ abandoned' \in Nat /\ broken' \in BOOLEAN
  <2>1. CASE \E p \in Piece : Pick(p) \/ Finish(p)
    BY <2>1 DEF Pick, Finish, Types
  <2>2. CASE FinishAbandoned
    BY <2>2 DEF FinishAbandoned, Types
  <2>3. CASE WorkerDies
    BY <2>3 DEF WorkerDies, Types
  <2> QED BY <2>1, <2>2, <2>3
<1>2. Types'
  BY <1>1 DEF Types, queue
<1>3. PoolInv'
  <2>1. ASSUME NEW p \in Piece, Pick(p) PROVE PoolInv'
    <3>1. Running \in SUBSET Piece
      BY DEF Running
    <3>2. IsFiniteSet(Running) /\ Cardinality(Running) \in Nat
      BY <3>1, SchedulerAssumption, FS_Subset, FS_CardinalityType
    <3>3. Running' = Running \cup {p}
      BY <2>1 DEF Pick, Running, Types
    <3>4. Cardinality(Running') <= Cardinality(Running) + 1 /\ Cardinality(Running') \in Nat
      BY <3>2, <3>3, FS_AddElement
    <3>5. Cardinality(Running) + abandoned < Slots /\ abandoned' = abandoned
      BY <2>1 DEF Pick
    <3> QED BY <3>2, <3>4, <3>5, SchedulerAssumption DEF PoolInv, Types
  <2>2. ASSUME NEW p \in Piece, Finish(p) PROVE PoolInv'
    <3>1. Running' \subseteq Running /\ abandoned' = abandoned
      BY <2>2 DEF Finish, Running, Types
    <3> QED BY <3>1, SamePool DEF Types
  <2>3. CASE FinishAbandoned \/ WorkerDies
    <3>1. Running' \subseteq Running /\ abandoned' <= abandoned
      BY <2>3 DEF FinishAbandoned, WorkerDies, Running, Types
    <3> QED BY <1>1, <3>1, SamePool
  <2> QED BY <2>1, <2>2, <2>3
<1>4. ArrivalOrder' /\ WorkConserving' /\ QueueInv'
  BY <1>1 DEF ArrivalOrder, WorkConserving, QueueInv, queue
<1>5. Owners' = Owners
  BY <1>1 DEF Owners, queue
<1> QED BY <1>1, <1>2, <1>3, <1>4, <1>5, SameOwners

\* Every step of the scheduler, its callers and its pool keeps the invariant.
LEMMA StepInvariant ==
  IInv /\ [Next]_vars => IInv'
<1> SUFFICES ASSUME IInv, [Next]_vars PROVE IInv'
  OBVIOUS
<1>1. CASE UNCHANGED vars
  <2>1. UNCHANGED <<held, waiting, earlier, admitted, closed, step, cancelling,
                    job, abandoned, broken>>
    BY <1>1 DEF vars, queue, pool
  <2>2. Types' /\ PoolInv' /\ ArrivalOrder' /\ QueueInv' /\ WorkConserving'
    BY <2>1 DEF IInv, Types, PoolInv, Running, ArrivalOrder, QueueInv, WorkConserving
  <2>3. Owners' = Owners
    BY <2>1 DEF Owners
  <2> QED BY <2>1, <2>2, <2>3, SameOwners DEF IInv
<1>2. CASE Next
  <2>1. ASSUME NEW p \in Piece, Resume(p) PROVE IInv'
    BY <2>1, AdmittedStep, UnwindStep, GiveBackStep DEF Resume
  <2> QED BY <1>2, <2>1, AcquireStep, CancelStep, CloseStep, PoolStep DEF Next
<1> QED BY <1>1, <1>2

\* TypeOK follows: a run's slots are numbered below the pool's size.
LEMMA InvariantTypes ==
  IInv => TypeOK
<1> SUFFICES ASSUME IInv PROVE TypeOK
  OBVIOUS
<1> USE DEF IInv
<1>1. held \subseteq Run \X (1..Slots)
  <2> SUFFICES ASSUME NEW s \in held PROVE s \in Run \X (1..Slots)
    OBVIOUS
  <2>1. PICK r \in Run, i \in Nat : s = <<r, i>>
    BY DEF Unrolled
  <2>2. 1 <= i /\ i <= Count(held, r)
    BY <2>1 DEF Unrolled
  <2>3. Count(held, r) \in Nat /\ Cardinality(held) \in Nat
           /\ Count(held, r) <= Cardinality(held)
    BY CountType DEF Unrolled
  <2>4. i \in 1..Slots
    BY <2>2, <2>3, SchedulerAssumption DEF SlotAccounting
  <2> QED BY <2>1, <2>4
<1>2. abandoned \in 0..Slots
  <2>1. Running \in SUBSET Piece
    BY DEF Running
  <2>2. Cardinality(Running) \in Nat
    BY <2>1, SchedulerAssumption, FS_Subset, FS_CardinalityType
  <2> QED BY <2>2, SchedulerAssumption DEF PoolInv, Types
<1> QED BY <1>1, <1>2 DEF Types, ArrivalOrder, TypeOK

THEOREM Invariance == Spec => []IInv
<1> QED BY InitInvariant, StepInvariant, PTL DEF Spec

\* Every variable of the scheduler keeps its type: class Scheduler.
THEOREM TypeCorrectness == Spec => []TypeOK
<1> QED BY Invariance, InvariantTypes, PTL

\* Whatever is cancelled, refused, closed or broken, and whenever, the counts in
\* _held are the pieces that own a slot, never more than the pool has workers.
THEOREM SlotsAccountedFor == Spec => []SlotAccounting
<1>1. IInv => SlotAccounting
  BY DEF IInv
<1> QED BY <1>1, Invariance, PTL

\* No piece ever waits beside a free slot; in particular the `not self._waiting`
\* of acquire's fast path is implied by its other conjunct.
THEOREM NeverIdleBesideAWaiter == Spec => []WorkConserving
<1>1. IInv => WorkConserving
  BY DEF IInv
<1> QED BY <1>1, Invariance, PTL

--------------------------------------------------------------------------------
(* The scheduler is a fair pool of slots. *)

\* over all runs, as many slots as owners
Total == Cardinality(Owners) = Cardinality(held)

\* what FairShare says of one step
FairStep ==
  \A v, w \in Live :
    admitted'[v] = "granted" /\ w \in Live' =>
      LET mine(p) == Cardinality({o \in Owners' \ {v} : RunOf[o] = RunOf[p]})
      IN  \/ mine(v) < mine(w)
          \/ mine(v) = mine(w) /\ <<v, w>> \in earlier

\* the abstract specification counts with its own instance of the operator
LEMMA SameCardinality ==
  ASSUME NEW S PROVE SlotPool!Cardinality(S) = Cardinality(S)
BY DEF SlotPool!Cardinality, Cardinality

Simulated == SlotPool!Next \/ (Owners' = Owners /\ Live' = Live)

LEMMA AllOwnersFinite ==
  /\ IsFiniteSet(Owners) /\ Cardinality(Owners) \in Nat
  /\ IsFiniteSet(Owners') /\ Cardinality(Owners') \in Nat
<1>1. Owners \in SUBSET Piece /\ Owners' \in SUBSET Piece
  BY DEF Owners
<1> QED BY <1>1, SchedulerAssumption, FS_Subset, FS_CardinalityType

\* The waiter of w's run that came first has its turn with the slots the run
\* holds: nobody of its run is ahead of it.
LEMMA FirstOfRun ==
  ASSUME ArrivalOrder, NEW h, IsFiniteSet(h), NEW w \in Live
  PROVE  \E u \in Live : /\ RunOf[u] = RunOf[w] /\ Turn(h, u) = Count(h, RunOf[w])
                         /\ u = w \/ <<u, w>> \in earlier
<1> DEFINE Ahead(x) == {v \in Live : RunOf[v] = RunOf[x] /\ <<v, x>> \in earlier}
           Line == {u \in Live : RunOf[u] = RunOf[w] /\ (u = w \/ <<u, w>> \in earlier)}
           T == {Cardinality(Ahead(u)) : u \in Line}
<1>1. \A u \in Live : IsFiniteSet(Ahead(u)) /\ Cardinality(Ahead(u)) \in Nat
  BY FinitePieces
<1>2. T \subseteq Nat /\ T # {}
  BY <1>1
<1>3. PICK m \in T : \A k \in T : m <= k
  BY <1>2, LeastNatural
<1>4. PICK u \in Line : Cardinality(Ahead(u)) = m
  BY <1>3
<1>5. ASSUME NEW x \in Ahead(u) PROVE FALSE
  <2>1. x \in Line
    BY DEF ArrivalOrder, Live
  <2>2. Cardinality(Ahead(u)) <= Cardinality(Ahead(x))
    BY <1>3, <1>4, <2>1
  <2>3. Ahead(x) \subseteq Ahead(u) /\ x \notin Ahead(x) /\ Ahead(x) # Ahead(u)
    BY DEF ArrivalOrder, Live
  <2>4. /\ Cardinality(Ahead(x)) <= Cardinality(Ahead(u))
        /\ Cardinality(Ahead(u)) = Cardinality(Ahead(x)) => Ahead(x) = Ahead(u)
    BY <1>1, <2>3, FS_Subset
  <2>5. Cardinality(Ahead(x)) \in Nat /\ Cardinality(Ahead(u)) \in Nat
    BY <1>1, <2>1
  <2> HIDE DEF Ahead
  <2> QED BY <2>2, <2>3, <2>4, <2>5
<1>6. Cardinality(Ahead(u)) = 0
  BY <1>5, FS_EmptySet
<1>7. Count(h, RunOf[w]) \in Nat
  BY CountType
<1>8. Turn(h, u) = Count(h, RunOf[w])
  BY <1>6, <1>7 DEF Turn
<1> QED BY <1>8

\* The one waiter that _promote serves is of a run that holds no more than any
\* other waiter's, and came before those whose run holds as many.
LEMMA ServedIsFair ==
  ASSUME ArrivalOrder, NEW h, IsFiniteSet(h), Cardinality(h) = Slots - 1, NEW q \in Live,
         Granted(h) = {q}, Turn(h, q) = Count(h, RunOf[q]), NEW w \in Live, w # q
  PROVE  \/ Count(h, RunOf[q]) < Count(h, RunOf[w])
         \/ Count(h, RunOf[q]) = Count(h, RunOf[w]) /\ <<q, w>> \in earlier
<1>1. ASSUME NEW v \in Live PROVE ~Precedes(h, v, q)
  <2>1. Rank(h, q) < 1
    <3>1. q \in Reached(h)
      BY DEF Granted
    <3>2. Rank(h, q) < Slots - Cardinality(h)
      BY <3>1 DEF Reached, Rank
    <3> QED BY <3>2, SchedulerAssumption
  <2>2. IsFiniteSet({x \in Live : Precedes(h, x, q)}) /\ Rank(h, q) \in Nat
    BY FinitePieces DEF Rank
  <2>3. {x \in Live : Precedes(h, x, q)} = {}
    BY <2>1, <2>2, FS_EmptySet DEF Rank
  <2> QED BY <2>3
<1>2. PICK u \in Live : /\ RunOf[u] = RunOf[w] /\ Turn(h, u) = Count(h, RunOf[w])
                        /\ u = w \/ <<u, w>> \in earlier
  BY FirstOfRun
<1>3. Count(h, RunOf[q]) \in Nat /\ Count(h, RunOf[w]) \in Nat
  BY CountType
<1>4. u = q \/ Precedes(h, q, u)
  BY <1>1, PrecedesOrder
<1>5. CASE u = q
  <2>1. RunOf[q] = RunOf[w] /\ <<q, w>> \in earlier
    BY <1>2, <1>5
  <2> QED BY <2>1
<1>6. CASE Precedes(h, q, u)
  <2>1. \/ Count(h, RunOf[q]) < Count(h, RunOf[w])
        \/ Count(h, RunOf[q]) = Count(h, RunOf[w]) /\ <<q, u>> \in earlier
    <3>1. Turn(h, q) < Turn(h, u) \/ (Turn(h, q) = Turn(h, u) /\ <<q, u>> \in earlier)
      BY <1>6 DEF Precedes
    <3>2. Turn(h, q) = Count(h, RunOf[q]) /\ Turn(h, u) = Count(h, RunOf[w])
      BY <1>2
    <3> QED BY <3>1, <3>2
  <2>2. <<q, u>> \in earlier => <<q, w>> \in earlier
    BY <1>2 DEF ArrivalOrder, Live
  <2> QED BY <2>1, <2>2
<1> QED BY <1>4, <1>5, <1>6

\* Whoever gives a slot back leaves, or hands it over to the fairest waiter.
LEMMA ReleaseIsFair ==
  ASSUME IInv, Total, NEW p \in Owners, Release(p), Resumed(p, "idle")
  PROVE  /\ Total' /\ FairStep
         /\ SlotPool!Leave(p) \/ \E q \in Piece : SlotPool!HandOver(p, q)
<1> DEFINE r == RunOf[p]
           h == held \ {<<r, Count(held, r)>>}
<1> USE DEF IInv
<1>1. p \in Piece /\ r \in Run /\ p \notin waiting
  BY SchedulerAssumption DEF Owners, QueueInv
<1>2. IsFiniteSet(held) /\ Cardinality(held) \in Nat /\ Slots \in Nat \ {0}
  BY CountType, SchedulerAssumption DEF Unrolled
<1>3. Count(held, r) > 0
  <2>1. p \in OwnersOf(r)
    BY DEF OwnersOf
  <2>2. Count(held, r) = Cardinality(OwnersOf(r))
    BY <1>1 DEF SlotAccounting, OwnersOf
  <2>3. Cardinality(OwnersOf(r)) \in Nat /\ Cardinality(OwnersOf(r)) # 0
    BY <2>1, OwnersFinite, FS_EmptySet, FS_CardinalityType
  <2> QED BY <2>2, <2>3
<1>4. /\ Unrolled(h)
      /\ Cardinality(h) = Cardinality(held) - 1
      /\ \A q \in Run : Count(h, q) = IF q = r THEN Count(held, r) - 1 ELSE Count(held, q)
  BY <1>1, <1>3, DropSlot
<1>5. IsFiniteSet(h) /\ Cardinality(h) \in Nat
  BY <1>4, CountType DEF Unrolled
<1>6. /\ held' = h \cup {<<RunOf[w], Turn(h, w) + 1>> : w \in Granted(h)}
      /\ waiting' = waiting \ Reached(h)
      /\ admitted' = [q \in Piece |-> IF q = p THEN "none"
                                      ELSE IF q \in Granted(h) THEN "granted"
                                      ELSE admitted[q]]
      /\ step' = [step EXCEPT ![p] = "idle"]
  BY DEF Release, Remove, Resumed
<1>7. /\ Reached(h) \subseteq waiting /\ Granted(h) \subseteq Live /\ Live \subseteq waiting
      /\ Granted(h) = Reached(h) \cap Live /\ waiting \subseteq Piece
  BY DEF Reached, Granted, Live, ArrivalOrder
<1>8. Owners' = (Owners \ {p}) \cup Granted(h)
  <2>1. \A q \in Granted(h) : q \in Piece /\ q # p /\ step[q] \in {"announcing", "parked"}
    BY <1>1, <1>7 DEF QueueInv, ArrivalOrder
  <2> QED BY <1>1, <1>6, <2>1 DEF Owners, Types
<1>9. Live' = Live \ Granted(h)
  BY <1>1, <1>6, <1>7 DEF Live
<1>10. \A q \in Run : Count(h, q) = Cardinality({o \in Owners \ {p} : RunOf[o] = q})
  <2> SUFFICES ASSUME NEW q \in Run
               PROVE  Count(h, q) = Cardinality({o \in Owners \ {p} : RunOf[o] = q})
    OBVIOUS
  <2>1. {o \in Owners \ {p} : RunOf[o] = q} = OwnersOf(q) \ {p} /\ (p \in OwnersOf(q) <=> q = r)
    BY DEF OwnersOf
  <2>2. Cardinality(OwnersOf(q) \ {p}) =
          IF q = r THEN Cardinality(OwnersOf(q)) - 1 ELSE Cardinality(OwnersOf(q))
    BY <2>1, OwnersFinite, FS_RemoveElement
  <2>3. Count(held, q) = Cardinality(OwnersOf(q))
    BY DEF SlotAccounting, OwnersOf
  <2> QED BY <1>4, <2>1, <2>2, <2>3
<1>11. Cardinality(Owners \ {p}) = Cardinality(h) /\ IsFiniteSet(Owners \ {p})
  BY <1>4, AllOwnersFinite, FS_RemoveElement DEF Total
<1>12. CASE Live = {}
  <2>1. Granted(h) = {}
    BY <1>7, <1>12
  <2>2. held' = h /\ Owners' = Owners \ {p} /\ Live' = {}
    BY <1>6, <1>8, <1>9, <1>12, <2>1
  <2>3. Total'
    BY <1>11, <2>2 DEF Total
  <2> QED BY <1>12, <2>2, <2>3 DEF SlotPool!Leave, FairStep
<1>13. CASE Live # {}
  <2>1. Cardinality(h) = Slots - 1
    BY <1>4, <1>7, <1>13 DEF WorkConserving
  <2>2. PICK q \in Live : Granted(h) = {q} /\ Turn(h, q) = Count(h, RunOf[q])
    BY <1>5, <1>13, <2>1, ServesOne
  <2>3. q \in Piece /\ q # p /\ RunOf[q] \in Run /\ q \notin Owners
    BY <1>1, <1>7, SchedulerAssumption DEF ArrivalOrder, QueueInv, Owners
  <2>4. Owners' = (Owners \ {p}) \cup {q} /\ Live' = Live \ {q}
    BY <1>8, <1>9, <2>2
  <2>5. Cardinality(held') = Cardinality(h) + 1
    <3>1. held' = h \cup {<<RunOf[q], Count(h, RunOf[q]) + 1>>}
      BY <1>6, <2>2
    <3>2. Unrolled(h) /\ RunOf[q] \in Run
      BY <1>4, <2>3
    <3> HIDE DEF h
    <3> QED BY <3>1, <3>2, TakeSlot
  <2>6. Total'
    <3>1. Cardinality(Owners') = Cardinality(Owners \ {p}) + 1
      BY <1>11, <2>3, <2>4, FS_AddElement
    <3> QED BY <1>11, <2>5, <3>1 DEF Total
  <2>7. ASSUME NEW w \in Live, w # q
        PROVE  \/ Count(h, RunOf[q]) < Count(h, RunOf[w])
               \/ Count(h, RunOf[q]) = Count(h, RunOf[w]) /\ <<q, w>> \in earlier
    <3> HIDE DEF h
    <3> QED BY <1>5, <2>1, <2>2, <2>7, ServedIsFair
  <2>8. ASSUME NEW w \in Live
        PROVE  RunOf[w] \in Run /\ Count(h, RunOf[w]) \in Nat
    BY <1>5, <1>7, CountType, SchedulerAssumption
  <2>9. SlotPool!HandOver(p, q)
    <3>1. \A w \in Live : SlotPool!Share(Owners \ {p}, w) = Count(h, RunOf[w])
      <4> SUFFICES ASSUME NEW w \in Live
                   PROVE  SlotPool!Share(Owners \ {p}, w) = Count(h, RunOf[w])
        OBVIOUS
      <4>1. Count(h, RunOf[w]) = Cardinality({o \in Owners \ {p} : RunOf[o] = RunOf[w]})
        <5> HIDE DEF h
        <5> QED BY <1>10, <2>8
      <4>2. SlotPool!Share(Owners \ {p}, w) = Cardinality({o \in Owners \ {p} : RunOf[o] = RunOf[w]})
        BY SameCardinality DEF SlotPool!Share
      <4> QED BY <4>1, <4>2
    <3>2. ASSUME NEW w \in Live PROVE Count(h, RunOf[q]) <= Count(h, RunOf[w])
      <4>1. Count(h, RunOf[q]) \in Nat /\ Count(h, RunOf[w]) \in Nat
        BY <2>8
      <4>2. CASE w = q
        BY <4>1, <4>2
      <4>3. CASE w # q
        <5> DEFINE m == Count(h, RunOf[q])  n == Count(h, RunOf[w])
        <5>1. m < n \/ m = n
          BY <2>7, <4>3
        <5> HIDE DEF m, n
        <5>2. m \in Nat /\ n \in Nat
          BY <4>1 DEF m, n
        <5>3. m <= n
          BY <5>1, <5>2
        <5> QED BY <5>3 DEF m, n
      <4> QED BY <4>2, <4>3
    <3>3. \A w \in Live : SlotPool!Share(Owners \ {p}, q) <= SlotPool!Share(Owners \ {p}, w)
      BY <3>1, <3>2
    <3> QED BY <2>4, <3>3 DEF SlotPool!HandOver
  <2>10. FairStep
    <3>1. \A v \in Live : admitted'[v] = "granted" => v = q
      BY <1>1, <1>6, <1>7, <2>2 DEF Live
    <3>2. Owners' \ {q} = Owners \ {p}
      BY <2>3, <2>4
    <3>3. \A w \in Live' : w \in Live /\ w # q
      BY <2>4
    <3> QED BY <1>10, <2>3, <2>7, <2>8, <3>1, <3>2, <3>3 DEF FairStep
  <2> QED BY <2>3, <2>6, <2>9, <2>10
<1> QED BY <1>12, <1>13

LEMMA QuietStep ==
  ASSUME Total, Owners' = Owners, held' = held, \A v \in Live : admitted'[v] # "granted"
  PROVE  Total' /\ FairStep
BY DEF Total, FairStep

LEMMA AcquireIsFair ==
  ASSUME IInv, Total, NEW p \in Piece, Acquire(p)
  PROVE  Total' /\ FairStep /\ Simulated
<1> USE DEF IInv
<1>1. /\ step[p] = "idle" /\ p \notin waiting /\ p \notin Owners /\ RunOf[p] \in Run
      /\ IsFiniteSet(held) /\ Cardinality(held) \in Nat /\ Slots \in Nat \ {0}
      /\ Cardinality(held) <= Slots
  BY CountType, SchedulerAssumption
     DEF Acquire, AcquireRefused, AcquireAtOnce, AcquireLater, QueueInv, Owners, Unrolled,
         SlotAccounting
<1>2. CASE AcquireRefused(p)
  <2>1. UNCHANGED <<held, waiting, admitted>> /\ step' = [step EXCEPT ![p] = "refused"]
    BY <1>2 DEF AcquireRefused, Resumed, queue
  <2>2. Owners' = Owners /\ Live' = Live
    BY <1>1, <2>1 DEF Owners, Live, Types
  <2>3. \A v \in Live : admitted'[v] # "granted"
    BY <2>1 DEF Live
  <2> QED BY <2>1, <2>2, <2>3, QuietStep DEF Simulated
<1>3. CASE AcquireAtOnce(p)
  <2>1. /\ waiting = {} /\ Cardinality(held) < Slots /\ UNCHANGED <<waiting, admitted>>
        /\ held' = held \cup {<<RunOf[p], Count(held, RunOf[p]) + 1>>}
        /\ step' = [step EXCEPT ![p] = "starting"]
    BY <1>3 DEF AcquireAtOnce, Resumed, queue
  <2>2. Live = {} /\ Live' = {} /\ Owners' = Owners \cup {p}
    BY <1>1, <2>1 DEF Owners, Live, Types
  <2>3. Cardinality(held') = Cardinality(held) + 1
    BY <1>1, <2>1, TakeSlot
  <2>4. Cardinality(Owners') = Cardinality(Owners) + 1
    BY <1>1, <2>2, AllOwnersFinite, FS_AddElement
  <2>5. SlotPool!Take(p)
    BY <1>1, <2>1, <2>2, SameCardinality DEF SlotPool!Take, Total
  <2> QED BY <2>2, <2>3, <2>4, <2>5 DEF Total, FairStep, Simulated, SlotPool!Next
<1>4. CASE AcquireLater(p)
  <2>1. /\ waiting # {} \/ Cardinality(held) >= Slots
        /\ waiting' = waiting \cup {p} /\ admitted' = [admitted EXCEPT ![p] = "pending"]
        /\ held' = held /\ \E s \in {"announcing", "parked"} : step' = [step EXCEPT ![p] = s]
    BY <1>4 DEF AcquireLater, Resumed
  <2>2. Owners' = Owners /\ Live' = Live \cup {p} /\ p \notin Live
    BY <1>1, <2>1 DEF Owners, Live, Types, ArrivalOrder
  <2>3. Cardinality(Owners) = Slots
    BY <1>1, <2>1 DEF WorkConserving, Total
  <2>4. SlotPool!Queue(p)
    BY <1>1, <2>2, <2>3, SameCardinality DEF SlotPool!Queue
  <2>5. \A v \in Live : admitted'[v] # "granted"
    BY <2>1, <2>2 DEF Live, Types, ArrivalOrder
  <2> QED BY <2>1, <2>2, <2>4, <2>5, QuietStep DEF Simulated, SlotPool!Next
<1> QED BY <1>2, <1>3, <1>4 DEF Acquire

LEMMA ResumeIsFair ==
  ASSUME IInv, Total, NEW p \in Piece, Resume(p)
  PROVE  Total' /\ FairStep /\ Simulated
<1> USE DEF IInv
<1>1. ASSUME p \in Owners, Release(p), Resumed(p, "idle")
      PROVE  Total' /\ FairStep /\ Simulated
  BY <1>1, ReleaseIsFair DEF Simulated, SlotPool!Next
<1>2. CASE Announced(p) \/ Wake(p) \/ Submit(p)
  <2> USE <1>2 DEF Announced, Wake, Submit, Resumed, queue, pool
  <2>1. UNCHANGED <<held, waiting, admitted>>
    OBVIOUS
  <2>2. Owners' = Owners /\ Live' = Live
    BY DEF Owners, Live, Types
  <2>3. \A v \in Live : admitted'[v] # "granted"
    BY <2>1 DEF Live
  <2> QED BY <2>1, <2>2, <2>3, QuietStep DEF Simulated
<1>3. CASE GiveBack(p)
  BY <1>1, <1>3 DEF GiveBack, Owners
<1>4. CASE Unwind(p)
  <2>1. step[p] \in {"announcing", "parked"} /\ Resumed(p, "idle")
    BY <1>4 DEF Unwind
  <2>2. CASE p \notin waiting /\ admitted[p] = "granted"
    BY <1>1, <1>4, <2>1, <2>2 DEF Unwind, Owners
  <2>3. CASE ~(p \notin waiting /\ admitted[p] = "granted")
    <3>1. /\ held' = held /\ waiting' = waiting \ {p}
          /\ admitted' = [admitted EXCEPT ![p] = "none"]
      BY <1>4, <2>3 DEF Unwind, Remove
    <3>2. step' = [step EXCEPT ![p] = "idle"]
      BY <2>1 DEF Resumed
    <3>3. Owners' = Owners
      <4>1. p \notin Owners
        BY <2>1, <2>3 DEF Owners, QueueInv
      <4> QED BY <2>1, <3>1, <3>2, <4>1 DEF Owners, Types
    <3>4. Live' = Live \ {p}
      BY <3>1 DEF Live, Types, ArrivalOrder
    <3>5. \A v \in Live : admitted'[v] # "granted"
      BY <3>1 DEF Live, Types, ArrivalOrder
    <3>6. Simulated
      BY <3>3, <3>4 DEF Simulated, SlotPool!Next, SlotPool!GiveUp
    <3> QED BY <3>1, <3>3, <3>5, <3>6, QuietStep
  <2> QED BY <2>2, <2>3
<1> QED BY <1>2, <1>3, <1>4 DEF Resume

LEMMA OtherIsFair ==
  ASSUME IInv, Total,
         \/ \E p \in Piece : Cancel(p) \/ Pick(p) \/ Finish(p)
         \/ Close \/ FinishAbandoned \/ WorkerDies \/ UNCHANGED vars
  PROVE  Total' /\ FairStep /\ Simulated
<1> USE DEF IInv
<1>1. ASSUME NEW p \in Piece, Cancel(p) PROVE Total' /\ FairStep /\ Simulated
  <2>1. /\ UNCHANGED <<held, waiting, step>>
        /\ \/ admitted' = admitted
           \/ admitted[p] = "pending" /\ admitted' = [admitted EXCEPT ![p] = "cancelled"]
    BY <1>1 DEF Cancel
  <2>2. Owners' = Owners
    BY <2>1 DEF Owners, Types
  <2>3. Live' = Live \/ (p \in Live /\ Live' = Live \ {p})
    BY <2>1 DEF Live, Types, ArrivalOrder
  <2>4. \A v \in Live : admitted'[v] # "granted"
    BY <2>1 DEF Live, Types, ArrivalOrder
  <2>5. Simulated
    BY <2>2, <2>3 DEF Simulated, SlotPool!Next, SlotPool!GiveUp
  <2> QED BY <2>1, <2>2, <2>4, <2>5, QuietStep
<1>2. CASE Close
  <2>1. /\ waiting' = {} /\ UNCHANGED <<held, step>>
        /\ admitted' = [p \in Piece |-> IF p \in Live THEN "cancelled" ELSE admitted[p]]
    BY <1>2 DEF Close, Remove
  <2>2. Owners' = Owners
    BY <2>1 DEF Owners, Types, Live, QueueInv
  <2>3. Live' = {} /\ \A v \in Live : admitted'[v] # "granted"
    BY <2>1 DEF Live, ArrivalOrder
  <2>4. Simulated
    BY <2>2, <2>3 DEF Simulated, SlotPool!Next, SlotPool!CloseAll
  <2> QED BY <2>1, <2>2, <2>3, <2>4, QuietStep
<1>3. CASE \/ \E p \in Piece : Pick(p) \/ Finish(p)
           \/ FinishAbandoned \/ WorkerDies \/ UNCHANGED vars
  <2>1. UNCHANGED <<held, waiting, admitted, step>>
    BY <1>3 DEF Pick, Finish, FinishAbandoned, WorkerDies, vars, queue
  <2>2. Owners' = Owners /\ Live' = Live
    BY <2>1 DEF Owners, Live
  <2>3. \A v \in Live : admitted'[v] # "granted"
    BY <2>1 DEF Live
  <2> QED BY <2>1, <2>2, <2>3, QuietStep DEF Simulated
<1> QED BY <1>1, <1>2, <1>3

LEMMA Simulation ==
  IInv /\ Total /\ [Next]_vars => Total' /\ FairStep /\ Simulated
BY AcquireIsFair, ResumeIsFair, OtherIsFair DEF Next

LEMMA TotalInvariance == Spec => []Total
<1>1. Init => Total
  <2> SUFFICES ASSUME Init PROVE Total
    OBVIOUS
  <2>1. held = {} /\ Owners = {}
    BY DEF Init, Owners
  <2> QED BY <2>1 DEF Total
<1> QED BY <1>1, Invariance, Simulation, PTL DEF Spec

\* _promote: "a freed worker goes to the waiter whose run holds the fewest
\* already, with arrival order breaking ties", at every step, for every mix of
\* cancelled, refused and closed waiters.
THEOREM FreedSlotsAreFair == Spec => FairShare
<1>1. IInv /\ Total /\ [Next]_vars => FairStep
  BY Simulation
<1> QED BY <1>1, Invariance, TotalInvariance, PTL DEF Spec, FairShare, FairStep

\* Scheduler and run_for implement the pool of slots that FairSlots promises:
\* initial states map to its initial state, and each step maps to one of its
\* steps or to none.
THEOREM SchedulerIsAFairPool == Spec => ImplementsFairSlots
<1>1. Init => SlotPool!Init
  BY DEF Init, SlotPool!Init, Owners, Live
<1>2. IInv /\ Total /\ [Next]_vars => [SlotPool!Next]_SlotPool!vars
  BY Simulation DEF Simulated, SlotPool!vars
<1> QED BY <1>1, <1>2, Invariance, TotalInvariance, PTL
        DEF Spec, ImplementsFairSlots, SlotPool!Spec
================================================================================
