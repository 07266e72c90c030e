------------------------------- MODULE DataProofs -------------------------------
(***************************************************************************)
(* What a deployment stores and what it answers from it, for any number of *)
(* requests, datasets, insights and pages.                                 *)
(***************************************************************************)
EXTENDS MCData, FiniteSetTheorems, WellFoundedInduction, TLAPS


\* A request makes its future when it starts to compute, and only then.
FutureIsOwn ==
    \A r \in Request :
        /\ stage[r] \in {"new", "waiting"} => future[r] = None
        /\ stage[r] = "waiting" => leader[r] \in Request

\* Until a leader leaves, what is computed is what _pending holds.
OneUntilAbandoned ==
    (\A r \in Request : future[r] # "abandoned") => \A r \in Computing : pending = r

IInv == TypeOK /\ PendingIsLive /\ FutureIsOwn /\ OneUntilAbandoned

LEMMA InitIInv == Init => IInv
<1> SUFFICES ASSUME Init PROVE IInv
  OBVIOUS
<1>1. TypeOK
  BY DEF Init, TypeOK, None
<1>2. PendingIsLive /\ OneUntilAbandoned
  BY DEF Init, PendingIsLive, OneUntilAbandoned, Computing
<1>3. FutureIsOwn
  BY DEF Init, FutureIsOwn
<1> QED
  BY <1>1, <1>2, <1>3 DEF IInv

LEMMA StepIInv == IInv /\ [Next]_vars => IInv'
<1> SUFFICES ASSUME IInv, [Next]_vars PROVE IInv'
  OBVIOUS
<1> USE DEF IInv, TypeOK, PendingIsLive, FutureIsOwn, OneUntilAbandoned, Computing, None, Goes
<1>1. ASSUME NEW r \in Request, Hit(r) PROVE IInv'
  BY <1>1 DEF Hit
<1>2. ASSUME NEW r \in Request, Join(r) PROVE IInv'
  BY <1>2 DEF Join, Joinable
<1>3. ASSUME NEW r \in Request, Lead(r) PROVE IInv'
  <2>1. pending = None /\ r # None
    BY <1>3, AsyncCacheAssumption DEF Lead, Joinable
  <2>2. (\A q \in Request : future[q] # "abandoned") => Computing = {}
    BY <2>1, AsyncCacheAssumption
  <2>3. TypeOK' /\ FutureIsOwn'
    BY <1>3, <2>1 DEF Lead, Begin
  <2>4. PendingIsLive' /\ OneUntilAbandoned'
    BY <1>3, <2>1, <2>2 DEF Lead, Begin
  <2> QED
    BY <2>3, <2>4
<1>4. ASSUME NEW r \in Request, Computed(r) PROVE IInv'
  BY <1>4 DEF Computed, Settle
<1>5. ASSUME NEW r \in Request, Failed(r) PROVE IInv'
  BY <1>5 DEF Failed, Settle
<1>6. ASSUME NEW r \in Request, Abandon(r) PROVE IInv'
  <2>1. future[r] = "pending" /\ future' = [future EXCEPT ![r] = "abandoned"]
    BY <1>6 DEF Abandon, Settle
  <2>2. TypeOK' /\ FutureIsOwn'
    BY <1>6, <2>1 DEF Abandon, Settle
  <2>3. PendingIsLive' /\ OneUntilAbandoned'
    BY <1>6, <2>1 DEF Abandon, Settle
  <2> QED
    BY <2>2, <2>3
<1>7. ASSUME NEW r \in Request, Given(r) PROVE IInv'
  <2>1. \E s \in {"served", "raised"} : Goes(r, s)
    BY <1>7 DEF Given
  <2>2. stage[r] = "waiting" /\ UNCHANGED <<entry, pending, future, leader>>
    BY <1>7 DEF Given
  <2> QED
    BY <2>1, <2>2
<1>8. ASSUME NEW r \in Request, TakeOver(r) PROVE IInv'
  <2>1. stage[r] = "waiting" /\ future[r] = None
    BY <1>8 DEF TakeOver
  <2>2. future'[leader[r]] = "abandoned" /\ leader[r] \in Request
    BY <1>8, <2>1 DEF TakeOver, Begin, Outcome
  <2> QED
    BY <1>8, <2>1, <2>2, AsyncCacheAssumption DEF TakeOver, Begin, Outcome
<1>9. ASSUME NEW r \in Request, Stop(r) PROVE IInv'
  BY <1>9 DEF Stop
<1>10. ASSUME NEW r \in Request, Cancel(r) PROVE IInv'
  BY <1>10 DEF Cancel
<1>11. CASE Drop
  BY <1>11 DEF Drop
<1>12. CASE UNCHANGED vars
  BY <1>12 DEF vars
<1> QED
  BY <1>1, <1>2, <1>3, <1>4, <1>5, <1>6, <1>7, <1>8, <1>9, <1>10, <1>11, <1>12
     DEF Next, Resume

LEMMA Invariance == Spec => []IInv
  BY InitIInv, StepIInv, PTL DEF Spec

\* The futures and the stages of the requests are those of the code, and a
\* future is pending exactly while its request computes.
THEOREM TypeCorrectness == Spec => []TypeOK
<1>1. IInv => TypeOK
  BY DEF IInv
<1> QED
  BY <1>1, Invariance, PTL

\* The finally block of get_or_set leaves nothing in _pending that is over,
\* though a later leader may have put its own future there.
THEOREM PendingIsAlwaysLive == Spec => []PendingIsLive
<1>1. IInv => PendingIsLive
  BY DEF IInv
<1> QED
  BY <1>1, Invariance, PTL

LEMMA IInvImpliesComputedOnce == IInv => ComputedOnce
<1> SUFFICES ASSUME IInv, \A r \in Request : future[r] # "abandoned"
             PROVE  ~(Cardinality(Computing) > 1)
  BY DEF ComputedOnce
<1>1. \A r \in Computing : pending = r
  BY DEF IInv, OneUntilAbandoned
<1>2. CASE Computing = {}
  BY <1>2, FS_EmptySet
<1>3. CASE Computing # {}
  <2>1. Computing = {pending}
    BY <1>1, <1>3
  <2>2. Cardinality({pending}) = 1
    BY FS_Singleton
  <2> QED
    BY <2>1, <2>2
<1> QED
  BY <1>2, <1>3

\* get_or_set coalesces: two computations of one key at a time are the work
\* of waiters that took over from a leader that was cancelled.
THEOREM ComputedOnceAtATime == Spec => []ComputedOnce
  BY Invariance, IInvImpliesComputedOnce, PTL
-------------------------------------------------------------------------------
(* Datasets.  A request goes through the phases of its kind; whoever has   *)
(* written to a row has it to itself; an upload is alone with its dataset. *)

Busy(r) == request[r] # Blank
Writing(r) == Busy(r) /\ request[r].phase \in {"written", "removed"}
Uploading(r) == Busy(r) /\ request[r].kind = "upload"

PhasesOf(kind) == CASE kind = "upload" -> {"received", "converted", "mapped"}
                    [] kind = "configure" -> {"loaded", "written"}
                    [] kind = "accept" -> {"loaded", "recalled", "remembered", "written"}
                    [] kind = "delete" -> {"loaded", "written", "removed"}

Begun == tidy \subseteq begun /\ \A d \in Dataset \ begun : row[d] = Blank
InPhase == \A r \in Editor : Busy(r) => request[r].phase \in PhasesOf(request[r].kind)
RowIsThere ==
    \A r \in Editor :
        /\ Uploading(r) => row[request[r].of] = Blank /\ request[r].of \notin tidy
        /\ Busy(r) /\ ~Uploading(r) => request[r].seen # Blank
        /\ Writing(r) => row[request[r].of] # Blank
RowIsAlone ==
    \A r, s \in Editor :
        r # s /\ Busy(r) /\ Busy(s) /\ request[r].of = request[s].of =>
            ~Uploading(r) /\ ~(Writing(r) /\ Writing(s))
\* what is about to be written keeps time and target apart
AskedApart ==
    \A r \in Editor :
        /\ Busy(r) /\ ~(request[r].phase = "mapped") => request[r].asked.time # request[r].asked.target
        /\ Busy(r) /\ ~crossed => request[r].asked.time # request[r].asked.target
        /\ Uploading(r) /\ request[r].phase # "mapped" => request[r].asked = D!Guess

\* the files of a dataset, in the middle of a request as well, unless one failed half way
FilesOnTheWay ==
    /\ \A r \in Editor : Uploading(r) /\ request[r].of \notin kept =>
          files[request[r].of] = IF request[r].phase = "received" THEN {"raw"} ELSE D!File
    /\ \A r \in Editor : Busy(r) /\ request[r].phase = "removed" /\ request[r].of \notin kept =>
          files[request[r].of] = {}
    /\ \A d \in Dataset \ kept :
          (\A r \in Editor : Busy(r) /\ request[r].of = d => ~Uploading(r) /\ request[r].phase # "removed")
             => files[d] = IF row[d] # Blank THEN D!File ELSE {}

DatasetInv ==
    /\ D!TypeOK /\ D!MappingHolds
    /\ Begun /\ InPhase /\ RowIsThere /\ RowIsAlone /\ AskedApart /\ FilesOnTheWay

LEMMA GuessHolds ==
    /\ D!Guess \in D!Mapping /\ D!Guess.time # D!Guess.target
    /\ \A c \in Header : /\ Detected[c] = "time" <=> c = D!Guess.time
                         /\ Detected[c] = "target" <=> c = D!Guess.target
<1>1. PICK c \in Header, e \in Header : /\ \A o \in Header : Detected[o] = "time" <=> o = c
                                        /\ \A o \in Header : Detected[o] = "target" <=> o = e
  BY DatasetsAssumption
<1>2. c = (CHOOSE o \in Header : Detected[o] = "time") /\ e = (CHOOSE o \in Header : Detected[o] = "target")
  BY <1>1
<1>3. D!Guess.time = c /\ D!Guess.target = e
  BY <1>2 DEF D!Guess, D!ColumnWith
<1>4. D!Guess = [time |-> D!Guess.time, target |-> D!Guess.target]
  BY DEF D!Guess
<1>5. c # e
  BY <1>1
<1> QED
  BY <1>1, <1>3, <1>4, <1>5 DEF D!Mapping

LEMMA NoRecords == Blank \notin D!Row /\ Blank \notin D!Mapping /\ Blank \notin D!Pending
  BY DatasetsAssumption

LEMMA RowOfIsRow ==
    ASSUME NEW m \in D!Mapping
    PROVE  D!RowOf(m) \in D!Row /\ D!RowOf(m).time = m.time /\ D!RowOf(m).target = m.target
           /\ D!RowOf(m).role = Detected
  BY DatasetsAssumption DEF D!RowOf, D!Row, D!Mapping

\* What a request is, and what one that begins is.
LEMMA PendingFields ==
    ASSUME D!TypeOK, NEW r \in Editor, Busy(r)
    PROVE  /\ request[r] \in D!Pending /\ request[r].kind \in D!Kind /\ request[r].phase \in D!Phase
           /\ request[r].of \in Dataset /\ request[r].of \in begun /\ request[r].asked \in D!Mapping
           /\ request[r].seen \in {Blank} \cup D!Row /\ request[r].known \in {Blank} \cup D!Mapping
<1>1. request[r] \in D!Pending
  BY DEF D!TypeOK, Busy
<1> QED
  BY <1>1 DEF D!TypeOK, D!Pending, Busy

LEMMA BeginsAs ==
    ASSUME D!TypeOK, NEW kind \in D!Kind, NEW phase \in D!Phase, NEW d \in Dataset, NEW a \in D!Mapping
    PROVE  /\ D!Begin(kind, phase, d, a) \in D!Pending
           /\ D!Begin(kind, phase, d, a).kind = kind /\ D!Begin(kind, phase, d, a).phase = phase
           /\ D!Begin(kind, phase, d, a).of = d /\ D!Begin(kind, phase, d, a).asked = a
           /\ D!Begin(kind, phase, d, a).seen = row[d] /\ D!Begin(kind, phase, d, a).known = Blank
<1>1. row[d] \in {Blank} \cup D!Row
  BY DEF D!TypeOK
<1> QED
  BY <1>1 DEF D!Begin, D!Pending

LEMMA GoesTo ==
    ASSUME NEW q \in D!Pending, NEW phase \in D!Phase
    PROVE  /\ [q EXCEPT !.phase = phase] \in D!Pending
           /\ [q EXCEPT !.phase = phase].phase = phase
           /\ [q EXCEPT !.phase = phase].kind = q.kind /\ [q EXCEPT !.phase = phase].of = q.of
           /\ [q EXCEPT !.phase = phase].asked = q.asked /\ [q EXCEPT !.phase = phase].seen = q.seen
           /\ [q EXCEPT !.phase = phase].known = q.known
  BY DEF D!Pending

\* What a step does to the requests.
LEMMA OneMoves ==
    ASSUME D!TypeOK, NEW r \in Editor, NEW new \in {Blank} \cup D!Pending, D!Becomes(r, new),
           requests < MaxRequests \/ Busy(r)
    PROVE  /\ request' \in [Editor -> {Blank} \cup D!Pending]
           /\ request'[r] = new /\ \A s \in Editor \ {r} : request'[s] = request[s]
           /\ requests' \in 0..MaxRequests
<1>1. /\ request \in [Editor -> {Blank} \cup D!Pending] /\ request' = [request EXCEPT ![r] = new]
      /\ requests' = IF request[r] = Blank THEN requests + 1 ELSE requests
      /\ requests \in 0..MaxRequests /\ MaxRequests \in Nat
  BY DatasetsAssumption DEF D!TypeOK, D!Becomes
<1>2. requests' \in 0..MaxRequests
  BY <1>1 DEF Busy
<1> QED
  BY <1>1, <1>2

LEMMA DatasetInit == D!Init => DatasetInv
<1> SUFFICES ASSUME D!Init PROVE DatasetInv
  OBVIOUS
<1>1. /\ row = [d \in Dataset |-> IF d = First THEN D!RowOf(D!Guess) ELSE Blank]
      /\ files = [d \in Dataset |-> IF d = First THEN D!File ELSE {}]
      /\ memory = Blank /\ request = [r \in Editor |-> Blank] /\ requests = 0
      /\ begun = {First} /\ kept = {} /\ crossed = FALSE /\ tidy = {First}
  BY DEF D!Init
<1>2. D!RowOf(D!Guess) \in D!Row /\ D!RowOf(D!Guess).time # D!RowOf(D!Guess).target
      /\ \A c \in Header : /\ D!RowOf(D!Guess).role[c] = "time" <=> c = D!RowOf(D!Guess).time
                           /\ D!RowOf(D!Guess).role[c] = "target" <=> c = D!RowOf(D!Guess).target
  BY GuessHolds, RowOfIsRow
<1>3. \A r \in Editor : ~Busy(r)
  BY <1>1 DEF Busy
<1>4. D!TypeOK
  <2>1. row \in [Dataset -> {Blank} \cup D!Row] /\ files \in [Dataset -> SUBSET D!File]
    BY <1>1, <1>2
  <2>2. request \in [Editor -> {Blank} \cup D!Pending] /\ requests \in 0..MaxRequests
    BY <1>1, DatasetsAssumption
  <2>3. begun \subseteq Dataset
    BY <1>1, DatasetsAssumption
  <2> QED
    BY <1>1, <1>3, <2>1, <2>2, <2>3 DEF D!TypeOK, Busy
<1>5. D!MappingHolds
  <2>1. \A d \in Dataset : row[d] # Blank => row[d] = D!RowOf(D!Guess)
    BY <1>1
  <2> QED
    BY <1>1, <1>2, <2>1 DEF D!MappingHolds
<1>6. Begun
  BY <1>1 DEF Begun
<1>7. InPhase /\ RowIsThere /\ RowIsAlone /\ AskedApart
  BY <1>3 DEF InPhase, RowIsThere, RowIsAlone, AskedApart, Writing, Uploading
<1>8. FilesOnTheWay
  BY <1>1, <1>2, <1>3, NoRecords DEF FilesOnTheWay, Uploading
<1> QED
  BY <1>4, <1>5, <1>6, <1>7, <1>8 DEF DatasetInv

\* A step that leaves the rows, the files and what is remembered alone, and takes a request no further
\* than to what it may do next.
LEMMA QuietStep ==
    ASSUME DatasetInv, NEW r \in Editor, NEW new \in {Blank} \cup D!Pending, D!Becomes(r, new),
           requests < MaxRequests \/ Busy(r),
           UNCHANGED <<row, memory, begun, crossed, tidy, files>>,
           kept' = kept \/ \E d \in begun : kept' = kept \cup {d},
           new # Blank => /\ new.of \in begun /\ new.phase \in PhasesOf(new.kind) /\ new.phase # "removed"
                          /\ new.kind = "upload" => Uploading(r) /\ new.of = request[r].of
                          /\ new.kind = "upload" => (new.phase = "received" <=> request[r].phase = "received")
                          /\ new.kind # "upload" => new.seen # Blank /\ ~Uploading(r)
                          /\ new.kind # "upload" => \A s \in Editor \ {r} : Busy(s) /\ request[s].of = new.of => ~Uploading(s)
                          /\ new.phase = "written" => row[new.of] # Blank
                          /\ new.phase = "written" =>
                                \A s \in Editor \ {r} : Busy(s) /\ request[s].of = new.of => ~Writing(s)
                          /\ new.asked.time # new.asked.target \/ (new.phase = "mapped" /\ crossed)
                          /\ new.kind = "upload" /\ new.phase # "mapped" => new.asked = D!Guess,
           Busy(r) /\ (Uploading(r) \/ request[r].phase = "removed") /\ new = Blank =>
              request[r].of \in kept',
           Busy(r) /\ request[r].phase = "removed" => new = Blank
    PROVE  DatasetInv'
<1>1. /\ request' \in [Editor -> {Blank} \cup D!Pending]
      /\ request'[r] = new /\ \A s \in Editor \ {r} : request'[s] = request[s]
      /\ requests' \in 0..MaxRequests
  BY OneMoves DEF DatasetInv
<1>2. \A s \in Editor \ {r} : /\ (Busy(s))' <=> Busy(s)
                              /\ (Writing(s))' <=> Writing(s)
                              /\ (Uploading(s))' <=> Uploading(s)
                              /\ request'[s] = request[s]
  BY <1>1 DEF Busy, Writing, Uploading
<1>3. /\ (Busy(r))' <=> new # Blank
      /\ (Writing(r))' <=> new # Blank /\ new.phase = "written"
      /\ (Uploading(r))' <=> new # Blank /\ new.kind = "upload"
  BY <1>1 DEF Busy, Writing, Uploading
<1>4. kept \subseteq kept'
  OBVIOUS
<1>5. D!TypeOK'
  <2>1. \A s \in Editor : request'[s] # Blank => request'[s].of \in begun'
    BY <1>1 DEF DatasetInv, D!TypeOK
  <2>2. kept' \subseteq Dataset
    BY DEF DatasetInv, D!TypeOK
  <2> QED
    BY <1>1, <2>1, <2>2 DEF DatasetInv, D!TypeOK
<1>6. D!MappingHolds'
  BY DEF DatasetInv, D!MappingHolds
<1>7. Begun'
  BY DEF DatasetInv, Begun
<1>8. InPhase'
  BY <1>1, <1>2, <1>3 DEF DatasetInv, InPhase
<1>9. RowIsThere'
  BY <1>1, <1>2, <1>3 DEF DatasetInv, RowIsThere
<1>10. RowIsAlone'
  <2>1. ASSUME NEW s \in Editor \ {r}, (Busy(s))', (Busy(r))', request'[s].of = request'[r].of
        PROVE  ~(Uploading(s))' /\ ~(Uploading(r))' /\ ~((Writing(s))' /\ (Writing(r))')
    <3>1. Busy(s) /\ request[s].of = new.of /\ new # Blank
      BY <1>1, <1>2, <1>3, <2>1
    <3>2. CASE new.kind = "upload"
      <4>1. Uploading(r) /\ Busy(r) /\ request[r].of = request[s].of
        BY <3>1, <3>2 DEF Uploading
      <4> QED
        BY <3>1, <4>1 DEF DatasetInv, RowIsAlone
    <3>3. CASE new.kind # "upload"
      BY <1>2, <1>3, <3>1, <3>3
    <3> QED
      BY <3>2, <3>3
  <2>2. ASSUME NEW s \in Editor \ {r}, NEW t \in Editor \ {r}, s # t, (Busy(s))', (Busy(t))',
               request'[s].of = request'[t].of
        PROVE  ~(Uploading(s))' /\ ~((Writing(s))' /\ (Writing(t))')
    <3>1. Busy(s) /\ Busy(t) /\ request[s].of = request[t].of
      BY <1>2, <2>2
    <3>2. ~Uploading(s) /\ ~(Writing(s) /\ Writing(t))
      BY <2>2, <3>1 DEF DatasetInv, RowIsAlone
    <3> QED
      BY <1>2, <3>2
  <2> QED
    BY <2>1, <2>2 DEF RowIsAlone
<1>11. AskedApart'
  BY <1>1, <1>2, <1>3 DEF DatasetInv, AskedApart
<1>12. FilesOnTheWay'
  BY <1>1, <1>2, <1>3, <1>4 DEF DatasetInv, FilesOnTheWay
<1> QED
  BY <1>5, <1>6, <1>7, <1>8, <1>9, <1>10, <1>11, <1>12 DEF DatasetInv

LEMMA FailStep ==
    ASSUME DatasetInv, NEW r \in Editor, Busy(r), D!Fails(r)
    PROVE  DatasetInv'
<1>1. /\ D!Becomes(r, Blank)
      /\ kept' = IF request[r].kind = "upload" \/ request[r].phase = "removed"
                 THEN kept \cup {request[r].of} ELSE kept
      /\ UNCHANGED <<row, files, memory, begun, crossed, tidy>>
  BY DEF D!Fails
<1>2. request[r].of \in begun
  BY PendingFields DEF DatasetInv
<1>3. kept' = kept \/ \E d \in begun : kept' = kept \cup {d}
  BY <1>1, <1>2
<1>4. Uploading(r) \/ request[r].phase = "removed" => request[r].of \in kept'
  BY <1>1 DEF Uploading
<1> DEFINE new == Blank
<1>5. new \in {Blank} \cup D!Pending /\ new = Blank
  OBVIOUS
<1> HIDE DEF new
<1> QED
  BY <1>1, <1>3, <1>4, <1>5, QuietStep

LEMMA LoadStep ==
    ASSUME DatasetInv, NEW r \in Editor, D!Load(r)
    PROVE  DatasetInv'
<1>1. /\ request[r] = Blank /\ requests < MaxRequests
      /\ UNCHANGED <<row, files, memory, begun, kept, crossed, tidy>>
  BY DEF D!Load
<1>2. PICK d \in Dataset, kind \in {"configure", "accept", "delete"}, a \in D!Mapping :
         /\ row[d] # Blank /\ a.time # a.target
         /\ D!Becomes(r, D!Begin(kind, "loaded", d, a))
  BY GuessHolds, DatasetsAssumption DEF D!Load
<1> DEFINE new == D!Begin(kind, "loaded", d, a)
<1>3. /\ new \in D!Pending /\ new.kind = kind /\ new.phase = "loaded" /\ new.of = d /\ new.asked = a
      /\ new.seen = row[d]
  BY BeginsAs DEF DatasetInv, D!Kind, D!Phase
<1>4. D!Becomes(r, new)
  BY <1>2
<1> HIDE DEF new
<1>5. ~Busy(r) /\ ~Uploading(r)
  BY <1>1 DEF Busy, Uploading
<1>6. d \in begun
  BY <1>2 DEF DatasetInv, Begun
<1>7. new.phase \in PhasesOf(new.kind)
  BY <1>3 DEF PhasesOf
<1>8. \A s \in Editor \ {r} : Busy(s) /\ request[s].of = new.of => ~Uploading(s)
  BY <1>2, <1>3 DEF DatasetInv, RowIsThere
<1> QED
  BY <1>1, <1>2, <1>3, <1>4, <1>5, <1>6, <1>7, <1>8, QuietStep

\* A request that takes its next phase and does nothing else.
LEMMA GoStep ==
    ASSUME DatasetInv, NEW r \in Editor, Busy(r), ~Uploading(r), NEW new \in D!Pending, D!Becomes(r, new),
           UNCHANGED <<row, files, memory, begun, kept, crossed, tidy>>,
           new.kind = request[r].kind, new.of = request[r].of, new.asked = request[r].asked,
           new.seen = request[r].seen,
           request[r].phase # "removed", new.phase \in PhasesOf(new.kind) \ {"mapped", "removed"},
           new.phase = "written" =>
              row[new.of] # Blank /\ \A s \in Editor : Busy(s) /\ request[s].of = new.of => ~Writing(s)
    PROVE  DatasetInv'
<1>1. request[r].of \in begun /\ request[r].kind # "upload"
  BY PendingFields DEF DatasetInv, Uploading
<1>2. request[r].seen # Blank
  BY DEF DatasetInv, RowIsThere
<1>3. request[r].asked.time # request[r].asked.target
  <2>1. request[r].phase \in PhasesOf(request[r].kind)
    BY DEF DatasetInv, InPhase
  <2>2. request[r].kind \in {"configure", "accept", "delete"}
    BY <1>1, PendingFields DEF DatasetInv, D!Kind
  <2>3. request[r].phase # "mapped"
    BY <2>1, <2>2 DEF PhasesOf
  <2> QED
    BY <2>3 DEF DatasetInv, AskedApart
<1>4. \A s \in Editor \ {r} : Busy(s) /\ request[s].of = new.of => ~Uploading(s)
  BY DEF DatasetInv, RowIsAlone
<1>5. new # Blank
  BY NoRecords
<1> QED
  BY <1>1, <1>2, <1>3, <1>4, <1>5, QuietStep

LEMMA WriteStep ==
    ASSUME DatasetInv, NEW r \in Editor, D!Write(r)
    PROVE  DatasetInv'
<1>1. /\ request[r] # Blank /\ request[r].phase \in {"loaded", "remembered"}
      /\ request[r].kind \in {"configure", "accept", "delete"}
      /\ D!Writers(request[r].of) = {} /\ row[request[r].of] # Blank
      /\ D!Becomes(r, [request[r] EXCEPT !.phase = "written"])
      /\ UNCHANGED <<row, files, memory, begun, kept, crossed, tidy>>
  BY DEF D!Write, D!At, D!Goes
<1>2. Busy(r) /\ ~Uploading(r)
  BY <1>1 DEF Busy, Uploading
<1> DEFINE new == [request[r] EXCEPT !.phase = "written"]
<1>3. /\ new \in D!Pending /\ new.phase = "written" /\ new.kind = request[r].kind /\ new.of = request[r].of
      /\ new.asked = request[r].asked /\ new.seen = request[r].seen
  BY <1>2, PendingFields, GoesTo DEF DatasetInv, D!Phase
<1>4. D!Becomes(r, new)
  BY <1>1
<1> HIDE DEF new
<1>5. \A s \in Editor : Busy(s) /\ request[s].of = new.of => ~Writing(s)
  BY <1>1, <1>3 DEF D!Writers, D!Active, Busy, Writing
<1>6. new.phase \in PhasesOf(new.kind) \ {"mapped", "removed"}
  BY <1>1, <1>3 DEF PhasesOf
<1> QED
  BY <1>1, <1>2, <1>3, <1>4, <1>5, <1>6, GoStep

LEMMA RememberStep ==
    ASSUME DatasetInv, NEW r \in Editor, D!Remember(r)
    PROVE  DatasetInv'
<1>1. /\ request[r] # Blank /\ request[r].kind = "accept" /\ request[r].phase = "recalled"
  BY DEF D!Remember, D!At
<1>2. Busy(r) /\ ~Uploading(r)
  BY <1>1 DEF Busy, Uploading
<1>3. CASE D!Fails(r)
  BY <1>2, <1>3, FailStep
<1>4. CASE D!Goes(r, "remembered") /\ UNCHANGED <<row, files, memory, begun, kept, crossed, tidy>>
  <2> DEFINE new == [request[r] EXCEPT !.phase = "remembered"]
  <2>1. /\ new \in D!Pending /\ new.phase = "remembered" /\ new.kind = request[r].kind /\ new.of = request[r].of
        /\ new.asked = request[r].asked /\ new.seen = request[r].seen
    BY <1>2, PendingFields, GoesTo DEF DatasetInv, D!Phase
  <2>2. D!Becomes(r, new)
    BY <1>4 DEF D!Goes
  <2> HIDE DEF new
  <2>3. new.phase \in PhasesOf(new.kind) \ {"mapped", "removed"}
    BY <1>1, <2>1 DEF PhasesOf
  <2> QED
    BY <1>1, <1>2, <1>4, <2>1, <2>2, <2>3, GoStep
<1> QED
  BY <1>3, <1>4 DEF D!Remember

LEMMA RecallStep ==
    ASSUME DatasetInv, NEW r \in Editor, D!Recall(r)
    PROVE  DatasetInv'
<1>1. /\ request[r] # Blank /\ request[r].kind = "accept" /\ request[r].phase = "loaded"
      /\ D!Becomes(r, [request[r] EXCEPT !.phase = "recalled", !.known = memory])
      /\ UNCHANGED <<row, files, memory, begun, kept, crossed, tidy>>
  BY DEF D!Recall, D!At
<1>2. Busy(r) /\ ~Uploading(r)
  BY <1>1 DEF Busy, Uploading
<1> DEFINE new == [request[r] EXCEPT !.phase = "recalled", !.known = memory]
<1>3. /\ new \in D!Pending /\ new.phase = "recalled" /\ new.kind = request[r].kind /\ new.of = request[r].of
      /\ new.asked = request[r].asked /\ new.seen = request[r].seen
  <2>1. request[r] \in D!Pending /\ memory \in {Blank} \cup D!Mapping
    BY <1>2, PendingFields DEF DatasetInv, D!TypeOK
  <2> QED
    BY <2>1 DEF D!Pending, D!Phase
<1>4. D!Becomes(r, new)
  BY <1>1
<1> HIDE DEF new
<1>5. new.phase \in PhasesOf(new.kind) \ {"mapped", "removed"}
  BY <1>1, <1>3 DEF PhasesOf
<1> QED
  BY <1>1, <1>2, <1>3, <1>4, <1>5, GoStep

\* An upload takes the columns that were remembered.
LEMMA MapStep ==
    ASSUME DatasetInv, NEW r \in Editor, D!Map(r)
    PROVE  DatasetInv'
<1> DEFINE a == IF memory = Blank THEN D!Guess ELSE memory
<1>1. /\ request[r] # Blank /\ request[r].kind = "upload" /\ request[r].phase = "converted"
      /\ D!Becomes(r, [request[r] EXCEPT !.phase = "mapped", !.asked = a])
      /\ UNCHANGED <<row, files, memory, begun, kept, crossed, tidy>>
  BY DEF D!Map, D!At
<1>2. Busy(r) /\ Uploading(r)
  BY <1>1 DEF Busy, Uploading
<1>3. a \in D!Mapping /\ (a.time # a.target \/ crossed)
  BY GuessHolds DEF DatasetInv, D!TypeOK, D!MappingHolds
<1> HIDE DEF a
<1> DEFINE new == [request[r] EXCEPT !.phase = "mapped", !.asked = a]
<1>4. /\ new \in D!Pending /\ new.phase = "mapped" /\ new.kind = "upload" /\ new.of = request[r].of
      /\ new.asked = a /\ new.seen = request[r].seen
  <2>1. request[r] \in D!Pending
    BY <1>2, PendingFields DEF DatasetInv
  <2> QED
    BY <1>1, <1>3, <2>1 DEF D!Pending, D!Phase
<1>5. D!Becomes(r, new)
  BY <1>1
<1> HIDE DEF new
<1>6. new.phase \in PhasesOf(new.kind) /\ new.of \in begun /\ new # Blank
  BY <1>2, <1>4, PendingFields, NoRecords DEF PhasesOf, DatasetInv
<1> QED
  BY <1>1, <1>2, <1>3, <1>4, <1>5, <1>6, QuietStep

\* A request that ends, and leaves its dataset's row and files as given.
LEMMA EndStep ==
    ASSUME DatasetInv, NEW r \in Editor, Busy(r), D!Becomes(r, Blank),
           NEW new \in {Blank} \cup D!Row, NEW left \in SUBSET D!File,
           row' = [row EXCEPT ![request[r].of] = new], files' = [files EXCEPT ![request[r].of] = left],
           UNCHANGED <<begun, kept>>,
           memory' \in {Blank} \cup D!Mapping, tidy' \subseteq tidy \cup {request[r].of}, crossed' \in BOOLEAN,
           crossed => crossed', D!MappingHolds',
           new = Blank => \A s \in Editor \ {r} : Busy(s) /\ request[s].of = request[r].of => ~Writing(s),
           request[r].of \notin kept => left = IF new # Blank THEN D!File ELSE {},
           \A s \in Editor \ {r} : Busy(s) /\ request[s].of = request[r].of =>
              request[s].phase # "removed" \/ left = {}
    PROVE  DatasetInv'
<1> DEFINE d == request[r].of
<1>1. d \in Dataset /\ d \in begun
  BY PendingFields DEF DatasetInv
<1>2. \A s \in Editor \ {r} : Busy(s) /\ request[s].of = d => ~Uploading(s) /\ ~Uploading(r)
  BY DEF DatasetInv, RowIsAlone
<1> HIDE DEF d
<1>3. row' = [row EXCEPT ![d] = new] /\ files' = [files EXCEPT ![d] = left]
  BY DEF d
<1>4. row \in [Dataset -> {Blank} \cup D!Row] /\ files \in [Dataset -> SUBSET D!File]
  BY DEF DatasetInv, D!TypeOK
<1>5. /\ row' \in [Dataset -> {Blank} \cup D!Row] /\ files' \in [Dataset -> SUBSET D!File]
      /\ row'[d] = new /\ files'[d] = left
      /\ \A e \in Dataset \ {d} : row'[e] = row[e] /\ files'[e] = files[e]
  <2>1. row' \in [Dataset -> {Blank} \cup D!Row]
    BY <1>3, <1>4
  <2>2. files' \in [Dataset -> SUBSET D!File]
    BY <1>3, <1>4
  <2>3. /\ row'[d] = new /\ files'[d] = left
        /\ \A e \in Dataset \ {d} : row'[e] = row[e] /\ files'[e] = files[e]
    BY <1>1, <1>3, <1>4
  <2> QED
    BY <2>1, <2>2, <2>3
<1>6. /\ request' \in [Editor -> {Blank} \cup D!Pending]
      /\ request'[r] = Blank /\ \A s \in Editor \ {r} : request'[s] = request[s]
      /\ requests' \in 0..MaxRequests
  BY OneMoves DEF DatasetInv
<1>7. /\ ~(Busy(r))'
      /\ \A s \in Editor \ {r} : /\ (Busy(s))' <=> Busy(s)
                                 /\ (Writing(s))' <=> Writing(s)
                                 /\ (Uploading(s))' <=> Uploading(s)
                                 /\ request'[s] = request[s]
  BY <1>6 DEF Busy, Writing, Uploading
<1>8. D!TypeOK'
  <2>1. \A s \in Editor : request'[s] # Blank => request'[s].of \in begun'
    BY <1>6 DEF DatasetInv, D!TypeOK
  <2>2. tidy' \subseteq Dataset
    BY <1>1 DEF DatasetInv, D!TypeOK, d
  <2> QED
    BY <1>5, <1>6, <2>1, <2>2 DEF DatasetInv, D!TypeOK
<1>9. Begun'
  <2>1. tidy' \subseteq begun'
    BY <1>1 DEF DatasetInv, Begun, d
  <2>2. \A e \in Dataset \ begun' : row'[e] = Blank
    BY <1>1, <1>5 DEF DatasetInv, Begun
  <2> QED
    BY <2>1, <2>2 DEF Begun
<1>10. InPhase'
  BY <1>7 DEF DatasetInv, InPhase
<1>11. RowIsThere'
  <2>1. \A s \in Editor : (Busy(s))' => request'[s].of \in Dataset
    BY <1>7, PendingFields DEF DatasetInv
  <2>2. ASSUME NEW s \in Editor, (Uploading(s))' PROVE row'[request'[s].of] = Blank /\ request'[s].of \notin tidy'
    <3>1. s # r /\ Busy(s) /\ Uploading(s) /\ request'[s] = request[s]
      BY <1>7, <2>2 DEF Uploading
    <3>2. request[s].of \in Dataset \ {d}
      BY <1>2, <2>1, <3>1 DEF Busy
    <3> QED
      BY <1>5, <3>1, <3>2 DEF DatasetInv, RowIsThere, d
  <2>3. ASSUME NEW s \in Editor, (Writing(s))' PROVE row'[request'[s].of] # Blank
    BY <1>2, <1>5, <1>7, <2>1, <2>3, d = request[r].of DEF DatasetInv, RowIsThere, Writing, d
  <2>4. ASSUME NEW s \in Editor, (Busy(s))', ~(Uploading(s))' PROVE request'[s].seen # Blank
    BY <1>7, <2>4 DEF DatasetInv, RowIsThere
  <2> QED
    BY <2>2, <2>3, <2>4 DEF RowIsThere
<1>12. RowIsAlone'
  BY <1>7 DEF DatasetInv, RowIsAlone
<1>13. AskedApart'
  <2>1. \A s \in Editor : /\ (Busy(s))' => Busy(s) /\ request'[s] = request[s]
                          /\ (Uploading(s))' => Uploading(s) /\ request'[s] = request[s]
    <3>1. ~(Uploading(r))'
      BY <1>7 DEF Uploading
    <3> QED
      BY <1>7, <3>1
  <2>2. ~crossed' => ~crossed
    OBVIOUS
  <2>3. AskedApart
    BY DEF DatasetInv
  <2>4. (D!Guess)' = D!Guess
    BY DEF D!Guess, D!ColumnWith
  <2>5. ASSUME NEW s \in Editor
        PROVE  /\ (Busy(s) /\ ~(request[s].phase = "mapped"))' => request'[s].asked.time # request'[s].asked.target
               /\ (Busy(s) /\ ~crossed)' => request'[s].asked.time # request'[s].asked.target
               /\ (Uploading(s))' /\ request'[s].phase # "mapped" => request'[s].asked = D!Guess
    <3>1. CASE (Busy(s))'
      <4>1. Busy(s) /\ request'[s] = request[s] /\ ((Uploading(s))' => Uploading(s))
        BY <2>1, <3>1
      <4> QED
        BY <2>2, <2>3, <4>1 DEF AskedApart
    <3>2. CASE ~(Busy(s))'
      <4>1. ~(Uploading(s))'
        BY <3>2 DEF Uploading
      <4> QED
        BY <3>2, <4>1
    <3> QED
      BY <3>1, <3>2
  <2> QED
    BY <2>4, <2>5 DEF AskedApart
<1>14. FilesOnTheWay'
  <2>1. ASSUME NEW s \in Editor, (Uploading(s))', request'[s].of \notin kept'
        PROVE  files'[request'[s].of] = IF request'[s].phase = "received" THEN {"raw"} ELSE D!File
    <3>1. s # r /\ request'[s] = request[s] /\ Uploading(s) /\ Busy(s)
      BY <1>7, <2>1 DEF Uploading
    <3>2. request[s].of \in Dataset \ {d}
      BY <1>2, <3>1, PendingFields DEF DatasetInv
    <3> QED
      BY <1>5, <2>1, <3>1, <3>2 DEF DatasetInv, FilesOnTheWay
  <2>2. ASSUME NEW s \in Editor, (Busy(s))', request'[s].phase = "removed", request'[s].of \notin kept'
        PROVE  files'[request'[s].of] = {}
    <3>1. s # r /\ request'[s] = request[s] /\ Busy(s) /\ request[s].of \in Dataset
      BY <1>7, <2>2, PendingFields DEF DatasetInv
    <3>2. CASE request[s].of = d
      BY <1>5, <2>2, <3>1, <3>2 DEF d
    <3>3. CASE request[s].of # d
      BY <1>5, <2>2, <3>1, <3>3 DEF DatasetInv, FilesOnTheWay
    <3> QED
      BY <3>2, <3>3
  <2>3. ASSUME NEW e \in Dataset \ kept',
               \A s \in Editor : (Busy(s))' /\ request'[s].of = e => ~(Uploading(s))' /\ request'[s].phase # "removed"
        PROVE  files'[e] = IF row'[e] # Blank THEN D!File ELSE {}
    <3>1. CASE e = d
      BY <1>5, <2>3, <3>1 DEF d
    <3>2. CASE e # d
      <4>1. \A s \in Editor : Busy(s) /\ request[s].of = e => ~Uploading(s) /\ request[s].phase # "removed"
        BY <1>7, <2>3, <3>2 DEF d
      <4> QED
        BY <1>5, <2>3, <3>2, <4>1 DEF DatasetInv, FilesOnTheWay
    <3> QED
      BY <3>1, <3>2
  <2> QED
    BY <2>1, <2>2, <2>3 DEF FilesOnTheWay
<1> QED
  BY <1>8, <1>9, <1>10, <1>11, <1>12, <1>13, <1>14 DEF DatasetInv

LEMMA RefuseStep ==
    ASSUME DatasetInv, NEW r \in Editor, D!Refuse(r)
    PROVE  DatasetInv'
<1>1. /\ request[r] # Blank /\ request[r].kind = "upload" /\ request[r].phase = "received"
      /\ D!Becomes(r, Blank)
      /\ files' = [files EXCEPT ![request[r].of] = @ \ {"raw"}]
      /\ UNCHANGED <<row, memory, begun, kept, crossed, tidy>>
  BY DEF D!Refuse, D!At
<1>2. Busy(r) /\ Uploading(r)
  BY <1>1 DEF Busy, Uploading
<1> DEFINE left == files[request[r].of] \ {"raw"}
<1> DEFINE new == row[request[r].of]
<1>3. request[r].of \in Dataset
  BY <1>2, PendingFields DEF DatasetInv
<1>4. left \in SUBSET D!File /\ new \in {Blank} \cup D!Row /\ new = Blank
  BY <1>2, <1>3 DEF DatasetInv, D!TypeOK, RowIsThere
<1>5. files' = [files EXCEPT ![request[r].of] = left] /\ row' = [row EXCEPT ![request[r].of] = new]
  BY <1>1, <1>3 DEF DatasetInv, D!TypeOK
<1>6. request[r].of \notin kept => left = {}
  BY <1>1, <1>2 DEF DatasetInv, FilesOnTheWay
<1>7. \A s \in Editor \ {r} : Busy(s) => request[s].of # request[r].of
  BY <1>2 DEF DatasetInv, RowIsAlone
<1>8. D!MappingHolds'
  BY <1>1 DEF DatasetInv, D!MappingHolds
<1>9. /\ memory' \in {Blank} \cup D!Mapping /\ tidy' \subseteq tidy \cup {request[r].of}
      /\ crossed' \in BOOLEAN /\ (crossed => crossed')
  BY <1>1 DEF DatasetInv, D!TypeOK
<1> HIDE DEF left, new
<1>10. /\ request[r].of \notin kept => left = IF new # Blank THEN D!File ELSE {}
       /\ new \in {Blank} \cup D!Row /\ left \in SUBSET D!File
  BY <1>4, <1>6
<1>11. \A s \in Editor \ {r} : Busy(s) /\ request[s].of = request[r].of => ~Writing(s) /\ request[s].phase # "removed"
  BY <1>7
<1>12. UNCHANGED <<begun, kept>>
  BY <1>1
<1>13. \A s \in Editor \ {r} : Busy(s) /\ request[s].of = request[r].of => request[s].phase # "removed" \/ left = {}
  BY <1>11
<1>14. \A s \in Editor \ {r} : Busy(s) /\ request[s].of = request[r].of => ~Writing(s)
  BY <1>11
<1>15. D!Becomes(r, Blank) /\ Busy(r)
  BY <1>1, <1>2
<1> QED
  BY <1>5, <1>8, <1>9, <1>10, <1>12, <1>13, <1>14, <1>15, EndStep

LEMMA CommitUploadStep ==
    ASSUME DatasetInv, NEW r \in Editor, D!CommitUpload(r)
    PROVE  DatasetInv'
<1> DEFINE a == request[r].asked
<1> DEFINE d == request[r].of
<1> DEFINE new == D!RowOf(a)
<1> DEFINE left == files[d]
<1>1. /\ request[r] # Blank /\ request[r].kind = "upload" /\ request[r].phase = "mapped"
      /\ row' = [row EXCEPT ![d] = new]
      /\ tidy' = IF a = D!Guess THEN tidy \cup {d} ELSE tidy
      /\ D!Becomes(r, Blank)
      /\ UNCHANGED <<files, memory, begun, kept, crossed>>
  BY DEF D!CommitUpload, D!At
<1>2. Busy(r) /\ Uploading(r)
  BY <1>1 DEF Busy, Uploading
<1>3. a \in D!Mapping /\ d \in Dataset /\ d \in begun
  BY <1>2, PendingFields DEF DatasetInv
<1>4. crossed \/ a.time # a.target
  BY <1>2 DEF DatasetInv, AskedApart
<1>5. d \notin tidy
  BY <1>2 DEF DatasetInv, RowIsThere
<1>6. \A s \in Editor \ {r} : Busy(s) => request[s].of # d
  BY <1>2 DEF DatasetInv, RowIsAlone
<1>7. /\ row \in [Dataset -> {Blank} \cup D!Row] /\ files \in [Dataset -> SUBSET D!File]
      /\ memory \in {Blank} \cup D!Mapping /\ tidy \subseteq Dataset /\ crossed \in BOOLEAN
  BY DEF DatasetInv, D!TypeOK
<1>8. /\ new \in D!Row /\ new # Blank /\ new.time = a.time /\ new.target = a.target /\ new.role = Detected
  BY <1>3, RowOfIsRow, NoRecords
<1>9. files' = [files EXCEPT ![d] = left] /\ left \in SUBSET D!File
  BY <1>1, <1>3, <1>7
<1>10. d \notin kept => left = D!File
  BY <1>1, <1>2 DEF DatasetInv, FilesOnTheWay
<1> HIDE DEF a, d, new, left
<1>11. D!MappingHolds'
  <2>1. CASE crossed
    BY <1>1, <2>1 DEF D!MappingHolds
  <2>2. CASE ~crossed
    <3>1. memory' # Blank => memory'.time # memory'.target
      BY <1>1, <2>2 DEF DatasetInv, D!MappingHolds
    <3>2. ASSUME NEW e \in Dataset, row'[e] # Blank
          PROVE  /\ row'[e].time # row'[e].target
                 /\ e \in tidy' => \A c \in Header : /\ row'[e].role[c] = "time" <=> c = row'[e].time
                                                     /\ row'[e].role[c] = "target" <=> c = row'[e].target
      <4>1. CASE e # d
        <5>1. row'[e] = row[e] /\ (e \in tidy' => e \in tidy)
          BY <1>1, <1>3, <1>7, <4>1
        <5> QED
          BY <2>2, <3>2, <5>1 DEF DatasetInv, D!MappingHolds
      <4>2. CASE e = d
        <5>1. row'[e] = new
          BY <1>1, <1>3, <1>7, <4>2
        <5>2. e \in tidy' => a = D!Guess
          BY <1>1, <1>5, <4>2
        <5> QED
          BY <1>4, <1>8, <2>2, <5>1, <5>2, GuessHolds
      <4> QED
        BY <4>1, <4>2
    <3> QED
      BY <3>1, <3>2 DEF D!MappingHolds
  <2> QED
    BY <2>1, <2>2
<1>12. /\ memory' \in {Blank} \cup D!Mapping /\ tidy' \subseteq tidy \cup {d}
       /\ crossed' \in BOOLEAN /\ (crossed => crossed')
  BY <1>1, <1>3, <1>7
<1> QED
  BY <1>1, <1>2, <1>6, <1>8, <1>9, <1>10, <1>11, <1>12, EndStep DEF d

\* What is committed over a row that is as it was when it was loaded is what was asked for.
LEMMA OverwrittenAs ==
    ASSUME NEW q \in D!Pending, q.kind \in {"configure", "accept"}, q.seen \in D!Row, NEW now \in D!Row
    PROVE  /\ D!Overwritten(q, now) \in D!Row
           /\ q.seen = now => /\ D!Overwritten(q, now).time = q.asked.time
                              /\ D!Overwritten(q, now).target = q.asked.target
                              /\ q.kind = "configure" =>
                                    D!Overwritten(q, now).role = D!RolesOf(q.asked, now.role)
<1>1. /\ q.asked \in D!Mapping /\ q.asked.time \in Header /\ q.asked.target \in Header
      /\ now.time \in Header /\ now.target \in Header /\ q.seen.time \in Header /\ q.seen.target \in Header
      /\ q.seen.role \in [Header -> {"time", "target", "measure"}]
      /\ now.role \in [Header -> {"time", "target", "measure"}]
  BY DEF D!Pending, D!Mapping, D!Row
<1> DEFINE new == D!Merge(D!MappingOf(q.seen), q.asked, D!MappingOf(now))
<1> DEFINE wanted == IF q.kind = "configure" THEN D!RolesOf(q.asked, q.seen.role) ELSE q.seen.role
<1> DEFINE role == D!Merge(q.seen.role, wanted, now.role)
<1>2. /\ D!MappingOf(now) = [time |-> now.time, target |-> now.target]
      /\ D!MappingOf(q.seen) = [time |-> q.seen.time, target |-> q.seen.target]
  BY DEF D!MappingOf
<1>3. /\ new.time = IF q.asked.time = q.seen.time THEN now.time ELSE q.asked.time
      /\ new.target = IF q.asked.target = q.seen.target THEN now.target ELSE q.asked.target
  BY <1>2 DEF D!Merge
<1>4. wanted \in [Header -> {"time", "target", "measure"}]
  BY <1>1 DEF D!RolesOf
<1> HIDE DEF wanted
<1>5. role = [c \in Header |-> IF wanted[c] = q.seen.role[c] THEN now.role[c] ELSE wanted[c]]
  BY <1>1 DEF D!Merge
<1>6. role \in [Header -> {"time", "target", "measure"}]
  BY <1>1, <1>4, <1>5
<1>7. q.seen = now => role = wanted
  <2>1. ASSUME q.seen = now PROVE \A c \in Header : role[c] = wanted[c]
    BY <1>5, <2>1
  <2> QED
    BY <1>4, <1>5, <2>1
<1>8. D!Overwritten(q, now) = [time |-> new.time, target |-> new.target, role |-> role]
  BY DEF D!Overwritten, wanted
<1> HIDE DEF new, role
<1>9. D!Overwritten(q, now) \in D!Row
  BY <1>1, <1>3, <1>6, <1>8 DEF D!Row
<1>10. ASSUME q.seen = now
       PROVE  /\ D!Overwritten(q, now).time = q.asked.time
              /\ D!Overwritten(q, now).target = q.asked.target
              /\ q.kind = "configure" =>
                    D!Overwritten(q, now).role = D!RolesOf(q.asked, now.role)
  BY <1>3, <1>7, <1>8, <1>10 DEF wanted
<1> QED
  BY <1>9, <1>10

\* After the loop over the columns each has the role that was asked for, and no other column has it.
LEMMA RolesAsAsked ==
    ASSUME NEW a \in D!Mapping, a.time # a.target, NEW loaded \in [Header -> {"time", "target", "measure"}]
    PROVE  \A c \in Header : /\ D!RolesOf(a, loaded)[c] = "time" <=> c = a.time
                             /\ D!RolesOf(a, loaded)[c] = "target" <=> c = a.target
<1> SUFFICES ASSUME NEW c \in Header
             PROVE  /\ D!RolesOf(a, loaded)[c] = "time" <=> c = a.time
                    /\ D!RolesOf(a, loaded)[c] = "target" <=> c = a.target
  OBVIOUS
<1>1. D!RolesOf(a, loaded)[c] =
         IF c = a.time THEN "time" ELSE IF c = a.target THEN "target"
         ELSE IF loaded[c] \in {"time", "target"} THEN "measure" ELSE loaded[c]
  BY DEF D!RolesOf
<1> QED
  BY <1>1

LEMMA CommitStep ==
    ASSUME DatasetInv, NEW r \in Editor, D!Commit(r)
    PROVE  DatasetInv'
<1> DEFINE q == request[r]
<1> DEFINE d == request[r].of
<1> DEFINE now == row[d]
<1> DEFINE new == D!Overwritten(q, now)
<1>1. /\ q # Blank /\ q.kind \in {"configure", "accept"} /\ q.phase = "written"
      /\ row' = [row EXCEPT ![d] = D!Overwritten(q, @)]
      /\ memory' = IF q.kind = "configure" THEN memory
                   ELSE IF memory = Blank THEN q.asked ELSE D!Merge(q.known, q.asked, memory)
      /\ crossed' = (crossed \/ q.seen # row[d] \/ (q.kind = "accept" /\ q.known # memory))
      /\ tidy' = IF q.kind = "configure" THEN tidy \cup {d} ELSE tidy \ {d}
      /\ D!Becomes(r, Blank)
      /\ UNCHANGED <<files, begun, kept>>
  BY DEF D!Commit, D!At
<1>2. Busy(r) /\ Writing(r) /\ ~Uploading(r)
  BY <1>1 DEF Busy, Writing, Uploading
<1>3. q \in D!Pending /\ q.asked \in D!Mapping /\ d \in Dataset /\ d \in begun
      /\ q.seen \in {Blank} \cup D!Row /\ q.known \in {Blank} \cup D!Mapping
  BY <1>2, PendingFields DEF DatasetInv
<1>4. /\ row \in [Dataset -> {Blank} \cup D!Row] /\ files \in [Dataset -> SUBSET D!File]
      /\ memory \in {Blank} \cup D!Mapping /\ tidy \subseteq Dataset /\ crossed \in BOOLEAN
  BY DEF DatasetInv, D!TypeOK
<1>5. now # Blank /\ q.seen # Blank
  BY <1>2 DEF DatasetInv, RowIsThere
<1>6. now \in D!Row /\ q.seen \in D!Row
  BY <1>3, <1>4, <1>5
<1>7. \A s \in Editor \ {r} : Busy(s) /\ request[s].of = d => ~Writing(s) /\ ~Uploading(s)
  BY <1>2 DEF DatasetInv, RowIsAlone
<1>8. q.asked.time # q.asked.target
  BY <1>1, <1>2 DEF DatasetInv, AskedApart
<1>9. d \notin kept => files[d] = D!File
  <2>1. \A s \in Editor : Busy(s) /\ request[s].of = d => ~Uploading(s) /\ request[s].phase # "removed"
    BY <1>1, <1>2, <1>7 DEF Writing
  <2> QED
    BY <1>3, <1>5, <2>1 DEF DatasetInv, FilesOnTheWay
<1>10. row' = [row EXCEPT ![d] = new]
  BY <1>1, <1>3, <1>4
<1> HIDE DEF q, d, now, new
<1>11. /\ new \in D!Row /\ new # Blank
       /\ q.seen = now => /\ new.time = q.asked.time /\ new.target = q.asked.target
                          /\ q.kind = "configure" => new.role = D!RolesOf(q.asked, now.role)
  BY <1>1, <1>3, <1>6, OverwrittenAs, NoRecords DEF new
<1>12. memory' \in {Blank} \cup D!Mapping /\ (~crossed' /\ memory' # Blank => memory'.time # memory'.target)
  <2>1. CASE q.kind = "configure"
    BY <1>1, <1>4, <2>1 DEF DatasetInv, D!MappingHolds
  <2>2. CASE q.kind # "configure" /\ memory = Blank
    BY <1>1, <1>3, <1>8, <2>2
  <2>3. CASE q.kind # "configure" /\ memory # Blank
    <3>1. memory \in D!Mapping /\ memory.time \in Header /\ memory.target \in Header
          /\ q.asked.time \in Header /\ q.asked.target \in Header
          /\ DOMAIN memory = {"time", "target"}
      BY <1>3, <1>4, <2>3 DEF D!Mapping
    <3>2. memory' = [f \in {"time", "target"} |-> IF q.asked[f] = q.known[f] THEN memory[f] ELSE q.asked[f]]
      BY <1>1, <2>3, <3>1 DEF D!Merge
    <3>3. memory' \in D!Mapping
      <4>1. memory' = [time |-> memory'.time, target |-> memory'.target]
        BY <3>2
      <4>2. memory'.time \in Header /\ memory'.target \in Header
        BY <3>1, <3>2
      <4> QED
        BY <4>1, <4>2 DEF D!Mapping
    <3>4. q.known = memory => memory'.time = q.asked.time /\ memory'.target = q.asked.target
      BY <3>2
    <3>5. ~crossed' => q.known = memory
      BY <1>1, <2>3
    <3> QED
      BY <1>8, <3>3, <3>4, <3>5
  <2> QED
    BY <2>1, <2>2, <2>3
<1>13. D!MappingHolds'
  <2>1. CASE crossed'
    BY <2>1 DEF D!MappingHolds
  <2>2. CASE ~crossed'
    <3>1. ~crossed /\ q.seen = now
      BY <1>1, <2>2 DEF now, d, q
    <3>2. ASSUME NEW e \in Dataset, row'[e] # Blank
          PROVE  /\ row'[e].time # row'[e].target
                 /\ e \in tidy' => \A c \in Header : /\ row'[e].role[c] = "time" <=> c = row'[e].time
                                                     /\ row'[e].role[c] = "target" <=> c = row'[e].target
      <4>1. CASE e # d
        <5>1. row'[e] = row[e] /\ (e \in tidy' => e \in tidy)
          BY <1>1, <1>3, <1>4, <1>10, <4>1 DEF d
        <5> QED
          BY <3>1, <3>2, <5>1 DEF DatasetInv, D!MappingHolds
      <4>2. CASE e = d
        <5>1. row'[e] = new
          BY <1>3, <1>4, <1>10, <4>2 DEF d
        <5>2. e \in tidy' => q.kind = "configure"
          BY <1>1, <4>2 DEF d, q
        <5>3. now.role \in [Header -> {"time", "target", "measure"}]
          BY <1>6 DEF D!Row
        <5>4. \A c \in Header : /\ D!RolesOf(q.asked, now.role)[c] = "time" <=> c = q.asked.time
                                /\ D!RolesOf(q.asked, now.role)[c] = "target" <=> c = q.asked.target
          BY <1>3, <1>8, <5>3, RolesAsAsked
        <5> QED
          BY <1>8, <1>11, <3>1, <5>1, <5>2, <5>4
      <4> QED
        BY <4>1, <4>2
    <3> QED
      BY <1>12, <2>2, <3>2 DEF D!MappingHolds
  <2> QED
    BY <2>1, <2>2
<1>14. tidy' \subseteq tidy \cup {d} /\ crossed' \in BOOLEAN /\ (crossed => crossed')
  BY <1>1, <1>4 DEF d, q
<1> DEFINE left == files[d]
<1>15. left \in SUBSET D!File /\ files' = [files EXCEPT ![d] = left]
  BY <1>1, <1>3, <1>4 DEF d
<1>16. /\ d \notin kept => left = IF new # Blank THEN D!File ELSE {}
       /\ new \in {Blank} \cup D!Row
  BY <1>9, <1>11 DEF d
<1>17. \A s \in Editor \ {r} : Busy(s) /\ request[s].of = d => request[s].phase # "removed" \/ left = {}
  BY <1>7 DEF Writing, d
<1> HIDE DEF left
<1>18. D!Becomes(r, Blank) /\ UNCHANGED <<begun, kept>>
  BY <1>1
<1> QED
  BY <1>2, <1>7, <1>10, <1>11, <1>12, <1>13, <1>14, <1>15, <1>16, <1>17, <1>18, EndStep DEF d

LEMMA CommitDeleteStep ==
    ASSUME DatasetInv, NEW r \in Editor, D!CommitDelete(r)
    PROVE  DatasetInv'
<1> DEFINE d == request[r].of
<1> DEFINE new == Blank
<1> DEFINE left == files[d]
<1>1. /\ request[r] # Blank /\ request[r].kind = "delete" /\ request[r].phase = "removed"
      /\ row' = [row EXCEPT ![d] = new]
      /\ D!Becomes(r, Blank)
      /\ UNCHANGED <<files, memory, begun, kept, crossed, tidy>>
  BY DEF D!CommitDelete, D!At
<1>2. Busy(r) /\ Writing(r)
  BY <1>1 DEF Busy, Writing
<1>3. d \in Dataset
  BY <1>2, PendingFields DEF DatasetInv
<1>4. /\ row \in [Dataset -> {Blank} \cup D!Row] /\ files \in [Dataset -> SUBSET D!File]
      /\ memory \in {Blank} \cup D!Mapping /\ tidy \subseteq Dataset /\ crossed \in BOOLEAN
  BY DEF DatasetInv, D!TypeOK
<1>5. \A s \in Editor \ {r} : Busy(s) /\ request[s].of = d => ~Writing(s)
  BY <1>2 DEF DatasetInv, RowIsAlone
<1>6. \A s \in Editor \ {r} : Busy(s) /\ request[s].of = d => request[s].phase # "removed" \/ left = {}
  BY <1>5 DEF Writing
<1>7. d \notin kept => left = IF new # Blank THEN D!File ELSE {}
  BY <1>1, <1>2 DEF DatasetInv, FilesOnTheWay
<1>8. left \in SUBSET D!File /\ files' = [files EXCEPT ![d] = left] /\ new \in {Blank} \cup D!Row
  BY <1>1, <1>3, <1>4
<1>9. D!MappingHolds'
  <2>1. \A e \in Dataset : row'[e] # Blank => row'[e] = row[e]
    BY <1>1, <1>3, <1>4
  <2> QED
    BY <1>1, <2>1 DEF DatasetInv, D!MappingHolds
<1>10. /\ memory' \in {Blank} \cup D!Mapping /\ tidy' \subseteq tidy \cup {d}
       /\ crossed' \in BOOLEAN /\ (crossed => crossed') /\ UNCHANGED <<begun, kept>>
  BY <1>1, <1>4
<1> HIDE DEF new, left
<1> QED
  BY <1>1, <1>2, <1>5, <1>6, <1>7, <1>8, <1>9, <1>10, EndStep

LEMMA DeletedTwiceStep ==
    ASSUME DatasetInv, NEW r \in Editor, D!DeletedTwice(r)
    PROVE  DatasetInv'
<1> DEFINE d == request[r].of
<1> DEFINE new == row[d]
<1> DEFINE left == {}
<1>1. /\ request[r] # Blank /\ request[r].kind = "delete" /\ request[r].phase = "loaded" /\ new = Blank
      /\ files' = [files EXCEPT ![d] = left]
      /\ D!Becomes(r, Blank)
      /\ UNCHANGED <<row, memory, begun, kept, crossed, tidy>>
  BY DEF D!DeletedTwice, D!At
<1>2. Busy(r)
  BY <1>1 DEF Busy
<1>3. d \in Dataset
  BY <1>2, PendingFields DEF DatasetInv
<1>4. /\ row \in [Dataset -> {Blank} \cup D!Row]
      /\ memory \in {Blank} \cup D!Mapping /\ tidy \subseteq Dataset /\ crossed \in BOOLEAN
  BY DEF DatasetInv, D!TypeOK
<1>5. \A s \in Editor \ {r} : Busy(s) /\ request[s].of = d => ~Writing(s)
  BY <1>1 DEF DatasetInv, RowIsThere
<1>6. \A s \in Editor \ {r} : Busy(s) /\ request[s].of = d => request[s].phase # "removed" \/ left = {}
  OBVIOUS
<1>7. d \notin kept => left = IF new # Blank THEN D!File ELSE {}
  BY <1>1
<1>8. left \in SUBSET D!File /\ row' = [row EXCEPT ![d] = new] /\ new \in {Blank} \cup D!Row
  BY <1>1, <1>3, <1>4
<1>9. D!MappingHolds'
  BY <1>1 DEF DatasetInv, D!MappingHolds
<1>10. /\ memory' \in {Blank} \cup D!Mapping /\ tidy' \subseteq tidy \cup {d}
       /\ crossed' \in BOOLEAN /\ (crossed => crossed') /\ UNCHANGED <<begun, kept>>
  BY <1>1, <1>4
<1>11. D!Becomes(r, Blank) /\ files' = [files EXCEPT ![d] = left]
  BY <1>1
<1> HIDE DEF new, left
<1> QED
  BY <1>2, <1>5, <1>6, <1>7, <1>8, <1>9, <1>10, <1>11, EndStep

\* A request that goes on, and leaves its dataset's files as given.
LEMMA FilesStep ==
    ASSUME DatasetInv, NEW r \in Editor, NEW new \in D!Pending, D!Becomes(r, new),
           requests < MaxRequests \/ Busy(r), Busy(r) => new.of = request[r].of,
           new.of \in Dataset, NEW left \in SUBSET D!File, files' = [files EXCEPT ![new.of] = left],
           UNCHANGED <<row, memory, crossed, tidy>>,
           begun' = begun \cup {new.of}, kept' = kept \/ kept' = kept \cup {new.of},
           new.phase \in PhasesOf(new.kind), new.asked.time # new.asked.target,
           new.kind = "upload" => /\ new.phase # "mapped" /\ new.asked = D!Guess
                                  /\ row[new.of] = Blank /\ new.of \notin tidy
                                  /\ \A s \in Editor \ {r} : Busy(s) => request[s].of # new.of
                                  /\ new.of \notin kept' => left = IF new.phase = "received" THEN {"raw"} ELSE D!File,
           new.kind # "upload" => /\ Writing(r) /\ ~Uploading(r) /\ new.phase = "removed" /\ new.seen # Blank
                                  /\ new.of \notin kept' => left = {}
    PROVE  DatasetInv'
<1> DEFINE d == new.of
<1>1. /\ request' \in [Editor -> {Blank} \cup D!Pending]
      /\ request'[r] = new /\ \A s \in Editor \ {r} : request'[s] = request[s]
      /\ requests' \in 0..MaxRequests
  BY OneMoves DEF DatasetInv
<1>2. /\ new # Blank /\ (Busy(r))' /\ ((Uploading(r))' <=> new.kind = "upload")
      /\ ((Writing(r))' <=> new.phase = "removed" \/ new.phase = "written")
      /\ \A s \in Editor \ {r} : /\ (Busy(s))' <=> Busy(s)
                                 /\ (Writing(s))' <=> Writing(s)
                                 /\ (Uploading(s))' <=> Uploading(s)
                                 /\ request'[s] = request[s]
  BY <1>1, NoRecords DEF Busy, Writing, Uploading
<1>3. row \in [Dataset -> {Blank} \cup D!Row] /\ files \in [Dataset -> SUBSET D!File]
  BY DEF DatasetInv, D!TypeOK
<1>4. /\ files' \in [Dataset -> SUBSET D!File] /\ files'[d] = left
      /\ \A e \in Dataset \ {d} : files'[e] = files[e]
  BY <1>3
<1>5. kept \subseteq kept' /\ kept' \subseteq kept \cup {d}
  OBVIOUS
<1>6. new.kind # "upload" => Busy(r) /\ row[d] # Blank
  BY DEF DatasetInv, RowIsThere, Writing
<1>7. \A s \in Editor \ {r} : Busy(s) /\ request[s].of = d => ~Uploading(s) /\ ~Writing(s) /\ new.kind # "upload"
  <2> SUFFICES ASSUME NEW s \in Editor \ {r}, Busy(s), request[s].of = d
               PROVE  ~Uploading(s) /\ ~Writing(s) /\ new.kind # "upload"
    OBVIOUS
  <2>1. new.kind # "upload"
    OBVIOUS
  <2>2. Busy(r) /\ Writing(r) /\ request[r].of = request[s].of
    BY <1>6, <2>1
  <2> QED
    BY <2>1, <2>2 DEF DatasetInv, RowIsAlone
<1>8. \A s \in Editor \ {r} : Busy(s) => request[s].of \in Dataset
  BY PendingFields DEF DatasetInv
<1>9. D!TypeOK'
  <2>1. \A s \in Editor : request'[s] # Blank => request'[s].of \in begun'
    BY <1>1 DEF DatasetInv, D!TypeOK
  <2>2. begun' \subseteq Dataset /\ kept' \subseteq Dataset
    BY DEF DatasetInv, D!TypeOK
  <2> QED
    BY <1>1, <1>3, <1>4, <2>1, <2>2 DEF DatasetInv, D!TypeOK
<1>10. D!MappingHolds'
  BY DEF DatasetInv, D!MappingHolds
<1>11. Begun'
  BY DEF DatasetInv, Begun
<1>12. InPhase'
  BY <1>1, <1>2 DEF DatasetInv, InPhase
<1>13. RowIsThere'
  <2>1. new.kind = "upload" => new.phase # "removed" /\ new.phase # "written"
    BY DEF PhasesOf
  <2>2. /\ (Uploading(r))' => row'[request'[r].of] = Blank /\ request'[r].of \notin tidy'
        /\ (Busy(r))' /\ ~(Uploading(r))' => request'[r].seen # Blank
        /\ (Writing(r))' => row'[request'[r].of] # Blank
    BY <1>1, <1>2, <1>6, <2>1
  <2>3. \A s \in Editor \ {r} :
           /\ (Uploading(s))' => row'[request'[s].of] = Blank /\ request'[s].of \notin tidy'
           /\ (Busy(s))' /\ ~(Uploading(s))' => request'[s].seen # Blank
           /\ (Writing(s))' => row'[request'[s].of] # Blank
    BY <1>2 DEF DatasetInv, RowIsThere
  <2> QED
    BY <2>2, <2>3 DEF RowIsThere
<1>14. RowIsAlone'
  <2>1. ASSUME NEW s \in Editor \ {r}, (Busy(s))', request'[s].of = request'[r].of
        PROVE  ~(Uploading(s))' /\ ~(Uploading(r))' /\ ~(Writing(s))'
    BY <1>1, <1>2, <1>7, <2>1
  <2>2. ASSUME NEW s \in Editor \ {r}, NEW t \in Editor \ {r}, s # t, (Busy(s))', (Busy(t))',
               request'[s].of = request'[t].of
        PROVE  ~(Uploading(s))' /\ ~((Writing(s))' /\ (Writing(t))')
    <3>1. Busy(s) /\ Busy(t) /\ request[s].of = request[t].of
      BY <1>2, <2>2
    <3>2. ~Uploading(s) /\ ~(Writing(s) /\ Writing(t))
      BY <2>2, <3>1 DEF DatasetInv, RowIsAlone
    <3> QED
      BY <1>2, <3>2
  <2> QED
    BY <2>1, <2>2 DEF RowIsAlone
<1>15. AskedApart'
  <2>1. (D!Guess)' = D!Guess
    BY DEF D!Guess, D!ColumnWith
  <2> QED
    BY <1>1, <1>2, <2>1 DEF DatasetInv, AskedApart
<1>16. FilesOnTheWay'
  <2>1. ASSUME NEW s \in Editor, (Uploading(s))', request'[s].of \notin kept'
        PROVE  files'[request'[s].of] = IF request'[s].phase = "received" THEN {"raw"} ELSE D!File
    <3>1. CASE s = r
      BY <1>1, <1>2, <1>4, <2>1, <3>1
    <3>2. CASE s # r
      <4>1. Uploading(s) /\ Busy(s) /\ request'[s] = request[s] /\ request[s].of \in Dataset \ {d}
        BY <1>2, <1>7, <1>8, <2>1, <3>2 DEF Uploading
      <4> QED
        BY <1>4, <1>5, <2>1, <4>1 DEF DatasetInv, FilesOnTheWay
    <3> QED
      BY <3>1, <3>2
  <2>2. ASSUME NEW s \in Editor, (Busy(s))', request'[s].phase = "removed", request'[s].of \notin kept'
        PROVE  files'[request'[s].of] = {}
    <3>1. CASE s = r
      <4>1. new.kind # "upload"
        BY <1>1, <2>2, <3>1 DEF PhasesOf
      <4> QED
        BY <1>1, <1>4, <2>2, <3>1, <4>1
    <3>2. CASE s # r
      <4>1. Busy(s) /\ request'[s] = request[s] /\ Writing(s)
        BY <1>2, <2>2, <3>2 DEF Writing
      <4>2. request[s].of \in Dataset \ {d}
        BY <1>7, <1>8, <3>2, <4>1
      <4> QED
        BY <1>4, <1>5, <2>2, <4>1, <4>2 DEF DatasetInv, FilesOnTheWay
    <3> QED
      BY <3>1, <3>2
  <2>3. ASSUME NEW e \in Dataset \ kept',
               \A s \in Editor : (Busy(s))' /\ request'[s].of = e => ~(Uploading(s))' /\ request'[s].phase # "removed"
        PROVE  files'[e] = IF row'[e] # Blank THEN D!File ELSE {}
    <3>1. e # d
      <4>1. ~((Uploading(r))' \/ new.phase = "removed") \/ e # d
        BY <1>1, <1>2, <2>3
      <4> QED
        BY <1>2, <4>1
    <3>2. \A s \in Editor : Busy(s) /\ request[s].of = e => ~Uploading(s) /\ request[s].phase # "removed"
      <4>1. Busy(r) => request[r].of = d
        OBVIOUS
      <4> QED
        BY <1>2, <2>3, <3>1, <4>1
    <3> QED
      BY <1>4, <1>5, <2>3, <3>1, <3>2 DEF DatasetInv, FilesOnTheWay
  <2> QED
    BY <2>1, <2>2, <2>3 DEF FilesOnTheWay
<1> QED
  BY <1>9, <1>10, <1>11, <1>12, <1>13, <1>14, <1>15, <1>16 DEF DatasetInv

LEMMA ReceiveStep ==
    ASSUME DatasetInv, NEW r \in Editor, D!Receive(r)
    PROVE  DatasetInv'
<1>1. PICK d \in Dataset \ begun :
         /\ begun' = begun \cup {d} /\ files' = [files EXCEPT ![d] = {"raw"}]
         /\ D!Becomes(r, D!Begin("upload", "received", d, D!Guess))
  BY DEF D!Receive
<1>2. request[r] = Blank /\ requests < MaxRequests /\ UNCHANGED <<row, memory, kept, crossed, tidy>>
  BY DEF D!Receive
<1> DEFINE new == D!Begin("upload", "received", d, D!Guess)
<1>3. /\ new \in D!Pending /\ new.kind = "upload" /\ new.phase = "received" /\ new.of = d
      /\ new.asked = D!Guess
  BY BeginsAs, GuessHolds DEF DatasetInv, D!Kind, D!Phase
<1>4. D!Becomes(r, new)
  BY <1>1
<1> HIDE DEF new
<1>5. ~Busy(r) /\ row[d] = Blank /\ d \notin tidy
  BY <1>1, <1>2 DEF Busy, DatasetInv, Begun
<1>6. \A s \in Editor \ {r} : Busy(s) => request[s].of # new.of
  BY <1>1, <1>3, PendingFields DEF DatasetInv
<1> DEFINE left == {"raw"}
<1>7. left \in SUBSET D!File /\ files' = [files EXCEPT ![new.of] = left]
  BY <1>1, <1>3 DEF D!File
<1>8. new.phase \in PhasesOf(new.kind) /\ new.asked.time # new.asked.target
  BY <1>3, GuessHolds DEF PhasesOf
<1>9. /\ new.phase # "mapped" /\ new.asked = D!Guess /\ row[new.of] = Blank /\ new.of \notin tidy
      /\ new.of \notin kept' => left = IF new.phase = "received" THEN {"raw"} ELSE D!File
  BY <1>3, <1>5
<1>10. new.of \in Dataset /\ begun' = begun \cup {new.of} /\ kept' = kept
  BY <1>1, <1>2, <1>3
<1> HIDE DEF left
<1> QED
  BY <1>2, <1>3, <1>4, <1>5, <1>6, <1>7, <1>8, <1>9, <1>10, FilesStep

LEMMA ConvertStep ==
    ASSUME DatasetInv, NEW r \in Editor, D!Convert(r)
    PROVE  DatasetInv'
<1>1. /\ request[r] # Blank /\ request[r].kind = "upload" /\ request[r].phase = "received"
      /\ files' = [files EXCEPT ![request[r].of] = @ \cup {"parquet"}]
      /\ D!Becomes(r, [request[r] EXCEPT !.phase = "converted"])
      /\ UNCHANGED <<row, memory, begun, kept, crossed, tidy>>
  BY DEF D!Convert, D!At, D!Goes
<1>2. Busy(r) /\ Uploading(r)
  BY <1>1 DEF Busy, Uploading
<1> DEFINE new == [request[r] EXCEPT !.phase = "converted"]
<1>3. /\ new \in D!Pending /\ new.phase = "converted" /\ new.kind = "upload" /\ new.of = request[r].of
      /\ new.asked = request[r].asked /\ new.of \in Dataset /\ new.of \in begun
  BY <1>1, <1>2, PendingFields, GoesTo DEF DatasetInv, D!Phase
<1>4. D!Becomes(r, new)
  BY <1>1
<1> HIDE DEF new
<1>5. new.asked = D!Guess
  BY <1>1, <1>2, <1>3 DEF DatasetInv, AskedApart
<1>6. row[new.of] = Blank /\ new.of \notin tidy /\ \A s \in Editor \ {r} : Busy(s) => request[s].of # new.of
  BY <1>2, <1>3 DEF DatasetInv, RowIsThere, RowIsAlone
<1> DEFINE left == files[new.of] \cup {"parquet"}
<1>7. left \in SUBSET D!File /\ files' = [files EXCEPT ![new.of] = left]
  BY <1>1, <1>3 DEF DatasetInv, D!TypeOK, D!File
<1>8. new.of \notin kept => left = D!File
  BY <1>1, <1>2, <1>3 DEF DatasetInv, FilesOnTheWay, D!File
<1> HIDE DEF left
<1>9. new.phase \in PhasesOf(new.kind) /\ new.asked.time # new.asked.target
  BY <1>3, <1>5, GuessHolds DEF PhasesOf
<1>10. begun' = begun \cup {new.of} /\ kept' = kept
  BY <1>1, <1>3
<1> QED
  BY <1>1, <1>2, <1>3, <1>4, <1>5, <1>6, <1>7, <1>8, <1>9, <1>10, FilesStep

LEMMA RemoveFilesStep ==
    ASSUME DatasetInv, NEW r \in Editor, D!RemoveFiles(r)
    PROVE  DatasetInv'
<1>1. /\ request[r] # Blank /\ request[r].kind = "delete" /\ request[r].phase = "written"
      /\ D!Becomes(r, [request[r] EXCEPT !.phase = "removed"])
      /\ UNCHANGED <<row, memory, begun, crossed, tidy>>
  BY DEF D!RemoveFiles, D!At, D!Goes
<1>2. PICK left \in SUBSET files[request[r].of] :
         /\ files' = [files EXCEPT ![request[r].of] = left]
         /\ kept' = IF left = {} THEN kept ELSE kept \cup {request[r].of}
  BY DEF D!RemoveFiles
<1>3. Busy(r) /\ Writing(r) /\ ~Uploading(r)
  BY <1>1 DEF Busy, Writing, Uploading
<1> DEFINE new == [request[r] EXCEPT !.phase = "removed"]
<1>4. /\ new \in D!Pending /\ new.phase = "removed" /\ new.kind = "delete" /\ new.of = request[r].of
      /\ new.asked = request[r].asked /\ new.seen = request[r].seen /\ new.of \in Dataset /\ new.of \in begun
  BY <1>1, <1>3, PendingFields, GoesTo DEF DatasetInv, D!Phase
<1>5. D!Becomes(r, new)
  BY <1>1
<1> HIDE DEF new
<1>6. new.asked.time # new.asked.target /\ new.seen # Blank
  BY <1>1, <1>3, <1>4 DEF DatasetInv, AskedApart, RowIsThere
<1>7. left \in SUBSET D!File /\ files' = [files EXCEPT ![new.of] = left]
  BY <1>2, <1>4 DEF DatasetInv, D!TypeOK
<1>8. new.of \notin kept' => left = {}
  BY <1>2, <1>4
<1>9. new.phase \in PhasesOf(new.kind)
  BY <1>4 DEF PhasesOf
<1>10. begun' = begun \cup {new.of} /\ (kept' = kept \/ kept' = kept \cup {new.of})
  BY <1>1, <1>2, <1>4
<1> QED
  BY <1>1, <1>3, <1>4, <1>5, <1>6, <1>7, <1>8, <1>9, <1>10, FilesStep

LEMMA DatasetStep == DatasetInv /\ [D!Next]_(D!vars) => DatasetInv'
<1> SUFFICES ASSUME DatasetInv, [D!Next]_(D!vars) PROVE DatasetInv'
  OBVIOUS
<1>1. CASE D!Next
  <2> SUFFICES ASSUME NEW r \in Editor,
                      \/ D!Receive(r) \/ D!Refuse(r) \/ D!Convert(r) \/ D!Map(r) \/ D!CommitUpload(r)
                      \/ D!Load(r) \/ D!Write(r) \/ D!NotFound(r) \/ D!Recall(r) \/ D!Remember(r)
                      \/ D!Commit(r) \/ D!RemoveFiles(r) \/ D!CommitDelete(r) \/ D!DeletedTwice(r)
                      \/ D!Abort(r)
               PROVE  DatasetInv'
    BY <1>1 DEF D!Next
  <2>1. ASSUME D!NotFound(r) PROVE DatasetInv'
    <3>1. Busy(r) /\ D!Fails(r)
      BY <2>1 DEF D!NotFound, D!At, Busy
    <3> QED
      BY <3>1, FailStep
  <2>2. ASSUME D!Abort(r) PROVE DatasetInv'
    <3>1. Busy(r) /\ D!Fails(r)
      BY <2>2 DEF D!Abort, Busy
    <3> QED
      BY <3>1, FailStep
  <2> QED
    BY <2>1, <2>2, ReceiveStep, RefuseStep, ConvertStep, MapStep, CommitUploadStep, LoadStep, WriteStep,
       RecallStep, RememberStep, CommitStep, RemoveFilesStep, CommitDeleteStep, DeletedTwiceStep
<1>2. CASE UNCHANGED D!vars
  <2>1. UNCHANGED <<row, files, memory, request, requests, begun, kept, crossed, tidy>>
    BY <1>2 DEF D!vars
  <2>2. (D!Guess)' = D!Guess
    BY DEF D!Guess, D!ColumnWith
  <2> QED
    BY <2>1, <2>2 DEF DatasetInv, D!TypeOK, D!MappingHolds, Begun, InPhase, RowIsThere, RowIsAlone, AskedApart,
       FilesOnTheWay, Busy, Writing, Uploading
<1> QED
  BY <1>1, <1>2

LEMMA DatasetInvHolds == DatasetInv => D!TypeOK /\ D!MappingHolds /\ D!FilesFollowRows
<1> SUFFICES ASSUME DatasetInv PROVE D!FilesFollowRows
  BY DEF DatasetInv
<1> SUFFICES ASSUME NEW d \in Dataset \ kept,
                    {r \in D!Active : request[r].kind \in {"upload", "delete"} /\ request[r].of = d} = {}
             PROVE  IF row[d] # Blank THEN files[d] = D!File ELSE files[d] = {}
  BY DEF D!FilesFollowRows
<1>1. \A r \in Editor : Busy(r) /\ request[r].of = d => request[r].kind \notin {"upload", "delete"}
  BY DEF D!Active, Busy
<1>2. \A r \in Editor : Busy(r) /\ request[r].of = d => request[r].kind \in {"configure", "accept"}
  BY <1>1, PendingFields DEF DatasetInv, D!Kind
<1>3. \A r \in Editor : Busy(r) /\ request[r].of = d => ~Uploading(r) /\ request[r].phase # "removed"
  BY <1>2 DEF Uploading, DatasetInv, InPhase, PhasesOf
<1> QED
  BY <1>3 DEF DatasetInv, FilesOnTheWay

LEMMA DatasetsAreApart == [MCNext]_<<part, vars, datasets, insights, reading, mapping>>
                            => [D!Next]_(D!vars) /\ UNCHANGED part
<1> SUFFICES ASSUME [MCNext]_<<part, vars, datasets, insights, reading, mapping>>
             PROVE  (D!Next \/ UNCHANGED datasets) /\ UNCHANGED part
  BY DEF D!vars, datasets
<1>1. CASE MCNext
  BY <1>1 DEF MCNext
<1>2. CASE UNCHANGED <<part, vars, datasets, insights, reading, mapping>>
  BY <1>2
<1> QED
  BY <1>1, <1>2

\* A mapping has a time column and another as its target, each with its role, unless requests overlapped;
\* a dataset that can be opened has its table, and one that is gone or was refused has left nothing, unless
\* a request on it failed half way: whatever the requests, the columns and what is asked for.
THEOREM DatasetsAlwaysHold == MCSpec => []DatasetsHold
<1>1. MCInit => DatasetInv
  BY DatasetInit DEF MCInit
<1>2. DatasetInv => DatasetsHold
  BY DatasetInvHolds DEF DatasetsHold
<1>3. DatasetInv /\ [MCNext]_<<part, vars, datasets, insights, reading, mapping>> => DatasetInv'
  BY DatasetsAreApart, DatasetStep
<1> QED
  BY <1>1, <1>2, <1>3, PTL DEF MCSpec
-------------------------------------------------------------------------------
(* Insights.  The newest time of writing grows with every commit that      *)
(* changes something, unless one is committed behind another; so what is   *)
(* held under a token is no older than whoever asks with that token.       *)

Wordings == [Insight -> [text : I!Texts, rewritten : BOOLEAN]]
Entries == [token : Int, version : Int, items : Wordings]

Asks == [phase : {"asking"}, seen : Wordings, of : 1..MaxWrites]
Words == [phase : {"worded", "flushed"}, seen : Wordings, stamp : Nat, of : 0..MaxWrites, draft : Wordings]
Opens == [phase : {"opened"}, token : Nat, since : Nat]
Makes == [phase : {"computed"}, token : Nat, since : Nat, made : Entries]
Rests == [phase : {"idle"}, since : Nat]

Writes == {w \in Writer : write[w] # I!Idle}
Waits(b) == read[b].phase \in {"opened", "computed"}
Holders == cache \cup {page[b] : b \in Browser}
                 \cup {read[b].made : b \in {c \in Browser : read[c].phase = "computed"}}

InsightsTyped ==
    /\ words \in [Insight -> [text : I!Texts, rewritten : BOOLEAN, updated : 0..clock]]
    /\ events \subseteq I!Event
    /\ write \in [Writer -> {I!Idle} \cup Asks \cup Words]
    /\ writes \in 0..MaxWrites /\ reads \in 0..MaxReads /\ clock \in Nat /\ version \in Nat
    /\ cache \subseteq Entries /\ page \in [Browser -> Entries]
    /\ read \in [Browser -> {I!Idle} \cup Opens \cup Makes \cup Rests]
    /\ overlapped \in BOOLEAN /\ behind \in BOOLEAN

\* every version was one of the requests that are over
VersionsAreWritten == version + Cardinality(Writes) <= writes

StampsAreApart ==
    \A w \in Writer : write[w].phase = "flushed" =>
        /\ write[w].stamp \in 1..clock
        /\ \A i \in Insight : words[i].updated # write[w].stamp
        /\ \A v \in Writer \ {w} : write[v].phase = "flushed" => write[v].stamp # write[w].stamp

HoldersAreOfThePast ==
    /\ \A e \in Holders : e.version \in -1..version
    /\ \A b \in Browser : Waits(b) => read[b].since <= version
    /\ \A b \in Browser : read[b].phase = "computed" => read[b].made.token = read[b].token
    /\ \A e, f \in cache : e.token = f.token => e = f

TokensTell ==
    behind \/
    /\ \A e \in Holders : /\ e.token <= I!Revision
                          /\ e.token = I!Revision => e.version = version
    /\ \A b \in Browser : Waits(b) => read[b].token <= I!Revision
    /\ \A e \in Holders, b \in Browser :
          Waits(b) /\ e.token = read[b].token => e.version >= read[b].since

DraftsAreMarked ==
    \A w \in Writer : write[w] \in Words =>
        \A i \in Insight : /\ write[w].draft[i].rewritten <=> write[w].draft[i].text # I!Platform
                           /\ write[w].draft[i].text \in {I!Platform, write[w].of}

SeenIsCommitted ==
    overlapped \/
    /\ \A w \in Writes : write[w].seen = I!Wording(words)
    /\ \A v, w \in Writes : v = w
    /\ \A i \in Insight : words[i].rewritten <=> words[i].text # I!Platform
    /\ \A e \in Holders, i \in Insight : e.items[i].rewritten <=> e.items[i].text # I!Platform

InsightInv ==
    /\ InsightsTyped /\ VersionsAreWritten /\ StampsAreApart /\ HoldersAreOfThePast
    /\ TokensTell /\ DraftsAreMarked /\ SeenIsCommitted
    /\ I!PageIsCurrent /\ I!WordingIsCredited

LEMMA WritesAreFinite == IsFiniteSet(Writes) /\ Cardinality(Writes) \in Nat
  BY InsightsAssumption, FS_Subset, FS_CardinalityType DEF Writes

\* A non-empty set of numbers up to some number has a greatest one.
LEMMA GreatestIsReached ==
    ASSUME NEW n \in Nat, NEW S \in SUBSET (0..n), S # {}
    PROVE  I!Max(S) \in S /\ \A x \in S : x <= I!Max(S)
<1> DEFINE T == {k \in Nat : \E x \in S : k = n - x}
<1>1. T # {} /\ T \subseteq Nat
  <2>1. PICK x \in S : TRUE
    OBVIOUS
  <2>2. n - x \in Nat
    BY <2>1
  <2> QED
    BY <2>1, <2>2
<1>2. IsWellFoundedOn(OpToRel(<, Nat), Nat)
  BY NatLessThanWellFounded, Zenon
<1>3. PICK m \in T : \A k \in T : ~ (<<k, m>> \in OpToRel(<, Nat))
  <2> HIDE DEF T
  <2> QED
    BY <1>1, <1>2, WFMin, Zenon
<1>4. OpToRel(<, Nat) = {s \in Nat \X Nat : s[1] < s[2]}
  BY Zenon DEF OpToRel
<1>5. PICK x \in S : m = n - x
  OBVIOUS
<1>6. ASSUME NEW y \in S PROVE x >= y
  <2>1. n - y \in T /\ n - y \in Nat /\ m \in Nat
    OBVIOUS
  <2>2. ~(n - y < m)
    BY <1>3, <1>4, <2>1
  <2>3. x \in Int /\ y \in Int
    OBVIOUS
  <2> QED
    BY <1>5, <2>2, <2>3
<1>7. I!Max(S) \in S /\ \A y \in S : I!Max(S) >= y
  BY <1>6 DEF I!Max
<1>8. \A y \in S : y \in Int
  OBVIOUS
<1>9. I!Max(S) \in Int
  BY <1>7, <1>8
<1> QED
  BY <1>7, <1>8, <1>9

\* The newest time of writing is that of an insight.
LEMMA RevisionIsNewest ==
    ASSUME InsightsTyped
    PROVE  /\ I!Revision \in 0..clock
           /\ \E i \in Insight : I!Revision = words[i].updated
           /\ \A i \in Insight : words[i].updated <= I!Revision
<1> DEFINE S == {words[i].updated : i \in Insight}
<1>1. clock \in Nat /\ S \in SUBSET (0..clock) /\ S # {}
  BY InsightsAssumption DEF InsightsTyped
<1>2. I!Max(S) \in S /\ \A x \in S : x <= I!Max(S)
  BY <1>1, GreatestIsReached
<1>3. I!Revision = I!Max(S)
  BY DEF I!Revision
<1> QED
  BY <1>1, <1>2, <1>3

LEMMA ReadFields ==
    ASSUME InsightsTyped, NEW b \in Browser
    PROVE  /\ Waits(b) => read[b].token \in Nat /\ read[b].since \in Nat /\ read[b] \in Opens \cup Makes
           /\ read[b].phase = "computed" => read[b].made \in Entries /\ Waits(b)
           /\ read[b].phase \in {"idle", "opened", "computed"}
           /\ page[b] \in Entries
<1>1. read[b] \in {I!Idle} \cup Opens \cup Makes \cup Rests
  BY DEF InsightsTyped
<1>2. I!Idle.phase = "idle"
  BY DEF I!Idle
<1> QED
  BY <1>1, <1>2 DEF Waits, Opens, Makes, Rests, InsightsTyped

LEMMA HoldersAreEntries ==
    ASSUME InsightsTyped
    PROVE  Holders \subseteq Entries /\ \A e \in Holders : e.token \in Int /\ e.version \in Int /\ e.items \in Wordings
<1>1. Holders \subseteq Entries
  BY ReadFields DEF Holders, InsightsTyped
<1> QED
  BY <1>1 DEF Entries

\* What is held may be held.
Fits(e) ==
    /\ e \in Entries /\ e.version \in -1..version
    /\ behind \/ (e.token <= I!Revision /\ (e.token = I!Revision => e.version = version))
    /\ overlapped \/ \A i \in Insight : e.items[i].rewritten <=> e.items[i].text # I!Platform

LEMMA HeldFits == ASSUME InsightInv, NEW e \in Holders PROVE Fits(e)
<1>1. e \in Entries
  BY HoldersAreEntries DEF InsightInv
<1> QED
  BY <1>1 DEF InsightInv, Fits, HoldersAreOfThePast, TokensTell, SeenIsCommitted

\* A step of a page, or of the cache: nothing is written, and at most one thing more is held.
LEMMA ReaderStep ==
    ASSUME InsightInv, UNCHANGED <<words, events, write, writes, clock, version, overlapped, behind>>,
           cache' \subseteq Entries, page' \in [Browser -> Entries], reads' \in 0..MaxReads,
           read' \in [Browser -> {I!Idle} \cup Opens \cup Makes \cup Rests],
           NEW fresh, Fits(fresh), Holders' \subseteq Holders \cup {fresh},
           \A e, f \in cache' : e.token = f.token => e = f,
           \A c \in Browser : read'[c].phase = "computed" => read'[c].made.token = read'[c].token,
           \A c \in Browser : read'[c].phase \in {"opened", "computed"} =>
              \/ Waits(c) /\ read'[c].token = read[c].token /\ read'[c].since = read[c].since
              \/ read'[c].token = I!Revision /\ read'[c].since = version,
           behind \/ \A c \in Browser :
              read'[c].phase \in {"opened", "computed"} /\ fresh.token = read'[c].token =>
                 fresh.version >= read'[c].since,
           I!PageIsCurrent'
    PROVE  InsightInv'
<1>1. InsightsTyped'
  BY DEF InsightInv, InsightsTyped
<1>2. Writes' = Writes /\ (I!Revision)' = I!Revision /\ (I!Wording(words))' = I!Wording(words)
  BY DEF Writes, I!Revision, I!Wording
<1>3. VersionsAreWritten' /\ StampsAreApart' /\ DraftsAreMarked' /\ I!WordingIsCredited'
  BY <1>2 DEF InsightInv, VersionsAreWritten, StampsAreApart, DraftsAreMarked, I!WordingIsCredited
<1>4. \A e \in Holders' : Fits(e)
  BY HeldFits
<1>5. I!Revision \in Int /\ version \in Nat
  BY RevisionIsNewest DEF InsightInv, InsightsTyped
<1>6. \A c \in Browser : (Waits(c))' <=> read'[c].phase \in {"opened", "computed"}
  BY DEF Waits
<1>7. HoldersAreOfThePast'
  <2>1. \A e \in Holders' : e.version \in -1..version'
    BY <1>4 DEF Fits
  <2>2. \A c \in Browser : (Waits(c))' => read'[c].since <= version'
    BY <1>5, <1>6 DEF InsightInv, HoldersAreOfThePast
  <2> QED
    BY <2>1, <2>2 DEF HoldersAreOfThePast
<1>8. TokensTell'
  <2>1. CASE behind
    BY <2>1 DEF TokensTell
  <2>2. CASE ~behind
    <3>1. \A e \in Holders' : e.token <= (I!Revision)' /\ (e.token = (I!Revision)' => e.version = version')
      BY <1>2, <1>4, <2>2 DEF Fits
    <3>2. \A c \in Browser : (Waits(c))' => read'[c].token <= (I!Revision)'
      BY <1>2, <1>5, <1>6, <2>2 DEF InsightInv, TokensTell
    <3>3. ASSUME NEW e \in Holders', NEW c \in Browser, (Waits(c))', e.token = read'[c].token
          PROVE  e.version >= read'[c].since
      <4>1. CASE e = fresh
        BY <1>6, <2>2, <3>3, <4>1
      <4>2. CASE e \in Holders
        <5>1. CASE Waits(c) /\ read'[c].token = read[c].token /\ read'[c].since = read[c].since
          BY <2>2, <3>3, <4>2, <5>1 DEF InsightInv, TokensTell
        <5>2. CASE read'[c].token = I!Revision /\ read'[c].since = version
          <6>1. e.version = version
            BY <2>2, <3>3, <4>2, <5>2 DEF InsightInv, TokensTell
          <6> QED
            BY <1>5, <5>2, <6>1
        <5> QED
          BY <1>6, <3>3, <5>1, <5>2
      <4> QED
        BY <3>3, <4>1, <4>2
    <3> QED
      BY <3>1, <3>2, <3>3 DEF TokensTell
  <2> QED
    BY <2>1, <2>2
<1>9. SeenIsCommitted'
  BY <1>2, <1>4 DEF InsightInv, SeenIsCommitted, Fits
<1> QED
  BY <1>1, <1>3, <1>7, <1>8, <1>9 DEF InsightInv

\* A page is given something that is held under the token it asks with.
LEMMA AnswerStep ==
    ASSUME InsightInv, UNCHANGED <<words, events, write, writes, clock, version, overlapped, behind, reads>>,
           NEW b \in Browser, Waits(b), NEW e \in Holders, e.token = read[b].token, I!Answered(b, e),
           cache' \subseteq cache \cup {e}, \A x, y \in cache' : x.token = y.token => x = y
    PROVE  InsightInv'
<1> DEFINE done == [phase |-> "idle", since |-> read[b].since]
<1>1. e \in Entries /\ Fits(e) /\ Holders \subseteq Entries /\ InsightsTyped
  BY HoldersAreEntries, HeldFits DEF InsightInv
<1>2. read[b].token \in Nat /\ read[b].since \in Nat
  BY <1>1, ReadFields
<1>3. [e EXCEPT !.token = read[b].token] = e
  BY <1>1 DEF Entries
<1>4. page' = [page EXCEPT ![b] = e] /\ read' = [read EXCEPT ![b] = done]
  BY <1>3 DEF I!Answered
<1>5. page \in [Browser -> Entries] /\ read \in [Browser -> {I!Idle} \cup Opens \cup Makes \cup Rests] /\ cache \subseteq Entries
  BY <1>1 DEF InsightsTyped
<1>6. done \in Rests /\ done.phase = "idle" /\ done.since = read[b].since
  BY <1>2 DEF Rests
<1> HIDE DEF done
<1>7. page' \in [Browser -> Entries] /\ read' \in [Browser -> {I!Idle} \cup Opens \cup Makes \cup Rests]
  BY <1>1, <1>4, <1>5, <1>6
<1>8. read'[b] = done /\ page'[b] = e /\ \A c \in Browser \ {b} : read'[c] = read[c] /\ page'[c] = page[c]
  BY <1>4, <1>5
<1>9. \A c \in Browser : read'[c].phase \in {"opened", "computed"} => read'[c] = read[c] /\ Waits(c)
  BY <1>6, <1>8 DEF Waits
<1>10. Holders' \subseteq Holders \cup {e}
  <2>1. \A c \in Browser : page'[c] \in Holders \cup {e}
    BY <1>8 DEF Holders
  <2>2. \A c \in Browser : read'[c].phase = "computed" => read'[c].made \in Holders
    BY <1>9 DEF Holders
  <2>3. cache' \subseteq Holders \cup {e}
    BY DEF Holders
  <2> QED
    BY <2>1, <2>2, <2>3 DEF Holders
<1>11. \A c \in Browser : read'[c].phase = "computed" => read'[c].made.token = read'[c].token
  BY <1>9 DEF InsightInv, HoldersAreOfThePast
<1>12. behind \/ \A c \in Browser : Waits(c) /\ e.token = read[c].token => e.version >= read[c].since
  BY DEF InsightInv, TokensTell
<1>13. I!PageIsCurrent'
  <2> SUFFICES ASSUME NEW c \in Browser, page'[c] # I!Nothing, "since" \in DOMAIN read'[c],
                      read'[c].phase = "idle", ~behind
               PROVE  page'[c].version >= read'[c].since
    BY DEF I!PageIsCurrent, I!Nothing, I!Wording
  <2>1. CASE c = b
    BY <1>6, <1>8, <1>12, <2>1
  <2>2. CASE c # b
    BY <1>8, <2>2 DEF InsightInv, I!PageIsCurrent
  <2> QED
    BY <2>1, <2>2
<1>14. cache' \subseteq Entries /\ reads' \in 0..MaxReads
  BY <1>1, <1>5 DEF InsightsTyped
<1>15. behind \/ \A c \in Browser :
          read'[c].phase \in {"opened", "computed"} /\ e.token = read'[c].token => e.version >= read'[c].since
  BY <1>9, <1>12
<1>16. \A c \in Browser : read'[c].phase \in {"opened", "computed"} =>
          \/ Waits(c) /\ read'[c].token = read[c].token /\ read'[c].since = read[c].since
          \/ read'[c].token = I!Revision /\ read'[c].since = version
  BY <1>9
<1> QED
  BY <1>1, <1>7, <1>10, <1>11, <1>13, <1>14, <1>15, <1>16, ReaderStep

LEMMA NotModifiedStep ==
    ASSUME InsightInv, NEW b \in Browser, I!NotModified(b)
    PROVE  InsightInv'
<1>1. page[b] \in Holders /\ Waits(b) /\ page[b].token = read[b].token /\ I!Answered(b, page[b])
  BY DEF I!NotModified, Waits, Holders
<1>2. cache' = cache /\ UNCHANGED <<words, events, write, writes, clock, version, overlapped, behind, reads>>
  BY DEF I!NotModified, I!stored, I!writing
<1>3. \A x, y \in cache' : x.token = y.token => x = y
  BY <1>2 DEF InsightInv, HoldersAreOfThePast
<1> QED
  BY <1>1, <1>2, <1>3, AnswerStep

LEMMA HitStep ==
    ASSUME InsightInv, NEW b \in Browser, I!Hit(b)
    PROVE  InsightInv'
<1>1. PICK e \in cache : e.token = read[b].token /\ I!Answered(b, e)
  BY DEF I!Hit
<1>2. e \in Holders /\ Waits(b)
  BY DEF I!Hit, Waits, Holders
<1>3. cache' = cache /\ UNCHANGED <<words, events, write, writes, clock, version, overlapped, behind, reads>>
  BY DEF I!Hit, I!stored, I!writing
<1>4. \A x, y \in cache' : x.token = y.token => x = y
  BY <1>3 DEF InsightInv, HoldersAreOfThePast
<1> QED
  BY <1>1, <1>2, <1>3, <1>4, AnswerStep

LEMMA JoinStep ==
    ASSUME InsightInv, NEW b \in Browser, NEW other \in Browser, I!Join(b, other)
    PROVE  InsightInv'
<1> DEFINE e == read[other].made
<1>1. e \in Holders /\ Waits(b) /\ I!Answered(b, e)
  BY DEF I!Join, Waits, Holders
<1>2. e.token = read[b].token
  BY DEF I!Join, InsightInv, HoldersAreOfThePast
<1>3. cache' = cache /\ UNCHANGED <<words, events, write, writes, clock, version, overlapped, behind, reads>>
  BY DEF I!Join, I!stored, I!writing
<1>4. \A x, y \in cache' : x.token = y.token => x = y
  BY <1>3 DEF InsightInv, HoldersAreOfThePast
<1> HIDE DEF e
<1> QED
  BY <1>1, <1>2, <1>3, <1>4, AnswerStep

LEMMA StoreStep ==
    ASSUME InsightInv, NEW b \in Browser, I!Store(b)
    PROVE  InsightInv'
<1> DEFINE e == read[b].made
<1>1. e \in Holders /\ Waits(b) /\ I!Answered(b, e)
  BY DEF I!Store, Waits, Holders
<1>2. e.token = read[b].token
  BY DEF I!Store, InsightInv, HoldersAreOfThePast
<1>3. cache' = {x \in cache : x.token # read[b].token} \cup {e}
  BY DEF I!Store
<1>4. UNCHANGED <<words, events, write, writes, clock, version, overlapped, behind, reads>>
  BY DEF I!Store, I!stored, I!writing
<1> HIDE DEF e
<1>5. \A x, y \in cache' : x.token = y.token => x = y
  BY <1>2, <1>3 DEF InsightInv, HoldersAreOfThePast
<1> QED
  BY <1>1, <1>2, <1>3, <1>4, <1>5, AnswerStep

\* A page asks: what it gets will be no older than what is committed now.
LEMMA OpenStep ==
    ASSUME InsightInv, NEW b \in Browser, I!Open(b)
    PROVE  InsightInv'
<1> DEFINE asks == [phase |-> "opened", token |-> I!Revision, since |-> version]
<1>1. InsightsTyped /\ I!Revision \in Nat /\ version \in Nat /\ page[b] \in Holders /\ Fits(page[b])
  BY RevisionIsNewest, HeldFits DEF InsightInv, InsightsTyped, Holders
<1>2. /\ UNCHANGED <<words, events, write, writes, clock, version, overlapped, behind, cache, page>>
      /\ reads' \in 0..MaxReads /\ read' = [read EXCEPT ![b] = asks]
  BY <1>1, InsightsAssumption DEF I!Open, I!stored, I!writing, InsightsTyped
<1>3. read \in [Browser -> {I!Idle} \cup Opens \cup Makes \cup Rests] /\ cache \subseteq Entries /\ page \in [Browser -> Entries]
  BY <1>1 DEF InsightsTyped
<1>4. asks \in Opens /\ asks.phase = "opened" /\ asks.token = I!Revision /\ asks.since = version
  BY <1>1 DEF Opens
<1> HIDE DEF asks
<1>5. /\ read' \in [Browser -> {I!Idle} \cup Opens \cup Makes \cup Rests]
      /\ read'[b] = asks /\ \A c \in Browser \ {b} : read'[c] = read[c]
  BY <1>2, <1>3, <1>4
<1>6. \A c \in Browser : read'[c].phase = "computed" => read'[c] = read[c]
  BY <1>4, <1>5
<1>7. Holders' \subseteq Holders \cup {page[b]}
  BY <1>2, <1>6 DEF Holders
<1>8. \A c \in Browser : read'[c].phase = "computed" => read'[c].made.token = read'[c].token
  BY <1>6 DEF InsightInv, HoldersAreOfThePast
<1>9. \A c \in Browser : read'[c].phase \in {"opened", "computed"} =>
         \/ Waits(c) /\ read'[c].token = read[c].token /\ read'[c].since = read[c].since
         \/ read'[c].token = I!Revision /\ read'[c].since = version
  BY <1>4, <1>5 DEF Waits
<1>10. behind \/ \A c \in Browser :
          read'[c].phase \in {"opened", "computed"} /\ page[b].token = read'[c].token =>
             page[b].version >= read'[c].since
  <2> SUFFICES ASSUME ~behind, NEW c \in Browser, read'[c].phase \in {"opened", "computed"},
                      page[b].token = read'[c].token
               PROVE  page[b].version >= read'[c].since
    OBVIOUS
  <2>1. CASE c = b
    <3>1. page[b].version = version
      BY <1>1, <1>4, <1>5, <2>1 DEF Fits
    <3> QED
      BY <1>1, <1>4, <1>5, <2>1, <3>1
  <2>2. CASE c # b
    BY <1>1, <1>5, <2>2 DEF InsightInv, TokensTell, Waits
  <2> QED
    BY <2>1, <2>2
<1>11. I!PageIsCurrent'
  <2> SUFFICES ASSUME NEW c \in Browser, page'[c] # I!Nothing, "since" \in DOMAIN read'[c],
                      read'[c].phase = "idle", ~behind
               PROVE  page'[c].version >= read'[c].since
    BY <1>2 DEF I!PageIsCurrent, I!Nothing, I!Wording
  <2> QED
    BY <1>2, <1>4, <1>5 DEF InsightInv, I!PageIsCurrent
<1>12. \A x, y \in cache' : x.token = y.token => x = y
  BY <1>2 DEF InsightInv, HoldersAreOfThePast
<1> QED
  BY <1>1, <1>2, <1>3, <1>5, <1>7, <1>8, <1>9, <1>10, <1>11, <1>12, ReaderStep

\* It computes: from what is committed, under the token it asked with, which may be an older one.
LEMMA ComputeStep ==
    ASSUME InsightInv, NEW b \in Browser, I!Compute(b)
    PROVE  InsightInv'
<1> DEFINE made == [token |-> read[b].token, version |-> version, items |-> I!Wording(words)]
           asks == [phase |-> "computed", token |-> read[b].token, since |-> read[b].since, made |-> made]
<1>1. InsightsTyped /\ I!Revision \in Nat /\ version \in Nat /\ Waits(b)
  BY RevisionIsNewest DEF InsightInv, InsightsTyped, I!Compute, Waits
<1>2. read[b].token \in Nat /\ read[b].since \in Nat /\ read[b].since <= version
  BY <1>1, ReadFields DEF InsightInv, HoldersAreOfThePast
<1>3. UNCHANGED <<words, events, write, writes, clock, version, overlapped, behind, cache, page, reads>>
  BY DEF I!Compute, I!stored, I!writing
<1>4. read' = [read EXCEPT ![b] = asks]
  BY DEF I!Compute
<1>5. read \in [Browser -> {I!Idle} \cup Opens \cup Makes \cup Rests] /\ cache \subseteq Entries /\ page \in [Browser -> Entries]
  BY <1>1 DEF InsightsTyped
<1>6. I!Wording(words) \in Wordings /\ \A i \in Insight : I!Wording(words)[i].rewritten = words[i].rewritten
                                                   /\ I!Wording(words)[i].text = words[i].text
  BY <1>1 DEF InsightsTyped, I!Wording, Wordings
<1>7. made \in Entries /\ made.version = version /\ made.token = read[b].token /\ made.items = I!Wording(words)
  BY <1>1, <1>2, <1>6 DEF Entries
<1> HIDE DEF made
<1>8. asks \in Makes /\ asks.phase = "computed" /\ asks.token = read[b].token /\ asks.since = read[b].since /\ asks.made = made
  BY <1>2, <1>7 DEF Makes
<1> HIDE DEF asks
<1>9. /\ read' \in [Browser -> {I!Idle} \cup Opens \cup Makes \cup Rests]
      /\ read'[b] = asks /\ \A c \in Browser \ {b} : read'[c] = read[c]
  BY <1>4, <1>5, <1>8
<1>10. Fits(made)
  <2>1. made.version \in -1..version
    BY <1>1, <1>7
  <2>2. behind \/ (made.token <= I!Revision /\ (made.token = I!Revision => made.version = version))
    BY <1>1, <1>7 DEF InsightInv, TokensTell
  <2>3. overlapped \/ \A i \in Insight : made.items[i].rewritten <=> made.items[i].text # I!Platform
    BY <1>6, <1>7 DEF InsightInv, SeenIsCommitted
  <2> QED
    BY <1>7, <2>1, <2>2, <2>3 DEF Fits
<1>11. Holders' \subseteq Holders \cup {made}
  <2>1. \A c \in Browser : read'[c].phase = "computed" => read'[c].made \in Holders \cup {made}
    BY <1>8, <1>9 DEF Holders
  <2> QED
    BY <1>3, <2>1 DEF Holders
<1>12. \A c \in Browser : read'[c].phase = "computed" => read'[c].made.token = read'[c].token
  BY <1>7, <1>8, <1>9 DEF InsightInv, HoldersAreOfThePast
<1>13. \A c \in Browser : read'[c].phase \in {"opened", "computed"} =>
         Waits(c) /\ read'[c].token = read[c].token /\ read'[c].since = read[c].since
  BY <1>1, <1>8, <1>9 DEF Waits
<1>14. \A c \in Browser : read'[c].phase \in {"opened", "computed"} => made.version >= read'[c].since
  <2> SUFFICES ASSUME NEW c \in Browser, read'[c].phase \in {"opened", "computed"} PROVE made.version >= read'[c].since
    OBVIOUS
  <2>1. read[c].since \in Nat /\ read[c].since <= version /\ read'[c].since = read[c].since
    BY <1>1, <1>13, ReadFields DEF InsightInv, HoldersAreOfThePast
  <2> QED
    BY <1>1, <1>7, <2>1
<1>15. I!PageIsCurrent'
  <2> SUFFICES ASSUME NEW c \in Browser, page'[c] # I!Nothing, "since" \in DOMAIN read'[c],
                      read'[c].phase = "idle", ~behind
               PROVE  page'[c].version >= read'[c].since
    BY <1>3 DEF I!PageIsCurrent, I!Nothing, I!Wording
  <2> QED
    BY <1>3, <1>8, <1>9 DEF InsightInv, I!PageIsCurrent
<1>16. \A x, y \in cache' : x.token = y.token => x = y
  BY <1>3 DEF InsightInv, HoldersAreOfThePast
<1>17. reads' \in 0..MaxReads
  BY <1>1, <1>3 DEF InsightsTyped
<1> QED
  BY <1>3, <1>5, <1>9, <1>10, <1>11, <1>12, <1>13, <1>14, <1>15, <1>16, <1>17, ReaderStep

LEMMA NothingFits == ASSUME InsightInv PROVE Fits(I!Nothing)
<1>1. I!Revision \in Nat /\ version \in Nat
  BY RevisionIsNewest DEF InsightInv, InsightsTyped
<1> DEFINE plain == I!Wording([i \in Insight |-> I!Plain])
<1>2. plain \in Wordings /\ \A i \in Insight : plain[i].text = 0 /\ plain[i].rewritten = FALSE
  BY InsightsAssumption DEF Wordings, I!Wording, I!Plain, I!Platform, I!Texts
<1>3. I!Nothing = [token |-> -1, version |-> -1, items |-> plain]
  BY DEF I!Nothing
<1> HIDE DEF plain
<1>4. I!Nothing \in Entries /\ I!Nothing.token = -1 /\ I!Nothing.version = -1 /\ I!Nothing.items = plain
  BY <1>2, <1>3 DEF Entries
<1>5. I!Nothing.version \in -1..version /\ I!Nothing.token <= I!Revision /\ I!Nothing.token # I!Revision
  BY <1>1, <1>4
<1> QED
  BY <1>2, <1>4, <1>5 DEF Fits, I!Platform

LEMMA LeaveStep ==
    ASSUME InsightInv, NEW b \in Browser, I!Leave(b)
    PROVE  InsightInv'
<1> DEFINE none == I!Nothing
<1>1. InsightsTyped /\ Fits(none) /\ none \in Entries
  BY NothingFits DEF InsightInv, Fits
<1>2. UNCHANGED <<words, events, write, writes, clock, version, overlapped, behind, cache, reads>>
  BY DEF I!Leave, I!stored, I!writing
<1>3. read' = [read EXCEPT ![b] = I!Idle] /\ page' = [page EXCEPT ![b] = none]
  BY DEF I!Leave
<1>4. (I!Nothing)' = none
  BY DEF I!Nothing, I!Wording, I!Plain
<1> HIDE DEF none
<1>5. read \in [Browser -> {I!Idle} \cup Opens \cup Makes \cup Rests] /\ cache \subseteq Entries /\ page \in [Browser -> Entries]
  BY <1>1 DEF InsightsTyped
<1>6. I!Idle.phase = "idle" /\ "since" \notin DOMAIN I!Idle
  BY DEF I!Idle
<1>7. /\ read' \in [Browser -> {I!Idle} \cup Opens \cup Makes \cup Rests] /\ page' \in [Browser -> Entries]
      /\ read'[b] = I!Idle /\ page'[b] = none /\ \A c \in Browser \ {b} : read'[c] = read[c] /\ page'[c] = page[c]
  BY <1>1, <1>3, <1>5
<1>8. \A c \in Browser : read'[c].phase \in {"opened", "computed"} => c # b /\ read'[c] = read[c] /\ Waits(c)
  BY <1>6, <1>7 DEF Waits
<1>9. Holders' \subseteq Holders \cup {none}
  <2>1. \A c \in Browser : page'[c] \in Holders \cup {none}
    BY <1>7 DEF Holders
  <2>2. \A c \in Browser : read'[c].phase = "computed" => read'[c].made \in Holders
    BY <1>8 DEF Holders
  <2> QED
    BY <1>2, <2>1, <2>2 DEF Holders
<1>10. \A c \in Browser : read'[c].phase = "computed" => read'[c].made.token = read'[c].token
  BY <1>8 DEF InsightInv, HoldersAreOfThePast
<1>11. none.token = -1
  BY <1>4 DEF none, I!Nothing
<1>12. \A c \in Browser : read'[c].phase \in {"opened", "computed"} => none.token # read'[c].token
  <2> SUFFICES ASSUME NEW c \in Browser, read'[c].phase \in {"opened", "computed"} PROVE none.token # read'[c].token
    OBVIOUS
  <2>1. read[c].token \in Nat /\ read'[c] = read[c]
    BY <1>1, <1>8, ReadFields
  <2> QED
    BY <1>11, <2>1
<1>13. I!PageIsCurrent'
  <2> SUFFICES ASSUME NEW c \in Browser, page'[c] # (I!Nothing)', "since" \in DOMAIN read'[c],
                      read'[c].phase = "idle", ~behind
               PROVE  page'[c].version >= read'[c].since
    BY <1>2 DEF I!PageIsCurrent
  <2>1. c # b
    BY <1>6, <1>7
  <2>2. page[c] # I!Nothing
    BY <1>4, <1>7, <2>1 DEF none
  <2> QED
    BY <1>7, <2>1, <2>2 DEF InsightInv, I!PageIsCurrent
<1>14. \A x, y \in cache' : x.token = y.token => x = y
  BY <1>2 DEF InsightInv, HoldersAreOfThePast
<1>15. reads' \in 0..MaxReads
  BY <1>1, <1>2 DEF InsightsTyped
<1> QED
  BY <1>1, <1>2, <1>5, <1>7, <1>8, <1>9, <1>10, <1>12, <1>13, <1>14, <1>15, ReaderStep

LEMMA ExpireStep ==
    ASSUME InsightInv, I!Expire
    PROVE  InsightInv'
<1>1. PICK e \in cache : cache' = cache \ {e}
  BY DEF I!Expire
<1>2. UNCHANGED <<words, events, write, writes, clock, version, overlapped, behind, page, read, reads>>
  BY DEF I!Expire, I!stored, I!writing
<1>3. e \in Holders /\ Fits(e) /\ InsightsTyped
  BY HeldFits DEF Holders, InsightInv
<1>4. cache' \subseteq Entries /\ page' \in [Browser -> Entries] /\ reads' \in 0..MaxReads
  BY <1>1, <1>2, <1>3 DEF InsightsTyped
<1>5. read' \in [Browser -> {I!Idle} \cup Opens \cup Makes \cup Rests]
  BY <1>2, <1>3 DEF InsightsTyped
<1>6. Holders' \subseteq Holders \cup {e}
  BY <1>1, <1>2 DEF Holders
<1>7. \A x, y \in cache' : x.token = y.token => x = y
  BY <1>1 DEF InsightInv, HoldersAreOfThePast
<1>8. \A c \in Browser : read'[c].phase = "computed" => read'[c].made.token = read'[c].token
  BY <1>2 DEF InsightInv, HoldersAreOfThePast
<1>9. \A c \in Browser : read'[c].phase \in {"opened", "computed"} => Waits(c) /\ read'[c] = read[c]
  BY <1>2 DEF Waits
<1>10. behind \/ \A c \in Browser :
          read'[c].phase \in {"opened", "computed"} /\ e.token = read'[c].token => e.version >= read'[c].since
  BY <1>3, <1>9 DEF InsightInv, TokensTell
<1>11. I!PageIsCurrent'
  BY <1>2 DEF InsightInv, I!PageIsCurrent, I!Nothing, I!Wording
<1> QED
  BY <1>2, <1>3, <1>4, <1>5, <1>6, <1>7, <1>8, <1>9, <1>10, <1>11, ReaderStep

LEMMA WriteFields ==
    ASSUME InsightsTyped, NEW w \in Writer
    PROVE  /\ write[w].phase = "asking" => write[w] \in Asks
           /\ write[w].phase \in {"worded", "flushed"} => write[w] \in Words
           /\ write[w] # I!Idle <=> write[w].phase \in {"asking", "worded", "flushed"}
           /\ write[w] = I!Idle <=> write[w].phase = "idle"
<1>1. write[w] \in {I!Idle} \cup Asks \cup Words
  BY DEF InsightsTyped
<1>2. I!Idle.phase = "idle"
  BY DEF I!Idle
<1>3. \A x \in Asks : x.phase = "asking"
  BY DEF Asks
<1>4. \A x \in Words : x.phase \in {"worded", "flushed"}
  BY DEF Words
<1> QED
  BY <1>1, <1>2, <1>3, <1>4

\* A step of a writer that commits nothing; the cache may be emptied.
LEMMA WriterStep ==
    ASSUME InsightInv, UNCHANGED <<words, events, version, behind, page, read, reads>>,
           cache' \subseteq cache, clock' \in Nat, clock <= clock', writes' \in 0..MaxWrites, overlapped' \in BOOLEAN,
           write' \in [Writer -> {I!Idle} \cup Asks \cup Words],
           VersionsAreWritten', StampsAreApart', DraftsAreMarked',
           overlapped' \/ ( /\ ~overlapped
                            /\ \A w \in Writes' : write'[w].seen = I!Wording(words)
                            /\ \A v, w \in Writes' : v = w )
    PROVE  InsightInv'
<1>1. InsightsTyped'
  <2>1. 0..clock \subseteq 0..clock'
    BY DEF InsightInv, InsightsTyped
  <2>2. [text : I!Texts, rewritten : BOOLEAN, updated : 0..clock] \subseteq [text : I!Texts, rewritten : BOOLEAN, updated : 0..clock']
    BY <2>1
  <2>3. words' \in [Insight -> [text : I!Texts, rewritten : BOOLEAN, updated : 0..clock']]
    BY <2>2 DEF InsightInv, InsightsTyped
  <2> QED
    BY <2>3 DEF InsightInv, InsightsTyped
<1>2. (I!Revision)' = I!Revision /\ (I!Wording(words))' = I!Wording(words)
  BY DEF I!Revision, I!Wording
<1>3. \A c \in Browser : (Waits(c))' <=> Waits(c)
  BY DEF Waits
<1>4. Holders' \subseteq Holders
  BY DEF Holders
<1>5. HoldersAreOfThePast'
  BY <1>3, <1>4 DEF InsightInv, HoldersAreOfThePast
<1>6. TokensTell'
  BY <1>2, <1>3, <1>4 DEF InsightInv, TokensTell
<1>7. SeenIsCommitted'
  BY <1>2, <1>4 DEF InsightInv, SeenIsCommitted
<1>8. I!PageIsCurrent' /\ I!WordingIsCredited'
  BY DEF InsightInv, I!PageIsCurrent, I!Nothing, I!Wording, I!WordingIsCredited
<1> QED
  BY <1>1, <1>5, <1>6, <1>7, <1>8 DEF InsightInv

LEMMA LoadedStep ==
    ASSUME InsightInv, NEW w \in Writer, write[w] = I!Idle, writes' = writes + 1, writes < MaxWrites,
           UNCHANGED <<words, events, version, behind, clock, cache, page, read, reads>>,
           overlapped' = (overlapped \/ \E v \in Writer : write[v] # I!Idle),
           NEW new \in Asks \cup Words, write' = [write EXCEPT ![w] = new], new.seen = I!Wording(words),
           new.phase \in {"asking", "worded"},
           new \in Words => \A i \in Insight : new.draft[i].text = I!Platform /\ new.draft[i].rewritten = FALSE
    PROVE  InsightInv'
<1>1. InsightsTyped /\ clock \in Nat /\ writes \in 0..MaxWrites /\ MaxWrites \in Nat /\ version \in Nat
  BY InsightsAssumption DEF InsightInv, InsightsTyped
<1>2. write \in [Writer -> {I!Idle} \cup Asks \cup Words]
  BY <1>1 DEF InsightsTyped
<1>3. /\ write' \in [Writer -> {I!Idle} \cup Asks \cup Words]
      /\ write'[w] = new /\ \A v \in Writer \ {w} : write'[v] = write[v]
  BY <1>2
<1>4. new # I!Idle
  BY DEF I!Idle
<1>5. w \notin Writes /\ Writes' = Writes \cup {w}
  BY <1>3, <1>4 DEF Writes
<1>6. VersionsAreWritten'
  <2>1. Cardinality(Writes \cup {w}) = Cardinality(Writes) + 1 /\ Cardinality(Writes) \in Nat
    BY <1>5, WritesAreFinite, FS_AddElement
  <2> QED
    BY <1>1, <1>5, <2>1 DEF InsightInv, VersionsAreWritten
<1>7. StampsAreApart'
  BY <1>3 DEF InsightInv, StampsAreApart
<1>8. DraftsAreMarked'
  BY <1>3 DEF InsightInv, DraftsAreMarked
<1>9. overlapped' \/ ( /\ ~overlapped
                       /\ \A v \in Writes' : write'[v].seen = I!Wording(words)
                       /\ \A u, v \in Writes' : u = v )
  <2>1. ~overlapped' => ~overlapped /\ Writes = {}
    BY DEF Writes
  <2> QED
    BY <1>3, <1>5, <2>1
<1>10. writes' \in 0..MaxWrites /\ overlapped' \in BOOLEAN /\ clock' \in Nat /\ clock <= clock' /\ cache' \subseteq cache
  BY <1>1 DEF InsightsTyped
<1> QED
  BY <1>3, <1>6, <1>7, <1>8, <1>9, <1>10, WriterStep

LEMMA LoadWordsStep ==
    ASSUME InsightInv, NEW w \in Writer, I!Load(w)
    PROVE  InsightInv'
<1> DEFINE asks == [phase |-> "asking", seen |-> I!Wording(words), of |-> writes + 1]
           puts == [phase |-> "worded", seen |-> I!Wording(words), stamp |-> 0, of |-> I!Platform,
                    draft |-> [i \in Insight |-> I!Plain]]
<1>1. InsightsTyped /\ writes \in 0..MaxWrites /\ MaxWrites \in Nat
  BY InsightsAssumption DEF InsightInv, InsightsTyped
<1>2. /\ UNCHANGED <<words, events, version, behind, clock, cache, page, read, reads>>
      /\ write[w] = I!Idle /\ writes' = writes + 1 /\ writes < MaxWrites
      /\ overlapped' = (overlapped \/ \E v \in Writer : write[v] # I!Idle)
  BY DEF I!Load, I!reading
<1>3. write' = [write EXCEPT ![w] = asks] \/ write' = [write EXCEPT ![w] = puts]
  BY DEF I!Load, I!Goes
<1>4. I!Wording(words) \in Wordings
  BY <1>1 DEF InsightsTyped, I!Wording, Wordings
<1>5. asks \in Asks /\ asks \notin Words /\ asks.phase = "asking" /\ asks.seen = I!Wording(words)
  BY <1>1, <1>2, <1>4 DEF Asks, Words
<1>6. /\ puts \in Words /\ puts.phase = "worded" /\ puts.seen = I!Wording(words)
      /\ \A i \in Insight : puts.draft[i].text = I!Platform /\ puts.draft[i].rewritten = FALSE
  BY <1>1, <1>4 DEF Words, Wordings, I!Plain, I!Platform, I!Texts
<1> HIDE DEF asks, puts
<1>7. CASE write' = [write EXCEPT ![w] = asks]
  BY <1>2, <1>5, <1>7, LoadedStep
<1>8. CASE write' = [write EXCEPT ![w] = puts]
  BY <1>2, <1>6, <1>8, LoadedStep
<1> QED
  BY <1>3, <1>7, <1>8

LEMMA RewordStep ==
    ASSUME InsightInv, NEW w \in Writer, I!Reword(w)
    PROVE  InsightInv'
<1>1. InsightsTyped /\ clock \in Nat /\ MaxWrites \in Nat /\ write[w] \in Asks
  BY InsightsAssumption, WriteFields DEF InsightInv, InsightsTyped, I!Reword
<1>2. PICK applied \in SUBSET Insight :
         write' = [write EXCEPT ![w] = [phase |-> "worded", seen |-> write[w].seen, stamp |-> 0, of |-> write[w].of,
                                        draft |-> I!Draft(w, applied)]]
  BY DEF I!Reword, I!Goes
<1>3. UNCHANGED <<words, events, version, behind, overlapped, writes, clock, cache, page, read, reads>>
  BY DEF I!Reword, I!stored, I!reading
<1> DEFINE draft == I!Draft(w, applied)
           new == [phase |-> "worded", seen |-> write[w].seen, stamp |-> 0, of |-> write[w].of, draft |-> draft]
<1>4. write[w].seen \in Wordings /\ write[w].of \in 1..MaxWrites /\ write[w].phase = "asking"
  BY <1>1 DEF Asks
<1>5. \A i \in Insight :
         draft[i] = IF i \in applied THEN [text |-> write[w].of, rewritten |-> TRUE] ELSE [text |-> 0, rewritten |-> FALSE]
  BY DEF I!Draft, I!Plain, I!Platform
<1>6. draft \in Wordings
  BY <1>1, <1>4 DEF I!Draft, I!Plain, I!Platform, Wordings, I!Texts
<1>7. \A i \in Insight : /\ draft[i].rewritten <=> draft[i].text # I!Platform
                         /\ draft[i].text \in {I!Platform, write[w].of}
  BY <1>1, <1>4, <1>5 DEF I!Platform
<1> HIDE DEF draft
<1>8. new \in Words /\ new.seen = write[w].seen /\ new.phase = "worded" /\ new.draft = draft /\ new.of = write[w].of
  BY <1>1, <1>4, <1>6 DEF Words
<1>9. write' = [write EXCEPT ![w] = new]
  BY <1>2 DEF draft
<1> HIDE DEF new
<1>10. write \in [Writer -> {I!Idle} \cup Asks \cup Words]
  BY <1>1 DEF InsightsTyped
<1>11. /\ write' \in [Writer -> {I!Idle} \cup Asks \cup Words]
       /\ write'[w] = new /\ \A v \in Writer \ {w} : write'[v] = write[v]
  BY <1>8, <1>9, <1>10
<1>12. Writes' = Writes /\ w \in Writes
  BY <1>4, <1>8, <1>11 DEF Writes, I!Idle
<1>13. VersionsAreWritten'
  BY <1>3, <1>12 DEF InsightInv, VersionsAreWritten
<1>14. StampsAreApart'
  BY <1>3, <1>8, <1>11 DEF InsightInv, StampsAreApart
<1>15. DraftsAreMarked'
  BY <1>7, <1>8, <1>11 DEF InsightInv, DraftsAreMarked
<1>16. overlapped' \/ ( /\ ~overlapped
                        /\ \A v \in Writes' : write'[v].seen = I!Wording(words)
                        /\ \A u, v \in Writes' : u = v )
  BY <1>3, <1>8, <1>11, <1>12 DEF InsightInv, SeenIsCommitted
<1>17. writes' \in 0..MaxWrites /\ overlapped' \in BOOLEAN /\ clock' \in Nat /\ clock <= clock'
  BY <1>1, <1>3 DEF InsightsTyped
<1> QED
  BY <1>3, <1>11, <1>13, <1>14, <1>15, <1>16, <1>17, WriterStep

LEMMA FlushStep ==
    ASSUME InsightInv, NEW w \in Writer, I!Flush(w)
    PROVE  InsightInv'
<1> DEFINE new == [write[w] EXCEPT !.phase = "flushed", !.stamp = clock']
<1>1. InsightsTyped /\ clock \in Nat /\ write[w] \in Words /\ write[w].phase = "worded"
  BY WriteFields DEF InsightInv, InsightsTyped, I!Flush
<1>2. /\ UNCHANGED <<words, events, version, behind, overlapped, writes, page, read, reads>>
      /\ cache' = {} /\ clock' = clock + 1 /\ write' = [write EXCEPT ![w] = new]
  BY DEF I!Flush, I!stored, I!Goes
<1>3. /\ new \in Words /\ new.phase = "flushed" /\ new.stamp = clock + 1 /\ new.seen = write[w].seen
      /\ new.draft = write[w].draft /\ new.of = write[w].of
  <2> DEFINE q == write[w]  n == clock + 1
             same == [phase |-> "flushed", seen |-> q.seen, stamp |-> n, of |-> q.of, draft |-> q.draft]
  <2>1. q.seen \in Wordings /\ q.of \in 0..MaxWrites /\ q.draft \in Wordings /\ n \in Nat
    BY <1>1 DEF Words
  <2>2. clock' = n
    BY <1>2
  <2>3. new = [q EXCEPT !.phase = "flushed", !.stamp = n]
    BY <2>2
  <2> HIDE DEF n
  <2>4. q \in Words
    BY <1>1
  <2> HIDE DEF q
  <2>6. q = [phase |-> q.phase, seen |-> q.seen, stamp |-> q.stamp, of |-> q.of, draft |-> q.draft]
    BY <2>4 DEF Words
  <2>7. [q EXCEPT !.phase = "flushed"] = [phase |-> "flushed", seen |-> q.seen, stamp |-> q.stamp, of |-> q.of, draft |-> q.draft]
    BY <2>6
  <2>8. \A x : x = [phase |-> "flushed", seen |-> q.seen, stamp |-> q.stamp, of |-> q.of, draft |-> q.draft] =>
              [x EXCEPT !.stamp = n] = same
    OBVIOUS
  <2>9. [[q EXCEPT !.phase = "flushed"] EXCEPT !.stamp = n] = same
    BY <2>7, <2>8, Zenon
  <2>5. same \in Words
    BY <2>1 DEF Words
  <2> QED
    BY <2>3, <2>5, <2>9 DEF n, q
<1> HIDE DEF new
<1>4. write \in [Writer -> {I!Idle} \cup Asks \cup Words]
  BY <1>1 DEF InsightsTyped
<1>5. /\ write' \in [Writer -> {I!Idle} \cup Asks \cup Words]
      /\ write'[w] = new /\ \A v \in Writer \ {w} : write'[v] = write[v]
  BY <1>2, <1>3, <1>4
<1>6. Writes' = Writes /\ w \in Writes
  BY <1>1, <1>3, <1>5 DEF Writes, I!Idle
<1>7. VersionsAreWritten'
  BY <1>2, <1>6 DEF InsightInv, VersionsAreWritten
<1>8. StampsAreApart'
  <2>1. \A i \in Insight : words[i].updated \in 0..clock
    BY <1>1 DEF InsightsTyped
  <2>2. \A i \in Insight : words'[i].updated # clock + 1
    BY <1>1, <1>2, <2>1
  <2>3. \A v \in Writer \ {w} : write'[v].phase = "flushed" =>
           /\ write'[v].stamp \in 1..clock /\ \A i \in Insight : words'[i].updated # write'[v].stamp
           /\ write'[v].stamp = write[v].stamp
    BY <1>2, <1>5 DEF InsightInv, StampsAreApart
  <2>4. \A u, v \in Writer \ {w} : u # v /\ write'[u].phase = "flushed" /\ write'[v].phase = "flushed" =>
           write'[u].stamp # write'[v].stamp
    BY <1>5 DEF InsightInv, StampsAreApart
  <2>5. write'[w].stamp = clock + 1 /\ clock' = clock + 1
    BY <1>2, <1>3, <1>5
  <2>6. ASSUME NEW v \in Writer, write'[v].phase = "flushed" PROVE write'[v].stamp \in 1..clock'
    <3>1. CASE v = w
      BY <1>1, <2>5, <3>1
    <3>2. CASE v # w
      BY <1>1, <2>3, <2>5, <2>6, <3>2
    <3> QED
      BY <3>1, <3>2
  <2>7. ASSUME NEW v \in Writer, write'[v].phase = "flushed", NEW i \in Insight PROVE words'[i].updated # write'[v].stamp
    BY <2>2, <2>3, <2>5, <2>7
  <2>8. ASSUME NEW v \in Writer, write'[v].phase = "flushed", NEW u \in Writer \ {v}, write'[u].phase = "flushed"
        PROVE  write'[u].stamp # write'[v].stamp
    <3>1. CASE u # w /\ v # w
      BY <2>4, <2>8, <3>1
    <3>2. CASE u = w
      <4>1. write'[v].stamp \in 1..clock
        BY <2>3, <2>8, <3>2
      <4> QED
        BY <1>1, <2>5, <3>2, <4>1
    <3>3. CASE v = w
      <4>1. write'[u].stamp \in 1..clock
        BY <2>3, <2>8, <3>3
      <4> QED
        BY <1>1, <2>5, <3>3, <4>1
    <3> QED
      BY <3>1, <3>2, <3>3
  <2> QED
    BY <2>6, <2>7, <2>8 DEF StampsAreApart
<1>9. DraftsAreMarked'
  BY <1>1, <1>3, <1>5 DEF InsightInv, DraftsAreMarked
<1>10. overlapped' \/ ( /\ ~overlapped
                        /\ \A v \in Writes' : write'[v].seen = I!Wording(words)
                        /\ \A u, v \in Writes' : u = v )
  BY <1>2, <1>3, <1>5, <1>6 DEF InsightInv, SeenIsCommitted
<1>11. writes' \in 0..MaxWrites /\ overlapped' \in BOOLEAN /\ clock' \in Nat /\ clock <= clock' /\ cache' \subseteq cache
  BY <1>1, <1>2 DEF InsightsTyped
<1> QED
  BY <1>2, <1>5, <1>7, <1>8, <1>9, <1>10, <1>11, WriterStep

\* One writer fewer.
LEMMA WriterGone ==
    ASSUME InsightInv, NEW w \in Writer, write[w] # I!Idle, write' = [write EXCEPT ![w] = I!Idle]
    PROVE  /\ write' \in [Writer -> {I!Idle} \cup Asks \cup Words]
           /\ write'[w] = I!Idle /\ \A v \in Writer \ {w} : write'[v] = write[v]
           /\ Writes' = Writes \ {w} /\ Cardinality(Writes') = Cardinality(Writes) - 1
           /\ Cardinality(Writes) \in Nat /\ I!Idle.phase = "idle" /\ I!Idle \notin Words
<1>1. write \in [Writer -> {I!Idle} \cup Asks \cup Words]
  BY DEF InsightInv, InsightsTyped
<1>2. /\ write' \in [Writer -> {I!Idle} \cup Asks \cup Words]
      /\ write'[w] = I!Idle /\ \A v \in Writer \ {w} : write'[v] = write[v]
  BY <1>1
<1>3. w \in Writes /\ Writes' = Writes \ {w}
  BY <1>2 DEF Writes
<1>4. Cardinality(Writes \ {w}) = Cardinality(Writes) - 1
  BY <1>3, WritesAreFinite, FS_RemoveElement
<1>5. I!Idle.phase = "idle" /\ I!Idle \notin Words
  BY DEF I!Idle, Words
<1> QED
  BY <1>2, <1>3, <1>4, <1>5, WritesAreFinite

LEMMA AbortStep ==
    ASSUME InsightInv, NEW w \in Writer, I!Abort(w)
    PROVE  InsightInv'
<1>1. InsightsTyped /\ clock \in Nat /\ version \in Nat /\ writes \in Nat
  BY InsightsAssumption DEF InsightInv, InsightsTyped
<1>2. /\ UNCHANGED <<words, events, version, behind, overlapped, writes, clock, cache, page, read, reads>>
      /\ write[w] # I!Idle /\ write' = [write EXCEPT ![w] = I!Idle]
  BY DEF I!Abort, I!stored, I!reading, I!Goes
<1>3. /\ write' \in [Writer -> {I!Idle} \cup Asks \cup Words]
      /\ write'[w] = I!Idle /\ \A v \in Writer \ {w} : write'[v] = write[v]
      /\ Writes' = Writes \ {w} /\ Cardinality(Writes') = Cardinality(Writes) - 1
      /\ Cardinality(Writes) \in Nat /\ I!Idle.phase = "idle" /\ I!Idle \notin Words
  BY <1>2, WriterGone
<1>4. VersionsAreWritten'
  BY <1>1, <1>2, <1>3 DEF InsightInv, VersionsAreWritten
<1>5. StampsAreApart'
  BY <1>2, <1>3 DEF InsightInv, StampsAreApart
<1>6. DraftsAreMarked'
  BY <1>3 DEF InsightInv, DraftsAreMarked
<1>7. overlapped' \/ ( /\ ~overlapped
                       /\ \A v \in Writes' : write'[v].seen = I!Wording(words)
                       /\ \A u, v \in Writes' : u = v )
  <2>1. \A v \in Writes' : v \in Writes /\ write'[v] = write[v]
    BY <1>3 DEF Writes
  <2> QED
    BY <1>2, <2>1 DEF InsightInv, SeenIsCommitted
<1>8. writes' \in 0..MaxWrites /\ overlapped' \in BOOLEAN /\ clock' \in Nat /\ clock <= clock' /\ cache' \subseteq cache
  BY <1>1, <1>2 DEF InsightsTyped
<1> QED
  BY <1>2, <1>3, <1>4, <1>5, <1>6, <1>7, <1>8, WriterStep

\* What a commit leaves of each insight.
LEMMA CommittedRow ==
    ASSUME InsightInv, NEW w \in Writer, I!Commit(w), NEW i \in Insight
    PROVE  /\ i \notin I!Touched(w) => words'[i] = words[i]
           /\ i \in I!Touched(w) =>
                /\ words'[i].updated = write[w].stamp
                /\ words'[i] = [text |-> words'[i].text, rewritten |-> words'[i].rewritten, updated |-> write[w].stamp]
                /\ words'[i].text = IF write[w].draft[i].text # write[w].seen[i].text THEN write[w].draft[i].text
                                    ELSE words[i].text
                /\ words'[i].rewritten = IF write[w].draft[i].rewritten # write[w].seen[i].rewritten
                                         THEN write[w].draft[i].rewritten ELSE words[i].rewritten
<1> DEFINE q == write[w]
           m == I!Merge(q.seen[i], q.draft[i], words[i])
<1>1. words'[i] = IF i \notin I!Touched(w) THEN words[i]
                  ELSE [text |-> m.text, rewritten |-> m.rewritten, updated |-> q.stamp]
  BY DEF I!Commit
<1>2. q \in Words
  BY WriteFields DEF I!Commit, InsightInv
<1>3. /\ q.seen[i] \in [text : I!Texts, rewritten : BOOLEAN]
      /\ q.draft[i] \in [text : I!Texts, rewritten : BOOLEAN]
      /\ words[i] \in [text : I!Texts, rewritten : BOOLEAN, updated : 0..clock]
  BY <1>2 DEF Words, Wordings, InsightInv, InsightsTyped
<1>4. m = [c \in {"text", "rewritten"} |-> IF q.draft[i][c] # q.seen[i][c] THEN q.draft[i][c] ELSE words[i][c]]
  BY DEF I!Merge
<1> HIDE DEF m
<1>5. /\ m.text = IF q.draft[i].text # q.seen[i].text THEN q.draft[i].text ELSE words[i].text
      /\ m.rewritten = IF q.draft[i].rewritten # q.seen[i].rewritten THEN q.draft[i].rewritten ELSE words[i].rewritten
  BY <1>3, <1>4
<1> QED
  BY <1>1, <1>5

LEMMA CommitTyped ==
    ASSUME InsightInv, NEW w \in Writer, I!Commit(w)
    PROVE  /\ write[w] \in Words /\ write[w].phase = "flushed" /\ write[w].stamp \in 1..clock
           /\ words' \in [Insight -> [text : I!Texts, rewritten : BOOLEAN, updated : 0..clock]]
           /\ events' = events \cup I!Credited(write[w]) /\ I!Credited(write[w]) \subseteq I!Event
           /\ version' = (IF I!Touched(w) = {} THEN version ELSE version + 1)
           /\ behind' = (behind \/ (I!Touched(w) # {} /\ \E i \in Insight : words[i].updated > write[w].stamp))
           /\ write[w] # I!Idle /\ write' = [write EXCEPT ![w] = I!Idle]
           /\ UNCHANGED <<overlapped, writes, clock, cache, page, read, reads>>
<1>1. /\ write[w].phase = "flushed" /\ write' = [write EXCEPT ![w] = I!Idle]
      /\ UNCHANGED <<overlapped, writes, clock, cache, page, read, reads>>
      /\ events' = events \cup I!Credited(write[w])
      /\ version' = (IF I!Touched(w) = {} THEN version ELSE version + 1)
      /\ behind' = (behind \/ (I!Touched(w) # {} /\ \E i \in Insight : words[i].updated > write[w].stamp))
  BY DEF I!Commit, I!Goes, I!reading
<1>2. write[w] \in Words /\ write[w] # I!Idle /\ clock \in Nat /\ MaxWrites \in Nat
  BY <1>1, WriteFields, InsightsAssumption DEF InsightInv, InsightsTyped
<1>3. write[w].stamp \in 1..clock
  BY <1>1 DEF InsightInv, StampsAreApart
<1>4. words' \in [Insight -> [text : I!Texts, rewritten : BOOLEAN, updated : 0..clock]]
  <2>1. words' = [i \in Insight |-> words'[i]]
    BY DEF I!Commit
  <2>2. ASSUME NEW i \in Insight PROVE words'[i] \in [text : I!Texts, rewritten : BOOLEAN, updated : 0..clock]
    <3>1. words[i] \in [text : I!Texts, rewritten : BOOLEAN, updated : 0..clock]
      BY DEF InsightInv, InsightsTyped
    <3>2. write[w].draft[i] \in [text : I!Texts, rewritten : BOOLEAN]
      BY <1>2 DEF Words, Wordings
    <3>3. CASE i \notin I!Touched(w)
      BY <3>1, <3>3, CommittedRow
    <3>4. CASE i \in I!Touched(w)
      <4>1. words'[i].text \in I!Texts /\ words'[i].rewritten \in BOOLEAN
        BY <3>1, <3>2, <3>4, CommittedRow
      <4>2. words'[i] = [text |-> words'[i].text, rewritten |-> words'[i].rewritten, updated |-> write[w].stamp]
        BY <3>4, CommittedRow
      <4>3. write[w].stamp \in 0..clock
        BY <1>2, <1>3
      <4> DEFINE t == words'[i].text  r == words'[i].rewritten
      <4>4. t \in I!Texts /\ r \in BOOLEAN /\ words'[i] = [text |-> t, rewritten |-> r, updated |-> write[w].stamp]
        BY <4>1, <4>2
      <4> HIDE DEF t, r
      <4> QED
        BY <4>3, <4>4
    <3> QED
      BY <3>3, <3>4
  <2> QED
    BY <2>1, <2>2
<1>5. I!Credited(write[w]) \subseteq I!Event
  <2> SUFFICES ASSUME NEW j \in Insight, write[w].draft[j].rewritten
               PROVE  [of |-> write[w].of, insight |-> j] \in I!Event
    BY DEF I!Credited
  <2>1. write[w].draft[j].text # I!Platform /\ write[w].draft[j].text \in {I!Platform, write[w].of}
    BY <1>2 DEF InsightInv, DraftsAreMarked
  <2>2. write[w].of \in 0..MaxWrites
    BY <1>2 DEF Words
  <2> QED
    BY <1>2, <2>1, <2>2 DEF I!Event, I!Texts, I!Platform
<1> QED
  BY <1>1, <1>2, <1>3, <1>4, <1>5

\* The newest time of writing is new, unless it was written before another that is committed.
LEMMA CommitMovesOn ==
    ASSUME InsightInv, NEW w \in Writer, I!Commit(w), ~behind'
    PROVE  IF I!Touched(w) = {} THEN (I!Revision)' = I!Revision ELSE I!Revision < (I!Revision)'
<1>1. InsightsTyped /\ clock \in Nat /\ ~behind
  BY CommitTyped DEF InsightInv, InsightsTyped
<1>2. CASE I!Touched(w) = {}
  <2>1. \A i \in Insight : words'[i].updated = words[i].updated
    BY <1>2, CommittedRow
  <2> QED
    BY <1>2, <2>1 DEF I!Revision
<1>3. CASE I!Touched(w) # {}
  <2>1. \A i \in Insight : words[i].updated \in 0..clock
    BY <1>1 DEF InsightsTyped
  <2>2. write[w].stamp \in 1..clock /\ \A i \in Insight : ~(words[i].updated > write[w].stamp)
    BY <1>3, CommitTyped
  <2>3. \A i \in Insight : words[i].updated # write[w].stamp
    BY CommitTyped DEF InsightInv, StampsAreApart
  <2>4. \A i \in Insight : words[i].updated < write[w].stamp
    BY <1>1, <2>1, <2>2, <2>3
  <2>5. PICK j \in Insight : I!Revision = words[j].updated
    BY <1>1, RevisionIsNewest
  <2>6. I!Revision \in Nat /\ I!Revision < write[w].stamp
    BY <1>1, <2>1, <2>4, <2>5
  <2> DEFINE S == {words'[i].updated : i \in Insight}
  <2>7. S \in SUBSET (0..clock)
    <3>1. \A i \in Insight : words'[i].updated \in 0..clock
      BY CommitTyped
    <3> QED
      BY <3>1
  <2>8. PICK k \in Insight : k \in I!Touched(w)
    BY <1>3 DEF I!Touched
  <2>9. write[w].stamp \in S
    BY <2>8, CommittedRow
  <2>10. (I!Revision)' = I!Max(S)
    BY DEF I!Revision
  <2> HIDE DEF S
  <2>11. I!Max(S) \in S /\ write[w].stamp <= I!Max(S)
    BY <1>1, <2>7, <2>9, GreatestIsReached
  <2>12. I!Max(S) \in Nat
    <3>1. \A x \in S : x \in Nat
      BY <1>1, <2>7
    <3> QED
      BY <2>11, <3>1
  <2> QED
    BY <1>1, <1>3, <2>2, <2>6, <2>10, <2>11, <2>12
<1> QED
  BY <1>2, <1>3

LEMMA CommitWordsStep ==
    ASSUME InsightInv, NEW w \in Writer, I!Commit(w)
    PROVE  InsightInv'
<1>1. InsightsTyped /\ clock \in Nat /\ version \in Nat /\ writes \in Nat /\ I!Revision \in Nat
  BY InsightsAssumption, RevisionIsNewest DEF InsightInv, InsightsTyped
<1>2. /\ write[w] \in Words /\ write[w].phase = "flushed" /\ write[w].stamp \in 1..clock
      /\ words' \in [Insight -> [text : I!Texts, rewritten : BOOLEAN, updated : 0..clock]]
      /\ events' = events \cup I!Credited(write[w]) /\ I!Credited(write[w]) \subseteq I!Event
      /\ version' = (IF I!Touched(w) = {} THEN version ELSE version + 1)
      /\ behind' = (behind \/ (I!Touched(w) # {} /\ \E i \in Insight : words[i].updated > write[w].stamp))
      /\ UNCHANGED <<overlapped, writes, clock, cache, page, read, reads>>
      /\ write[w] # I!Idle /\ write' = [write EXCEPT ![w] = I!Idle]
  BY CommitTyped
<1>3. /\ write' \in [Writer -> {I!Idle} \cup Asks \cup Words]
      /\ write'[w] = I!Idle /\ \A v \in Writer \ {w} : write'[v] = write[v]
      /\ Writes' = Writes \ {w} /\ Cardinality(Writes') = Cardinality(Writes) - 1
      /\ Cardinality(Writes) \in Nat /\ I!Idle.phase = "idle" /\ I!Idle \notin Words
  BY <1>2, WriterGone
<1>4. version' \in Nat /\ version <= version' /\ version' <= version + 1
  BY <1>1, <1>2
<1>5. InsightsTyped'
  BY <1>1, <1>2, <1>3, <1>4 DEF InsightsTyped
<1>6. VersionsAreWritten'
  BY <1>1, <1>2, <1>3, <1>4 DEF InsightInv, VersionsAreWritten
<1>7. StampsAreApart'
  <2>1. ASSUME NEW v \in Writer, write'[v].phase = "flushed"
        PROVE  v # w /\ write'[v] = write[v] /\ write[v].phase = "flushed"
    BY <1>3, <2>1
  <2>2. ASSUME NEW v \in Writer, write'[v].phase = "flushed", NEW i \in Insight
        PROVE  words'[i].updated # write'[v].stamp
    <3>1. words'[i].updated \in {words[i].updated, write[w].stamp}
      BY CommittedRow
    <3>2. words[i].updated # write[v].stamp /\ write[w].stamp # write[v].stamp
      BY <1>2, <2>1, <2>2 DEF InsightInv, StampsAreApart
    <3> QED
      BY <2>1, <2>2, <3>1, <3>2
  <2>3. ASSUME NEW v \in Writer, write'[v].phase = "flushed"
        PROVE  /\ write'[v].stamp \in 1..clock'
               /\ \A u \in Writer \ {v} : write'[u].phase = "flushed" => write'[u].stamp # write'[v].stamp
    BY <1>2, <2>1, <2>3 DEF InsightInv, StampsAreApart
  <2> QED
    BY <2>2, <2>3 DEF StampsAreApart
<1>8. Holders' = Holders /\ Holders \subseteq Entries /\ (\A c \in Browser : (Waits(c))' <=> Waits(c))
  BY <1>1, <1>2, HoldersAreEntries DEF Holders, Waits
<1>9. \A c \in Browser : Waits(c) => read[c].token \in Nat /\ read[c].since \in Nat
  BY <1>1, ReadFields
<1>10. HoldersAreOfThePast'
  <2>1. \A e \in Holders : e.version \in -1..version'
    BY <1>1, <1>4 DEF InsightInv, HoldersAreOfThePast
  <2>2. \A c \in Browser : Waits(c) => read[c].since <= version'
    BY <1>1, <1>4, <1>9 DEF InsightInv, HoldersAreOfThePast
  <2>3. \A c \in Browser : read'[c].phase = "computed" => read'[c].made.token = read'[c].token
    BY <1>2 DEF InsightInv, HoldersAreOfThePast
  <2>4. \A e, f \in cache' : e.token = f.token => e = f
    BY <1>2 DEF InsightInv, HoldersAreOfThePast
  <2> QED
    BY <1>2, <1>8, <2>1, <2>2, <2>3, <2>4 DEF HoldersAreOfThePast
<1>11. TokensTell'
  <2> SUFFICES ASSUME ~behind'
               PROVE  /\ \A e \in Holders : e.token <= (I!Revision)' /\ (e.token = (I!Revision)' => e.version = version')
                      /\ \A c \in Browser : Waits(c) => read[c].token <= (I!Revision)'
                      /\ \A e \in Holders, c \in Browser :
                            Waits(c) /\ e.token = read[c].token => e.version >= read[c].since
    BY <1>2, <1>8 DEF TokensTell
  <2>1. ~behind
    BY <1>2
  <2>2. /\ \A e \in Holders : e.token <= I!Revision /\ (e.token = I!Revision => e.version = version)
        /\ \A c \in Browser : Waits(c) => read[c].token <= I!Revision
        /\ \A e \in Holders, c \in Browser : Waits(c) /\ e.token = read[c].token => e.version >= read[c].since
    BY <2>1 DEF InsightInv, TokensTell
  <2>3. IF I!Touched(w) = {} THEN (I!Revision)' = I!Revision ELSE I!Revision < (I!Revision)'
    BY CommitMovesOn
  <2>4. (I!Revision)' \in Nat
    <3> DEFINE S == {words'[i].updated : i \in Insight}
    <3>1. S \in SUBSET (0..clock)
      <4>1. \A i \in Insight : words'[i].updated \in 0..clock
        BY <1>2
      <4> QED
        BY <4>1
    <3>2. S # {} /\ (I!Revision)' = I!Max(S)
      BY InsightsAssumption DEF I!Revision
    <3> HIDE DEF S
    <3>3. I!Max(S) \in S
      BY <1>1, <3>1, <3>2, GreatestIsReached
    <3>4. \A x \in S : x \in Nat
      BY <1>1, <3>1
    <3> QED
      BY <3>2, <3>3, <3>4
  <2> DEFINE now == I!Revision
             then == (I!Revision)'
  <2>5. now \in Nat /\ then \in Nat
    BY <1>1, <2>4
  <2>6. IF I!Touched(w) = {} THEN then = now ELSE now < then
    BY <2>3
  <2>7. /\ \A e \in Holders : e.token <= now /\ (e.token = now => e.version = version)
        /\ \A c \in Browser : Waits(c) => read[c].token <= now
    BY <2>2
  <2>8. \A e \in Holders : e.token \in Int
    BY <1>1, HoldersAreEntries
  <2> HIDE DEF now, then
  <2>9. \A e \in Holders : e.token <= then /\ (e.token = then => e.version = version')
    BY <1>2, <2>5, <2>6, <2>7, <2>8
  <2>10. \A c \in Browser : Waits(c) => read[c].token <= then
    BY <1>9, <2>5, <2>6, <2>7
  <2> QED
    BY <2>2, <2>9, <2>10 DEF then
<1>12. DraftsAreMarked'
  BY <1>3 DEF InsightInv, DraftsAreMarked
<1>13. SeenIsCommitted'
  <2> SUFFICES ASSUME ~overlapped
               PROVE  /\ Writes' = {}
                      /\ \A i \in Insight : words'[i].rewritten <=> words'[i].text # I!Platform
                      /\ \A e \in Holders, i \in Insight : e.items[i].rewritten <=> e.items[i].text # I!Platform
    BY <1>2, <1>8 DEF SeenIsCommitted
  <2>1. w \in Writes
    BY <1>2 DEF Writes
  <2>2. /\ \A v \in Writes : v = w
        /\ write[w].seen = I!Wording(words)
        /\ \A i \in Insight : words[i].rewritten <=> words[i].text # I!Platform
        /\ \A e \in Holders, i \in Insight : e.items[i].rewritten <=> e.items[i].text # I!Platform
    BY <2>1 DEF InsightInv, SeenIsCommitted
  <2>3. ASSUME NEW i \in Insight PROVE words'[i].rewritten <=> words'[i].text # I!Platform
    <3>1. write[w].seen[i].text = words[i].text /\ write[w].seen[i].rewritten = words[i].rewritten
      BY <2>2 DEF I!Wording
    <3>2. write[w].draft[i].rewritten <=> write[w].draft[i].text # I!Platform
      BY <1>2 DEF InsightInv, DraftsAreMarked
    <3>3. CASE i \in I!Touched(w)
      <4>1. words'[i].text = write[w].draft[i].text /\ words'[i].rewritten = write[w].draft[i].rewritten
        BY <3>1, <3>3, CommittedRow
      <4> QED
        BY <3>2, <4>1
    <3>4. CASE i \notin I!Touched(w)
      <4>1. words'[i] = words[i]
        BY <3>4, CommittedRow
      <4> QED
        BY <2>2, <4>1
    <3> QED
      BY <3>3, <3>4
  <2> QED
    BY <1>3, <2>2, <2>3
<1>14. I!PageIsCurrent'
  BY <1>2 DEF InsightInv, I!PageIsCurrent, I!Nothing, I!Wording
<1>15. I!WordingIsCredited'
  <2> SUFFICES ASSUME NEW i \in Insight, words'[i].text # I!Platform
               PROVE  [of |-> words'[i].text, insight |-> i] \in events'
    BY DEF I!WordingIsCredited
  <2>1. CASE words'[i].text = words[i].text
    BY <1>2, <2>1 DEF InsightInv, I!WordingIsCredited
  <2>2. CASE words'[i].text = write[w].draft[i].text
    <3>1. write[w].draft[i].rewritten /\ write[w].draft[i].text = write[w].of
      BY <1>2, <2>2 DEF InsightInv, DraftsAreMarked
    <3>2. [of |-> write[w].of, insight |-> i] \in I!Credited(write[w])
      BY <3>1 DEF I!Credited
    <3> QED
      BY <1>2, <2>2, <3>1, <3>2
  <2> QED
    BY <2>1, <2>2, CommittedRow
<1> QED
  BY <1>5, <1>6, <1>7, <1>10, <1>11, <1>12, <1>13, <1>14, <1>15 DEF InsightInv

LEMMA InsightInit ==
    ASSUME I!Untouched,
           words \in [Insight -> {[text |-> I!Platform, rewritten |-> FALSE, updated |-> 0],
                                  [text |-> MaxWrites + 1, rewritten |-> TRUE, updated |-> 0]}]
    PROVE  InsightInv
<1>1. /\ events = {[of |-> words[i].text, insight |-> i] : i \in {j \in Insight : words[j].rewritten}}
      /\ write = [w \in Writer |-> I!Idle] /\ writes = 0 /\ clock = 0 /\ version = 0
      /\ cache = {} /\ page = [b \in Browser |-> I!Nothing] /\ read = [b \in Browser |-> I!Idle] /\ reads = 0
      /\ overlapped = FALSE /\ behind = FALSE
  BY DEF I!Untouched
<1>2. MaxWrites \in Nat /\ MaxReads \in Nat /\ I!Platform = 0 /\ I!Texts = 0..MaxWrites + 1
  BY InsightsAssumption DEF I!Platform, I!Texts
<1>3. \A i \in Insight : /\ words[i] \in [text : I!Texts, rewritten : BOOLEAN, updated : 0..clock]
                         /\ words[i].rewritten <=> words[i].text # I!Platform
                         /\ words[i].updated = 0
  <2> DEFINE A == [text |-> I!Platform, rewritten |-> FALSE, updated |-> 0]
             B == [text |-> MaxWrites + 1, rewritten |-> TRUE, updated |-> 0]
  <2>1. \A x \in {A, B} : /\ x \in [text : I!Texts, rewritten : BOOLEAN, updated : 0..0]
                          /\ x.rewritten <=> x.text # I!Platform
                          /\ x.updated = 0
    <3>1. 0 \in I!Texts /\ MaxWrites + 1 \in I!Texts /\ MaxWrites + 1 # 0 /\ 0 \in 0..0
      BY <1>2
    <3>2. A \in [text : I!Texts, rewritten : BOOLEAN, updated : 0..0] /\ A.text = 0 /\ A.rewritten = FALSE /\ A.updated = 0
      BY <1>2, <3>1
    <3> DEFINE n == MaxWrites + 1
    <3>3. B = [text |-> n, rewritten |-> TRUE, updated |-> 0] /\ n \in I!Texts /\ n # 0
      BY <3>1
    <3> HIDE DEF A, B, n
    <3>4. B \in [text : I!Texts, rewritten : BOOLEAN, updated : 0..0] /\ B.text = n /\ B.rewritten = TRUE /\ B.updated = 0
      BY <3>1, <3>3
    <3> QED
      BY <1>2, <3>2, <3>3, <3>4
  <2> HIDE DEF A, B
  <2>2. words \in [Insight -> {A, B}]
    BY DEF A, B
  <2> QED
    BY <1>1, <2>1, <2>2
<1> DEFINE plain == I!Wording([i \in Insight |-> I!Plain])
<1>4. plain \in Wordings /\ \A i \in Insight : plain[i].text = 0 /\ plain[i].rewritten = FALSE
  BY <1>2 DEF Wordings, I!Wording, I!Plain
<1>5. I!Nothing = [token |-> -1, version |-> -1, items |-> plain]
  BY DEF I!Nothing
<1> HIDE DEF plain
<1>6. I!Nothing \in Entries /\ I!Nothing.token = -1 /\ I!Nothing.version = -1 /\ I!Nothing.items = plain
  BY <1>4, <1>5 DEF Entries
<1>7. I!Idle.phase = "idle" /\ I!Idle \notin Words
  BY DEF I!Idle, Words
<1>8. InsightsTyped
  <2>1. words \in [Insight -> [text : I!Texts, rewritten : BOOLEAN, updated : 0..clock]]
    BY <1>3
  <2>2. events \subseteq I!Event
    BY <1>1, <1>3 DEF I!Event
  <2>3. /\ write \in [Writer -> {I!Idle} \cup Asks \cup Words]
        /\ read \in [Browser -> {I!Idle} \cup Opens \cup Makes \cup Rests]
        /\ page \in [Browser -> Entries]
    BY <1>1, <1>6
  <2>4. writes \in 0..MaxWrites /\ reads \in 0..MaxReads /\ clock \in Nat /\ version \in Nat
    BY <1>1, <1>2
  <2>5. cache \subseteq Entries /\ overlapped \in BOOLEAN /\ behind \in BOOLEAN
    BY <1>1
  <2> QED
    BY <2>1, <2>2, <2>3, <2>4, <2>5 DEF InsightsTyped
<1>9. /\ \A w \in Writer : write[w] = I!Idle
      /\ \A b \in Browser : read[b] = I!Idle /\ page[b] = I!Nothing
      /\ \A b \in Browser : ~Waits(b) /\ read[b].phase # "computed"
  BY <1>1, <1>7 DEF Waits
<1>10. Writes = {} /\ \A e \in Holders : e = I!Nothing
  BY <1>1, <1>9 DEF Writes, Holders
<1>11. VersionsAreWritten
  BY <1>1, <1>10, FS_EmptySet DEF VersionsAreWritten
<1>12. StampsAreApart /\ DraftsAreMarked
  BY <1>7, <1>9 DEF StampsAreApart, DraftsAreMarked
<1>13. HoldersAreOfThePast
  BY <1>1, <1>6, <1>9, <1>10 DEF HoldersAreOfThePast
<1>14. TokensTell
  <2>1. I!Revision \in Nat
    BY <1>1, <1>8, RevisionIsNewest
  <2> QED
    BY <1>6, <1>9, <1>10, <2>1 DEF TokensTell
<1>15. SeenIsCommitted
  BY <1>2, <1>3, <1>4, <1>6, <1>10 DEF SeenIsCommitted
<1>16. I!PageIsCurrent
  BY <1>9 DEF I!PageIsCurrent
<1>17. I!WordingIsCredited
  BY <1>1, <1>3 DEF I!WordingIsCredited
<1> QED
  BY <1>8, <1>11, <1>12, <1>13, <1>14, <1>15, <1>16, <1>17 DEF InsightInv

LEMMA InsightStep == InsightInv /\ [I!Next]_(I!vars) => InsightInv'
<1> SUFFICES ASSUME InsightInv, [I!Next]_(I!vars) PROVE InsightInv'
  OBVIOUS
<1>1. ASSUME NEW w \in Writer, I!Load(w) \/ I!Reword(w) \/ I!Flush(w) \/ I!Commit(w) \/ I!Abort(w)
      PROVE  InsightInv'
  BY <1>1, LoadWordsStep, RewordStep, FlushStep, CommitWordsStep, AbortStep
<1>2. ASSUME NEW b \in Browser,
             I!Open(b) \/ I!NotModified(b) \/ I!Hit(b) \/ I!Compute(b) \/ I!Store(b) \/ I!Leave(b)
      PROVE  InsightInv'
  BY <1>2, OpenStep, NotModifiedStep, HitStep, ComputeStep, StoreStep, LeaveStep
<1>3. ASSUME NEW b \in Browser, NEW other \in Browser \ {b}, I!Join(b, other) PROVE InsightInv'
  BY <1>3, JoinStep
<1>4. CASE I!Expire
  BY <1>4, ExpireStep
<1>5. CASE UNCHANGED I!vars
  <2>1. UNCHANGED <<words, events, write, writes, clock, version, cache, page, read, reads, overlapped, behind>>
    BY <1>5 DEF I!vars, I!stored, I!writing, I!reading
  <2>2. write' \in [Writer -> {I!Idle} \cup Asks \cup Words] /\ clock' \in Nat /\ clock <= clock' /\ writes' \in 0..MaxWrites
        /\ overlapped' \in BOOLEAN /\ cache' \subseteq cache
    BY <2>1 DEF InsightInv, InsightsTyped
  <2>3. Writes' = Writes
    BY <2>1 DEF Writes
  <2>4. VersionsAreWritten' /\ StampsAreApart' /\ DraftsAreMarked'
    BY <2>1, <2>3 DEF InsightInv, VersionsAreWritten, StampsAreApart, DraftsAreMarked
  <2>5. overlapped' \/ ( /\ ~overlapped
                         /\ \A v \in Writes' : write'[v].seen = I!Wording(words)
                         /\ \A u, v \in Writes' : u = v )
    BY <2>1, <2>3 DEF InsightInv, SeenIsCommitted
  <2> QED
    BY <2>1, <2>2, <2>4, <2>5, WriterStep
<1> QED
  BY <1>1, <1>2, <1>3, <1>4, <1>5 DEF I!Next

LEMMA InsightInvHolds == InsightInv => I!TypeOK /\ I!InsightsAreHonest
<1> SUFFICES ASSUME InsightInv PROVE I!TypeOK /\ I!InsightsAreHonest
  OBVIOUS
<1>1. InsightsTyped /\ version \in Nat /\ writes \in 0..MaxWrites /\ MaxWrites \in Nat
  BY InsightsAssumption DEF InsightInv, InsightsTyped
<1>2. \A i \in Insight : words[i] \in I!Row
  BY <1>1 DEF InsightsTyped, I!Row
<1>3. \A w \in Writer : write[w].phase \in {"idle", "asking", "worded", "flushed"}
  BY <1>1, WriteFields
<1>4. version \in 0..MaxWrites
  BY <1>1, WritesAreFinite DEF InsightInv, VersionsAreWritten
<1>5. \A b \in Browser : read[b].phase \in {"idle", "opened", "computed"} /\ page[b].version \in -1..version
  BY <1>1, ReadFields DEF InsightInv, HoldersAreOfThePast, Holders
<1>6. I!TypeOK
  BY <1>1, <1>2, <1>3, <1>4, <1>5 DEF I!TypeOK, InsightsTyped, InsightInv, HoldersAreOfThePast
<1>7. I!WordingIsMarked
  <2>1. \A b \in Browser : page[b] \in Holders
    BY DEF Holders
  <2> QED
    BY <2>1 DEF InsightInv, SeenIsCommitted, I!WordingIsMarked
<1> QED
  BY <1>6, <1>7 DEF InsightInv, I!InsightsAreHonest

LEMMA InsightsAreApart == [MCNext]_<<part, vars, datasets, insights, reading, mapping>>
                            => [I!Next]_(I!vars) /\ UNCHANGED part
<1> SUFFICES ASSUME [MCNext]_<<part, vars, datasets, insights, reading, mapping>>
             PROVE  (I!Next \/ UNCHANGED insights) /\ UNCHANGED part
  BY DEF I!vars, I!stored, I!writing, I!reading, insights
<1>1. CASE MCNext
  BY <1>1 DEF MCNext
<1>2. CASE UNCHANGED <<part, vars, datasets, insights, reading, mapping>>
  BY <1>2
<1> QED
  BY <1>1, <1>2

\* A page that has its answer shows whatever was committed when it asked, computed, cached, joined or "not
\* modified", unless requests were committed in another order than they wrote in; an insight is marked as
\* reworded exactly when its words are the provider's, in the table and on every page, unless two requests
\* to write overlapped; and words of the provider's have their usage event: whatever the insights, the
\* requests and the pages.
THEOREM InsightsAlwaysHonest == MCSpec => []InsightsAreHonest
<1>1. MCInit => InsightInv
  <2> SUFFICES ASSUME MCInit PROVE InsightInv
    OBVIOUS
  <2>1. CASE part = "insights"
    BY <2>1, InsightInit DEF MCInit, I!Init
  <2>2. CASE part # "insights"
    <3>1. words = [i \in Insight |-> AsComputed] /\ I!Untouched
      BY <2>2 DEF MCInit
    <3>2. AsComputed = [text |-> I!Platform, rewritten |-> FALSE, updated |-> 0]
      BY DEF AsComputed, I!Platform
    <3> QED
      BY <3>1, <3>2, InsightInit
  <2> QED
    BY <2>1, <2>2
<1>2. InsightInv => InsightsAreHonest
  BY InsightInvHolds DEF InsightsAreHonest
<1>3. InsightInv /\ [MCNext]_<<part, vars, datasets, insights, reading, mapping>> => InsightInv'
  BY InsightsAreApart, InsightStep
<1> QED
  BY <1>1, <1>2, <1>3, PTL DEF MCSpec
=================================================================================
