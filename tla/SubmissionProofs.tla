--------------------------- MODULE SubmissionProofs ---------------------------
(***************************************************************************)
(* That one idempotency key makes one run, and that a start which loses    *)
(* the race for it is answered; that a backtest is fair, and that the best *)
(* of the models wins; that a range is in order and holds its share; for   *)
(* any requests, histories, threads and errors.                            *)
(***************************************************************************)
EXTENDS MCSubmission, FiniteSetTheorems, SequenceTheorems, WellFoundedInduction, TLAPS

\* The unique index: one row under the key, committed or not.
OneRow ==
    /\ \A r, s \in creator : r = s
    /\ \A r, s \in writing : r = s
    /\ writing = {} \/ creator = {}

\* What a request knows of the row stays true, for nobody removes it.
StagesHold ==
    \A r \in Request :
        /\ stage[r] = "dispatching" => r \in creator
        /\ stage[r] \in {"looked", "rejoining"} => r \in Retry
        /\ stage[r] = "losing" => creator # {}

IInv == TypeOK /\ OneRow /\ StagesHold /\ LoserIsAnswered /\ tasks \ creator \subseteq Retry

LEMMA InitIInv == Init => IInv
  BY DEF Init, IInv, TypeOK, Stages, OneRow, StagesHold, LoserIsAnswered

LEMMA StepIInv == IInv /\ [Next]_vars => IInv'
<1> SUFFICES ASSUME IInv, [Next]_vars PROVE IInv'
  OBVIOUS
<1> USE DEF IInv, TypeOK, Stages, OneRow, StagesHold, LoserIsAnswered, Goes
<1>1. ASSUME NEW r \in Request, Look(r) PROVE IInv'
  BY <1>1 DEF Look
<1>2. ASSUME NEW r \in Request, LookAgain(r) PROVE IInv'
  BY <1>2 DEF LookAgain
<1>3. ASSUME NEW r \in Request, Insert(r) PROVE IInv'
  BY <1>3 DEF Insert
<1>4. ASSUME NEW r \in Request, Lose(r) PROVE IInv'
  BY <1>4 DEF Lose
<1>5. ASSUME NEW r \in Request, Commit(r) PROVE IInv'
  BY <1>5 DEF Commit
<1>6. ASSUME NEW r \in Request, Dispatch(r) PROVE IInv'
  BY <1>6 DEF Dispatch
<1>7. ASSUME NEW r \in Request, CommitUnheard(r) PROVE IInv'
  BY <1>7 DEF CommitUnheard
<1>8. ASSUME NEW r \in Request, Refuse(r) PROVE IInv'
  BY <1>8 DEF Refuse
<1>9. CASE UNCHANGED vars
  BY <1>9 DEF vars
<1> QED
  BY <1>1, <1>2, <1>3, <1>4, <1>5, <1>6, <1>7, <1>8, <1>9 DEF Next, Resume

LEMMA Invariance == Spec => []IInv
  BY InitIInv, StepIInv, PTL DEF Spec

\* The requests are where the handlers can leave them, and the uncommitted
\* rows are those of the requests between their insert and their commit.
THEOREM TypeCorrectness == Spec => []TypeOK
<1>1. IInv => TypeOK
  BY DEF IInv
<1> QED
  BY <1>1, Invariance, PTL

\* create_or_join_run answers whoever loses the race, since the row that the
\* index refused it for is committed by then and stays.
THEOREM LosersAreAnswered == Spec => []LoserIsAnswered
<1>1. IInv => LoserIsAnswered
  BY DEF IInv
<1> QED
  BY <1>1, Invariance, PTL

\* However often a client sends its request again, one run is made under the
\* key, and only a retry that rejoins it starts a second task for it.
THEOREM KeyIsExecutedOnce == Spec => []ExecutedOnce
<1>1. IInv => ExecutedOnce
  BY DEF IInv, OneRow, ExecutedOnce
<1> QED
  BY <1>1, Invariance, PTL

-------------------------------------------------------------------------------
(* The folds: the plan of a backtest, and one candidate taken through it,  *)
(* beside all that MCSubmission explores, for any histories asked about    *)
(* and any cap on the folds.                                               *)

Hz == B!Horizon(asked)
In == B!Initial(asked)

\* the cuts found so far lie a horizon apart, behind the initial training and before the next
CutsSpaced ==
    /\ cuts # <<>> => In >= 3
    /\ cut + Hz <= asked.n
    /\ \A i \in 1..Len(cuts) : cuts[i] >= In /\ cuts[i] + Hz <= asked.n /\ cut + Hz <= cuts[i]
    /\ \A i, j \in 1..Len(cuts) : i < j => cuts[j] + Hz <= cuts[i]

\* each fold scored is one window of a cut that was passed
FoldsPassed ==
    /\ fold = -1 => folds = <<>>
    /\ \A i \in 1..Len(folds) :
          /\ folds[i].from >= 0 /\ folds[i].cut - folds[i].from >= 3
          /\ folds[i].to = folds[i].cut + Hz /\ folds[i].to <= asked.n
          /\ fold \in 0..(Len(cuts) - 1) => folds[i].to <= cuts[Len(cuts) - fold]
    /\ \A i, j \in 1..Len(folds) : i < j => folds[i].to <= folds[j].cut

PlanInv == B!TypeOK /\ CutsSpaced /\ FoldsPassed

\* What is computed of the inputs: a horizon of at least one period, no longer than was asked.
LEMMA PlanBounds ==
    ASSUME NEW a \in B!Input
    PROVE  /\ a.n \in Nat /\ a.horizon \in Nat /\ a.period \in Nat
           /\ B!Horizon(a) \in Nat \ {0} /\ B!Horizon(a) <= a.horizon
           /\ B!Initial(a) \in Int
<1>1. a.n \in Nat /\ a.horizon \in Nat \ {0} /\ a.period \in Nat
  BY DEF B!Input
<1>2. a.n \div 4 \in Int /\ a.n \div 2 \in Int
  BY <1>1, SMT
<1>3. B!Horizon(a) \in Nat \ {0} /\ B!Horizon(a) <= a.horizon
  BY <1>1, <1>2, SMT DEF B!Horizon, B!AtLeast, B!AtMost
<1>4. B!Initial(a) \in Int
  BY <1>1, <1>2, <1>3, SMT DEF B!Initial, B!InitialUncapped, B!AtLeast, B!AtMost
<1> QED BY <1>1, <1>3, <1>4

LEMMA InitPlan == B!Init => PlanInv
<1> SUFFICES ASSUME B!Init PROVE PlanInv OBVIOUS
<1>1. asked \in B!Input BY DEF B!Init
<1>2. Hz \in Nat \ {0} /\ asked.n \in Nat BY <1>1, PlanBounds DEF Hz
<1>3. cuts = <<>> /\ cut = asked.n - Hz /\ fold = -1 /\ folds = <<>> /\ verdict = "none"
  BY DEF B!Init, Hz
<1>4. B!TypeOK BY <1>1, <1>2, <1>3, SMT DEF B!TypeOK
<1>5. CutsSpaced BY <1>2, <1>3, SMT DEF CutsSpaced
<1>6. FoldsPassed BY <1>3, SMT DEF FoldsPassed
<1> QED BY <1>4, <1>5, <1>6 DEF PlanInv

LEMMA StepPlan == PlanInv /\ [B!Next]_(B!vars) => PlanInv'
<1> SUFFICES ASSUME PlanInv, [B!Next]_(B!vars) PROVE PlanInv' OBVIOUS
<1>t. B!TypeOK /\ CutsSpaced /\ FoldsPassed BY DEF PlanInv
<1>a. asked \in B!Input /\ cuts \in Seq(Nat) /\ cut \in Int /\ fold \in {-1} \cup (0..Len(cuts))
      /\ folds \in Seq([from : Nat, cut : Nat, to : Nat]) /\ verdict \in {"none", "scored", "failed"}
  BY <1>t DEF B!TypeOK
<1>e. /\ \A i \in 1..Len(cuts) : cuts[i] \in Nat
      /\ \A i \in 1..Len(folds) : folds[i] \in [from : Nat, cut : Nat, to : Nat]
      /\ Len(cuts) \in Nat /\ Len(folds) \in Nat
  BY <1>a, ElementOfSeq, LenProperties
<1>b. asked.n \in Nat /\ Hz \in Nat \ {0} /\ In \in Int
  BY <1>a, PlanBounds DEF Hz, In
<1>c. asked' = asked
  BY DEF B!Next, B!vars, B!Cut, B!Planned, B!Score, B!LoseFold, B!Judge
<1>d. Hz' = Hz /\ In' = In
  BY <1>c DEF Hz, In
<1>1. CASE B!Cut
  <2>1. /\ fold = -1 /\ In >= 3 /\ cut >= In
        /\ cuts' = Append(cuts, cut) /\ cut' = cut - Hz
        /\ fold' = fold /\ folds' = folds /\ verdict' = verdict
    BY <1>1 DEF B!Cut, B!Another, B!Earlier, Hz, In
  <2>2. cut \in Nat BY <1>a, <1>b, <2>1, SMT
  <2>3. cuts' \in Seq(Nat) /\ Len(cuts') = Len(cuts) + 1
        /\ \A i \in 1..Len(cuts') : cuts'[i] = IF i <= Len(cuts) THEN cuts[i] ELSE cut
    BY <1>a, <2>1, <2>2, AppendProperties
  <2>4. B!TypeOK' BY <1>a, <1>b, <1>c, <2>1, <2>3, SMT DEF B!TypeOK
  <2>5. CutsSpaced'
    <3>1. cuts' # <<>> => In' >= 3 BY <1>d, <2>1
    <3>2. cut' + Hz' <= asked'.n BY <1>a, <1>b, <1>c, <1>d, <1>t, <2>1, SMT DEF CutsSpaced
    <3>3. \A i \in 1..Len(cuts') : cuts'[i] >= In' /\ cuts'[i] + Hz' <= asked'.n /\ cut' + Hz' <= cuts'[i]
      BY <1>a, <1>b, <1>c, <1>d, <1>t, <2>1, <2>3, SMT DEF CutsSpaced
    <3>4. \A i, j \in 1..Len(cuts') : i < j => cuts'[j] + Hz' <= cuts'[i]
      <4> SUFFICES ASSUME NEW i \in 1..Len(cuts'), NEW j \in 1..Len(cuts'), i < j
                   PROVE  cuts'[j] + Hz <= cuts'[i]
        BY <1>d
      <4>1. i \in 1..Len(cuts) /\ cuts'[i] = cuts[i] BY <1>e, <2>3, SMT
      <4>2. CASE j <= Len(cuts)
        <5>1. j \in 1..Len(cuts) /\ cuts'[j] = cuts[j] BY <1>e, <2>3, <4>2, SMT
        <5> QED BY <1>t, <4>1, <5>1 DEF CutsSpaced
      <4>3. CASE ~(j <= Len(cuts))
        <5>1. cuts'[j] = cut BY <2>3, <4>3
        <5> QED BY <1>t, <4>1, <5>1 DEF CutsSpaced
      <4> QED BY <4>2, <4>3
    <3> QED BY <3>1, <3>2, <3>3, <3>4 DEF CutsSpaced
  <2>6. FoldsPassed' BY <1>t, <2>1, SMT DEF FoldsPassed
  <2> QED BY <2>4, <2>5, <2>6 DEF PlanInv
<1>2. CASE B!Planned
  <2>1. /\ fold = -1 /\ fold' = 0 /\ cuts' = cuts /\ cut' = cut /\ folds' = folds
        /\ verdict' \in {verdict, "failed"}
    BY <1>2 DEF B!Planned
  <2>2. B!TypeOK' BY <1>a, <1>c, <2>1, SMT DEF B!TypeOK
  <2>3. CutsSpaced' BY <1>t, <1>c, <1>d, <2>1 DEF CutsSpaced
  <2>4. FoldsPassed' BY <1>t, <1>a, <1>c, <1>d, <2>1, SMT DEF FoldsPassed
  <2> QED BY <2>2, <2>3, <2>4 DEF PlanInv
<1>3. CASE B!Score
  <2>1. /\ fold \in 0..(Len(cuts) - 1) /\ fold' = fold + 1
        /\ folds' = Append(folds, B!Window) /\ cuts' = cuts /\ cut' = cut /\ verdict' = verdict
    BY <1>3 DEF B!Score, B!Walking
  <2> DEFINE c == cuts[Len(cuts) - fold]
  <2>2. Len(cuts) - fold \in 1..Len(cuts) BY <1>a, <2>1, SMT
  <2>3. c \in Nat /\ c >= In /\ In >= 3 /\ c + Hz <= asked.n
    <3>1. cuts # <<>> BY <1>a, <2>2, SMT
    <3> QED BY <1>a, <1>t, <2>2, <3>1, SMT DEF CutsSpaced
  <2>4. B!Window.cut = c /\ B!Window.to = B!AtMost(c + Hz, asked.n)
        /\ B!Window.from = IF B!Rolling(asked) THEN B!AtLeast(0, c - In) ELSE 0
    BY DEF B!Window, B!NextCut, Hz, In
  <2>5. B!Window = [from |-> B!Window.from, cut |-> B!Window.cut, to |-> B!Window.to]
    BY DEF B!Window
  <2>6. B!Window.to = c + Hz BY <1>b, <2>3, <2>4, SMT DEF B!AtMost
  <2>7. B!Window.from \in Nat /\ c - B!Window.from >= 3
    <3>1. CASE B!Rolling(asked) BY <1>b, <2>3, <2>4, <3>1, SMT DEF B!AtLeast
    <3>2. CASE ~B!Rolling(asked) BY <1>b, <2>3, <2>4, <3>2, SMT
    <3> QED BY <3>1, <3>2
  <2>8. B!Window \in [from : Nat, cut : Nat, to : Nat]
    <3>1. B!Window.to \in Nat BY <1>b, <2>3, <2>6, SMT
    <3> QED BY <2>3, <2>4, <2>5, <2>7, <3>1, SMT
  <2> HIDE DEF c
  <2>9. /\ folds' \in Seq([from : Nat, cut : Nat, to : Nat]) /\ Len(folds') = Len(folds) + 1
        /\ \A i \in 1..Len(folds') : folds'[i] = IF i <= Len(folds) THEN folds[i] ELSE B!Window
    <3> DEFINE Rec == [from : Nat, cut : Nat, to : Nat]
    <3>1. folds \in Seq(Rec) /\ B!Window \in Rec BY <1>a, <2>8
    <3> HIDE DEF Rec
    <3>2. /\ Append(folds, B!Window) \in Seq(Rec) /\ Len(Append(folds, B!Window)) = Len(folds) + 1
          /\ \A i \in 1..Len(folds) : Append(folds, B!Window)[i] = folds[i]
          /\ Append(folds, B!Window)[Len(folds) + 1] = B!Window
      BY <3>1, AppendProperties
    <3>3. \A i \in 1..(Len(folds) + 1) : i \in 1..Len(folds) \/ i = Len(folds) + 1
      BY <1>e, SMT
    <3>4. ~(Len(folds) + 1 <= Len(folds)) /\ \A i \in 1..Len(folds) : i <= Len(folds)
      BY <1>e, SMT
    <3> QED BY <2>1, <3>2, <3>3, <3>4 DEF Rec
  <2>10. B!TypeOK'
    <3>1. fold' \in 0..Len(cuts') BY <1>a, <2>1, SMT
    <3> QED BY <1>a, <1>c, <2>1, <2>9, <3>1, SMT DEF B!TypeOK
  <2>11. CutsSpaced' BY <1>t, <1>c, <1>d, <2>1 DEF CutsSpaced
  <2>12. fold' \in 0..(Len(cuts) - 1) => c + Hz <= cuts[Len(cuts) - fold']
    <3> SUFFICES ASSUME fold' \in 0..(Len(cuts) - 1) PROVE c + Hz <= cuts[Len(cuts) - fold'] OBVIOUS
    <3>1. Len(cuts) - fold' \in 1..Len(cuts) /\ Len(cuts) - fold' < Len(cuts) - fold
      BY <1>a, <2>1, SMT
    <3> QED BY <1>t, <2>2, <3>1 DEF CutsSpaced, c
  <2>13. \A i \in 1..Len(folds) : folds[i].to <= c
    BY <1>t, <2>1 DEF FoldsPassed, c
  <2>14. FoldsPassed'
    <3>1. \A i \in 1..Len(folds') :
             /\ folds'[i].from >= 0 /\ folds'[i].cut - folds'[i].from >= 3
             /\ folds'[i].to = folds'[i].cut + Hz /\ folds'[i].to <= asked.n
      <4> SUFFICES ASSUME NEW i \in 1..Len(folds')
                   PROVE  /\ folds'[i].from >= 0 /\ folds'[i].cut - folds'[i].from >= 3
                          /\ folds'[i].to = folds'[i].cut + Hz /\ folds'[i].to <= asked.n
        OBVIOUS
      <4>1. CASE i <= Len(folds)
        <5>1. i \in 1..Len(folds) BY <1>e, <2>9, <4>1, SMT
        <5>2. folds'[i] = folds[i] BY <2>9, <4>1
        <5> QED BY <1>t, <5>1, <5>2 DEF FoldsPassed
      <4>2. CASE ~(i <= Len(folds))
        <5>1. folds'[i] = B!Window BY <2>9, <4>2
        <5>2. B!Window.from >= 0 BY <2>7, SMT
        <5> QED BY <2>3, <2>4, <2>6, <2>7, <5>1, <5>2
      <4> QED BY <4>1, <4>2
    <3>2. ASSUME NEW i \in 1..Len(folds'), fold' \in 0..(Len(cuts) - 1)
          PROVE  folds'[i].to <= cuts[Len(cuts) - fold']
      <4>1. folds'[i].to <= c + Hz
        <5>1. CASE i <= Len(folds)
          <6>1. i \in 1..Len(folds) BY <1>e, <2>9, <5>1, SMT
          <6>2. folds'[i] = folds[i] BY <2>9, <5>1
          <6>3. folds[i].to \in Nat /\ folds[i].to <= c BY <1>e, <2>13, <6>1
          <6> QED BY <1>b, <2>3, <6>2, <6>3, SMT
        <5>2. CASE ~(i <= Len(folds))
          BY <1>b, <2>3, <2>6, <2>9, <5>2, SMT
        <5> QED BY <5>1, <5>2
      <4>2. folds'[i].to \in Nat
        <5>1. folds'[i] \in [from : Nat, cut : Nat, to : Nat] BY <2>9, ElementOfSeq
        <5> QED BY <5>1
      <4>3. cuts[Len(cuts) - fold'] \in Nat
        <5>1. Len(cuts) - fold' \in 1..Len(cuts) BY <1>e, <2>1, <3>2, SMT
        <5> QED BY <1>e, <5>1
      <4> QED BY <1>b, <2>3, <2>12, <3>2, <4>1, <4>2, <4>3, SMT
    <3>3. \A i, j \in 1..Len(folds') : i < j => folds'[i].to <= folds'[j].cut
      <4> SUFFICES ASSUME NEW i \in 1..Len(folds'), NEW j \in 1..Len(folds'), i < j
                   PROVE  folds'[i].to <= folds'[j].cut
        OBVIOUS
      <4>0. i \in 1..Len(folds) BY <1>e, <2>9, SMT
      <4>5. i <= Len(folds) BY <1>e, <4>0, SMT
      <4>6. folds'[i] = folds[i] BY <2>9, <4>5
      <4>1. i \in 1..Len(folds) /\ folds'[i] = folds[i] BY <4>0, <4>6
      <4>2. CASE j <= Len(folds)
        <5>0. j \in 1..Len(folds) BY <1>e, <2>9, <4>2, SMT
        <5>2. folds'[j] = folds[j] BY <2>9, <4>2
        <5>1. j \in 1..Len(folds) /\ folds'[j] = folds[j] BY <5>0, <5>2
        <5> QED BY <1>t, <4>1, <5>1 DEF FoldsPassed
      <4>3. CASE ~(j <= Len(folds))
        <5>1. folds'[j] = B!Window BY <2>9, <4>3
        <5> QED BY <2>4, <2>13, <4>1, <5>1
      <4> QED BY <4>2, <4>3
    <3>4. fold' # -1 BY <2>1, <1>a, SMT
    <3> QED BY <1>c, <1>d, <2>1, <3>1, <3>2, <3>3, <3>4 DEF FoldsPassed
  <2> QED BY <2>10, <2>11, <2>14 DEF PlanInv
<1>4. CASE B!LoseFold
  <2>1. /\ fold \in 0..(Len(cuts) - 1) /\ fold' = fold + 1
        /\ folds' = folds /\ cuts' = cuts /\ cut' = cut /\ verdict' = verdict
    BY <1>4 DEF B!LoseFold, B!Walking
  <2>2. fold' \in 0..Len(cuts) BY <1>a, <2>1, SMT
  <2>3. B!TypeOK' BY <1>a, <1>c, <2>1, <2>2, SMT DEF B!TypeOK
  <2>4. CutsSpaced' BY <1>t, <1>c, <1>d, <2>1 DEF CutsSpaced
  <2>5. ASSUME NEW i \in 1..Len(folds), fold' \in 0..(Len(cuts) - 1)
        PROVE  folds[i].to <= cuts[Len(cuts) - fold']
    <3>1. /\ Len(cuts) - fold \in 1..Len(cuts) /\ Len(cuts) - fold' \in 1..Len(cuts)
          /\ Len(cuts) - fold' < Len(cuts) - fold
      <4>1. Len(cuts) \in Nat BY <1>e
      <4>2. fold \in Int /\ 0 <= fold /\ fold <= Len(cuts) - 1 /\ fold' = fold + 1 BY <2>1, <4>1
      <4>3. fold' <= Len(cuts) - 1 BY <2>5, <4>1
      <4> QED BY <4>1, <4>2, <4>3
    <3>2. folds[i].to <= cuts[Len(cuts) - fold] BY <1>t, <2>1 DEF FoldsPassed
    <3>3. cuts[Len(cuts) - fold] + Hz <= cuts[Len(cuts) - fold'] BY <1>t, <3>1 DEF CutsSpaced
    <3>4. folds[i].to \in Nat BY <1>e
    <3>5. cuts[Len(cuts) - fold] \in Nat /\ cuts[Len(cuts) - fold'] \in Nat BY <1>e, <3>1
    <3> QED BY <1>b, <3>2, <3>3, <3>4, <3>5, SMT
  <2>6. fold' # -1 BY <2>2, SMT
  <2>7. FoldsPassed' BY <1>t, <1>c, <1>d, <2>1, <2>5, <2>6 DEF FoldsPassed
  <2> QED BY <2>3, <2>4, <2>7 DEF PlanInv
<1>5. CASE B!Judge
  <2>1. /\ cuts' = cuts /\ cut' = cut /\ fold' = fold /\ folds' = folds
        /\ verdict' \in {"scored", "failed"}
    BY <1>5 DEF B!Judge
  <2> QED BY <1>t, <1>a, <1>c, <1>d, <2>1 DEF PlanInv, B!TypeOK, CutsSpaced, FoldsPassed
<1>6. CASE UNCHANGED B!vars
  BY <1>t, <1>a, <1>c, <1>d, <1>6 DEF B!vars, PlanInv, B!TypeOK, CutsSpaced, FoldsPassed
<1> QED BY <1>1, <1>2, <1>3, <1>4, <1>5, <1>6 DEF B!Next

LEMMA PlanIsApart == [MCNext]_<<part, vars, search, plan, history, tree, advice, range, choice, fan, making>>
                        => [B!Next]_(B!vars)
<1> SUFFICES ASSUME [MCNext]_<<part, vars, search, plan, history, tree, advice, range, choice, fan, making>>
             PROVE  B!Next \/ UNCHANGED plan
  BY DEF B!vars, plan
<1>1. CASE MCNext
  BY <1>1 DEF MCNext
<1>2. CASE UNCHANGED <<part, vars, search, plan, history, tree, advice, range, choice, fan, making>>
  BY <1>2
<1> QED
  BY <1>1, <1>2

\* No model is scored on what it was trained on, nor twice on one period, for every history, horizon,
\* season and number of folds.
THEOREM FoldsAlwaysHonest == MCSpec => []FoldsAreHonest
<1>1. PlanInv => FoldsAreHonest
  <2> SUFFICES ASSUME PlanInv PROVE FoldsAreHonest OBVIOUS
  <2>1. B!TypeOK /\ FoldsPassed BY DEF PlanInv
  <2>2. asked \in B!Input /\ folds \in Seq([from : Nat, cut : Nat, to : Nat]) BY <2>1 DEF B!TypeOK
  <2>3. Hz \in Nat \ {0} /\ Hz <= asked.horizon /\ asked.horizon \in Nat BY <2>2, PlanBounds DEF Hz
  <2>4. ASSUME NEW i \in 1..Len(folds)
        PROVE  /\ folds[i].from >= 0 /\ folds[i].cut - folds[i].from >= 3
               /\ folds[i].to > folds[i].cut /\ folds[i].to <= asked.n
               /\ folds[i].to - folds[i].cut <= asked.horizon
    <3>0. folds[i] \in [from : Nat, cut : Nat, to : Nat] BY <2>2, ElementOfSeq
    <3>1. folds[i].cut \in Nat BY <3>0
    <3>2. /\ folds[i].from >= 0 /\ folds[i].cut - folds[i].from >= 3
          /\ folds[i].to = folds[i].cut + Hz /\ folds[i].to <= asked.n
      BY <2>1 DEF FoldsPassed
    <3> QED BY <2>3, <3>1, <3>2, SMT
  <2> QED BY <2>1, <2>4 DEF FoldsAreHonest, B!FoldsAreHonest, FoldsPassed
<1>2. MCInit => B!Init
  BY DEF MCInit
<1> QED BY <1>1, <1>2, InitPlan, StepPlan, PlanIsApart, PTL DEF MCSpec

-------------------------------------------------------------------------------
(* The search: the candidates of a run, tried by a pool of threads, the    *)
(* best of them chosen, and what is returned when it comes to nothing; for *)
(* any kinds of model, any scores and any number of threads.               *)

Offered == {Kinds[i] : i \in DOMAIN Kinds}
Tasks == 1..Len(kinds)
TasksAt(where) == {i \in Tasks : thread[i] = where}
Answered == {i \in Tasks : thread[i] \in {"finished", "resolved", "taken"}}

\* The candidates are kinds there are, each of them once, with what is to come of them.
Drawn ==
    /\ kinds \in Seq(Offered)
    /\ \A i, j \in Tasks : kinds[i] = kinds[j] => i = j
    /\ short \in BOOLEAN
    /\ backtest \in [Offered -> M!Result] /\ blended \in M!Result
    /\ \A k \in Offered : backtest[k].cost # 0 => backtest[k].held
    /\ blended.held <=> blended.cost # 0

\* What _InFlight counts is what the threads are at.
Counted ==
    /\ thread \in [Tasks -> {"queued", "running", "finished", "resolved", "taken"}]
    /\ watch = [done |-> Cardinality(Answered), running |-> {kinds[i] : i \in TasksAt("running")}]
    /\ indexed \in Seq(Tasks) /\ Len(indexed) = Cardinality(TasksAt("taken"))

\* How far the caller is says what there is to return.
Reached ==
    /\ round \in {"backtesting", "fitting", "predicting", "over", "failed"}
    /\ model \in M!Kind \cup {M!None} /\ winner \in M!Kind \cup {M!None}
    /\ usedFallback \in BOOLEAN /\ sound \in BOOLEAN
    /\ round = "backtesting" => kinds # <<>>
    /\ round = "fitting" => model = winner
    /\ round = "predicting" => sound /\ (model = winner \/ (usedFallback /\ model = Simplest))
    /\ round = "backtesting" => usedFallback = short
    /\ round \in {"fitting", "predicting"} /\ model # Simplest => model = winner /\ usedFallback = short
    /\ round = "fitting" => usedFallback = short

SearchInv ==
    Drawn /\ Counted /\ Reached /\ M!WinnerIgnoresOrder /\ M!BacktestIsOfTheModel /\ M!LineIsHonest

LEMMA SameSize == \A S : M!Cardinality(S) = Cardinality(S)
BY DEF M!Cardinality, Cardinality, M!IsFiniteSet, IsFiniteSet

\* A non-empty set of numbers has a least one.
LEMMA LeastIsReached ==
    ASSUME NEW S \in SUBSET Nat, S # {}
    PROVE  M!Min(S) \in S /\ \A x \in S : M!Min(S) <= x
<1>1. IsWellFoundedOn(OpToRel(<, Nat), Nat)
  BY NatLessThanWellFounded, Zenon
<1>2. PICK m \in S : \A k \in S : ~ (<<k, m>> \in OpToRel(<, Nat))
  BY <1>1, WFMin, Zenon
<1>3. OpToRel(<, Nat) = {s \in Nat \X Nat : s[1] < s[2]}
  BY Zenon DEF OpToRel
<1>4. ASSUME NEW y \in S PROVE m <= y
  <2>1. y \in Nat /\ m \in Nat
    OBVIOUS
  <2>2. ~(y < m)
    BY <1>2, <1>3, <2>1
  <2> QED
    BY <2>1, <2>2
<1> QED
  BY <1>4 DEF M!Min

\* What is taken from a sequence is the first of those it may be.
LEMMA FirstIs ==
    ASSUME NEW T, NEW s \in Seq(T), NEW S, NEW j \in 1..Len(s), s[j] \in S
    PROVE  \E i \in 1..Len(s) : /\ M!First(s, S) = s[i] /\ s[i] \in S
                                /\ \A h \in 1..Len(s) : h < i => s[h] \notin S
<1> DEFINE I == {i \in DOMAIN s : s[i] \in S}
<1>1. DOMAIN s = 1..Len(s) /\ Len(s) \in Nat
  OBVIOUS
<1>2. I \in SUBSET Nat /\ j \in I
  BY <1>1
<1>3. M!Min(I) \in I /\ \A x \in I : M!Min(I) <= x
  BY <1>2, LeastIsReached
<1>4. M!First(s, S) = s[M!Min(I)]
  BY DEF M!First
<1>5. PICK i \in I : i = M!Min(I)
  BY <1>3
<1>6. i \in 1..Len(s) /\ s[i] \in S /\ \A x \in I : i <= x
  BY <1>1, <1>3, <1>5
<1>7. ASSUME NEW h \in 1..Len(s), h < i PROVE s[h] \notin S
  <2>1. h \in I => i <= h
    BY <1>6
  <2> QED
    BY <1>1, <1>6, <1>7, <2>1
<1> QED
  BY <1>4, <1>5, <1>6, <1>7

\* The model selected is the first of those none has a better claim than.
LEMMA SelectedIsBest ==
    ASSUME Drawn, kinds # <<>>
    PROVE  LET offered == kinds \o M!Blend
           IN \E w \in 1..Len(offered) :
                 /\ offered[w] = M!Selected(offered)
                 /\ M!Selected(offered) \in M!Kind
                 /\ \A i \in 1..Len(offered) :
                       /\ ~M!Better(offered[i], offered[w])
                       /\ i < w => M!Better(offered[w], offered[i])
<1> DEFINE s == kinds \o M!Blend
           Named == Offered \cup {Combined}
           usable == {k \in M!Range(s) : M!OutcomeOf(k).cost # 0}
           ran == {k \in M!Range(s) : M!OutcomeOf(k).held}
           costs == {M!OutcomeOf(k).cost : k \in usable}
           least == M!Min(costs)
           Best(w) == /\ s[w] = M!Selected(s)
                      /\ \A i \in 1..Len(s) : /\ ~M!Better(s[i], s[w])
                                              /\ i < w => M!Better(s[w], s[i])
<1>1. s \in Seq(Named) /\ Len(s) \in Nat \ {0} /\ DOMAIN s = 1..Len(s)
  <2>1. kinds \in Seq(Named) /\ Len(kinds) \in Nat \ {0}
    BY EmptySeq, SeqMonotonic DEF Drawn
  <2>2. M!Blend \in Seq(Named) /\ Len(M!Blend) \in Nat
    <3>1. M!Blend = <<Combined>> \/ M!Blend = <<>>
      BY DEF M!Blend
    <3>2. Combined \in Named
      OBVIOUS
    <3>3. <<Combined>> \in Seq(Named) /\ Len(<<Combined>>) \in Nat
      BY <3>2
    <3> QED
      BY <3>1, <3>3, EmptySeq
  <2> QED
    BY <2>1, <2>2, ConcatProperties, LenProperties
<1>2. \A i \in 1..Len(s) : s[i] \in Named
  BY <1>1, ElementOfSeq
<1>3. M!Range(s) = {s[i] : i \in 1..Len(s)}
  BY <1>1 DEF M!Range
<1>4. ASSUME NEW k \in Named
      PROVE  /\ M!OutcomeOf(k).held \in BOOLEAN /\ M!OutcomeOf(k).cost \in Nat
             /\ M!OutcomeOf(k).cost # 0 => M!OutcomeOf(k).held
  <2>1. M!Result = [held : BOOLEAN, cost : Costs \cup {0}] /\ Costs \subseteq Nat
    BY SearchAssumption DEF M!Result
  <2>c. Costs \cup {0} \subseteq Nat
    BY <2>1
  <2>2. CASE k = Combined
    <3>1. M!OutcomeOf(k) = blended /\ blended \in M!Result /\ (blended.held <=> blended.cost # 0)
      BY <2>2 DEF Drawn, M!OutcomeOf
    <3>2. blended \in [held : BOOLEAN, cost : Costs \cup {0}]
      BY <2>1, <3>1
    <3>3. blended.held \in BOOLEAN
      BY <3>2
    <3>4. blended.cost \in Costs \cup {0}
      BY <3>2
    <3>5. blended.cost \in Nat
      BY <2>c, <3>4
    <3> QED
      BY <3>1, <3>3, <3>5
  <2>3. CASE k # Combined
    <3>1. k \in Offered /\ M!OutcomeOf(k) = backtest[k] /\ backtest[k] \in M!Result
      BY <2>3 DEF Drawn, M!OutcomeOf
    <3>2. backtest[k] \in [held : BOOLEAN, cost : Costs \cup {0}]
      BY <2>1, <3>1
    <3>4. backtest[k].held \in BOOLEAN
      BY <3>2
    <3>5. backtest[k].cost \in Nat
      BY <2>c, <3>2
    <3>3. backtest[k].cost # 0 => backtest[k].held
      BY <3>1 DEF Drawn
    <3> QED
      BY <3>1, <3>3, <3>4, <3>5
  <2> QED
    BY <2>2, <2>3
<1>5. \A k \in Named : k \in M!Kind
  BY DEF M!Kind, M!Range, Offered
<1>s. M!Selected(s) = IF usable # {} THEN M!First(s, {k \in usable : M!OutcomeOf(k).cost = least})
                      ELSE IF ran # {} THEN M!First(s, ran) ELSE s[1]
  BY DEF M!Selected
<1> HIDE DEF s, Named
<1>6. \A j, k \in Named : M!Better(j, k) <=>
          \/ M!OutcomeOf(j).cost # 0 /\ (M!OutcomeOf(k).cost = 0 \/ M!OutcomeOf(j).cost < M!OutcomeOf(k).cost)
          \/ M!OutcomeOf(j).held /\ ~M!OutcomeOf(k).held
  BY DEF M!Better
<1>7. CASE usable # {}
  <2>1. costs \in SUBSET Nat /\ costs # {}
    BY <1>2, <1>3, <1>4, <1>7
  <2>2. least \in costs /\ \A x \in costs : least <= x
    <3> HIDE DEF costs
    <3> QED
      BY <2>1, LeastIsReached
  <2>3. PICK k \in usable : M!OutcomeOf(k).cost = least
    BY <2>2
  <2>4. PICK j \in 1..Len(s) : s[j] = k
    BY <1>3
  <2> DEFINE S == {x \in usable : M!OutcomeOf(x).cost = least}
  <2>5. s[j] \in S
    BY <2>3, <2>4
  <2>6. PICK w \in 1..Len(s) : /\ M!First(s, S) = s[w] /\ s[w] \in S
                               /\ \A h \in 1..Len(s) : h < w => s[h] \notin S
    <3> HIDE DEF S
    <3> QED
      BY <1>1, <2>5, FirstIs
  <2>7. M!Selected(s) = s[w]
    BY <1>s, <1>7, <2>6
  <2>8. M!OutcomeOf(s[w]).cost = least /\ least \in Nat /\ least # 0
    <3>1. s[w] \in usable /\ M!OutcomeOf(s[w]).cost = least
      BY <2>6
    <3> QED
      BY <2>1, <2>2, <3>1
  <2>9. ASSUME NEW i \in 1..Len(s)
        PROVE  ~M!Better(s[i], s[w]) /\ (i < w => M!Better(s[w], s[i]))
    <3> DEFINE a == M!OutcomeOf(s[i]).cost
    <3>1. s[i] \in Named /\ s[w] \in Named /\ a \in Nat
      BY <1>2, <1>4
    <3>2. a # 0 => s[i] \in usable /\ a \in costs
      BY <1>3
    <3>3. a # 0 => least <= a
      BY <2>2, <3>2
    <3>4. i < w /\ a # 0 => a # least
      BY <2>6, <3>2
    <3>5. M!OutcomeOf(s[w]).held
      BY <1>4, <2>8, <3>1
    <3> HIDE DEF a, usable, costs, least
    <3> QED
      BY <1>6, <2>8, <3>1, <3>3, <3>4, <3>5 DEF a
  <2> QED
    BY <1>2, <1>5, <2>7, <2>9 DEF s
<1>8. CASE usable = {} /\ ran # {}
  <2>1. PICK j \in 1..Len(s) : s[j] \in ran
    BY <1>3, <1>8
  <2>2. PICK w \in 1..Len(s) : /\ M!First(s, ran) = s[w] /\ s[w] \in ran
                               /\ \A h \in 1..Len(s) : h < w => s[h] \notin ran
    <3> HIDE DEF ran
    <3> QED
      BY <1>1, <2>1, FirstIs
  <2>3. M!Selected(s) = s[w]
    BY <1>s, <1>8, <2>2
  <2>4. \A i \in 1..Len(s) : M!OutcomeOf(s[i]).cost = 0 /\ s[i] \in Named /\ (s[i] \in ran <=> M!OutcomeOf(s[i]).held)
    BY <1>2, <1>3, <1>8
  <2>5. \A i \in 1..Len(s) : ~M!Better(s[i], s[w]) /\ (i < w => M!Better(s[w], s[i]))
    <3> HIDE DEF ran, usable
    <3> QED
      BY <1>6, <2>2, <2>4
  <2> QED
    BY <1>2, <1>5, <2>3, <2>5 DEF s
<1>9. CASE usable = {} /\ ran = {}
  <2>1. M!Selected(s) = s[1] /\ 1 \in 1..Len(s)
    BY <1>s, <1>1, <1>9
  <2>2. \A i \in 1..Len(s) : M!OutcomeOf(s[i]).cost = 0 /\ s[i] \in Named /\ ~M!OutcomeOf(s[i]).held /\ ~(i < 1)
    BY <1>2, <1>3, <1>9
  <2>3. \A i \in 1..Len(s) : ~M!Better(s[i], s[1])
    BY <1>6, <2>1, <2>2
  <2> QED
    BY <1>2, <1>5, <2>1, <2>2, <2>3 DEF s
<1> QED
  BY <1>7, <1>8, <1>9

LEMMA InitSearch == M!Init => SearchInv
<1> SUFFICES ASSUME M!Init PROVE SearchInv
  OBVIOUS
<1>1. Offered = M!Range(Kinds)
  BY DEF Offered, M!Range
<1>2. PICK allowed \in M!Allow :
          kinds = IF ~short THEN allowed ELSE IF Simplest \in M!Range(allowed) THEN <<Simplest>> ELSE <<>>
  BY DEF M!Init
<1>3. PICK n \in 1..Len(Kinds) : \E f \in M!Climbing(n, Len(Kinds)) : allowed = [i \in 1..n |-> Kinds[f[i]]]
  BY <1>2 DEF M!Allow
<1>p. PICK at \in M!Climbing(n, Len(Kinds)) : allowed = [i \in 1..n |-> Kinds[at[i]]]
  BY <1>3
<1>4. Len(Kinds) \in Nat /\ DOMAIN Kinds = 1..Len(Kinds)
  BY SearchAssumption, LenProperties DEF Offered
<1>5. /\ at \in [1..n -> 1..Len(Kinds)] /\ n \in Nat \ {0}
      /\ \A i, j \in 1..n : i < j => at[i] < at[j]
  BY <1>p, <1>4 DEF M!Climbing
<1>6. allowed \in Seq(Offered) /\ Len(allowed) = n /\ DOMAIN allowed = 1..n
  BY <1>p, <1>4, <1>5 DEF Offered
<1>7. \A i, j \in 1..n : allowed[i] = allowed[j] => i = j
  <2>1. \A i, j \in 1..n : at[i] = at[j] => i = j
    <3> SUFFICES ASSUME NEW i \in 1..n, NEW j \in 1..n, i # j PROVE at[i] # at[j]
      OBVIOUS
    <3>1. (i < j \/ j < i) /\ at[i] \in Nat /\ at[j] \in Nat
      BY <1>5
    <3> QED
      BY <1>5, <3>1
  <2>2. \A i \in 1..n : at[i] \in DOMAIN Kinds
    BY <1>4, <1>5
  <2> QED
    BY <1>p, <2>1, <2>2, SearchAssumption
<1>8. /\ kinds \in Seq(Offered) /\ \A i, j \in Tasks : kinds[i] = kinds[j] => i = j
      /\ kinds = <<>> => Simplest \notin M!Range(kinds)
  <2>1. CASE ~short
    BY <1>2, <1>5, <1>6, <1>7, <2>1 DEF Tasks
  <2>2. CASE short /\ Simplest \in M!Range(allowed)
    <3>1. kinds = <<Simplest>> /\ Simplest \in Offered
      BY <1>2, <1>6, <2>2, ElementOfSeq DEF M!Range
    <3> QED
      BY <3>1 DEF Tasks
  <2>3. CASE short /\ Simplest \notin M!Range(allowed)
    <3>1. kinds = <<>>
      BY <1>2, <2>3
    <3> QED
      BY <3>1 DEF Tasks, M!Range
  <2> QED
    BY <2>1, <2>2, <2>3 DEF M!Init
<1>9. Drawn
  BY <1>1, <1>8 DEF M!Init, Drawn, M!Result
<1>10. /\ round = IF kinds = <<>> THEN "failed" ELSE "backtesting"
       /\ thread = [i \in Tasks |-> "queued"] /\ watch = [done |-> 0, running |-> {}] /\ indexed = <<>>
       /\ line = [of |-> 0, done |-> 0, running |-> {}]
       /\ model = M!None /\ winner = M!None /\ usedFallback = short /\ sound = FALSE
  BY DEF M!Init, M!Unstarted, M!Task, M!Total, Tasks
<1>11. Counted
  <2>1. TasksAt("running") = {} /\ TasksAt("taken") = {} /\ Answered = {}
    BY <1>10 DEF TasksAt, Answered
  <2> QED
    <3>1. Cardinality(Answered) = 0 /\ Cardinality(TasksAt("taken")) = 0
      BY <2>1, FS_EmptySet
    <3>2. watch = [done |-> 0, running |-> {kinds[i] : i \in TasksAt("running")}]
      BY <1>10, <2>1
    <3>3. indexed \in Seq(Tasks) /\ Len(indexed) = 0
      BY <1>10
    <3>4. thread \in [Tasks -> {"queued", "running", "finished", "resolved", "taken"}]
      BY <1>10
    <3> QED
      BY <3>1, <3>2, <3>3, <3>4 DEF Counted
<1>12. Reached
  BY <1>9, <1>10 DEF Reached, Drawn
<1>13. M!WinnerIgnoresOrder /\ M!LineIsHonest
  BY <1>10 DEF M!WinnerIgnoresOrder, M!LineIsHonest
<1>14. M!BacktestIsOfTheModel
  BY <1>8, <1>10 DEF M!BacktestIsOfTheModel
<1> QED
  BY <1>9, <1>11, <1>12, <1>13, <1>14 DEF SearchInv

LEMMA ChoiceKept ==
    ASSUME SearchInv, UNCHANGED M!given, UNCHANGED <<round, M!outcome>>
    PROVE  Drawn' /\ Reached' /\ M!WinnerIgnoresOrder' /\ M!BacktestIsOfTheModel'
<1>1. /\ kinds' = kinds /\ short' = short /\ backtest' = backtest /\ blended' = blended
      /\ round' = round /\ model' = model /\ winner' = winner /\ usedFallback' = usedFallback /\ sound' = sound
  BY DEF M!given, M!outcome
<1>2. Drawn'
  BY <1>1 DEF SearchInv, Drawn, Tasks
<1>3. Reached'
  BY <1>1 DEF SearchInv, Reached
<1>4. M!WinnerIgnoresOrder'
  BY <1>1 DEF SearchInv, M!WinnerIgnoresOrder, M!Blend, M!Better, M!OutcomeOf
<1>5. M!BacktestIsOfTheModel'
  BY <1>1 DEF SearchInv, M!BacktestIsOfTheModel
<1> QED
  BY <1>2, <1>3, <1>4, <1>5

\* A task moves, and the others stay where they are.
LEMMA Moved ==
    ASSUME SearchInv, NEW i \in Tasks, NEW from, NEW to \in {"running", "finished", "resolved", "taken"},
           M!At(i, from, to), kinds' = kinds
    PROVE  /\ thread' \in [Tasks' -> {"queued", "running", "finished", "resolved", "taken"}]
           /\ Tasks' = Tasks /\ thread[i] = from
           /\ \A j \in Tasks : thread'[j] = IF j = i THEN to ELSE thread[j]
BY DEF SearchInv, Counted, Tasks, M!At

LEMMA FewTasks ==
    ASSUME SearchInv
    PROVE  /\ IsFiniteSet(Tasks) /\ Cardinality(Tasks) = Len(kinds) /\ Len(kinds) \in Nat
           /\ \A S \in SUBSET Tasks : /\ IsFiniteSet(S) /\ Cardinality(S) \in Nat
                                      /\ Cardinality(S) <= Cardinality(Tasks)
<1>1. Len(kinds) \in Nat
  BY LenProperties DEF SearchInv, Drawn
<1>2. IsFiniteSet(Tasks) /\ Cardinality(Tasks) = Len(kinds)
  <2>1. IsFiniteSet(1..Len(kinds)) /\ Cardinality(1..Len(kinds)) = IF 1 > Len(kinds) THEN 0 ELSE Len(kinds) - 1 + 1
    BY <1>1, FS_Interval
  <2>2. Cardinality(1..Len(kinds)) = Len(kinds)
    BY <1>1, <2>1
  <2> QED
    BY <2>1, <2>2 DEF Tasks
<1> QED
  BY <1>1, <1>2, FS_Subset, FS_CardinalityType

LEMMA StartedStep ==
    ASSUME SearchInv, NEW i \in Tasks, M!Started(i) PROVE Counted' /\ M!LineIsHonest'
<1>1. /\ M!At(i, "queued", "running") /\ kinds' = kinds /\ indexed' = indexed /\ line' = line
      /\ watch' = [watch EXCEPT !.running = @ \cup {kinds[i]}]
  BY DEF M!Started, M!given
<1>2. /\ thread' \in [Tasks' -> {"queued", "running", "finished", "resolved", "taken"}]
      /\ Tasks' = Tasks /\ thread[i] = "queued"
      /\ \A j \in Tasks : thread'[j] = IF j = i THEN "running" ELSE thread[j]
  BY <1>1, Moved
<1>3. TasksAt("running")' = TasksAt("running") \cup {i}
  BY <1>2 DEF TasksAt
<1>4. TasksAt("taken")' = TasksAt("taken") /\ Answered' = Answered
  BY <1>2 DEF TasksAt, Answered
<1>5. watch' = [done |-> Cardinality(Answered), running |-> {kinds[j] : j \in TasksAt("running")} \cup {kinds[i]}]
  BY <1>1 DEF SearchInv, Counted
<1>6. {kinds[j] : j \in TasksAt("running")} \cup {kinds[i]} = {kinds'[j] : j \in TasksAt("running")'}
  BY <1>1, <1>3
<1>7. Counted'
  BY <1>1, <1>2, <1>4, <1>5, <1>6 DEF SearchInv, Counted
<1> QED
  BY <1>1, <1>7 DEF SearchInv, M!LineIsHonest, M!Total

LEMMA FinishedStep ==
    ASSUME SearchInv, NEW i \in Tasks, M!Finished(i) PROVE Counted' /\ M!LineIsHonest'
<1>1. /\ M!At(i, "running", "finished") /\ kinds' = kinds /\ indexed' = indexed /\ line' = line
      /\ watch' = [done |-> watch.done + 1, running |-> watch.running \ {kinds[i]}]
  BY DEF M!Finished, M!given
<1>2. /\ thread' \in [Tasks' -> {"queued", "running", "finished", "resolved", "taken"}]
      /\ Tasks' = Tasks /\ thread[i] = "running"
      /\ \A j \in Tasks : thread'[j] = IF j = i THEN "finished" ELSE thread[j]
  BY <1>1, Moved
<1>3. TasksAt("running")' = TasksAt("running") \ {i}
  BY <1>2 DEF TasksAt
<1>4. TasksAt("taken")' = TasksAt("taken")
  BY <1>2 DEF TasksAt
<1>5. Answered' = Answered \cup {i} /\ i \notin Answered /\ Answered \in SUBSET Tasks
  BY <1>2 DEF Answered
<1>6. Cardinality(Answered') = Cardinality(Answered) + 1
  BY <1>5, FewTasks, FS_AddElement
<1>7. watch' = [done |-> Cardinality(Answered), running |-> {kinds[j] : j \in TasksAt("running")}]' <=>
          watch.running \ {kinds[i]} = {kinds[j] : j \in TasksAt("running") \ {i}}
  BY <1>1, <1>3, <1>6 DEF SearchInv, Counted
<1>8. watch.running \ {kinds[i]} = {kinds[j] : j \in TasksAt("running") \ {i}}
  <2>1. watch.running = {kinds[j] : j \in TasksAt("running")}
    BY DEF SearchInv, Counted
  <2>2. \A j \in TasksAt("running") : kinds[j] = kinds[i] => j = i
    BY DEF SearchInv, Drawn, TasksAt
  <2> QED
    BY <2>1, <2>2
<1>9. Counted'
  BY <1>1, <1>2, <1>4, <1>7, <1>8 DEF SearchInv, Counted
<1> QED
  BY <1>1, <1>9 DEF SearchInv, M!LineIsHonest, M!Total

LEMMA ResolvedStep ==
    ASSUME SearchInv, NEW i \in Tasks, M!Resolved(i) PROVE Counted' /\ M!LineIsHonest'
<1>1. /\ M!At(i, "finished", "resolved") /\ kinds' = kinds /\ indexed' = indexed /\ line' = line /\ watch' = watch
  BY DEF M!Resolved, M!given
<1>2. /\ thread' \in [Tasks' -> {"queued", "running", "finished", "resolved", "taken"}]
      /\ Tasks' = Tasks /\ thread[i] = "finished"
      /\ \A j \in Tasks : thread'[j] = IF j = i THEN "resolved" ELSE thread[j]
  BY <1>1, Moved
<1>3. TasksAt("running")' = TasksAt("running") /\ TasksAt("taken")' = TasksAt("taken") /\ Answered' = Answered
  BY <1>2 DEF TasksAt, Answered
<1>4. Counted'
  BY <1>1, <1>2, <1>3 DEF SearchInv, Counted
<1> QED
  BY <1>1, <1>4 DEF SearchInv, M!LineIsHonest, M!Total

\* Those counted as answered and those listed as running are tasks of their own.
LEMMA NoneCountedTwice ==
    ASSUME SearchInv
    PROVE  /\ watch.done \in Nat /\ Cardinality(watch.running) \in Nat
           /\ watch.done + Cardinality(watch.running) <= Len(kinds)
<1> DEFINE busy == TasksAt("running")
           named == {kinds[i] : i \in busy}
           f == [i \in busy |-> kinds[i]]
<1>1. busy \in SUBSET Tasks /\ Answered \in SUBSET Tasks /\ busy \cap Answered = {}
  BY DEF TasksAt, Answered
<1>2. f \in Surjection(busy, named)
  BY DEF Surjection
<1>3. IsFiniteSet(busy) /\ IsFiniteSet(Answered) /\ Cardinality(busy) \in Nat /\ Cardinality(Answered) \in Nat
  BY <1>1, FewTasks
<1>4. IsFiniteSet(named) /\ Cardinality(named) <= Cardinality(busy) /\ Cardinality(named) \in Nat
  <2> HIDE DEF busy, named, f
  <2> QED
    BY <1>2, <1>3, FS_Surjection, FS_CardinalityType
<1>5. Cardinality(Answered \cup busy) = Cardinality(Answered) + Cardinality(busy)
  <2>1. Cardinality(Answered \cup busy) = Cardinality(Answered) + Cardinality(busy) - Cardinality(Answered \cap busy)
    BY <1>3, FS_Union
  <2>2. Cardinality(Answered \cap busy) = 0
    BY <1>1, FS_EmptySet
  <2> QED
    BY <1>3, <2>1, <2>2
<1>6. Cardinality(Answered \cup busy) <= Len(kinds) /\ Len(kinds) \in Nat
  BY <1>1, FewTasks
<1>7. watch.done = Cardinality(Answered) /\ watch.running = named
  BY DEF SearchInv, Counted
<1> HIDE DEF busy, named
<1> QED
  BY <1>3, <1>4, <1>5, <1>6, <1>7

LEMMA CompletedStep ==
    ASSUME SearchInv, NEW i \in Tasks, M!Completed(i) PROVE Counted' /\ M!LineIsHonest'
<1>1. /\ M!At(i, "resolved", "taken") /\ kinds' = kinds /\ watch' = watch
      /\ indexed' = Append(indexed, i)
      /\ line' = [of |-> i, done |-> watch.done, running |-> watch.running]
  BY DEF M!Completed, M!given
<1>2. /\ thread' \in [Tasks' -> {"queued", "running", "finished", "resolved", "taken"}]
      /\ Tasks' = Tasks /\ thread[i] = "resolved"
      /\ \A j \in Tasks : thread'[j] = IF j = i THEN "taken" ELSE thread[j]
  BY <1>1, Moved
<1>3. TasksAt("running")' = TasksAt("running") /\ Answered' = Answered
  BY <1>2 DEF TasksAt, Answered
<1>4. TasksAt("taken")' = TasksAt("taken") \cup {i} /\ i \notin TasksAt("taken") /\ TasksAt("taken") \in SUBSET Tasks
  BY <1>2 DEF TasksAt
<1>5. Cardinality(TasksAt("taken")') = Cardinality(TasksAt("taken")) + 1
  BY <1>4, FewTasks, FS_AddElement
<1>6. indexed' \in Seq(Tasks) /\ Len(indexed') = Len(indexed) + 1
  BY <1>1 DEF SearchInv, Counted
<1>7. Counted'
  BY <1>1, <1>2, <1>3, <1>5, <1>6 DEF SearchInv, Counted
<1>8. kinds[i] \notin watch.running
  <2>1. watch.running = {kinds[j] : j \in TasksAt("running")}
    BY DEF SearchInv, Counted
  <2>2. \A j \in TasksAt("running") : j \in Tasks /\ j # i
    BY <1>2 DEF TasksAt
  <2> QED
    BY <2>1, <2>2 DEF SearchInv, Drawn
<1>9. watch.done >= Len(indexed')
  <2>1. TasksAt("taken")' \in SUBSET Answered /\ Answered \in SUBSET Tasks
    BY <1>2, <1>4 DEF TasksAt, Answered
  <2>2. Cardinality(TasksAt("taken")') <= Cardinality(Answered) /\ Cardinality(TasksAt("taken")') \in Nat
    BY <2>1, FewTasks, FS_Subset, FS_CardinalityType
  <2>3. watch.done = Cardinality(Answered) /\ Len(indexed) = Cardinality(TasksAt("taken"))
    BY DEF SearchInv, Counted
  <2>4. Cardinality(Answered) \in Nat
    BY <2>1, FewTasks
  <2> QED
    BY <1>5, <1>6, <2>2, <2>3, <2>4
<1>10. M!Cardinality(watch.running) = Cardinality(watch.running)
  BY SameSize
<1> QED
  BY <1>1, <1>7, <1>8, <1>9, <1>10, NoneCountedTwice DEF M!LineIsHonest, M!Total

LEMMA ThreadsKept ==
    ASSUME SearchInv, UNCHANGED M!search, kinds' = kinds
    PROVE  Counted' /\ M!LineIsHonest'
<1>1. thread' = thread /\ watch' = watch /\ indexed' = indexed /\ line' = line
  BY DEF M!search
<1> QED
  BY <1>1 DEF SearchInv, Counted, Tasks, TasksAt, Answered, M!LineIsHonest, M!Total

LEMMA DrawnKept == ASSUME SearchInv, UNCHANGED M!given PROVE Drawn'
BY DEF SearchInv, Drawn, Tasks, M!given

LEMMA SelectStep ==
    ASSUME SearchInv, M!Select PROVE SearchInv'
<1>1. /\ round = "backtesting" /\ round' = "fitting" /\ model' = winner'
      /\ winner' = M!Selected(kinds \o M!Blend)
      /\ UNCHANGED M!given /\ UNCHANGED M!search /\ usedFallback' = usedFallback /\ sound' = sound
  BY DEF M!Select, M!Results
<1>2. kinds' = kinds /\ short' = short /\ backtest' = backtest /\ blended' = blended
  BY <1>1 DEF M!given
<1>3. Drawn /\ kinds # <<>>
  BY <1>1 DEF SearchInv, Reached
<1>4. PICK w \in 1..Len(kinds \o M!Blend) :
          /\ (kinds \o M!Blend)[w] = winner' /\ winner' \in M!Kind
          /\ \A i \in 1..Len(kinds \o M!Blend) :
                /\ ~M!Better((kinds \o M!Blend)[i], (kinds \o M!Blend)[w])
                /\ i < w => M!Better((kinds \o M!Blend)[w], (kinds \o M!Blend)[i])
  BY <1>1, <1>3, SelectedIsBest
<1>5. M!Blend' = M!Blend /\ \A j, k : M!Better(j, k)' <=> M!Better(j, k)
  BY <1>2 DEF M!Blend, M!Better, M!OutcomeOf
<1>6. M!WinnerIgnoresOrder'
  BY <1>2, <1>4, <1>5 DEF M!WinnerIgnoresOrder
<1>7. Reached' /\ M!BacktestIsOfTheModel'
  BY <1>1, <1>2, <1>4 DEF SearchInv, Reached, M!BacktestIsOfTheModel
<1> QED
  BY <1>1, <1>2, <1>6, <1>7, ThreadsKept, DrawnKept DEF SearchInv

\* What comes after the selection leaves the winner and its reasons alone.
LEMMA AfterStep ==
    ASSUME SearchInv,
           M!BuildRaises \/ M!Fit \/ M!FitRaises \/ M!PredictRaises \/ M!Predict \/ M!Diverges
    PROVE  SearchInv'
<1>1. UNCHANGED M!given /\ UNCHANGED M!search /\ winner' = winner
  BY DEF M!BuildRaises, M!Fit, M!FitRaises, M!PredictRaises, M!Predict, M!Diverges, M!FallBack, M!outcome
<1>2. kinds' = kinds /\ short' = short /\ backtest' = backtest /\ blended' = blended
  BY <1>1 DEF M!given
<1>3. Drawn' /\ Counted' /\ M!LineIsHonest'
  BY <1>1, <1>2, ThreadsKept, DrawnKept
<1>4. M!WinnerIgnoresOrder'
  BY <1>1, <1>2 DEF SearchInv, M!WinnerIgnoresOrder, M!Blend, M!Better, M!OutcomeOf
<1>5. Reached' /\ M!BacktestIsOfTheModel'
  <2>1. /\ round \in {"backtesting", "fitting", "predicting", "over", "failed"}
        /\ model \in M!Kind \cup {M!None} /\ winner \in M!Kind \cup {M!None}
        /\ usedFallback \in BOOLEAN /\ sound \in BOOLEAN /\ Simplest \in M!Kind
        /\ round = "fitting" => model = winner
        /\ round = "predicting" => sound /\ (model = winner \/ (usedFallback /\ model = Simplest))
        /\ round \in {"fitting", "predicting"} /\ model # Simplest => model = winner /\ usedFallback = short
        /\ round = "fitting" => usedFallback = short
    BY DEF SearchInv, Reached, M!Kind
  <2>2. CASE M!Fit
    BY <1>1, <1>2, <2>1, <2>2 DEF M!Fit, Reached, M!BacktestIsOfTheModel
  <2>3. CASE M!FitRaises
    <3>1. /\ usedFallback' = TRUE /\ round' = IF M!Allowed THEN "predicting" ELSE "failed"
          /\ IF M!Allowed THEN model' = Simplest /\ sound' = TRUE ELSE model' = model /\ sound' = sound
      BY <2>3 DEF M!FitRaises, M!FallBack
    <3> QED
      BY <1>1, <1>2, <2>1, <3>1 DEF Reached, M!BacktestIsOfTheModel, M!Allowed
  <2>4. CASE M!Predict
    <3>1. /\ round = "predicting" /\ round' = "over"
          /\ model' = model /\ winner' = winner /\ usedFallback' = usedFallback /\ sound' = sound
      BY <2>4 DEF M!Predict, M!outcome
    <3> QED
      BY <1>2, <2>1, <3>1 DEF Reached, M!BacktestIsOfTheModel
  <2>5. CASE M!Diverges
    <3>1. /\ usedFallback' = TRUE /\ round' = IF M!Allowed THEN "over" ELSE "failed"
          /\ IF M!Allowed THEN model' = Simplest /\ sound' = TRUE ELSE model' = model /\ sound' = sound
      BY <2>5 DEF M!Diverges, M!FallBack
    <3> QED
      BY <1>1, <1>2, <2>1, <3>1 DEF Reached, M!BacktestIsOfTheModel, M!Allowed
  <2>6. CASE M!BuildRaises \/ M!PredictRaises
    <3>1. /\ round' = "failed" /\ model' = model /\ winner' = winner
          /\ usedFallback' = usedFallback /\ sound' = sound
          /\ model = winner /\ usedFallback = short
      BY <2>1, <2>6 DEF M!BuildRaises, M!PredictRaises, M!outcome
    <3> QED
      BY <1>2, <2>1, <3>1 DEF Reached, M!BacktestIsOfTheModel
  <2> QED
    BY <2>2, <2>3, <2>4, <2>5, <2>6
<1> QED
  BY <1>3, <1>4, <1>5 DEF SearchInv

LEMMA StepSearch == SearchInv /\ [M!Next]_(M!vars) => SearchInv'
<1> SUFFICES ASSUME SearchInv, [M!Next]_(M!vars) PROVE SearchInv'
  OBVIOUS
<1>1. M!Task = Tasks
  BY DEF M!Task, M!Total, Tasks
<1>2. ASSUME NEW i \in Tasks, M!Started(i) \/ M!Finished(i) \/ M!Resolved(i) \/ M!Completed(i)
      PROVE  SearchInv'
  <2>1. UNCHANGED M!given /\ UNCHANGED <<round, M!outcome>>
    BY <1>2 DEF M!Started, M!Finished, M!Resolved, M!Completed
  <2>2. Counted' /\ M!LineIsHonest'
    BY <1>2, StartedStep, FinishedStep, ResolvedStep, CompletedStep
  <2> QED
    BY <2>1, <2>2, ChoiceKept DEF SearchInv
<1>3. CASE UNCHANGED M!vars
  <2>1. UNCHANGED M!given /\ UNCHANGED <<round, M!outcome>> /\ UNCHANGED M!search /\ kinds' = kinds
    BY <1>3 DEF M!vars, M!given
  <2> QED
    BY <2>1, ChoiceKept, ThreadsKept DEF SearchInv
<1> QED
  BY <1>1, <1>2, <1>3, SelectStep, AfterStep DEF M!Next

\* Which model is chosen does not depend on the order in which the threads answer, what is returned is
\* what was backtested or says that it is not, and each line on the way is true, for any number of
\* kinds, threads and scores (run_forecast, _InFlight and select_model).
THEOREM SearchAlwaysHonest == MCSpec => []SearchIsHonest
<1> DEFINE Inv == part = "search" => SearchInv
<1>1. MCInit => Inv
  BY InitSearch DEF MCInit
<1>2. Inv /\ [MCNext]_<<part, vars, search, plan, history, tree, advice, range, choice, fan, making>> => Inv'
  <2> SUFFICES ASSUME Inv, [MCNext]_<<part, vars, search, plan, history, tree, advice, range, choice, fan, making>>,
                      part' = "search"
               PROVE  SearchInv'
    OBVIOUS
  <2>1. part = "search" /\ [M!Next]_search
    BY DEF MCNext
  <2>2. [M!Next]_(M!vars)
    BY <2>1 DEF M!vars, M!given, M!search, M!outcome, search
  <2> QED
    BY <2>1, <2>2, StepSearch
<1>3. Inv => SearchIsHonest
  <2> SUFFICES ASSUME SearchInv PROVE M!TypeOK /\ M!SearchIsHonest
    BY DEF SearchIsHonest
  <2>1. M!Range(kinds) \subseteq M!Kind /\ Offered = M!Range(Kinds)
    BY ElementOfSeq DEF SearchInv, Drawn, M!Range, M!Kind, Offered
  <2>2. watch.done \in 0..Len(kinds)
    BY NoneCountedTwice, FewTasks
  <2>3. watch.running \subseteq M!Kind
    <3>1. watch.running = {kinds[i] : i \in TasksAt("running")}
      BY DEF SearchInv, Counted
    <3>2. \A i \in TasksAt("running") : kinds[i] \in Offered
      BY ElementOfSeq DEF SearchInv, Drawn, TasksAt, Tasks
    <3> QED
      BY <3>1, <3>2, <2>1 DEF M!Kind
  <2>4. M!Range(indexed) \subseteq Tasks
    BY ElementOfSeq DEF SearchInv, Counted, M!Range
  <2>5. M!TypeOK
    BY <2>1, <2>2, <2>3, <2>4 DEF SearchInv, Drawn, Counted, Reached, M!TypeOK, M!Task, M!Total, Tasks
  <2> QED
    BY <2>5 DEF SearchInv, M!SearchIsHonest
<1> QED
  BY <1>1, <1>2, <1>3, PTL DEF MCSpec

-----------------------------------------------------------------------------
(* The range around a forecast: what is the k-th of some errors, what a    *)
(* running mean is at least, and so what is built of them.                 *)
LEMMA SizeInBands == \A S : R!Cardinality(S) = Cardinality(S)
BY DEF R!Cardinality, Cardinality, R!IsFiniteSet, IsFiniteSet

\* Among finitely many numbers one is the least, and one the greatest.
LEMMA OneIsLeast ==
    ASSUME NEW D, IsFiniteSet(D), D # {}, NEW f \in [D -> Int]
    PROVE  \E e \in D : \A d \in D : f[e] <= f[d]
<1> DEFINE below(e) == {d \in D : f[d] < f[e]}
           counts == {Cardinality(below(e)) : e \in D}
<1>1. \A e \in D : IsFiniteSet(below(e)) /\ Cardinality(below(e)) \in Nat
  BY FS_Subset, FS_CardinalityType
<1>2. counts \in SUBSET Nat /\ counts # {}
  BY <1>1
<1>3. M!Min(counts) \in counts /\ \A x \in counts : M!Min(counts) <= x
  <2> HIDE DEF counts
  <2> QED BY <1>2, LeastIsReached
<1>4. PICK e \in D : M!Min(counts) = Cardinality(below(e))
  BY <1>3
<1>5. ASSUME NEW d \in D, ~(f[e] <= f[d]) PROVE FALSE
  <2>1. f[d] < f[e] /\ f[d] \in Int /\ f[e] \in Int
    BY <1>5
  <2>2. below(d) \in SUBSET below(e) /\ below(d) # below(e)
    <3>1. \A x \in D : f[x] \in Int
      OBVIOUS
    <3>2. d \in below(e) /\ d \notin below(d)
      BY <2>1
    <3>3. \A x \in D : f[x] < f[d] => f[x] < f[e]
      BY <2>1, <3>1
    <3> QED BY <3>2, <3>3
  <2>3. Cardinality(below(d)) <= Cardinality(below(e)) /\ Cardinality(below(d)) # Cardinality(below(e))
    <3> HIDE DEF below
    <3> QED BY <1>1, <2>2, FS_Subset
  <2>4. Cardinality(below(e)) <= Cardinality(below(d))
    BY <1>3, <1>4
  <2>5. Cardinality(below(d)) \in Nat /\ Cardinality(below(e)) \in Nat BY <1>1
  <2> HIDE DEF below
  <2> QED BY <2>3, <2>4, <2>5
<1> QED BY <1>5

LEMMA OneIsGreatest ==
    ASSUME NEW D, IsFiniteSet(D), D # {}, NEW f \in [D -> Int]
    PROVE  \E e \in D : \A d \in D : f[d] <= f[e]
<1> DEFINE g == [d \in D |-> -f[d]]
<1>1. g \in [D -> Int] /\ \A d \in D : g[d] = -f[d] /\ f[d] \in Int
  OBVIOUS
<1>2. PICK e \in D : \A d \in D : g[e] <= g[d]
  <2> HIDE DEF g
  <2> QED BY <1>1, OneIsLeast
<1>3. \A d \in D : f[d] <= f[e]
  BY <1>1, <1>2
<1> QED BY <1>3

\* So the least and the greatest value are reached.
LEMMA MinOfValues ==
    ASSUME NEW D, IsFiniteSet(D), D # {}, NEW f \in [D -> Int]
    PROVE  LET S == {f[d] : d \in D}
           IN (\E e \in D : R!Min(S) = f[e]) /\ R!Min(S) \in Int /\ \A d \in D : R!Min(S) <= f[d]
<1> DEFINE S == {f[d] : d \in D}
<1>1. PICK e \in D : \A d \in D : f[e] <= f[d]
  BY OneIsLeast
<1>2. f[e] \in S /\ \A x \in S : f[e] <= x
  BY <1>1
<1>3. R!Min(S) \in S /\ \A x \in S : R!Min(S) <= x
  BY <1>2 DEF R!Min
<1> QED BY <1>3

LEMMA MaxOfValues ==
    ASSUME NEW D, IsFiniteSet(D), D # {}, NEW f \in [D -> Int]
    PROVE  LET S == {f[d] : d \in D}
           IN (\E e \in D : R!Max(S) = f[e]) /\ R!Max(S) \in Int /\ \A d \in D : f[d] <= R!Max(S)
<1> DEFINE S == {f[d] : d \in D}
<1>1. PICK e \in D : \A d \in D : f[d] <= f[e]
  BY OneIsGreatest
<1>2. f[e] \in S /\ \A x \in S : f[e] >= x
  BY <1>1
<1>3. R!Max(S) \in S /\ \A x \in S : R!Max(S) >= x
  BY <1>2 DEF R!Max
<1>4. \A d \in D : f[d] \in Int
  OBVIOUS
<1> QED BY <1>3, <1>4

\* The k-th of some errors has at least k that are no greater, and fewer than k that are less.
LEMMA RankIs ==
    ASSUME NEW D, IsFiniteSet(D), NEW f \in [D -> Int], NEW k \in Int, 1 <= k, k <= Cardinality(D)
    PROVE  /\ R!Ranked(f, k) \in Int
           /\ Cardinality({d \in D : f[d] <= R!Ranked(f, k)}) >= k
           /\ Cardinality({d \in D : f[d] < R!Ranked(f, k)}) < k
<1> DEFINE upto(x) == {d \in D : f[d] <= x}
           T == {e \in D : Cardinality(upto(f[e])) >= k}
           v == R!Ranked(f, k)
<1>1. Cardinality(D) \in Nat /\ D # {} /\ \A x : IsFiniteSet(upto(x)) /\ Cardinality(upto(x)) \in Nat
  <2>1. Cardinality(D) \in Nat BY FS_CardinalityType
  <2>2. D # {} BY <2>1, FS_EmptySet
  <2> QED BY <2>1, <2>2, FS_Subset, FS_CardinalityType
<1>2. T # {}
  <2>1. PICK e \in D : \A d \in D : f[d] <= f[e]
    BY <1>1, OneIsGreatest
  <2>2. upto(f[e]) = D BY <2>1
  <2>3. Cardinality(upto(f[e])) >= k BY <1>1, <2>2
  <2> QED BY <2>3
<1>3. T \in SUBSET D /\ IsFiniteSet(T)
  BY FS_Subset
<1> DEFINE g == [e \in T |-> f[e]]
<1>4. g \in [T -> Int] /\ \A e \in T : g[e] = f[e]
  BY <1>3
<1>5. v = R!Min({g[e] : e \in T})
  <2>1. v = R!Min({f[e] : e \in {e \in D : Cardinality({d \in D : f[d] <= f[e]}) >= k}})
    BY SizeInBands DEF R!Ranked
  <2>2. {f[e] : e \in T} = {g[e] : e \in T}
    BY <1>4
  <2> QED BY <2>1, <2>2
<1>6. (\E e \in T : v = g[e]) /\ v \in Int /\ \A e \in T : v <= g[e]
  <2> HIDE DEF T, g, v
  <2> QED BY <1>2, <1>3, <1>4, <1>5, MinOfValues
<1>7. Cardinality(upto(v)) >= k
  <2>1. PICK e \in T : v = f[e] BY <1>4, <1>6
  <2> QED BY <2>1
<1>8. ASSUME ~(Cardinality({d \in D : f[d] < v}) < k) PROVE FALSE
  <2> DEFINE less == {d \in D : f[d] < v}
             h == [d \in less |-> f[d]]
  <2>1. less \in SUBSET D /\ IsFiniteSet(less) /\ Cardinality(less) \in Nat
    BY FS_Subset, FS_CardinalityType
  <2>2. Cardinality(less) >= k BY <1>8, <2>1
  <2>3. less # {} BY <2>1, <2>2, FS_EmptySet
  <2>4. h \in [less -> Int] /\ \A d \in less : h[d] = f[d] /\ f[d] < v /\ f[d] \in Int
    OBVIOUS
  <2>5. PICK e \in less : \A d \in less : h[d] <= h[e]
    <3> HIDE DEF less, h
    <3> QED BY <2>1, <2>3, <2>4, OneIsGreatest
  <2>6. upto(f[e]) = less
    <3>1. f[e] \in Int /\ f[e] < v BY <2>4
    <3>2. \A d \in D : f[d] \in Int OBVIOUS
    <3>3. ASSUME NEW d \in D, f[d] <= f[e] PROVE f[d] < v
      BY <1>6, <3>1, <3>2, <3>3
    <3>4. ASSUME NEW d \in less PROVE f[d] <= f[e]
      BY <2>4, <2>5
    <3> QED BY <3>3, <3>4
  <2>7. e \in T BY <2>1, <2>2, <2>6
  <2>8. v <= f[e] /\ f[e] < v /\ f[e] \in Int BY <1>4, <1>6, <2>4, <2>7
  <2> QED BY <1>6, <2>8
<1> QED BY <1>6, <1>7, <1>8

\* So the bounds are in order, and hold the share they are to hold.
LEMMA BoundsHoldTheirShare ==
    ASSUME NEW D, IsFiniteSet(D), D # {}, NEW f \in [D -> Int], NEW percent \in 1..99
    PROVE  LET b == R!ConformalBounds(f, percent)
           IN /\ b.low \in Int /\ b.high \in Int /\ b.low <= b.high
              /\ 100 * Cardinality({d \in D : b.low <= f[d] /\ f[d] <= b.high}) >= percent * Cardinality(D)
<1> DEFINE n == Cardinality(D)
           a == ((n + 1) * (100 - percent)) \div 200
           z == R!Up((n + 1) * (100 + percent), 200)
           l == R!Greater(a, 1)
           h == R!Lesser(z, n)
           low == R!Ranked(f, l)
           high == R!Ranked(f, h)
           b == R!ConformalBounds(f, percent)
<1>1. n \in Nat /\ n >= 1 /\ DOMAIN f = D
  BY FS_CardinalityType, FS_EmptySet
<1>2. b.low = low /\ b.high = high
  BY <1>1, SizeInBands DEF R!ConformalBounds
<1>3. /\ a \in Int /\ 200 * a <= (n + 1) * (100 - percent)
      /\ z \in Int /\ 200 * z >= (n + 1) * (100 + percent)
  <2> DEFINE x == (n + 1) * (100 - percent)
             y == (n + 1) * (100 + percent)
  <2>1. x \in Int /\ y \in Int BY <1>1
  <2>2. a = x \div 200 /\ z = -((-y) \div 200) BY DEF R!Up
  <2> HIDE DEF x, y, a, z
  <2>3. a \in Int /\ 200 * a <= x BY <2>1, <2>2, SMT
  <2>4. z \in Int /\ 200 * z >= y BY <2>1, <2>2, SMT
  <2> QED BY <2>3, <2>4 DEF x, y
<1>4. /\ l \in Int /\ (l = a \/ l = 1) /\ l >= 1 /\ l >= a
      /\ h \in Int /\ (h = z \/ h = n) /\ h <= n /\ h <= z
  BY <1>1, <1>3 DEF R!Greater, R!Lesser
<1>5. l <= h /\ l <= n /\ h >= 1 /\ 100 * (h - l + 1) >= percent * n
  <2> DEFINE p == percent * n
  <2>1. p \in Int /\ p >= 0 /\ p <= 99 * n
    BY <1>1, SMT
  <2>2. (n + 1) * (100 - percent) = 100 * n + 100 - p - percent
    BY <1>1, SMT
  <2>3. (n + 1) * (100 + percent) = 100 * n + 100 + p + percent
    BY <1>1, SMT
  <2> HIDE DEF p, a, z, l, h, n
  <2>4. 200 * a <= 100 * n + 100 - p - percent /\ 200 * z >= 100 * n + 100 + p + percent
    BY <1>3, <2>2, <2>3
  <2> QED BY <1>1, <1>3, <1>4, <2>1, <2>4, SMT DEF p
<1> DEFINE upto == {d \in D : f[d] <= high}
           less == {d \in D : f[d] < low}
           inside == {d \in D : low <= f[d] /\ f[d] <= high}
<1>6. low \in Int /\ Cardinality(less) < l /\ high \in Int /\ Cardinality(upto) >= h
  <2> HIDE DEF l, h
  <2>1. l <= Cardinality(D) /\ h <= Cardinality(D) BY <1>4, <1>5
  <2>2. low \in Int /\ Cardinality({d \in D : f[d] < low}) < l
    BY <1>4, <2>1, RankIs
  <2>3. high \in Int /\ Cardinality({d \in D : f[d] <= high}) >= h
    BY <1>4, <1>5, <2>1, RankIs
  <2> QED BY <2>2, <2>3
<1>7. /\ IsFiniteSet(upto) /\ IsFiniteSet(less) /\ IsFiniteSet(inside)
      /\ Cardinality(upto) \in Nat /\ Cardinality(less) \in Nat /\ Cardinality(inside) \in Nat
  BY FS_Subset, FS_CardinalityType
<1>8. \A d \in D : f[d] \in Int
  OBVIOUS
<1> HIDE DEF l, h, low, high
<1>9. low <= high
  <2> SUFFICES ASSUME high < low PROVE FALSE
    BY <1>6
  <2>1. upto \in SUBSET less
    <3>1. \A d \in D : f[d] <= high => f[d] < low
      BY <1>6, <1>8
    <3> QED BY <3>1
  <2>2. Cardinality(upto) <= Cardinality(less)
    <3> HIDE DEF upto, less
    <3> QED BY <1>7, <2>1, FS_Subset
  <2> HIDE DEF upto, less
  <2> QED BY <1>4, <1>5, <1>6, <1>7, <2>2, SMT
<1>10. Cardinality(inside) >= h - l + 1
  <2>1. upto \ less = inside
    <3>1. \A d \in D : ~(f[d] < low) <=> low <= f[d]
      BY <1>6, <1>8
    <3> QED BY <3>1
  <2>2. Cardinality(upto \cap less) <= Cardinality(less) /\ Cardinality(upto \cap less) \in Nat
    <3>1. upto \cap less \in SUBSET less OBVIOUS
    <3> HIDE DEF upto, less
    <3> QED BY <1>7, <3>1, FS_Subset, FS_CardinalityType
  <2>3. Cardinality(inside) = Cardinality(upto) - Cardinality(upto \cap less)
    <3> HIDE DEF upto, less, inside
    <3> QED BY <1>7, <2>1, FS_Difference
  <2> HIDE DEF upto, less, inside
  <2> QED BY <1>4, <1>6, <1>7, <2>2, <2>3, SMT
<1>11. 100 * Cardinality(inside) >= percent * n
  <2> DEFINE p == percent * n
  <2>1. p \in Int BY <1>1
  <2> HIDE DEF p, inside
  <2> QED BY <1>4, <1>5, <1>7, <1>10, <2>1, SMT DEF p
<1> QED BY <1>2, <1>6, <1>9, <1>11

\* What holds of the numbers up to m, if it fails at no least one.
LEMMA NoneIsFirst ==
    ASSUME NEW S \in SUBSET Nat, \A m \in S : \E l \in S : l < m
    PROVE  S = {}
<1> SUFFICES ASSUME S # {} PROVE FALSE
  OBVIOUS
<1>1. M!Min(S) \in S /\ \A x \in S : M!Min(S) <= x
  BY LeastIsReached
<1>2. PICK l \in S : l < M!Min(S)
  BY <1>1
<1>3. M!Min(S) <= l /\ l \in Nat /\ M!Min(S) \in Nat
  BY <1>1
<1> QED BY <1>2, <1>3

\* A running sum exists ...
LEMMA SumExists ==
    ASSUME NEW s, NEW j \in Nat \ {0}, NEW k \in Nat
    PROVE  \E g : g = [i \in (j - 1)..k |-> IF i < j THEN 0 ELSE g[i - 1] + s[i]]
<1> DEFINE Adds(g, m) == g = [i \in (j - 1)..m |-> IF i < j THEN 0 ELSE g[i - 1] + s[i]]
           Bad == {m \in Nat : ~ \E g : Adds(g, m)}
<1>1. ASSUME NEW m \in Bad PROVE \E l \in Bad : l < m
  <2>1. m \in Nat BY DEF Bad
  <2>2. ~(m < j)
    <3> SUFFICES ASSUME m < j PROVE FALSE OBVIOUS
    <3> DEFINE g == [i \in (j - 1)..m |-> 0]
    <3>1. \A i \in (j - 1)..m : i < j BY <2>1
    <3>2. Adds(g, m) BY <3>1
    <3> HIDE DEF Adds
    <3> QED BY <3>2
  <2>3. m - 1 \in Nat /\ m - 1 < m BY <2>1, <2>2
  <2>4. ASSUME NEW g, Adds(g, m - 1) PROVE FALSE
    <3> DEFINE e == [i \in (j - 1)..m |-> IF i < m THEN g[i] ELSE g[m - 1] + s[m]]
    <3>1. \A i \in (j - 1)..m : i < m <=> i \in (j - 1)..(m - 1)
      BY <2>1, <2>3
    <3>2. \A i \in (j - 1)..(m - 1) : g[i] = IF i < j THEN 0 ELSE g[i - 1] + s[i]
      BY <2>4
    <3>3. ASSUME NEW i \in (j - 1)..m PROVE e[i] = IF i < j THEN 0 ELSE e[i - 1] + s[i]
      <4>1. CASE i < m
        <5>1. e[i] = g[i] /\ i \in (j - 1)..(m - 1) BY <3>1, <4>1
        <5>2. CASE i < j BY <3>2, <5>1, <5>2
        <5>3. CASE ~(i < j)
          <6>1. i - 1 \in (j - 1)..m /\ i - 1 < m BY <2>1, <4>1, <5>3
          <6>2. e[i - 1] = g[i - 1] BY <6>1
          <6> QED BY <3>2, <5>1, <5>3, <6>2
        <5> QED BY <5>2, <5>3
      <4>2. CASE ~(i < m)
        <5>1. i = m BY <2>1, <4>2
        <5>2. e[i] = g[m - 1] + s[m] BY <5>1
        <5>3. m - 1 \in (j - 1)..m /\ m - 1 < m BY <2>1, <2>2
        <5>4. e[m - 1] = g[m - 1] BY <5>3
        <5> QED BY <2>2, <5>1, <5>2, <5>4
      <4> QED BY <4>1, <4>2
    <3>4. Adds(e, m)
      BY <3>3
    <3> HIDE DEF Adds
    <3> QED BY <3>4
  <2>5. m - 1 \in Bad
    <3> HIDE DEF Adds
    <3> QED BY <2>3, <2>4
  <2> QED BY <2>3, <2>5
<1>2. Bad = {}
  <2> HIDE DEF Bad
  <2>1. Bad \in SUBSET Nat BY DEF Bad
  <2> QED BY <1>1, <2>1, NoneIsFirst
<1>3. \E g : Adds(g, k)
  <2> HIDE DEF Adds
  <2> QED BY <1>2
<1> QED BY <1>3

\* ... so there is a mean, and it is at least c where every value is.
LEMMA MeanIs ==
    ASSUME NEW s, NEW j \in Nat \ {0}, NEW k \in Nat, j <= k, \A i \in j..k : s[i] \in Int
    PROVE  /\ R!Mean(s, j, k) \in Int
           /\ \A c \in Int : (\A i \in j..k : c <= s[i]) => c <= R!Mean(s, j, k)
<1> DEFINE Adds(g) == g = [i \in (j - 1)..k |-> IF i < j THEN 0 ELSE g[i - 1] + s[i]]
           sum == CHOOSE g : Adds(g)
<1>1. R!Mean(s, j, k) = sum[k] \div (k - j + 1)
  BY DEF R!Mean
<1>2. \E g : Adds(g)
  BY SumExists
<1>3. Adds(sum)
  <2> HIDE DEF Adds
  <2> QED BY <1>2
<1>4. \A i \in (j - 1)..k : sum[i] = IF i < j THEN 0 ELSE sum[i - 1] + s[i]
  <2>1. sum = [i \in (j - 1)..k |-> IF i < j THEN 0 ELSE sum[i - 1] + s[i]] BY <1>3
  <2> HIDE DEF sum
  <2> QED BY <2>1
<1> HIDE DEF Adds, sum
<1>5. ASSUME NEW c \in Int, NEW limited \in BOOLEAN, limited => \A i \in j..k : c <= s[i]
      PROVE  \A i \in (j - 1)..k : sum[i] \in Int /\ (limited => c * (i - j + 1) <= sum[i])
  <2> DEFINE Fine(i) == sum[i] \in Int /\ (limited => c * (i - j + 1) <= sum[i])
             Bad == {i \in (j - 1)..k : ~Fine(i)}
  <2>1. ASSUME NEW i \in Bad PROVE \E l \in Bad : l < i
    <3>1. i \in (j - 1)..k /\ i \in Int BY DEF Bad
    <3>2. ~(i < j)
      <4> SUFFICES ASSUME i < j PROVE FALSE OBVIOUS
      <4>1. sum[i] = 0 /\ i - j + 1 = 0 BY <1>4, <3>1
      <4>2. c * (i - j + 1) = 0 BY <4>1
      <4> QED BY <4>1, <4>2
    <3>3. i - 1 \in (j - 1)..k /\ i - 1 < i /\ i \in j..k BY <3>1, <3>2
    <3>4. sum[i] = sum[i - 1] + s[i] /\ s[i] \in Int BY <1>4, <3>1, <3>2, <3>3
    <3>5. ASSUME Fine(i - 1) PROVE FALSE
      <4>1. sum[i - 1] \in Int /\ sum[i] \in Int BY <3>4, <3>5
      <4>2. ASSUME limited PROVE c * (i - j + 1) <= sum[i]
        <5>1. c <= s[i] /\ c * ((i - 1) - j + 1) <= sum[i - 1] BY <1>5, <3>3, <3>5, <4>2
        <5> DEFINE w == (i - 1) - j + 1
        <5>2. i - j + 1 = w + 1 /\ w \in Int BY <3>1
        <5>3. c * (w + 1) = c * w + c /\ c * w \in Int BY <5>2
        <5> HIDE DEF w
        <5>4. c * w <= sum[i - 1] BY <5>1 DEF w
        <5>5. c * w + c <= sum[i - 1] + s[i] BY <3>4, <4>1, <5>1, <5>3, <5>4
        <5> QED BY <3>4, <5>2, <5>3, <5>5
      <4> QED BY <4>1, <4>2
    <3>6. i - 1 \in Bad BY <3>3, <3>5
    <3> QED BY <3>3, <3>6
  <2>2. Bad = {}
    <3> HIDE DEF Fine
    <3>1. Bad \in SUBSET Nat BY DEF Bad
    <3> HIDE DEF Bad
    <3> QED BY <2>1, <3>1, NoneIsFirst
  <2> QED BY <2>2
<1>6. k \in (j - 1)..k /\ k - j + 1 \in Nat /\ k - j + 1 >= 1
  OBVIOUS
<1>7. sum[k] \in Int
  <2>1. 0 \in Int /\ FALSE \in BOOLEAN /\ (FALSE => \A i \in j..k : 0 <= s[i])
    OBVIOUS
  <2>2. \A i \in (j - 1)..k : sum[i] \in Int
    BY <1>5, <2>1
  <2> QED BY <1>6, <2>2
<1>8. R!Mean(s, j, k) \in Int
  BY <1>1, <1>6, <1>7
<1>9. ASSUME NEW c \in Int, \A i \in j..k : c <= s[i] PROVE c <= R!Mean(s, j, k)
  <2> DEFINE m == k - j + 1
             x == sum[k]
             q == x \div m
  <2>1. c * m <= x
    <3>1. TRUE => \A i \in j..k : c <= s[i] BY <1>9
    <3>2. TRUE => c * (k - j + 1) <= sum[k] BY <1>5, <1>6, <3>1
    <3> QED BY <3>2
  <2>2. m \in Nat /\ m >= 1 /\ x \in Int BY <1>6, <1>7
  <2> HIDE DEF m, x
  <2>3. q \in Int /\ x < m * q + m
    BY <2>2
  <2>4. m * q + m = m * (q + 1) BY <2>2, <2>3
  <2> HIDE DEF q
  <2>5. c < q + 1
    <3> SUFFICES ASSUME q + 1 <= c PROVE FALSE BY <2>3
    <3>1. m * (q + 1) <= m * c BY <2>2, <2>3
    <3>2. m * c = c * m BY <2>2
    <3> QED BY <2>1, <2>2, <2>3, <2>4, <3>1, <3>2
  <2>6. c <= q BY <2>3, <2>5
  <2> QED BY <1>1, <2>6 DEF m, x, q
<1> QED BY <1>8, <1>9

\* What rises is at least what every later value is, and never falls.
LEMMA RisingRises ==
    ASSUME NEW n \in Nat, NEW s \in [1..n -> Int]
    PROVE  /\ R!Rising(s) \in [1..n -> Int]
           /\ \A i \in 1..n : \A t \in 1..i : R!Rising(s)[t] <= R!Rising(s)[i]
           /\ \A i \in 1..n, c \in Int : (\A u \in i..n : c <= s[u]) => c <= R!Rising(s)[i]
<1> DEFINE least(i, j) == R!Min({R!Mean(s, j, k) : k \in i..n})
           rise(i) == R!Max({least(i, j) : j \in 1..i})
<1>1. s \in Seq(Int) /\ Len(s) = n /\ DOMAIN s = 1..n
  OBVIOUS
<1>2. R!Rising(s) = [i \in 1..n |-> rise(i)]
  BY <1>1 DEF R!Rising
<1>3. \A j \in 1..n : \A k \in j..n :
         R!Mean(s, j, k) \in Int /\ \A c \in Int : (\A u \in j..k : c <= s[u]) => c <= R!Mean(s, j, k)
  <2> TAKE j \in 1..n
  <2> TAKE k \in j..n
  <2>1. j \in Nat \ {0} /\ k \in Nat /\ j <= k /\ \A i \in j..k : i \in 1..n
    OBVIOUS
  <2>2. \A i \in j..k : s[i] \in Int BY <2>1
  <2> QED BY <2>1, <2>2, MeanIs
<1>4. \A i \in 1..n : \A j \in 1..i :
         /\ least(i, j) \in Int
         /\ \E k \in i..n : least(i, j) = R!Mean(s, j, k)
         /\ \A k \in i..n : least(i, j) <= R!Mean(s, j, k)
  <2> TAKE i \in 1..n
  <2> TAKE j \in 1..i
  <2> DEFINE g == [k \in i..n |-> R!Mean(s, j, k)]
  <2>1. j \in 1..n /\ \A k \in i..n : k \in j..n OBVIOUS
  <2>2. g \in [i..n -> Int] /\ \A k \in i..n : g[k] = R!Mean(s, j, k) BY <1>3, <2>1
  <2>3. IsFiniteSet(i..n) /\ i..n # {}
    <3>1. i \in Int /\ n \in Int /\ i \in i..n OBVIOUS
    <3> QED BY <3>1, FS_Interval
  <2>4. least(i, j) = R!Min({g[k] : k \in i..n})
    <3>1. {g[k] : k \in i..n} = {R!Mean(s, j, k) : k \in i..n} BY <2>2
    <3> QED BY <3>1
  <2> HIDE DEF g, least
  <2>5. /\ \E k \in i..n : least(i, j) = g[k]
        /\ least(i, j) \in Int /\ \A k \in i..n : least(i, j) <= g[k]
    <3> DEFINE D == i..n
    <3>1. IsFiniteSet(D) /\ D # {} /\ g \in [D -> Int] BY <2>2, <2>3
    <3>2. least(i, j) = R!Min({g[k] : k \in D}) BY <2>4
    <3> HIDE DEF D
    <3> DEFINE x == R!Min({g[k] : k \in D})
    <3>4. (\E k \in D : x = g[k]) /\ x \in Int /\ \A k \in D : x <= g[k]
      BY <3>1, MinOfValues
    <3> HIDE DEF x
    <3>3. /\ \E k \in D : least(i, j) = g[k]
          /\ least(i, j) \in Int /\ \A k \in D : least(i, j) <= g[k]
      <4>1. least(i, j) = x BY <3>2 DEF x
      <4> QED BY <3>4, <4>1
    <3> QED BY <3>3 DEF D
  <2> QED BY <2>2, <2>5
<1> HIDE DEF least
<1>5. \A i \in 1..n :
         /\ rise(i) \in Int
         /\ \E j \in 1..i : rise(i) = least(i, j)
         /\ \A j \in 1..i : least(i, j) <= rise(i)
  <2> TAKE i \in 1..n
  <2> DEFINE g == [j \in 1..i |-> least(i, j)]
  <2>1. g \in [1..i -> Int] /\ \A j \in 1..i : g[j] = least(i, j) BY <1>4
  <2>2. IsFiniteSet(1..i) /\ 1..i # {}
    <3>1. i \in Int /\ 1 \in Int /\ i \in 1..i OBVIOUS
    <3> QED BY <3>1, FS_Interval
  <2>3. rise(i) = R!Max({g[j] : j \in 1..i})
    <3>1. {g[j] : j \in 1..i} = {least(i, j) : j \in 1..i} BY <2>1
    <3> QED BY <3>1
  <2> HIDE DEF g, rise
  <2>4. /\ \E j \in 1..i : rise(i) = g[j]
        /\ rise(i) \in Int /\ \A j \in 1..i : g[j] <= rise(i)
    <3> DEFINE D == 1..i
    <3>1. IsFiniteSet(D) /\ D # {} /\ g \in [D -> Int] BY <2>1, <2>2
    <3>2. rise(i) = R!Max({g[j] : j \in D}) BY <2>3
    <3> HIDE DEF D
    <3> DEFINE x == R!Max({g[j] : j \in D})
    <3>4. (\E j \in D : x = g[j]) /\ x \in Int /\ \A j \in D : g[j] <= x
      BY <3>1, MaxOfValues
    <3> HIDE DEF x
    <3>3. /\ \E j \in D : rise(i) = g[j]
          /\ rise(i) \in Int /\ \A j \in D : g[j] <= rise(i)
      <4>1. rise(i) = x BY <3>2 DEF x
      <4> QED BY <3>4, <4>1
    <3> QED BY <3>3 DEF D
  <2> QED BY <2>1, <2>4
<1> HIDE DEF rise
<1>6. ASSUME NEW i \in 1..n, NEW t \in 1..i PROVE rise(t) <= rise(i)
  <2>1. t \in 1..n /\ i \in Int /\ t \in Int /\ t <= i OBVIOUS
  <2>2. PICK j \in 1..t : rise(t) = least(t, j) BY <1>5, <2>1
  <2>3. j \in 1..i BY <2>1
  <2>4. PICK k \in i..n : least(i, j) = R!Mean(s, j, k) BY <1>4, <2>3
  <2>5. k \in t..n BY <2>1
  <2>6. least(t, j) <= R!Mean(s, j, k) /\ least(t, j) \in Int BY <1>4, <2>1, <2>5
  <2>7. least(i, j) <= rise(i) /\ rise(i) \in Int /\ least(i, j) \in Int BY <1>4, <1>5, <2>3
  <2> QED BY <2>2, <2>4, <2>6, <2>7
<1>7. ASSUME NEW i \in 1..n, NEW c \in Int, \A u \in i..n : c <= s[u] PROVE c <= rise(i)
  <2>1. i \in 1..i /\ i \in Int OBVIOUS
  <2>2. PICK k \in i..n : least(i, i) = R!Mean(s, i, k) BY <1>4, <2>1
  <2>3. \A u \in i..k : c <= s[u]
    <3>1. \A u \in i..k : u \in i..n OBVIOUS
    <3> QED BY <1>7, <3>1
  <2>4. c <= R!Mean(s, i, k) BY <1>3, <2>3
  <2>5. least(i, i) <= rise(i) /\ rise(i) \in Int /\ least(i, i) \in Int BY <1>4, <1>5, <2>1
  <2> QED BY <2>2, <2>4, <2>5
<1>8. \A i \in 1..n : R!Rising(s)[i] = rise(i) /\ rise(i) \in Int
  BY <1>2, <1>5
<1>9. R!Rising(s) \in [1..n -> Int]
  BY <1>2, <1>5
<1>10. \A i \in 1..n : \A t \in 1..i : R!Rising(s)[t] <= R!Rising(s)[i]
  BY <1>6, <1>8
<1>11. \A i \in 1..n, c \in Int : (\A u \in i..n : c <= s[u]) => c <= R!Rising(s)[i]
  BY <1>7, <1>8
<1> QED BY <1>9, <1>10, <1>11

\* What a range is made from.
RangeGiven ==
    /\ point \in Seq(Int) /\ buckets \in [R!Steps -> Seq(Int)]
    /\ positive \in BOOLEAN /\ level \in 1..99
    /\ \A g \in Growths : g \in [R!Steps -> Nat \ {0, 1}]

\* Bounds to either side of the forecast that do not draw in.
Fair(o) ==
    /\ o.low \in [R!Steps -> Int] /\ o.high \in [R!Steps -> Int]
    /\ \A t \in R!Steps : o.low[t] <= 0 /\ 0 <= o.high[t]
    /\ \A t \in R!Steps : \A u \in 1..t : o.low[t] <= o.low[u] /\ o.high[u] <= o.high[t]

\* Bounds that hold what a step with errors enough of its own asks for.
Wide(o, percent) ==
    LET own(u) == R!Sided(R!ConformalBounds(buckets[u], percent))
    IN \A t \in R!Steps :
          (\A u \in t..Len(point) : Len(buckets[u]) >= R!Few /\ own(u).low <= own(t).low /\ own(t).high <= own(u).high)
          => o.low[t] <= own(t).low /\ own(t).high <= o.high[t]

\* The steps are numbered, and each has its errors.
LEMMA StepsAre ==
    ASSUME RangeGiven
    PROVE  /\ Len(point) \in Nat /\ R!Steps = 1..Len(point)
           /\ \A t \in R!Steps : /\ point[t] \in Int /\ buckets[t] \in Seq(Int) /\ Len(buckets[t]) \in Nat
                                 /\ DOMAIN buckets[t] = 1..Len(buckets[t])
                                 /\ buckets[t] \in [1..Len(buckets[t]) -> Int]
BY DEF RangeGiven, R!Steps

\* There are finitely many errors, and each is a number however its step has grown.
LEMMA ErrorsAreFew ==
    ASSUME RangeGiven
    PROVE  /\ IsFiniteSet(R!Errors)
           /\ \A g \in Growths : R!Unit(g) \in [R!Errors -> Int]
<1>1. /\ Len(point) \in Nat /\ R!Steps = 1..Len(point)
      /\ \A t \in R!Steps : /\ buckets[t] \in Seq(Int) /\ Len(buckets[t]) \in Nat
                            /\ DOMAIN buckets[t] = 1..Len(buckets[t])
  BY StepsAre
<1>2. R!Errors = UNION {{t} \X DOMAIN buckets[t] : t \in R!Steps}
  BY DEF R!Errors
<1>3. IsFiniteSet(R!Errors)
  <2>1. CASE R!Steps = {}
    <3>1. R!Errors = {} BY <1>2, <2>1
    <3> QED BY <3>1, FS_EmptySet
  <2>2. CASE R!Steps # {}
    <3> DEFINE f == [t \in R!Steps |-> Len(buckets[t])]
               D == R!Steps
    <3>1. f \in [D -> Int] /\ \A t \in D : f[t] = Len(buckets[t]) BY <1>1
    <3>2. IsFiniteSet(D) /\ D # {} BY <1>1, <2>2, FS_Interval
    <3>3. PICK e \in D : \A d \in D : f[d] <= f[e]
      <4> HIDE DEF f, D
      <4> QED BY <3>1, <3>2, OneIsGreatest
    <3>4. Len(buckets[e]) \in Nat /\ IsFiniteSet(1..Len(buckets[e]))
      <4>1. Len(buckets[e]) \in Nat BY <1>1
      <4> QED BY <4>1, FS_Interval
    <3>5. IsFiniteSet(D \X (1..Len(buckets[e])))
      <4> HIDE DEF D
      <4> QED BY <3>2, <3>4, FS_Product
    <3>6. \A t \in D : 1..Len(buckets[t]) \subseteq 1..Len(buckets[e])
      <4> TAKE t \in D
      <4>1. Len(buckets[t]) <= Len(buckets[e]) /\ Len(buckets[t]) \in Nat BY <1>1, <3>1, <3>3
      <4> QED BY <3>4, <4>1
    <3>7. R!Errors \in SUBSET (D \X (1..Len(buckets[e]))) BY <1>1, <1>2, <3>6
    <3> QED BY <3>5, <3>7, FS_Subset
  <2> QED BY <2>1, <2>2
<1>4. ASSUME NEW g \in Growths PROVE R!Unit(g) \in [R!Errors -> Int]
  <2>1. ASSUME NEW e \in R!Errors PROVE (2 * buckets[e[1]][e[2]]) \div g[e[1]] \in Int
    <3>1. PICK t \in R!Steps : e \in {t} \X DOMAIN buckets[t] BY <1>2, <2>1
    <3>2. e[1] = t /\ e[2] \in DOMAIN buckets[t] BY <3>1
    <3>3. buckets[t][e[2]] \in Int BY <1>1, <3>2
    <3>4. g[t] \in Nat \ {0, 1} BY DEF RangeGiven
    <3>5. 2 * buckets[t][e[2]] \in Int BY <3>3
    <3> QED BY <3>2, <3>4, <3>5
  <2> QED BY <2>1 DEF R!Unit
<1> QED BY <1>3, <1>4

\* A side of the range has its share, and no less than its bound.
LEMMA SidedIsFair ==
    ASSUME NEW b, b.low \in Int, b.high \in Int, b.low <= b.high
    PROVE  LET s == R!Sided(b)
           IN /\ s.low \in Int /\ s.high \in Int /\ s.low <= 0 /\ 0 <= s.high
              /\ s.low <= b.low /\ b.high <= s.high
<1> DEFINE side == (b.high - b.low) \div 10
<1>1. side \in Int /\ side >= 0
  <2>1. b.high - b.low \in Int /\ b.high - b.low >= 0 OBVIOUS
  <2> QED BY <2>1
<1>2. R!Sided(b).low = R!Lesser(b.low, -side) /\ R!Sided(b).high = R!Greater(b.high, side)
  BY DEF R!Sided
<1> HIDE DEF side
<1> QED BY <1>1, <1>2 DEF R!Lesser, R!Greater

\* The bounds made of errors are fair, and wide enough.
LEMMA ErrorsMakeFairBounds ==
    ASSUME RangeGiven, NEW growth \in Growths, NEW percent \in 1..99,
           R!QuantileOffsets(growth, percent) # NoValue
    PROVE  /\ Fair(R!QuantileOffsets(growth, percent))
           /\ Wide(R!QuantileOffsets(growth, percent), percent)
<1> DEFINE n == Len(point)
           Own(t) == R!ConformalBounds(buckets[t], percent)
           pooled == R!ConformalBounds(R!Unit(growth), percent)
           At(t) == IF Len(buckets[t]) >= R!Few THEN Own(t)
                    ELSE [low |-> (pooled.low * growth[t]) \div 2, high |-> (pooled.high * growth[t]) \div 2]
           low == [t \in R!Steps |-> R!Sided(At(t)).low]
           high == [t \in R!Steps |-> R!Sided(At(t)).high]
           o == R!QuantileOffsets(growth, percent)
<1>1. /\ n \in Nat /\ R!Steps = 1..n
      /\ \A t \in R!Steps : /\ Len(buckets[t]) \in Nat
                            /\ buckets[t] \in [1..Len(buckets[t]) -> Int]
  BY StepsAre
<1>2. /\ ~(R!Cardinality(R!Errors) < R!Few)
      /\ o = [low |-> R!Negated(R!Rising(R!Negated(low))), high |-> R!Rising(high)]
  BY DEF R!QuantileOffsets
<1>3. IsFiniteSet(R!Errors) /\ R!Unit(growth) \in [R!Errors -> Int]
  BY ErrorsAreFew
<1>4. R!Errors # {}
  BY <1>2, <1>3, SizeInBands, FS_EmptySet DEF R!Few
<1>5. pooled.low \in Int /\ pooled.high \in Int /\ pooled.low <= pooled.high
  BY <1>3, <1>4, BoundsHoldTheirShare
<1>6. \A t \in R!Steps : Len(buckets[t]) >= R!Few =>
         Own(t).low \in Int /\ Own(t).high \in Int /\ Own(t).low <= Own(t).high
  <2> SUFFICES ASSUME NEW t \in R!Steps, Len(buckets[t]) >= R!Few
               PROVE  Own(t).low \in Int /\ Own(t).high \in Int /\ Own(t).low <= Own(t).high
    OBVIOUS
  <2> DEFINE D == 1..Len(buckets[t])
             f == buckets[t]
  <2>1. Len(buckets[t]) \in Nat /\ 1 \in D BY <1>1 DEF R!Few
  <2>2. IsFiniteSet(D) /\ D # {} /\ f \in [D -> Int]
    <3>1. IsFiniteSet(D) BY <2>1, FS_Interval
    <3> QED BY <1>1, <2>1, <3>1
  <2> HIDE DEF D, f
  <2>3. /\ R!ConformalBounds(f, percent).low \in Int /\ R!ConformalBounds(f, percent).high \in Int
        /\ R!ConformalBounds(f, percent).low <= R!ConformalBounds(f, percent).high
    BY <2>2, BoundsHoldTheirShare
  <2> QED BY <2>3 DEF f
<1> HIDE DEF pooled, Own
<1>7. \A t \in R!Steps : At(t).low \in Int /\ At(t).high \in Int /\ At(t).low <= At(t).high
  <2> TAKE t \in R!Steps
  <2>1. CASE Len(buckets[t]) >= R!Few BY <1>6, <2>1
  <2>2. CASE ~(Len(buckets[t]) >= R!Few)
    <3> DEFINE g == growth[t]
               x == pooled.low * g
               y == pooled.high * g
    <3>1. g \in Nat BY DEF RangeGiven
    <3>2. x \in Int /\ y \in Int /\ x <= y
      <4> HIDE DEF g
      <4> QED BY <1>5, <3>1
    <3>3. At(t) = [low |-> x \div 2, high |-> y \div 2] BY <2>2
    <3>4. At(t).low = x \div 2 /\ At(t).high = y \div 2 BY <3>3
    <3> HIDE DEF x, y, At
    <3>5. x \div 2 \in Int /\ y \div 2 \in Int /\ x \div 2 <= y \div 2 BY <3>2
    <3> QED BY <3>4, <3>5
  <2> QED BY <2>1, <2>2
<1>8. \A t \in R!Steps : Len(buckets[t]) >= R!Few => At(t) = Own(t)
  OBVIOUS
<1> HIDE DEF At
<1>9. \A t \in R!Steps : /\ R!Sided(At(t)).low \in Int /\ R!Sided(At(t)).high \in Int
                         /\ R!Sided(At(t)).low <= 0 /\ 0 <= R!Sided(At(t)).high
  BY <1>7, SidedIsFair
<1> DEFINE down == R!Negated(low)
<1>10. /\ low \in [1..n -> Int] /\ high \in [1..n -> Int] /\ down \in [1..n -> Int]
       /\ \A t \in 1..n : /\ low[t] = R!Sided(At(t)).low /\ high[t] = R!Sided(At(t)).high /\ down[t] = -low[t]
                          /\ low[t] \in Int /\ low[t] <= 0 /\ high[t] \in Int /\ 0 <= high[t]
                          /\ 0 <= down[t] /\ down[t] \in Int
  <2>1. low \in [1..n -> Int] /\ high \in [1..n -> Int] BY <1>1, <1>9
  <2>2. \A t \in 1..n : /\ low[t] = R!Sided(At(t)).low /\ high[t] = R!Sided(At(t)).high
                        /\ low[t] \in Int /\ low[t] <= 0 /\ high[t] \in Int /\ 0 <= high[t]
    BY <1>1, <1>9
  <2> HIDE DEF low, high
  <2>3. down = [t \in 1..n |-> -low[t]] BY <2>1 DEF R!Negated
  <2> QED BY <2>1, <2>2, <2>3
<1> HIDE DEF low, high, down
<1> DEFINE up == R!Rising(high)
           fall == R!Rising(down)
<1>11. /\ up \in [1..n -> Int]
       /\ \A i \in 1..n : \A t \in 1..i : up[t] <= up[i]
       /\ \A i \in 1..n, c \in Int : (\A u \in i..n : c <= high[u]) => c <= up[i]
  <2> HIDE DEF n
  <2> QED BY <1>1, <1>10, RisingRises
<1>12. /\ fall \in [1..n -> Int]
       /\ \A i \in 1..n : \A t \in 1..i : fall[t] <= fall[i]
       /\ \A i \in 1..n, c \in Int : (\A u \in i..n : c <= down[u]) => c <= fall[i]
  <2> HIDE DEF n
  <2> QED BY <1>1, <1>10, RisingRises
<1>13. o.high = up /\ o.low = R!Negated(fall)
  BY <1>2 DEF down
<1> HIDE DEF up, fall, o
<1>14. o.low = [t \in 1..n |-> -fall[t]]
  BY <1>12, <1>13 DEF R!Negated
<1>15. o.low \in [1..n -> Int] /\ \A t \in 1..n : o.low[t] = -fall[t] /\ fall[t] \in Int /\ up[t] \in Int
  <2>1. \A t \in 1..n : fall[t] \in Int /\ up[t] \in Int BY <1>11, <1>12
  <2>2. \A t \in 1..n : o.low[t] = -fall[t] BY <1>14
  <2>3. o.low \in [1..n -> Int] BY <1>14, <2>1
  <2> QED BY <2>1, <2>2, <2>3
<1>16. \A t \in 1..n : 0 <= up[t] /\ 0 <= fall[t]
  <2> TAKE t \in 1..n
  <2>1. \A u \in t..n : u \in 1..n BY <1>1
  <2>2. \A u \in t..n : 0 <= high[u] /\ 0 <= down[u] BY <1>10, <2>1
  <2> QED BY <1>11, <1>12, <2>2
<1>17. Fair(o)
  <2>1. \A t \in 1..n : o.low[t] <= 0 /\ 0 <= o.high[t] BY <1>13, <1>15, <1>16
  <2>2. ASSUME NEW t \in 1..n, NEW u \in 1..t PROVE o.low[t] <= o.low[u] /\ o.high[u] <= o.high[t]
    <3>1. u \in 1..n BY <1>1
    <3>2. up[u] <= up[t] /\ fall[u] <= fall[t] BY <1>11, <1>12
    <3> QED BY <1>13, <1>15, <3>1, <3>2
  <2> QED BY <1>1, <1>11, <1>13, <1>15, <2>1, <2>2 DEF Fair
<1>18. Wide(o, percent)
  <2> DEFINE own(u) == R!Sided(Own(u))
  <2> SUFFICES ASSUME NEW t \in 1..n,
                      \A u \in t..n : Len(buckets[u]) >= R!Few /\ own(u).low <= own(t).low /\ own(t).high <= own(u).high
               PROVE  o.low[t] <= own(t).low /\ own(t).high <= o.high[t]
    BY <1>1 DEF Wide, Own
  <2>1. \A u \in t..n : u \in 1..n /\ own(u).low = low[u] /\ own(u).high = high[u]
    <3> TAKE u \in t..n
    <3>1. u \in 1..n BY <1>1
    <3>2. At(u) = Own(u) BY <1>1, <1>8, <3>1
    <3> QED BY <1>10, <3>1, <3>2
  <2>2. t \in t..n BY <1>1
  <2>3. \A u \in t..n : high[t] <= high[u] BY <2>1, <2>2
  <2>4. \A u \in t..n : down[t] <= down[u]
    <3> TAKE u \in t..n
    <3>1. low[u] <= low[t] BY <2>1, <2>2
    <3> QED BY <1>10, <2>1, <3>1
  <2>5. high[t] <= up[t] /\ down[t] <= fall[t] BY <1>10, <1>11, <1>12, <2>3, <2>4
  <2> HIDE DEF own
  <2> QED BY <1>10, <1>13, <1>15, <2>1, <2>2, <2>5
<1> QED BY <1>17, <1>18 DEF o

\* So are those of so many deviations.
LEMMA DeviationsMakeFairBounds ==
    ASSUME RangeGiven, NEW sigmas \in R!Sigmas, NEW quantile \in {1, 2}
    PROVE  Fair(R!SigmaOffsets(sigmas, quantile))
<1> DEFINE n == Len(point)
           o == R!SigmaOffsets(sigmas, quantile)
<1>1. n \in Nat /\ R!Steps = 1..n
  BY StepsAre
<1>2. Spreads \subseteq Nat
  BY BandsAssumption
<1>3. PICK raw \in [R!Steps -> Spreads], move \in {0, R!Min(Spreads)} :
         sigmas = [t \in R!Steps |-> R!Greater(R!Rising(raw)[t], move * t)]
  BY DEF R!Sigmas
<1>4. raw \in [1..n -> Int] /\ \A t \in 1..n : raw[t] \in Spreads /\ 0 <= raw[t]
  <2>1. raw \in [1..n -> Spreads] BY <1>1, <1>3
  <2> HIDE DEF n
  <2>2. \A t \in 1..n : raw[t] \in Spreads BY <2>1
  <2>3. \A t \in 1..n : raw[t] \in Nat BY <1>2, <2>2
  <2>4. raw \in [1..n -> Int] BY <2>1, <2>3
  <2> QED BY <2>2, <2>3, <2>4
<1> DEFINE up == R!Rising(raw)
<1>5. /\ up \in [1..n -> Int]
      /\ \A i \in 1..n : \A t \in 1..i : up[t] <= up[i]
      /\ \A i \in 1..n, c \in Int : (\A u \in i..n : c <= raw[u]) => c <= up[i]
  <2> HIDE DEF n
  <2> QED BY <1>1, <1>4, RisingRises
<1>6. \A t \in 1..n : sigmas[t] = R!Greater(up[t], move * t)
  BY <1>1, <1>3
<1> HIDE DEF up
<1>7. ASSUME NEW t \in 1..n PROVE move \in Nat
  <2>1. Spreads # {} BY <1>4
  <2>2. M!Min(Spreads) \in Spreads /\ R!Min(Spreads) = M!Min(Spreads)
    BY <1>2, <2>1, LeastIsReached DEF R!Min, M!Min
  <2>3. R!Min(Spreads) \in Nat BY <1>2, <2>2
  <2> QED BY <1>3, <2>3
<1>8. \A t \in 1..n : up[t] \in Int /\ 0 <= up[t]
  <2> TAKE t \in 1..n
  <2>1. \A u \in t..n : u \in 1..n BY <1>1
  <2>2. \A u \in t..n : 0 <= raw[u] BY <1>4, <2>1
  <2> QED BY <1>5, <2>2
<1>9. \A t \in 1..n : sigmas[t] \in Int /\ 0 <= sigmas[t]
  <2> TAKE t \in 1..n
  <2>1. move \in Nat /\ t \in Nat BY <1>1, <1>7
  <2>2. move * t \in Int BY <2>1
  <2> HIDE DEF n
  <2> QED BY <1>6, <1>8, <2>2 DEF R!Greater
<1>10. \A t \in 1..n : \A u \in 1..t : u \in 1..n /\ sigmas[u] <= sigmas[t]
  <2> TAKE t \in 1..n
  <2> TAKE u \in 1..t
  <2>1. move \in Nat /\ t \in Nat /\ u \in Nat /\ u <= t /\ u \in 1..n BY <1>1, <1>7
  <2>2. move * u \in Int /\ move * t \in Int /\ move * u <= move * t BY <2>1
  <2>3. up[u] <= up[t] /\ up[u] \in Int /\ up[t] \in Int BY <1>5, <1>8, <2>1
  <2>4. sigmas[u] = R!Greater(up[u], move * u) /\ sigmas[t] = R!Greater(up[t], move * t) BY <1>6, <2>1
  <2> DEFINE x == move * u
             y == move * t
  <2> HIDE DEF n, x, y
  <2>5. R!Greater(up[u], x) <= R!Greater(up[t], y) BY <2>2, <2>3 DEF R!Greater, x, y
  <2> QED BY <2>1, <2>4, <2>5 DEF x, y
<1>11. /\ o.low = [t \in 1..n |-> -quantile * sigmas[t]] /\ o.high = [t \in 1..n |-> quantile * sigmas[t]]
  BY <1>1 DEF R!SigmaOffsets
<1> HIDE DEF o
<1>12. \A t \in 1..n : o.low[t] = -quantile * sigmas[t] /\ o.high[t] = quantile * sigmas[t]
  BY <1>11
<1>13. ASSUME NEW t \in 1..n
       PROVE  o.low[t] \in Int /\ o.high[t] \in Int /\ o.low[t] <= 0 /\ 0 <= o.high[t]
  <2>1. sigmas[t] \in Int /\ 0 <= sigmas[t] BY <1>9
  <2>2. CASE quantile = 1
    <3>1. o.low[t] = -1 * sigmas[t] /\ o.high[t] = 1 * sigmas[t] BY <1>12, <2>2
    <3> QED BY <2>1, <3>1
  <2>3. CASE quantile = 2
    <3>1. o.low[t] = -2 * sigmas[t] /\ o.high[t] = 2 * sigmas[t] BY <1>12, <2>3
    <3> QED BY <2>1, <3>1
  <2> QED BY <2>2, <2>3
<1>14. ASSUME NEW t \in 1..n, NEW u \in 1..t
       PROVE  o.low[t] <= o.low[u] /\ o.high[u] <= o.high[t]
  <2>1. u \in 1..n /\ sigmas[u] <= sigmas[t] /\ sigmas[u] \in Int /\ sigmas[t] \in Int BY <1>9, <1>10
  <2>2. CASE quantile = 1
    <3>1. /\ o.low[t] = -1 * sigmas[t] /\ o.high[t] = 1 * sigmas[t]
          /\ o.low[u] = -1 * sigmas[u] /\ o.high[u] = 1 * sigmas[u] BY <1>12, <2>1, <2>2
    <3> QED BY <2>1, <3>1
  <2>3. CASE quantile = 2
    <3>1. /\ o.low[t] = -2 * sigmas[t] /\ o.high[t] = 2 * sigmas[t]
          /\ o.low[u] = -2 * sigmas[u] /\ o.high[u] = 2 * sigmas[u] BY <1>12, <2>1, <2>3
    <3> QED BY <2>1, <3>1
  <2> QED BY <2>2, <2>3
<1>15. o.low \in [1..n -> Int] /\ o.high \in [1..n -> Int]
  BY <1>11, <1>12, <1>13
<1>16. \A t \in R!Steps : o.low[t] <= 0 /\ 0 <= o.high[t]
  BY <1>1, <1>13
<1>17. \A t \in R!Steps : \A u \in 1..t : o.low[t] <= o.low[u] /\ o.high[u] <= o.high[t]
  BY <1>1, <1>14
<1>18. Fair(o)
  BY <1>1, <1>15, <1>16, <1>17 DEF Fair
<1> QED BY <1>18 DEF o

\* What BandsHold says of a range.
Ordered(at) ==
    \A t \in R!Steps :
       LET b == at[t] IN
       /\ R!Nested(b)
       /\ positive => b.worst >= 0
       /\ (positive /\ point[t] < 0) \/ (b.lower <= point[t] /\ point[t] <= b.upper)
       /\ \A u \in 1..t :
             /\ ~positive => point[u] - at[u].lower <= point[t] - b.lower
             /\ ~positive \/ (point[t] >= 0 /\ point[u] >= 0) =>
                   at[u].upper - point[u] <= b.upper - point[t]

\* A range built of fair bounds is in order, and keeps them where it is not cut.
LEMMA BuiltIsOrdered ==
    ASSUME RangeGiven, NEW i, NEW s, Fair(i), Fair(s)
    PROVE  LET at == R!Built(i, s)
           IN /\ at \in [R!Steps -> R!ForecastPoint]
              /\ Ordered(at)
              /\ \A t \in R!Steps :
                    /\ point[t] + i.high[t] <= at[t].upper
                    /\ ~positive \/ at[t].lower > 0 => at[t].lower <= point[t] + i.low[t]
<1> DEFINE n == Len(point)
           at == R!Built(i, s)
<1>1. n \in Nat /\ R!Steps = 1..n /\ \A t \in 1..n : point[t] \in Int
  BY StepsAre
<1>2. \A t \in 1..n : /\ i.low[t] \in Int /\ i.high[t] \in Int /\ s.low[t] \in Int /\ s.high[t] \in Int
                      /\ i.low[t] <= 0 /\ 0 <= i.high[t]
                      /\ \A u \in 1..t : u \in 1..n /\ i.low[t] <= i.low[u] /\ i.high[u] <= i.high[t]
  <2>1. \A t \in 1..n : \A u \in 1..t : u \in 1..n BY <1>1
  <2> QED BY <1>1, <2>1 DEF Fair
<1>3. \A t \in 1..n :
         LET clip(x) == IF positive THEN R!Greater(x, 0) ELSE x
             low == clip(point[t] + i.low[t])
             high == IF positive THEN R!Greater(point[t] + i.high[t], low) ELSE point[t] + i.high[t]
             worst == point[t] + R!Lesser(s.low[t], i.low[t])
             best == point[t] + R!Greater(s.high[t], i.high[t])
         IN at[t] = [lower |-> low, upper |-> high,
                     worst |-> IF positive THEN R!Lesser(R!Greater(worst, 0), low) ELSE worst,
                     best |-> IF positive THEN R!Greater(best, high) ELSE best]
  BY <1>1 DEF R!Built
<1>4. DOMAIN at = 1..n
  BY <1>1 DEF R!Built
<1>5. at = [t \in 1..n |-> at[t]]
  BY <1>1 DEF R!Built
<1> HIDE DEF at, n
<1>6. ASSUME NEW t \in 1..n
      PROVE  /\ at[t] \in R!ForecastPoint /\ R!Nested(at[t])
             /\ positive => at[t].worst >= 0
             /\ (positive /\ point[t] < 0) \/ (at[t].lower <= point[t] /\ point[t] <= at[t].upper)
             /\ point[t] + i.high[t] <= at[t].upper
             /\ ~positive \/ at[t].lower > 0 => at[t].lower <= point[t] + i.low[t]
             /\ ~positive => at[t].lower = point[t] + i.low[t]
             /\ ~positive \/ point[t] >= 0 => at[t].upper = point[t] + i.high[t]
  <2> DEFINE w == R!Lesser(s.low[t], i.low[t])
             e == R!Greater(s.high[t], i.high[t])
  <2>1. w \in Int /\ w <= i.low[t] /\ e \in Int /\ i.high[t] <= e
    BY <1>2 DEF R!Lesser, R!Greater
  <2>2. point[t] \in Int /\ i.low[t] \in Int /\ i.high[t] \in Int /\ i.low[t] <= 0 /\ 0 <= i.high[t]
    BY <1>1, <1>2
  <2>3. CASE ~positive
    <3>1. at[t] = [lower |-> point[t] + i.low[t], upper |-> point[t] + i.high[t],
                   worst |-> point[t] + w, best |-> point[t] + e]
      BY <1>3, <2>3
    <3>2. /\ at[t].lower = point[t] + i.low[t] /\ at[t].upper = point[t] + i.high[t]
          /\ at[t].worst = point[t] + w /\ at[t].best = point[t] + e
      BY <3>1
    <3> HIDE DEF w, e
    <3>3. at[t] \in R!ForecastPoint BY <2>1, <2>2, <3>1 DEF R!ForecastPoint
    <3> QED BY <2>1, <2>2, <2>3, <3>2, <3>3 DEF R!Nested
  <2>4. CASE positive
    <3> DEFINE low == R!Greater(point[t] + i.low[t], 0)
               high == R!Greater(point[t] + i.high[t], low)
               worst == R!Lesser(R!Greater(point[t] + w, 0), low)
               best == R!Greater(point[t] + e, high)
    <3>1. at[t] = [lower |-> low, upper |-> high, worst |-> worst, best |-> best]
      BY <1>3, <2>4
    <3> HIDE DEF w, e
    <3>2. low \in Int /\ low >= 0 /\ (low = 0 \/ low = point[t] + i.low[t]) /\ low >= point[t] + i.low[t]
      BY <2>2 DEF R!Greater
    <3> HIDE DEF low
    <3>3. /\ high \in Int /\ high >= low /\ high >= point[t] + i.high[t]
          /\ (high = low \/ high = point[t] + i.high[t])
      BY <2>2, <3>2 DEF R!Greater
    <3> HIDE DEF high
    <3>4. worst \in Int /\ worst >= 0 /\ worst <= low /\ best \in Int /\ high <= best
      BY <2>1, <2>2, <3>2, <3>3 DEF R!Greater, R!Lesser
    <3> HIDE DEF worst, best
    <3>5. at[t].lower = low /\ at[t].upper = high /\ at[t].worst = worst /\ at[t].best = best
      BY <3>1
    <3>6. at[t] \in R!ForecastPoint BY <3>1, <3>2, <3>3, <3>4 DEF R!ForecastPoint
    <3>7. R!Nested(at[t]) BY <3>2, <3>3, <3>4, <3>5 DEF R!Nested
    <3>8. point[t] < 0 \/ (low <= point[t] /\ point[t] <= high) BY <2>2, <3>2, <3>3
    <3>9. low > 0 => low <= point[t] + i.low[t] BY <2>2, <3>2
    <3>10. point[t] >= 0 => high = point[t] + i.high[t] BY <2>2, <3>2, <3>3
    <3> QED BY <2>4, <3>3, <3>4, <3>5, <3>6, <3>7, <3>8, <3>9, <3>10
  <2> QED BY <2>3, <2>4 DEF RangeGiven
<1>7. at \in [R!Steps -> R!ForecastPoint]
  BY <1>1, <1>5, <1>6
<1>8. ASSUME NEW t \in 1..n, NEW u \in 1..t
      PROVE  /\ ~positive => point[u] - at[u].lower <= point[t] - at[t].lower
             /\ ~positive \/ (point[t] >= 0 /\ point[u] >= 0) =>
                   at[u].upper - point[u] <= at[t].upper - point[t]
  <2>1. u \in 1..n /\ i.low[t] <= i.low[u] /\ i.high[u] <= i.high[t] BY <1>2
  <2>2. /\ point[t] \in Int /\ point[u] \in Int /\ i.low[t] \in Int /\ i.low[u] \in Int
        /\ i.high[t] \in Int /\ i.high[u] \in Int
    BY <1>1, <1>2, <2>1
  <2>3. /\ ~positive => at[t].lower = point[t] + i.low[t] /\ at[u].lower = point[u] + i.low[u]
        /\ ~positive \/ point[t] >= 0 => at[t].upper = point[t] + i.high[t]
        /\ ~positive \/ point[u] >= 0 => at[u].upper = point[u] + i.high[u]
    BY <1>6, <2>1
  <2>4. ~positive => point[u] - at[u].lower <= point[t] - at[t].lower
    BY <2>1, <2>2, <2>3
  <2>5. ASSUME ~positive \/ (point[t] >= 0 /\ point[u] >= 0)
        PROVE  at[u].upper - point[u] <= at[t].upper - point[t]
    BY <2>1, <2>2, <2>3, <2>5
  <2> QED BY <2>4, <2>5
<1>9. Ordered(at)
  BY <1>1, <1>6, <1>8 DEF Ordered
<1> QED BY <1>1, <1>6, <1>7, <1>9 DEF at

\* The half-width of a step holds the share asked for, and so does a range that keeps wide bounds.
LEMMA CheckIsHonest ==
    ASSUME RangeGiven, NEW i, Fair(i), NEW at \in [R!Steps -> R!ForecastPoint],
           \A t \in R!Steps :
              /\ point[t] + i.high[t] <= at[t].upper
              /\ ~positive \/ at[t].lower > 0 => at[t].lower <= point[t] + i.low[t],
           NEW t \in R!Measured
    PROVE  LET c == R!Calibrated(at)[t]
           IN /\ c.inside \in 0..Len(buckets[t])
              /\ c.served \in (0..Len(buckets[t])) \cup {NoValue}
              /\ 100 * c.inside >= level * Len(buckets[t])
              /\ Wide(i, level) /\ R!WidestSoFar(t) /\ ~(positive /\ point[t] <= 0) =>
                    c.served = NoValue \/ 100 * c.served >= level * Len(buckets[t])
<1> DEFINE n == Len(buckets[t])
           D == 1..n
           f == buckets[t]
           m == R!Missed(t)
           inside == {e \in D : m[e] <= R!Widened(t)}
           around == {e \in D : R!Contains(at, t, f[e])}
<1>1. t \in R!Steps /\ f # <<>>
  BY DEF R!Measured
<1>2. /\ Len(point) \in Nat /\ R!Steps = 1..Len(point) /\ point[t] \in Int
      /\ n \in Nat /\ DOMAIN f = D /\ f \in [D -> Int] /\ f \in Seq(Int)
  BY <1>1, StepsAre
<1>3. n >= 1 /\ D # {}
  <2>1. n # 0 BY <1>1, <1>2
  <2>2. n >= 1 /\ 1 \in D BY <1>2, <2>1
  <2> QED BY <2>2
<1>4. IsFiniteSet(D) /\ Cardinality(D) = n
  <2>1. IsFiniteSet(1..n) /\ Cardinality(1..n) = IF 1 > n THEN 0 ELSE n - 1 + 1
    <3>1. 1 \in Int /\ n \in Int BY <1>2
    <3> HIDE DEF n
    <3> QED BY <3>1, FS_Interval
  <2>2. Cardinality(1..n) = n BY <1>2, <1>3, <2>1
  <2> QED BY <2>1, <2>2
<1>5. \A S \in SUBSET D : IsFiniteSet(S) /\ Cardinality(S) \in 0..n
  <2> TAKE S \in SUBSET D
  <2> HIDE DEF D
  <2>1. IsFiniteSet(S) /\ Cardinality(S) <= n BY <1>4, FS_Subset
  <2>2. Cardinality(S) \in Nat BY <2>1, FS_CardinalityType
  <2> QED BY <1>2, <2>1, <2>2
<1>6. level \in 1..99
  BY DEF RangeGiven
<1> DEFINE c == R!Calibrated(at)[t]
<1>7. /\ c.inside = Cardinality(inside)
      /\ c.served = IF R!Skipped(at, t) THEN NoValue ELSE Cardinality(around)
  <2>1. c = [width |-> R!Widened(t), inside |-> R!Covered(t, R!Widened(t)), served |-> R!Served(at, t)]
    BY DEF R!Calibrated
  <2>2. R!Covered(t, R!Widened(t)) = Cardinality(inside) BY <1>2, SizeInBands DEF R!Covered
  <2>3. R!Served(at, t) = IF R!Skipped(at, t) THEN NoValue ELSE Cardinality(around)
    BY <1>2, SizeInBands DEF R!Served
  <2> QED BY <2>1, <2>2, <2>3
<1>8. ASSUME NEW u \in R!Measured
      PROVE  /\ R!Halfwidth(u) \in Int
             /\ 100 * Cardinality({e \in 1..Len(buckets[u]) : R!Missed(u)[e] <= R!Halfwidth(u)}) >= level * Len(buckets[u])
  <2> DEFINE k == Len(buckets[u])
             E == 1..k
             g == R!Missed(u)
             rank == R!Up((k + 1) * level, 100)
             r == R!Lesser(rank, k)
             up == {e \in E : g[e] <= R!Ranked(g, r)}
  <2>1. u \in R!Steps /\ buckets[u] # <<>> BY DEF R!Measured
  <2>2. k \in Nat /\ DOMAIN buckets[u] = E /\ buckets[u] \in [E -> Int] /\ buckets[u] \in Seq(Int)
    BY <2>1, StepsAre
  <2>3. k >= 1
    <3>1. k # 0 BY <2>1, <2>2
    <3> QED BY <2>2, <3>1
  <2>4. g \in [E -> Int]
    <3>1. g = [e \in E |-> R!Abs(buckets[u][e])] BY <2>2 DEF R!Missed
    <3>2. \A e \in E : R!Abs(buckets[u][e]) \in Int
      <4> TAKE e \in E
      <4>1. buckets[u][e] \in Int BY <2>2
      <4> QED BY <4>1 DEF R!Abs
    <3> HIDE DEF E, g
    <3> QED BY <3>1, <3>2
  <2>5. IsFiniteSet(E) /\ Cardinality(E) = k
    <3>1. IsFiniteSet(1..k) /\ Cardinality(1..k) = IF 1 > k THEN 0 ELSE k - 1 + 1 BY <2>2, FS_Interval
    <3>2. Cardinality(1..k) = k BY <2>2, <2>3, <3>1
    <3> QED BY <3>1, <3>2
  <2>6. rank \in Int /\ 100 * rank >= (k + 1) * level
    <3> DEFINE y == (k + 1) * level
    <3>1. y \in Int BY <1>6, <2>2
    <3>2. rank = -((-y) \div 100) BY DEF R!Up
    <3> HIDE DEF y, rank
    <3>3. rank \in Int /\ 100 * rank >= y BY <3>1, <3>2, SMT
    <3> QED BY <3>3 DEF y
  <2>7. (k + 1) * level = k * level + level /\ k * level \in Nat /\ k * level <= 100 * k /\ k * level = level * k
    BY <1>6, <2>2, SMT
  <2>8. r \in Int /\ (r = rank \/ r = k) BY <2>2, <2>6 DEF R!Lesser
  <2>9. r <= k /\ 1 <= r /\ 100 * r >= level * k
    <3> DEFINE y == k * level
    <3>1. 100 * rank >= y + level /\ y \in Nat /\ y <= 100 * k /\ y = level * k BY <2>6, <2>7
    <3>2. r <= k BY <2>2, <2>6 DEF R!Lesser
    <3>3. level \in Int /\ level >= 1 /\ k \in Int
      <4>1. level \in Int /\ level >= 1 BY <1>6
      <4>2. k \in Int BY <2>2
      <4> QED BY <4>1, <4>2
    <3> HIDE DEF y, k, rank, r
    <3>4. rank \in Int /\ rank >= 1 BY <2>6, <3>1, <3>3
    <3>5. 1 <= r BY <2>3, <2>8, <3>4
    <3>6. 100 * r >= y BY <2>6, <2>8, <3>1, <3>3
    <3> QED BY <3>1, <3>2, <3>5, <3>6
  <2>10. R!Ranked(g, r) \in Int /\ Cardinality(up) >= r
    <3> HIDE DEF E, g, k, r
    <3> QED BY <2>4, <2>5, <2>8, <2>9, RankIs
  <2>11. R!Halfwidth(u) = R!Ranked(g, r) BY DEF R!Halfwidth
  <2>12. Cardinality(up) \in Nat
    <3>1. up \in SUBSET E OBVIOUS
    <3> HIDE DEF up, E
    <3> QED BY <2>5, <3>1, FS_Subset, FS_CardinalityType
  <2>13. up = {e \in 1..Len(buckets[u]) : R!Missed(u)[e] <= R!Halfwidth(u)} BY <2>11
  <2>14. 100 * Cardinality(up) >= level * k
    <3> DEFINE y == level * k
    <3>1. y \in Int
      <4>1. level \in Int BY <1>6
      <4>2. k \in Int BY <2>2
      <4> HIDE DEF k
      <4> QED BY <4>1, <4>2
    <3> HIDE DEF y, up, k, r
    <3>2. 100 * r >= y BY <2>9 DEF y
    <3>3. 100 * Cardinality(up) >= y BY <2>8, <2>10, <2>12, <3>1, <3>2
    <3> QED BY <3>3 DEF y
  <2> QED BY <2>10, <2>11, <2>13, <2>14
<1>9. R!Widened(t) \in Int /\ R!Halfwidth(t) <= R!Widened(t)
  <2> DEFINE U == R!Measured \cap 1..t
             g == [u \in U |-> R!Halfwidth(u)]
  <2>1. t \in U BY <1>1, <1>2
  <2>2. IsFiniteSet(U)
    <3>1. t \in Int /\ 1 \in Int BY <1>1, <1>2
    <3>2. IsFiniteSet(1..t) BY <3>1, FS_Interval
    <3>3. U \in SUBSET (1..t) OBVIOUS
    <3> HIDE DEF U
    <3> QED BY <3>2, <3>3, FS_Subset
  <2>3. g \in [U -> Int] /\ \A u \in U : g[u] = R!Halfwidth(u) BY <1>8
  <2>4. R!Widened(t) = R!Max({g[u] : u \in U})
    <3>1. {g[u] : u \in U} = {R!Halfwidth(u) : u \in U} BY <2>3
    <3> QED BY <3>1 DEF R!Widened
  <2> DEFINE x == R!Max({g[u] : u \in U})
  <2> HIDE DEF U, g
  <2>5. (\E u \in U : x = g[u]) /\ x \in Int /\ \A u \in U : g[u] <= x
    BY <2>1, <2>2, <2>3, MaxOfValues
  <2> HIDE DEF x
  <2>6. R!Widened(t) = x BY <2>4 DEF x
  <2> QED BY <2>1, <2>3, <2>5, <2>6
<1>10. 100 * Cardinality(inside) >= level * n
  <2> DEFINE own == {e \in D : m[e] <= R!Halfwidth(t)}
  <2>1. 100 * Cardinality(own) >= level * n /\ R!Halfwidth(t) \in Int BY <1>8
  <2>2. \A e \in D : m[e] \in Int
    <3> TAKE e \in D
    <3>1. m[e] = R!Abs(f[e]) /\ f[e] \in Int BY <1>2 DEF R!Missed
    <3> QED BY <3>1 DEF R!Abs
  <2>3. own \in SUBSET inside
    <3>1. \A e \in D : m[e] <= R!Halfwidth(t) => m[e] <= R!Widened(t)
      <4> HIDE DEF m, D
      <4> QED BY <1>9, <2>1, <2>2
    <3> QED BY <3>1
  <2>4. inside \in SUBSET D /\ own \in SUBSET D OBVIOUS
  <2>5. IsFiniteSet(inside) /\ Cardinality(inside) \in 0..n /\ Cardinality(own) \in 0..n BY <1>5, <2>4
  <2>6. Cardinality(own) <= Cardinality(inside)
    <3> HIDE DEF own, inside
    <3> QED BY <2>3, <2>5, FS_Subset
  <2> DEFINE y == level * n
  <2>7. y \in Int BY <1>2, <1>6
  <2> HIDE DEF own, inside, y
  <2>8. 100 * Cardinality(own) >= y BY <2>1 DEF y
  <2>9. 100 * Cardinality(inside) >= y BY <2>5, <2>6, <2>7, <2>8
  <2> QED BY <2>9 DEF y
<1>11. ASSUME Wide(i, level), R!WidestSoFar(t), ~(positive /\ point[t] <= 0), ~R!Skipped(at, t)
       PROVE  100 * Cardinality(around) >= level * n
  <2> DEFINE b == R!ConformalBounds(f, level)
             s == R!Sided(b)
             own == {e \in D : b.low <= f[e] /\ f[e] <= b.high}
  <2>1. /\ b.low \in Int /\ b.high \in Int /\ b.low <= b.high
        /\ 100 * Cardinality(own) >= level * Cardinality(D)
    <3> HIDE DEF D, f
    <3> QED BY <1>2, <1>3, <1>4, <1>6, BoundsHoldTheirShare
  <2>2. /\ s.low \in Int /\ s.high \in Int /\ s.low <= b.low /\ b.high <= s.high
    <3> HIDE DEF b
    <3> QED BY <2>1, SidedIsFair
  <2>3. i.low[t] <= s.low /\ s.high <= i.high[t]
    BY <1>1, <1>11 DEF Wide, R!WidestSoFar
  <2>4. i.low[t] \in Int /\ i.high[t] \in Int BY <1>1 DEF Fair
  <2>5. at[t].lower \in Int /\ at[t].upper \in Int BY <1>1 DEF R!ForecastPoint
  <2>6. ~positive \/ at[t].lower > 0
    BY <1>2, <1>11, <2>5 DEF R!Skipped
  <2>7. at[t].lower <= point[t] + i.low[t] /\ point[t] + i.high[t] <= at[t].upper BY <1>1, <2>6
  <2> HIDE DEF b, s
  <2>8. own \in SUBSET around
    <3> SUFFICES ASSUME NEW e \in D, b.low <= f[e] /\ f[e] <= b.high PROVE R!Contains(at, t, f[e])
      OBVIOUS
    <3>1. f[e] \in Int BY <1>2
    <3>2. at[t].lower <= point[t] + f[e] /\ point[t] + f[e] <= at[t].upper
      <4>1. point[t] \in Int BY <1>2
      <4>2. b.low <= f[e] /\ f[e] <= b.high OBVIOUS
      <4> HIDE DEF f
      <4>3. b.low \in Int /\ b.high \in Int BY <2>1
      <4>4. at[t].lower <= point[t] + i.low[t] BY <2>7
      <4>5. point[t] + i.high[t] <= at[t].upper BY <2>7
      <4>6. i.low[t] <= f[e] BY <2>2, <2>3, <2>4, <3>1, <4>2, <4>3
      <4>7. f[e] <= i.high[t] BY <2>2, <2>3, <2>4, <3>1, <4>2, <4>3
      <4>8. at[t].lower <= point[t] + f[e] BY <2>4, <2>5, <3>1, <4>1, <4>6, <4>4
      <4>9. point[t] + f[e] <= at[t].upper BY <2>4, <2>5, <3>1, <4>1, <4>7, <4>5
      <4> QED BY <4>8, <4>9
    <3>3. point[t] + f[e] \in Int BY <1>2, <3>1
    <3> QED BY <2>5, <3>2, <3>3 DEF R!Contains
  <2>9. around \in SUBSET D /\ own \in SUBSET D OBVIOUS
  <2>10. IsFiniteSet(around) /\ Cardinality(around) \in 0..n /\ Cardinality(own) \in 0..n BY <1>5, <2>9
  <2>11. Cardinality(own) <= Cardinality(around)
    <3> HIDE DEF own, around
    <3> QED BY <2>8, <2>10, FS_Subset
  <2> DEFINE y == level * n
  <2>12. y \in Int BY <1>2, <1>6
  <2>13. level * Cardinality(D) = y BY <1>4
  <2> HIDE DEF own, around, y
  <2>14. 100 * Cardinality(own) >= y BY <2>1, <2>13
  <2>15. 100 * Cardinality(around) >= y BY <2>10, <2>11, <2>12, <2>14
  <2> QED BY <2>15 DEF y
<1>12. Cardinality(inside) \in 0..n /\ Cardinality(around) \in 0..n
  <2>1. inside \in SUBSET D /\ around \in SUBSET D OBVIOUS
  <2> QED BY <1>5, <2>1
<1> HIDE DEF inside, around, c, D, m
<1>13. c.served \in (0..n) \cup {NoValue}
  BY <1>7, <1>12
<1>14. Wide(i, level) /\ R!WidestSoFar(t) /\ ~(positive /\ point[t] <= 0) =>
          c.served = NoValue \/ 100 * c.served >= level * n
  BY <1>7, <1>11
<1> QED BY <1>7, <1>10, <1>12, <1>13, <1>14 DEF c

\* Scaled by nothing negative, numbers keep their order.
LEMMA ScalingKeepsOrder ==
    ASSUME NEW x \in Int, NEW y \in Int, x <= y, NEW s \in Nat, NEW w \in Nat
    PROVE  x * s * w \in Int /\ y * s * w \in Int /\ x * s * w <= y * s * w
<1>1. x * s \in Int /\ y * s \in Int /\ x * s <= y * s
  OBVIOUS
<1> DEFINE a == x * s
           b == y * s
<1> HIDE DEF a, b
<1>2. a * w \in Int /\ b * w \in Int /\ a * w <= b * w
  BY <1>1 DEF a, b
<1> QED BY <1>2 DEF a, b

\* A what-if keeps the order of a range.
LEMMA SimulatedInOrder ==
    ASSUME RangeGiven, bands.at \in [R!Steps -> R!ForecastPoint], Ordered(bands.at), NEW scale \in Nat,
           NEW t \in R!Steps
    PROVE  LET b == R!Simulated(scale).at[t]
           IN /\ R!Nested(b)
              /\ (positive /\ point[t] < 0) \/ (b.lower <= b.point /\ b.point <= b.upper)
              /\ scale = 8 => b.lower = 128 * bands.at[t].lower /\ b.best = 128 * bands.at[t].best
<1> DEFINE p == point[t]
           a == bands.at[t]
           w == 16 + R!Abs(scale - 8)
           sim == p * scale * 16
           Scaled(x) == sim + (x - p) * scale * w
           b == R!Simulated(scale).at[t]
<1>1. p \in Int
  BY StepsAre
<1>2. a.lower \in Int /\ a.upper \in Int /\ a.worst \in Int /\ a.best \in Int
  BY DEF R!ForecastPoint
<1>3. w \in Nat /\ (scale = 8 => w = 16)
  BY DEF R!Abs
<1>4. sim \in Int
  BY <1>1
<1>5. /\ b.point = sim /\ b.lower = Scaled(a.lower) /\ b.upper = Scaled(a.upper)
      /\ b.worst = Scaled(a.worst) /\ b.best = Scaled(a.best)
  BY DEF R!Simulated
<1>6. /\ a.worst <= a.lower /\ a.lower <= a.upper /\ a.upper <= a.best
      /\ (positive /\ p < 0) \/ (a.lower <= p /\ p <= a.upper)
  BY DEF Ordered, R!Nested
<1> HIDE DEF w, sim
<1>7. ASSUME NEW x \in Int, NEW y \in Int, x <= y PROVE Scaled(x) <= Scaled(y)
  <2>1. x - p \in Int /\ y - p \in Int /\ x - p <= y - p BY <1>1, <1>7
  <2>2. /\ (x - p) * scale * w \in Int /\ (y - p) * scale * w \in Int
        /\ (x - p) * scale * w <= (y - p) * scale * w
    BY <1>3, <2>1, ScalingKeepsOrder
  <2> QED BY <1>4, <2>2
<1>8. Scaled(p) = sim
  <2>1. p - p = 0 /\ 0 * scale * w = 0 BY <1>1, <1>3
  <2>2. (p - p) * scale * w = 0 BY <2>1
  <2> QED BY <1>4, <2>2
<1>9. ASSUME scale = 8, NEW x \in Int PROVE Scaled(x) = 128 * x
  <2>1. sim = p * 8 * 16 BY <1>9 DEF sim
  <2>2. (x - p) * scale * w = (x - p) * 8 * 16 BY <1>3, <1>9
  <2>3. Scaled(x) = p * 8 * 16 + (x - p) * 8 * 16 BY <2>1, <2>2
  <2> QED BY <1>1, <2>3
<1> HIDE DEF Scaled, a, b, p
<1>10. R!Nested(b)
  BY <1>2, <1>5, <1>6, <1>7 DEF R!Nested
<1>11. (positive /\ p < 0) \/ (b.lower <= b.point /\ b.point <= b.upper)
  BY <1>1, <1>2, <1>5, <1>6, <1>7, <1>8
<1>12. scale = 8 => b.lower = 128 * a.lower /\ b.best = 128 * a.best
  BY <1>2, <1>5, <1>9
<1> QED BY <1>10, <1>11, <1>12 DEF a, b, p

\* The inductive invariant: there is no what-if of a range that was not built.
RangeInv == RangeGiven /\ R!TypeOK /\ R!BandsHold /\ (whatif # NoValue => bands # NoValue)

LEMMA InitRange == R!Init => RangeInv
<1> SUFFICES ASSUME R!Init PROVE RangeInv
  OBVIOUS
<1>1. /\ \A e \in Residuals : e \in Seq(Int)
      /\ \A p \in Points : p \in Seq(Int) /\ \A g \in Growths : g \in [DOMAIN p -> Nat \ {0, 1}]
      /\ Levels \subseteq 1..99
  BY BandsAssumption
<1>2. point \in Points /\ buckets \in [R!Steps -> Residuals] /\ positive \in BOOLEAN /\ level \in Levels
  BY DEF R!Init
<1>3. RangeGiven
  BY <1>1, <1>2 DEF RangeGiven, R!Steps
<1>4. bands = NoValue /\ check = NoValue /\ whatif = NoValue
  BY DEF R!Init, R!Unbuilt
<1> QED BY <1>3, <1>4 DEF RangeInv, R!TypeOK, R!BandsHold

LEMMA BuildStep ==
    ASSUME RangeInv, R!Build
    PROVE  RangeInv'
<1>1. RangeGiven /\ bands = NoValue /\ whatif = NoValue
  BY DEF RangeInv, R!Build
<1>2. /\ buckets' = buckets /\ positive' = positive /\ point' = point /\ level' = level /\ whatif' = whatif
      /\ check' = IF R!Measured = {} THEN NoValue ELSE R!Calibrated(bands'.at)
  BY DEF R!Build
<1>3. Scenario \in 1..99 /\ level \in 1..99
  BY <1>1, BandsAssumption DEF RangeGiven
<1>4. \E i, s : /\ Fair(i) /\ Fair(s)
                /\ \E e \in BOOLEAN : /\ bands' = [at |-> R!Built(i, s), errors |-> e]
                                      /\ e => Wide(i, level)
  <2>1. PICK growth \in Growths :
          LET interval == R!QuantileOffsets(growth, level)
              scenario == R!QuantileOffsets(growth, Scenario)
          IN \/ /\ interval # NoValue /\ scenario # NoValue
                /\ bands' = [at |-> R!Built(interval, scenario), errors |-> TRUE]
             \/ \E sigmas \in R!Sigmas, near, far \in {1, 2} :
                   bands' = [at |-> R!Built(R!SigmaOffsets(sigmas, near), R!SigmaOffsets(sigmas, far)),
                             errors |-> FALSE]
    BY DEF R!Build
  <2>2. CASE /\ R!QuantileOffsets(growth, level) # NoValue /\ R!QuantileOffsets(growth, Scenario) # NoValue
             /\ bands' = [at |-> R!Built(R!QuantileOffsets(growth, level), R!QuantileOffsets(growth, Scenario)),
                          errors |-> TRUE]
    <3>1. /\ Fair(R!QuantileOffsets(growth, level)) /\ Wide(R!QuantileOffsets(growth, level), level)
          /\ Fair(R!QuantileOffsets(growth, Scenario))
      BY <1>1, <1>3, <2>2, ErrorsMakeFairBounds
    <3> QED BY <2>2, <3>1
  <2>3. CASE \E sigmas \in R!Sigmas, near, far \in {1, 2} :
                bands' = [at |-> R!Built(R!SigmaOffsets(sigmas, near), R!SigmaOffsets(sigmas, far)),
                          errors |-> FALSE]
    <3>1. PICK sigmas \in R!Sigmas, near \in {1, 2}, far \in {1, 2} :
                bands' = [at |-> R!Built(R!SigmaOffsets(sigmas, near), R!SigmaOffsets(sigmas, far)),
                          errors |-> FALSE]
      BY <2>3
    <3>2. Fair(R!SigmaOffsets(sigmas, near)) /\ Fair(R!SigmaOffsets(sigmas, far))
      BY <1>1, DeviationsMakeFairBounds
    <3> QED BY <3>1, <3>2
  <2> QED BY <2>1, <2>2, <2>3
<1>5. PICK i, s : /\ Fair(i) /\ Fair(s)
                  /\ \E e \in BOOLEAN : /\ bands' = [at |-> R!Built(i, s), errors |-> e]
                                        /\ e => Wide(i, level)
  BY <1>4
<1>6. PICK e \in BOOLEAN : bands' = [at |-> R!Built(i, s), errors |-> e] /\ (e => Wide(i, level))
  BY <1>5
<1> DEFINE at == R!Built(i, s)
<1>7. bands'.at = at /\ bands'.errors = e
  BY <1>6
<1>8. /\ at \in [R!Steps -> R!ForecastPoint]
      /\ Ordered(at)
      /\ \A t \in R!Steps :
            /\ point[t] + i.high[t] <= at[t].upper
            /\ ~positive \/ at[t].lower > 0 => at[t].lower <= point[t] + i.low[t]
  BY <1>1, <1>5, BuiltIsOrdered
<1> HIDE DEF at
<1>9. ASSUME NEW t \in R!Measured
      PROVE  LET c == R!Calibrated(at)[t]
             IN /\ c.inside \in 0..Len(buckets[t])
                /\ c.served \in (0..Len(buckets[t])) \cup {NoValue}
                /\ 100 * c.inside >= level * Len(buckets[t])
                /\ e /\ R!WidestSoFar(t) /\ ~(positive /\ point[t] <= 0) =>
                      c.served = NoValue \/ 100 * c.served >= level * Len(buckets[t])
  BY <1>1, <1>5, <1>6, <1>8, CheckIsHonest
<1>10. check' # NoValue => check' = R!Calibrated(at) /\ DOMAIN check' = R!Measured
  BY <1>2, <1>7 DEF R!Calibrated
<1>11. R!Steps' = R!Steps /\ RangeGiven'
  BY <1>1, <1>2 DEF RangeGiven, R!Steps
<1>12. R!TypeOK'
  <2>1. bands' \in [at : [R!Steps -> R!ForecastPoint], errors : BOOLEAN]
    BY <1>6, <1>8 DEF at
  <2>2. check' # NoValue =>
          \A t \in DOMAIN check' : /\ check'[t].inside \in 0..Len(buckets[t])
                                   /\ check'[t].served \in (0..Len(buckets[t])) \cup {NoValue}
    BY <1>9, <1>10
  <2> QED BY <1>1, <1>2, <1>11, <2>1, <2>2 DEF R!TypeOK, R!ForecastPoint
<1>13. R!BandsHold'
  <2>1. \A t \in R!Steps :
             LET b == bands'.at[t] IN
             /\ R!Nested(b)
             /\ positive => b.worst >= 0
             /\ (positive /\ point[t] < 0) \/ (b.lower <= point[t] /\ point[t] <= b.upper)
             /\ \A u \in 1..t :
                   /\ ~positive => point[u] - bands'.at[u].lower <= point[t] - b.lower
                   /\ ~positive \/ (point[t] >= 0 /\ point[u] >= 0) =>
                         bands'.at[u].upper - point[u] <= b.upper - point[t]
    BY <1>7, <1>8 DEF Ordered
  <2>2. check' # NoValue =>
          \A t \in DOMAIN check' :
             /\ 100 * check'[t].inside >= level * Len(buckets[t])
             /\ bands'.errors /\ R!WidestSoFar(t) /\ ~(positive /\ point[t] <= 0) =>
                   check'[t].served = NoValue \/ 100 * check'[t].served >= level * Len(buckets[t])
    BY <1>7, <1>9, <1>10
  <2>3. \A t : R!WidestSoFar(t)' <=> R!WidestSoFar(t)
    BY <1>2 DEF R!WidestSoFar
  <2>4. whatif' = NoValue BY <1>1, <1>2
  <2> QED BY <1>2, <1>11, <2>1, <2>2, <2>3, <2>4 DEF R!BandsHold, R!Nested
<1> QED BY <1>1, <1>2, <1>11, <1>12, <1>13 DEF RangeInv

LEMMA SimulateStep ==
    ASSUME RangeInv, R!Simulate
    PROVE  RangeInv'
<1>1. /\ RangeGiven /\ bands # NoValue
      /\ buckets' = buckets /\ positive' = positive /\ point' = point /\ level' = level
      /\ bands' = bands /\ check' = check
  BY DEF RangeInv, R!Simulate
<1>2. PICK volume \in Volumes, leverage \in Leverages, multiplier \in Multipliers :
         whatif' = R!Simulated(R!ScaleOf(volume, leverage, multiplier))
  BY DEF R!Simulate
<1> DEFINE scale == R!ScaleOf(volume, leverage, multiplier)
<1>3. scale \in Nat
  <2>1. volume \in Nat /\ leverage \in Nat /\ multiplier \in Nat BY BandsAssumption
  <2>2. leverage * (multiplier - 2) \in Int BY <2>1
  <2>3. R!Greater(4 + leverage * (multiplier - 2), 0) \in Nat
    <3> DEFINE x == leverage * (multiplier - 2)
    <3> HIDE DEF x
    <3>1. R!Greater(4 + x, 0) \in Nat BY <2>2 DEF x, R!Greater
    <3> QED BY <3>1 DEF x
  <2> QED BY <2>1, <2>3 DEF R!ScaleOf
<1> HIDE DEF scale
<1>4. /\ bands.at \in [R!Steps -> R!ForecastPoint]
      /\ Ordered(bands.at)
  BY <1>1 DEF RangeInv, R!TypeOK, R!BandsHold, Ordered
<1>5. whatif' = R!Simulated(scale) /\ whatif'.scale = scale
  BY <1>2 DEF scale, R!Simulated
<1>6. \A t \in R!Steps :
         LET b == whatif'.at[t] IN
         /\ R!Nested(b)
         /\ (positive /\ point[t] < 0) \/ (b.lower <= b.point /\ b.point <= b.upper)
         /\ whatif'.scale = 8 => b.lower = 128 * bands.at[t].lower /\ b.best = 128 * bands.at[t].best
  BY <1>1, <1>3, <1>4, <1>5, SimulatedInOrder
<1>7. R!Steps' = R!Steps /\ RangeGiven' /\ (\A t : R!WidestSoFar(t)' <=> R!WidestSoFar(t))
  BY <1>1 DEF RangeGiven, R!Steps, R!WidestSoFar
<1>8. R!TypeOK'
  BY <1>1, <1>3, <1>5, <1>7 DEF RangeInv, R!TypeOK, R!ForecastPoint
<1>9. R!BandsHold'
  BY <1>1, <1>6, <1>7 DEF RangeInv, R!BandsHold, R!Nested
<1> QED BY <1>1, <1>7, <1>8, <1>9 DEF RangeInv

\* A range is in order around its forecast and does not draw in, holds the share it is asked to where
\* its own errors are enough, and a what-if keeps it so: for any errors and any number of steps.
THEOREM RangesAlwaysHold == MCSpec => []BandsHold
<1> DEFINE Inv == part = "range" => RangeInv
<1>1. MCInit => Inv
  BY InitRange DEF MCInit
<1>2. Inv /\ [MCNext]_<<part, vars, search, plan, history, tree, advice, range, choice, fan, making>> => Inv'
  <2> SUFFICES ASSUME Inv, [MCNext]_<<part, vars, search, plan, history, tree, advice, range, choice, fan, making>>,
                      part' = "range"
               PROVE  RangeInv'
    OBVIOUS
  <2>1. part = "range" /\ [R!Next]_range
    BY DEF MCNext
  <2>2. CASE R!Build BY <2>1, <2>2, BuildStep
  <2>3. CASE R!Simulate BY <2>1, <2>3, SimulateStep
  <2>4. CASE UNCHANGED range
    <3>1. RangeInv BY <2>1
    <3>2. /\ buckets' = buckets /\ positive' = positive /\ point' = point /\ level' = level
          /\ bands' = bands /\ check' = check /\ whatif' = whatif
      BY <2>4 DEF range
    <3>3. R!Steps' = R!Steps /\ RangeGiven' /\ (\A t : R!WidestSoFar(t)' <=> R!WidestSoFar(t))
      BY <3>1, <3>2 DEF RangeInv, RangeGiven, R!Steps, R!WidestSoFar
    <3>4. R!TypeOK' BY <3>1, <3>2, <3>3 DEF RangeInv, R!TypeOK, R!ForecastPoint
    <3>5. R!BandsHold' BY <3>1, <3>2, <3>3 DEF RangeInv, R!BandsHold, R!Nested
    <3> QED BY <3>1, <3>2, <3>3, <3>4, <3>5 DEF RangeInv
  <2> QED BY <2>1, <2>2, <2>3, <2>4 DEF R!Next
<1>3. Inv => BandsHold
  BY DEF BandsHold, RangeInv
<1> QED
  BY <1>1, <1>2, <1>3, PTL DEF MCSpec
===============================================================================
