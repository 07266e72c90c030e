---------------------------- MODULE RetentionProofs ----------------------------
(***************************************************************************)
(* That an unfinished run is never removed and that the newest stay, for   *)
(* every number of runs, of passes and of runs to keep, and every batch.   *)
(*                                                                         *)
(* Everything rests on one count: how many finished runs are newer than a  *)
(* run.  It falls only when one of those is removed.  Were that one no     *)
(* candidate of a pass, the loss is counted in lost; were it a candidate,  *)
(* as many as Keep are newer than it, and these are newer than the run     *)
(* too.  So what a plan found of its candidates outlasts every removal     *)
(* until the pass gets to them.                                            *)
(*                                                                         *)
(* And, below, that a scorecard is that of one file and says so when what  *)
(* it was measured against was restated, for any runs, files and figures   *)
(* and however the scorings overlap.  A scoring that met no other is later *)
(* than every reading there is, and what it does not write anew is in      *)
(* force as its file says; so is all it was measured against once it is    *)
(* committed, until somebody writes a later reading.                       *)
(***************************************************************************)
EXTENDS MCRetention, FiniteSetTheorems, SequenceTheorems, WellFoundedInduction, TLAPS

\* Enough newer ones are left of a run to do without it.
Spared(r) == Cardinality(Newer(r)) + lost >= Keep \/ r \in late

\* What a plan has not protected, and what a pass has still to remove, is spared.
PlansSpare ==
    \A p \in Pass :
        /\ stage[p] = "selecting" => \A r \in Ended \ protected[p] : Spared(r)
        /\ stage[p] = "removing" => \A r \in removing[p] : Spared(r)

\* A pass is in the middle of a removal only of a run it is to remove.
ChecksAreCandidates ==
    \A p \in Pass : checked[p] # {} => stage[p] = "removing" /\ checked[p] \subseteq removing[p]

\* A run whose removal has been allowed has ended, or is gone already.
CheckedHaveEnded ==
    \A d \in Deleter : \A r \in checked[d] : status[r] \in Terminal \cup {"absent"}

IInv == TypeOK /\ PlansSpare /\ ChecksAreCandidates /\ CheckedHaveEnded

-----------------------------------------------------------------------------
(* What a pass selects. *)

\* A set of runs that is not empty has a newest.
LEMMA NewestOf ==
  ASSUME NEW T \in SUBSET Run, T # {}
  PROVE  \E m \in T : \A r \in T : r <= m
<1> DEFINE Above(m) == {r \in T : r > m}
           All == {Above(m) : m \in T}
<1>1. IsFiniteSet(T)
  BY FS_Subset, RetentionAssumption
<1>2. IsWellFoundedOn(StrictSubsetOrdering(T), SUBSET T)
  BY <1>1, FS_StrictSubsetOrderingWellFounded, FS_FiniteSubsetsOfFinite
<1>3. All \subseteq SUBSET T /\ All # {}
  OBVIOUS
<1>4. PICK x \in All : \A y \in All : <<y, x>> \notin StrictSubsetOrdering(T)
  <2> HIDE DEF All
  <2> QED
    BY <1>2, <1>3, WFMin, Zenon
<1>5. PICK m \in T : x = Above(m)
  BY <1>4
<1>6. ASSUME NEW r \in T PROVE r <= m
  <2>1. T \subseteq Nat
    BY RetentionAssumption
  <2>2. r \in Nat /\ m \in Nat
    BY <2>1
  <2>3. SUFFICES ASSUME r > m PROVE FALSE
    BY <2>2
  <2>4. Above(r) \subseteq Above(m)
    <3>1. ASSUME NEW q \in T, q > r PROVE q > m
      <4>1. q \in Nat
        BY <2>1
      <4> QED
        BY <4>1, <3>1, <2>2, <2>3
    <3> QED
      BY <3>1
  <2>5. r \in Above(m) /\ r \notin Above(r)
    BY <2>2, <2>3
  <2>6. <<Above(r), Above(m)>> \in StrictSubsetOrdering(T)
    BY <2>4, <2>5 DEF StrictSubsetOrdering
  <2> QED
    BY <2>6, <1>4, <1>5
<1> QED
  BY <1>6

\* A pass selects as many as it may take, and no more.
LEMMA SelectionFits ==
  ASSUME NEW S \in SUBSET Run
  PROVE  /\ OldestFirst(S) \subseteq S /\ IsFiniteSet(OldestFirst(S))
         /\ Cardinality(OldestFirst(S)) <= Batch
<1> DEFINE T == OldestFirst(S)
<1>1. T \subseteq S /\ T \subseteq Run
  BY DEF OldestFirst
<1>2. IsFiniteSet(S) /\ IsFiniteSet(T)
  BY <1>1, FS_Subset, RetentionAssumption
<1>3. Cardinality(T) <= Batch
  <2>1. CASE T = {}
    BY <2>1, FS_EmptySet, RetentionAssumption
  <2>2. CASE T # {}
    <3>1. PICK m \in T : \A r \in T : r <= m
      BY <1>1, <2>2, NewestOf
    <3> DEFINE B == {q \in S : q < m}
    <3>2. Cardinality(B) < Batch
      BY <3>1 DEF OldestFirst
    <3>3. IsFiniteSet(B)
      BY <1>2, FS_Subset
    <3>4. T \subseteq B \cup {m}
      <4>1. ASSUME NEW r \in T PROVE r < m \/ r = m
        <5>1. r \in Nat /\ m \in Nat
          BY <1>1, RetentionAssumption
        <5> QED
          BY <5>1, <3>1
      <4> QED
        BY <4>1, <1>1
    <3>5. IsFiniteSet(B \cup {m}) /\ Cardinality(B \cup {m}) <= Cardinality(B) + 1
      <4>1. Cardinality(B) \in Nat
        BY <3>3, FS_CardinalityType
      <4> HIDE DEF B
      <4>2. /\ IsFiniteSet(B \cup {m})
            /\ Cardinality(B \cup {m}) = IF m \in B THEN Cardinality(B) ELSE Cardinality(B) + 1
        BY <3>3, FS_AddElement
      <4> QED
        BY <4>1, <4>2
    <3>6. Cardinality(T) <= Cardinality(B \cup {m})
      BY <3>4, <3>5, FS_Subset
    <3>7. Cardinality(T) \in Nat /\ Cardinality(B) \in Nat /\ Cardinality(B \cup {m}) \in Nat
      BY <1>2, <3>3, <3>5, FS_CardinalityType
    <3> QED
      BY <3>2, <3>5, <3>6, <3>7, RetentionAssumption
  <2> QED
    BY <2>1, <2>2
<1> QED
  BY <1>1, <1>2, <1>3

-----------------------------------------------------------------------------
(* The states have their types. *)

LEMMA InitIInv == Init => IInv
<1> SUFFICES ASSUME Init PROVE IInv
  OBVIOUS
<1> USE DEF Init
<1>1. TypeOK
  BY FS_EmptySet, RetentionAssumption DEF TypeOK, Terminal, Deleter
<1>2. PlansSpare /\ ChecksAreCandidates /\ CheckedHaveEnded
  BY DEF PlansSpare, ChecksAreCandidates, CheckedHaveEnded, Deleter
<1> QED
  BY <1>1, <1>2 DEF IInv

\* What remains of a pass's candidates is no more than a pass may take.
LEMMA FewerFit ==
  ASSUME TypeOK, NEW p \in Pass, NEW r
  PROVE  removing[p] \ {r} \subseteq Run /\ Cardinality(removing[p] \ {r}) <= Batch
<1>1. removing[p] \subseteq Run /\ Cardinality(removing[p]) <= Batch
  BY DEF TypeOK
<1>2. IsFiniteSet(removing[p])
  BY <1>1, FS_Subset, RetentionAssumption
<1>3. /\ IsFiniteSet(removing[p] \ {r})
      /\ Cardinality(removing[p] \ {r}) <= Cardinality(removing[p])
  BY <1>2, FS_Subset
<1>4. Cardinality(removing[p] \ {r}) \in Nat /\ Cardinality(removing[p]) \in Nat
  BY <1>2, <1>3, FS_CardinalityType
<1> QED
  BY <1>1, <1>3, <1>4, RetentionAssumption

\* Removing a run, whoever does it, touches what data says and the count of losses.
LEMMA EraseTypes ==
  ASSUME TypeOK, NEW d \in Deleter, NEW e \in Run, Erase(d, e)
  PROVE  /\ status' \in [Run -> {"none", "active", "absent"} \cup Terminal]
         /\ finished' \subseteq Run \X Run /\ scenarios' \subseteq Run
         /\ old' \in Nat /\ late' \subseteq Run /\ lost' \in Nat
         /\ checked' \in [Deleter -> SUBSET Run] /\ \A c \in Deleter : Cardinality(checked'[c]) <= 1
         /\ stage' = stage /\ protected' = protected
<1> USE DEF TypeOK, Erase
<1>1. checked' \in [Deleter -> SUBSET Run] /\ \A c \in Deleter : Cardinality(checked'[c]) <= 1
  BY FS_EmptySet
<1> QED
  BY <1>1

LEMMA TypeStep == TypeOK /\ [Next]_vars => TypeOK'
<1> SUFFICES ASSUME TypeOK, [Next]_vars PROVE TypeOK'
  OBVIOUS
<1> USE DEF data, pass, history, Protect
<1>1. ASSUME NEW r \in Run, Create(r) PROVE TypeOK'
  BY <1>1 DEF TypeOK, Create
<1>2. ASSUME NEW r \in Run, NEW outcome \in Terminal, End(r, outcome) PROVE TypeOK'
  BY <1>2 DEF TypeOK, End
<1>3. ASSUME NEW r \in Run, SaveScenario(r) PROVE TypeOK'
  BY <1>3 DEF TypeOK, SaveScenario
<1>4. ASSUME NEW d \in Deleter, NEW r \in Run, Read(d, r) PROVE TypeOK'
  <2>1. checked' \in [Deleter -> SUBSET Run] /\ \A c \in Deleter : Cardinality(checked'[c]) <= 1
    <3>1. Cardinality({r}) = 1
      BY FS_Singleton
    <3>2. checked' = [checked EXCEPT ![d] = {r}]
      BY <1>4 DEF Read
    <3> QED
      BY <3>1, <3>2 DEF TypeOK
  <2> QED
    BY <2>1, <1>4 DEF TypeOK, Read
<1>5. ASSUME NEW r \in Run, UserErase(r) PROVE TypeOK'
  <2>1. Erase(User, r) /\ removing' = removing /\ User \in Deleter
    BY <1>5 DEF UserErase, Deleter
  <2> QED
    BY <2>1, EraseTypes DEF TypeOK
<1>6. CASE Age
  BY <1>6 DEF TypeOK, Age
<1>7. ASSUME NEW p \in Pass, PlanLatest(p) PROVE TypeOK'
  BY <1>7 DEF TypeOK, PlanLatest, Latest
<1>8. ASSUME NEW p \in Pass, PlanScenarios(p) PROVE TypeOK'
  BY <1>8 DEF TypeOK, PlanScenarios
<1>9. ASSUME NEW p \in Pass, PlanRecent(p) PROVE TypeOK'
  BY <1>9 DEF TypeOK, PlanRecent, MostRecent, Ended
<1>10. ASSUME NEW p \in Pass, Plan(p) PROVE TypeOK'
  <2> DEFINE C == Candidates(protected[p])
  <2>1. C \in SUBSET Run
    BY DEF Candidates, Ended
  <2> HIDE DEF C
  <2>2. OldestFirst(C) \subseteq Run /\ Cardinality(OldestFirst(C)) <= Batch
    BY <2>1, SelectionFits
  <2>3. removing' = [removing EXCEPT ![p] = OldestFirst(C)]
    BY <1>10 DEF Plan, C
  <2>4. removing' \in [Pass -> SUBSET Run] /\ \A q \in Pass : Cardinality(removing'[q]) <= Batch
    BY <2>2, <2>3 DEF TypeOK
  <2> QED
    BY <2>4, <1>10 DEF TypeOK, Plan
<1>11. ASSUME NEW p \in Pass, SweepDone(p) PROVE TypeOK'
  BY <1>11 DEF TypeOK, SweepDone
<1>12. ASSUME NEW p \in Pass, NEW r \in Run, SweepErase(p, r) PROVE TypeOK'
  <2>1. Erase(p, r) /\ p \in Deleter
    BY <1>12 DEF SweepErase, Deleter
  <2>2. removing' \in [Pass -> SUBSET Run] /\ \A q \in Pass : Cardinality(removing'[q]) <= Batch
    BY <1>12, FewerFit DEF TypeOK, SweepErase
  <2> QED
    BY <2>1, <2>2, EraseTypes DEF TypeOK
<1>13. ASSUME NEW p \in Pass, NEW r \in Run, SweepSkip(p, r) PROVE TypeOK'
  <2>1. removing' \in [Pass -> SUBSET Run] /\ \A q \in Pass : Cardinality(removing'[q]) <= Batch
    BY <1>13, FewerFit DEF TypeOK, SweepSkip
  <2>2. checked' \in [Deleter -> SUBSET Run] /\ \A c \in Deleter : Cardinality(checked'[c]) <= 1
    <3>1. Cardinality({}) = 0
      BY FS_EmptySet
    <3>2. checked' = [checked EXCEPT ![p] = {}]
      BY <1>13 DEF SweepSkip
    <3>3. p \in Deleter
      BY DEF Deleter
    <3> QED
      BY <3>1, <3>2, <3>3 DEF TypeOK
  <2> QED
    BY <2>1, <2>2, <1>13 DEF TypeOK, SweepSkip
<1>14. CASE UNCHANGED vars
  BY <1>14 DEF TypeOK, vars
<1> QED
  BY <1>1, <1>2, <1>3, <1>4, <1>5, <1>6, <1>7, <1>8, <1>9, <1>10, <1>11, <1>12, <1>13, <1>14
  DEF Next, Terminal, Deleter, SweepRead

-----------------------------------------------------------------------------
(* A removal that was allowed is of a run that has ended. *)

LEMMA CheckedStep == TypeOK /\ CheckedHaveEnded /\ [Next]_vars => CheckedHaveEnded'
<1> SUFFICES ASSUME TypeOK, CheckedHaveEnded, [Next]_vars PROVE CheckedHaveEnded'
  OBVIOUS
<1> USE DEF CheckedHaveEnded, data, pass, history
<1>1. ASSUME NEW d \in Deleter, NEW r \in Run, Read(d, r) PROVE CheckedHaveEnded'
  BY <1>1 DEF TypeOK, Read
<1>2. ASSUME NEW d \in Deleter, NEW e \in Run, Erase(d, e) PROVE CheckedHaveEnded'
  BY <1>2 DEF TypeOK, Erase
<1>3. ASSUME status' = status, \A d \in Deleter : checked'[d] \subseteq checked[d]
      PROVE  CheckedHaveEnded'
  BY <1>3
<1>4. ASSUME NEW r \in Run, status[r] \in {"none", "active"}, checked' = checked,
             \A q \in Run \ {r} : status'[q] = status[q]
      PROVE  CheckedHaveEnded'
  BY <1>4 DEF TypeOK, Terminal
<1>5. ASSUME NEW r \in Run, Create(r) \/ End(r, "completed") \/ End(r, "failed") \/ SaveScenario(r)
      PROVE  CheckedHaveEnded'
  <2>1. CASE Create(r)
    BY <2>1, <1>4 DEF Create, TypeOK
  <2>2. ASSUME NEW outcome, End(r, outcome) PROVE CheckedHaveEnded'
    BY <2>2, <1>4 DEF End, TypeOK
  <2>3. CASE SaveScenario(r)
    BY <2>3, <1>3 DEF SaveScenario
  <2> QED
    BY <2>1, <2>2, <2>3, <1>5
<1>6. CASE Age \/ UNCHANGED vars
  BY <1>6, <1>3 DEF Age, vars
<1>7. ASSUME NEW p \in Pass, PlanLatest(p) \/ PlanScenarios(p) \/ PlanRecent(p) \/ Plan(p) \/ SweepDone(p)
      PROVE  CheckedHaveEnded'
  BY <1>7, <1>3 DEF PlanLatest, PlanScenarios, PlanRecent, Protect, Plan, SweepDone
<1>8. ASSUME NEW p \in Pass, NEW r \in Run, SweepSkip(p, r) PROVE CheckedHaveEnded'
  BY <1>8, <1>3 DEF SweepSkip, TypeOK
<1> QED
  BY <1>1, <1>2, <1>5, <1>6, <1>7, <1>8 DEF Next, Deleter, UserErase, SweepRead, SweepErase

\* A pass asks leave to remove only the run it is at, and is done with that before it goes on.
LEMMA CandidateStep == TypeOK /\ ChecksAreCandidates /\ [Next]_vars => ChecksAreCandidates'
<1> SUFFICES ASSUME TypeOK, ChecksAreCandidates, [Next]_vars PROVE ChecksAreCandidates'
  OBVIOUS
<1> USE RetentionAssumption DEF ChecksAreCandidates, data, pass, history
<1>1. User \notin Pass /\ User \in Deleter /\ Pass \subseteq Deleter
  BY DEF User, Deleter
<1>2. ASSUME stage' = stage, removing' = removing, \A p \in Pass : checked'[p] = checked[p]
      PROVE  ChecksAreCandidates'
  BY <1>2
<1>3. ASSUME NEW r \in Run, \/ Create(r) \/ End(r, "completed") \/ End(r, "failed")
                            \/ SaveScenario(r) \/ Read(User, r) \/ UserErase(r)
      PROVE  ChecksAreCandidates'
  BY <1>3, <1>1, <1>2 DEF TypeOK, Create, End, SaveScenario, Read, UserErase, Erase
<1>4. CASE Age \/ UNCHANGED vars
  BY <1>4, <1>2 DEF Age, vars
<1>5. ASSUME NEW p \in Pass, PlanLatest(p) \/ PlanScenarios(p) \/ PlanRecent(p) \/ Plan(p)
      PROVE  ChecksAreCandidates'
  <2>1. stage[p] # "removing" /\ checked' = checked
    BY <1>5 DEF PlanLatest, PlanScenarios, PlanRecent, Protect, Plan
  <2>2. \A q \in Pass \ {p} : stage'[q] = stage[q] /\ removing'[q] = removing[q]
    BY <1>5 DEF PlanLatest, PlanScenarios, PlanRecent, Protect, Plan, TypeOK
  <2> QED
    BY <2>1, <2>2
<1>6. ASSUME NEW p \in Pass, SweepDone(p) PROVE ChecksAreCandidates'
  <2>1. checked[p] = {} /\ checked' = checked /\ removing' = removing
    BY <1>6 DEF SweepDone
  <2>2. \A q \in Pass \ {p} : stage'[q] = stage[q]
    BY <1>6 DEF SweepDone, TypeOK
  <2> QED
    BY <2>1, <2>2
<1>7. ASSUME NEW p \in Pass, NEW r \in Run, SweepRead(p, r) PROVE ChecksAreCandidates'
  <2>1. stage[p] = "removing" /\ r \in removing[p] /\ stage' = stage /\ removing' = removing
    BY <1>7 DEF SweepRead, Turn, Read
  <2>2. checked' = [checked EXCEPT ![p] = {r}]
    BY <1>7 DEF SweepRead, Read
  <2> QED
    BY <2>1, <2>2, <1>1 DEF TypeOK
<1>8. ASSUME NEW p \in Pass, NEW r \in Run, SweepErase(p, r) \/ SweepSkip(p, r)
      PROVE  ChecksAreCandidates'
  <2>1. checked' = [checked EXCEPT ![p] = {}] /\ stage' = stage
    BY <1>8 DEF SweepErase, Erase, SweepSkip
  <2>2. removing' = [removing EXCEPT ![p] = @ \ {r}]
    BY <1>8 DEF SweepErase, SweepSkip
  <2> QED
    BY <2>1, <2>2, <1>1 DEF TypeOK
<1> QED
  BY <1>3, <1>4, <1>5, <1>6, <1>7, <1>8 DEF Next

-----------------------------------------------------------------------------
(* Whoever can be spared can be spared until a pass gets to them. *)

LEMMA NewerCount ==
  ASSUME NEW r
  PROVE  IsFiniteSet(Newer(r)) /\ Cardinality(Newer(r)) \in Nat
<1>1. Newer(r) \in SUBSET Run
  BY DEF Newer, Ended
<1>2. IsFiniteSet(Newer(r))
  BY <1>1, FS_Subset, RetentionAssumption
<1> QED
  BY <1>2, FS_CardinalityType

\* More runs that have ended, more that are known to be late, more that are counted as lost: no
\* run is needed again.
LEMMA StaysSpared ==
  ASSUME TypeOK, TypeOK', NEW r, Spared(r), Ended \subseteq Ended', late \subseteq late', lost <= lost'
  PROVE  Spared(r)'
<1>1. Newer(r) \subseteq Newer(r)'
  BY DEF Newer
<1>2. IsFiniteSet(Newer(r)') /\ Cardinality(Newer(r))' \in Nat /\ Cardinality(Newer(r)) \in Nat
  <2>1. Newer(r)' \in SUBSET Run
    BY DEF Newer, Ended
  <2>2. IsFiniteSet(Newer(r)')
    BY <2>1, FS_Subset, RetentionAssumption
  <2> QED
    BY <2>2, NewerCount, FS_CardinalityType
<1>3. Cardinality(Newer(r)) <= Cardinality(Newer(r)')
  BY <1>1, <1>2, FS_Subset
<1>4. lost \in Nat /\ lost' \in Nat
  BY DEF TypeOK
<1> QED
  BY <1>2, <1>3, <1>4, RetentionAssumption DEF Spared

\* Nor does a removal make one needed: that of a run which itself could be spared leaves Keep
\* newer ones, and any other is counted.
LEMMA RemovalSpares ==
  ASSUME TypeOK, TypeOK', ~Idle, NEW d \in Deleter, NEW e \in Run, Erase(d, e), d = User \/ Spared(e),
         NEW r \in Run, Spared(r)
  PROVE  Spared(r)'
<1>1. lost \in Nat /\ Keep \in Nat
  BY RetentionAssumption DEF TypeOK
<1>2. late' = late /\ Ended' = Ended \ {e}
  BY DEF Erase, Ended, TypeOK, Terminal
<1>3. Newer(r)' = Newer(r) \ {e}
  BY <1>2 DEF Newer
<1>4. /\ IsFiniteSet(Newer(r)) /\ Cardinality(Newer(r)) \in Nat
      /\ IsFiniteSet(Newer(e)) /\ Cardinality(Newer(e)) \in Nat
  BY NewerCount
<1>5. CASE d = User \/ e \in late
  <2>1. lost' = lost + 1
    BY <1>5 DEF Erase
  <2>2. Cardinality(Newer(r) \ {e}) = IF e \in Newer(r) THEN Cardinality(Newer(r)) - 1 ELSE Cardinality(Newer(r))
    BY <1>4, FS_RemoveElement
  <2>3. Cardinality(Newer(r)') + lost' >= Cardinality(Newer(r)) + lost
    BY <1>1, <1>3, <1>4, <2>1, <2>2
  <2>4. Cardinality(Newer(r)') \in Nat /\ lost' \in Nat
    BY <1>1, <1>3, <1>4, <2>1, FS_RemoveElement, FS_CardinalityType
  <2> QED
    BY <1>1, <1>2, <1>4, <2>3, <2>4 DEF Spared
<1>6. CASE d # User /\ e \notin late
  <2>1. Cardinality(Newer(e)) + lost >= Keep
    BY <1>6 DEF Spared
  <2>2. lost' = lost
    BY <1>6 DEF Erase
  <2>3. CASE e \in Newer(r)
    <3>1. e \in Nat /\ r \in Nat /\ e > r /\ Ended \subseteq Nat
      BY <2>3, RetentionAssumption DEF Newer, Ended
    <3>2. Newer(e) \subseteq Newer(r) \ {e}
      <4>1. ASSUME NEW q \in Newer(e) PROVE q \in Newer(r) /\ q # e
        BY <3>1 DEF Newer
      <4> QED
        BY <4>1
    <3>3. IsFiniteSet(Newer(r) \ {e}) /\ Cardinality(Newer(r) \ {e}) \in Nat
      BY <1>4, FS_RemoveElement, FS_CardinalityType
    <3>4. Cardinality(Newer(e)) <= Cardinality(Newer(r) \ {e})
      BY <3>2, <3>3, FS_Subset
    <3> QED
      BY <1>1, <1>3, <1>4, <2>1, <2>2, <3>3, <3>4 DEF Spared
  <2>4. CASE e \notin Newer(r)
    <3>1. Newer(r)' = Newer(r)
      BY <1>3, <2>4
    <3> QED
      BY <3>1, <1>2, <2>2 DEF Spared
  <2> QED
    BY <2>3, <2>4
<1> QED
  BY <1>5, <1>6

LEMMA SpareStep ==
  TypeOK /\ TypeOK' /\ PlansSpare /\ ChecksAreCandidates /\ [Next]_vars => PlansSpare'
<1> SUFFICES ASSUME TypeOK, TypeOK', PlansSpare, ChecksAreCandidates, [Next]_vars PROVE PlansSpare'
  OBVIOUS
<1> USE DEF data, pass, history
<1>1. lost \in Nat
  BY DEF TypeOK
\* neither the plans nor who has ended change, and no count falls
<1>2. ASSUME stage' = stage, protected' = protected, removing' = removing,
             Ended' = Ended, late' = late, lost' = lost
      PROVE  PlansSpare'
  <2>1. \A r : Spared(r) => Spared(r)'
    BY <1>1, <1>2, StaysSpared
  <2> QED
    BY <1>2, <2>1 DEF PlansSpare
<1>3. ASSUME NEW r \in Run, Create(r) PROVE PlansSpare'
  <2>1. Ended' = Ended
    BY <1>3 DEF Create, Ended, TypeOK, Terminal
  <2> QED
    BY <2>1, <1>2, <1>3 DEF Create
<1>4. ASSUME NEW r \in Run, NEW outcome \in Terminal, End(r, outcome) PROVE PlansSpare'
  <2>1. Ended' = Ended \cup {r} /\ late \subseteq late' /\ lost' = lost
    BY <1>4 DEF End, Ended, TypeOK, Terminal
  <2>2. \A q : Spared(q) => Spared(q)'
    BY <1>1, <2>1, StaysSpared
  <2>3. stage' = stage /\ protected' = protected /\ removing' = removing
    BY <1>4 DEF End
  <2>4. ASSUME NEW p \in Pass, stage[p] = "selecting" PROVE Spared(r)'
    BY <1>4, <2>4 DEF End, Spared
  <2> QED
    BY <2>1, <2>2, <2>3, <2>4 DEF PlansSpare
<1>5. ASSUME NEW r \in Run, SaveScenario(r) PROVE PlansSpare'
  BY <1>5, <1>2 DEF SaveScenario, Ended
<1>6. ASSUME NEW d \in Deleter, NEW r \in Run, Read(d, r) PROVE PlansSpare'
  BY <1>6, <1>2 DEF Read, Ended
<1>7. CASE Age
  BY <1>7, <1>2 DEF Age, Ended
<1>8. CASE UNCHANGED vars
  BY <1>8, <1>2 DEF vars, Ended
\* a removal while a pass is at work
<1>9. ASSUME NEW d \in Deleter, NEW e \in Run, Erase(d, e), d = User \/ Spared(e),
             \A p \in Pass : removing'[p] \subseteq removing[p]
      PROVE  PlansSpare'
  <2>1. stage' = stage /\ protected' = protected
    BY <1>9 DEF Erase
  <2>2. Ended' \subseteq Ended /\ Ended \subseteq Run
    BY <1>9 DEF Erase, Ended, TypeOK, Terminal
  <2>3. ASSUME NEW p \in Pass, stage[p] # "idle", NEW r \in Run, Spared(r) PROVE Spared(r)'
    <3>1. ~Idle
      BY <2>3 DEF Idle
    <3> QED
      BY <1>9, <2>3, <3>1, RemovalSpares
  <2>4. ASSUME NEW p \in Pass, stage[p] = "selecting" PROVE \A r \in Ended' \ protected'[p] : Spared(r)'
    BY <2>1, <2>2, <2>3, <2>4 DEF PlansSpare
  <2>5. ASSUME NEW p \in Pass, stage[p] = "removing" PROVE \A r \in removing'[p] : Spared(r)'
    <3>1. removing[p] \subseteq Run /\ removing'[p] \subseteq removing[p]
      BY <1>9 DEF TypeOK
    <3>2. \A r \in removing[p] : Spared(r)
      BY <2>5 DEF PlansSpare
    <3> QED
      BY <3>1, <3>2, <2>3, <2>5
  <2> QED
    BY <2>1, <2>4, <2>5 DEF PlansSpare
<1>10. ASSUME NEW r \in Run, UserErase(r) PROVE PlansSpare'
  <2>1. Erase(User, r) /\ removing' = removing /\ User \in Deleter
    BY <1>10 DEF UserErase, Deleter
  <2> QED
    BY <2>1, <1>9
<1>11. ASSUME NEW p \in Pass, NEW r \in Run, SweepErase(p, r) PROVE PlansSpare'
  <2>1. Erase(p, r) /\ p \in Deleter /\ stage[p] = "removing" /\ r \in removing[p]
    BY <1>11 DEF SweepErase, Deleter, Turn
  <2>2. Spared(r)
    BY <2>1 DEF PlansSpare
  <2>3. \A q \in Pass : removing'[q] \subseteq removing[q]
    BY <1>11 DEF SweepErase, TypeOK
  <2> QED
    BY <2>1, <2>2, <2>3, <1>9
\* a pass goes on with its plan while no run changes
<1>12. ASSUME NEW p \in Pass, status' = status, late' = late, lost' = lost,
              \A q \in Pass \ {p} : /\ stage'[q] = stage[q] /\ protected'[q] = protected[q]
                                    /\ removing'[q] = removing[q],
              stage'[p] = "selecting" => \A r \in Ended \ protected'[p] : Spared(r),
              stage'[p] = "removing" => \A r \in removing'[p] : Spared(r)
       PROVE  PlansSpare'
  <2>1. Ended' = Ended
    BY <1>12 DEF Ended
  <2>2. \A r : Spared(r) => Spared(r)'
    BY <1>1, <1>12, <2>1, StaysSpared
  <2> QED
    BY <1>12, <2>1, <2>2 DEF PlansSpare
<1>13. ASSUME NEW p \in Pass, PlanLatest(p) \/ PlanScenarios(p) PROVE PlansSpare'
  <2>1. stage'[p] \in {"scenarios", "recent"}
    BY <1>13 DEF PlanLatest, PlanScenarios, Protect, TypeOK
  <2> QED
    BY <2>1, <1>12, <1>13 DEF PlanLatest, PlanScenarios, Protect, TypeOK
<1>14. ASSUME NEW p \in Pass, PlanRecent(p) PROVE PlansSpare'
  <2>1. stage'[p] = "selecting" /\ MostRecent \subseteq protected'[p]
    BY <1>14 DEF PlanRecent, Protect, TypeOK
  <2>2. ASSUME NEW r \in Ended \ protected'[p] PROVE Spared(r)
    <3>1. ~(Cardinality(Newer(r)) < Keep)
      BY <2>1, <2>2 DEF MostRecent
    <3>2. Cardinality(Newer(r)) \in Nat
      BY NewerCount
    <3> QED
      BY <3>1, <3>2, <1>1, RetentionAssumption DEF Spared
  <2> QED
    BY <2>1, <2>2, <1>12, <1>14 DEF PlanRecent, Protect, TypeOK
<1>15. ASSUME NEW p \in Pass, Plan(p) PROVE PlansSpare'
  <2> DEFINE C == Candidates(protected[p])
  <2>1. C \in SUBSET Run /\ C \subseteq Ended \ protected[p]
    BY DEF Candidates, Ended
  <2> HIDE DEF C
  <2>2. OldestFirst(C) \subseteq C
    BY <2>1, SelectionFits
  <2>3. \A r \in C : Spared(r)
    BY <2>1, <1>15 DEF Plan, PlansSpare
  <2>4. stage'[p] = "removing" /\ removing'[p] = OldestFirst(C)
    BY <1>15 DEF Plan, C, TypeOK
  <2> QED
    BY <2>2, <2>3, <2>4, <1>12, <1>15 DEF Plan, TypeOK
<1>16. ASSUME NEW p \in Pass, NEW r \in Run, SweepSkip(p, r) PROVE PlansSpare'
  <2>1. stage[p] = "removing" /\ stage' = stage /\ removing'[p] \subseteq removing[p]
    BY <1>16 DEF SweepSkip, Turn, TypeOK
  <2>2. \A q \in removing'[p] : Spared(q)
    BY <2>1 DEF PlansSpare
  <2> QED
    BY <2>1, <2>2, <1>12, <1>16 DEF SweepSkip, TypeOK
<1>17. ASSUME NEW p \in Pass, SweepDone(p) PROVE PlansSpare'
  <2>1. stage'[p] = "idle" /\ protected' = protected /\ removing' = removing /\ status' = status
    BY <1>17 DEF SweepDone, TypeOK
  <2>2. CASE Idle'
    BY <2>2 DEF Idle, PlansSpare
  <2>3. CASE ~Idle'
    <3>1. late' = late /\ lost' = lost
      BY <1>17, <2>3 DEF SweepDone
    <3> QED
      BY <2>1, <3>1, <1>12, <1>17 DEF SweepDone, TypeOK
  <2> QED
    BY <2>2, <2>3
<1> QED
  BY <1>3, <1>4, <1>5, <1>6, <1>7, <1>8, <1>10, <1>11, <1>13, <1>14, <1>15, <1>16, <1>17
  DEF Next, Terminal, Deleter, SweepRead

-----------------------------------------------------------------------------
(* The theorems. *)

LEMMA Invariance == Spec => []IInv
<1>1. IInv /\ [Next]_vars => IInv'
  BY TypeStep, CheckedStep, CandidateStep, SpareStep DEF IInv
<1> QED
  BY InitIInv, <1>1, PTL DEF Spec

\* Runs, plans and removals keep their types; in particular no pass takes on more than
\* retention_batch runs, whatever the plan's statements saw.
THEOREM TypeCorrectness == Spec => []TypeOK
<1>1. IInv => TypeOK
  BY DEF IInv
<1> QED
  BY <1>1, Invariance, PTL

\* However many passes and people delete at once, and though delete_run looks at the status in a
\* statement before it deletes, no run goes before it has ended.
THEOREM UnfinishedRunsStay == Spec => UnfinishedStays
<1>1. IInv /\ [Next]_vars => [\A r \in Run : Removed(r) => status[r] \in Terminal]_vars
  <2> SUFFICES ASSUME IInv, Next, NEW r \in Run, Removed(r) PROVE status[r] \in Terminal
    OBVIOUS
  <2>1. TypeOK /\ CheckedHaveEnded
    BY DEF IInv
  <2> USE DEF Removed, data, pass, history
  <2>2. ASSUME NEW d \in Deleter, NEW e \in Run, Erase(d, e) PROVE status[r] \in Terminal
    <3>1. r = e /\ r \in checked[d]
      BY <2>1, <2>2 DEF Erase, TypeOK
    <3> QED
      BY <2>1, <3>1 DEF CheckedHaveEnded
  <2>3. ASSUME NEW q \in Run, Create(q) \/ End(q, "completed") \/ End(q, "failed") PROVE FALSE
    BY <2>1, <2>3 DEF Create, End, TypeOK
  <2>4. ASSUME status' = status PROVE FALSE
    BY <2>4
  <2>5. ASSUME NEW d, NEW q, Read(d, q) \/ SaveScenario(q) \/ SweepSkip(d, q) PROVE FALSE
    BY <2>4, <2>5 DEF Read, SaveScenario, SweepSkip
  <2>6. ASSUME NEW p, PlanLatest(p) \/ PlanScenarios(p) \/ PlanRecent(p) \/ Plan(p) \/ SweepDone(p) PROVE FALSE
    BY <2>4, <2>6 DEF PlanLatest, PlanScenarios, PlanRecent, Protect, Plan, SweepDone
  <2>7. CASE Age
    BY <2>4, <2>7 DEF Age
  <2> QED
    BY <2>2, <2>3, <2>5, <2>6, <2>7 DEF Next, Deleter, UserErase, SweepRead, SweepErase
<1>2. [][\A r \in Run : Removed(r) => status[r] \in Terminal]_vars <=> UnfinishedStays
  BY DEF UnfinishedStays
<1> QED
  BY <1>1, <1>2, Invariance, PTL DEF Spec

\* retention_keep_runs holds for passes that overlap, however late each gets to its candidates:
\* when a pass removes a run, that many finished ones are newer, less those that people removed
\* meanwhile, unless the run ended between two statements of a plan.
THEOREM NewestRunsStay == Spec => NewestStay
<1> DEFINE Kept == \A r \in Run, p \in Pass :
                     Removed(r) /\ BySweep(p, r) => Cardinality(Newer(r)) + lost >= Keep \/ r \in late
<1>1. IInv /\ [Next]_vars => [Kept]_vars
  <2> SUFFICES ASSUME IInv, NEW r \in Run, NEW p \in Pass, BySweep(p, r)
               PROVE  Cardinality(Newer(r)) + lost >= Keep \/ r \in late
    OBVIOUS
  <2>1. stage[p] = "removing" /\ r \in removing[p]
    BY DEF IInv, ChecksAreCandidates, BySweep
  <2> QED
    BY <2>1 DEF IInv, PlansSpare, Spared
<1>2. [][Kept]_vars <=> NewestStay
  BY DEF NewestStay
<1> HIDE DEF Kept
<1> QED
  BY <1>1, <1>2, Invariance, PTL DEF Spec

-------------------------------------------------------------------------------
(* The scores: any number of runs graded against any files, in             *)
(* transactions that overlap as they may.                                  *)

Periods == UNION {Horizon[r] : r \in Scored}
Figures == {G!Unread} \cup {G!Figure(f, p) : f \in File, p \in Periods}
MissesOf(r) == {0} \cup {G!Misses(r, G!Said(f, G!Settled(r, f))) : f \in File}
Cards == [source : File \cup {0}, periods : Nat, miss : UNION {MissesOf(r) : r \in Scored}, scoredAt : Nat]
Readings == [period : Periods, value : Figures, revisedAt : Nat, source : File, by : Nat]
Entries == [run : Scored, file : File, phase : {"graded", "recorded", "stored", "over"}, settled : SUBSET Periods,
            loaded : UNION {[Horizon[r] -> Figures] : r \in Scored}, card : Cards, stamp : Nat,
            new : SUBSET Readings, scoredAt : Nat]

Scorings == 1..Len(scoring)
OpenOnes == {i \in Scorings : scoring[i].phase # "over"}

ScoresTyped ==
    /\ clock \in Nat /\ scoring \in Seq(Entries) /\ readings \subseteq Readings
    /\ card \in [Scored -> Cards]
    /\ \A r \in Scored : /\ card[r].periods <= Cardinality(Horizon[r]) /\ card[r].miss \in MissesOf(r)
                         /\ card[r].scoredAt <= clock
    /\ DOMAIN actual = Scored /\ \A r \in Scored : actual[r] \in [Horizon[r] -> Figures]
    /\ \A i \in Scorings : /\ scoring[i].settled = G!Settled(scoring[i].run, scoring[i].file)
                           /\ scoring[i].stamp >= 1 /\ scoring[i].stamp <= clock /\ scoring[i].scoredAt <= clock
    /\ \A i, j \in Scorings : i < j => scoring[i].stamp < scoring[j].stamp

\* A run was last answered by a scoring of it that is over.
AnsweredByOne ==
    /\ DOMAIN answered = Scored
    /\ \A r \in Scored : answered[r] # <<>> =>
          answered[r][1] \in Scorings \ OpenOnes /\ scoring[answered[r][1]].run = r

\* One that begins while another is open meets it.
WhoOverlapsMeets == \A i \in OpenOnes, j \in Scorings : i < j => {i, j} \in met

Alone(i) == \A j \in Scorings : {i, j} \notin met
AloneOnItsRun(i) == \A j \in Scorings : scoring[j].run = scoring[i].run => {i, j} \notin met

\* What a scoring that met no other of its run has loaded is what there still is.
LoadedStands ==
    \A i \in OpenOnes : AloneOnItsRun(i) =>
        scoring[i].card = card[scoring[i].run] /\ scoring[i].loaded = actual[scoring[i].run]

\* A reading is that of a scoring that is over, one of a period.
ReadingsAreOfOne ==
    /\ \A o \in readings : /\ o.by \in Scorings \ OpenOnes
                           /\ o.revisedAt = scoring[o.by].stamp
    /\ \A o, m \in readings : o.period = m.period /\ o.revisedAt = m.revisedAt => o = m

\* What a scoring is about to write is what its file says.
NewIsOfTheFile ==
    \A i \in OpenOnes : \A o \in scoring[i].new :
        /\ o.period \in scoring[i].settled /\ o.value = G!Figure(scoring[i].file, o.period)
        /\ o.revisedAt = scoring[i].stamp /\ o.by = i /\ o.source = scoring[i].file

\* It revises what is read last before it, unless they met.
Follows(o, n, all) ==
    /\ o.period = n.period /\ o.revisedAt < n.revisedAt
    /\ ~ \E m \in all : m.period = o.period /\ m.revisedAt \in o.revisedAt + 1 .. n.revisedAt - 1
NewRevises ==
    \A i \in OpenOnes : \A n \in scoring[i].new, o \in readings :
        Follows(o, n, readings) => o.value # n.value \/ {o.by, i} \in met

\* One that met no other is the latest, and what it does not write anew is in force as its file says.
AloneIsLatest == \A i \in OpenOnes : Alone(i) => \A o \in readings : o.revisedAt < scoring[i].stamp
AloneCovers ==
    \A i \in OpenOnes : Alone(i) /\ scoring[i].phase # "graded" =>
        \A p \in G!Carried(scoring[i].file, scoring[i].settled) :
            (\E n \in scoring[i].new : n.period = p)
            \/ G!InForceAt(p, scoring[i].stamp) = G!Figure(scoring[i].file, p)

\* The card of a run is that of its last scoring, if this met no other of the run.
CardIsOfTheLast ==
    \A r \in Scored : answered[r] # <<>> /\ AloneOnItsRun(answered[r][1]) =>
        LET s == scoring[answered[r][1]]
        IN /\ card[r] = G!Card(r, s.file, s.scoredAt)
           /\ \A p \in s.settled : actual[r][p] = G!Figure(s.file, p)

\* What it was measured against is in force until somebody revises it later; and who is still open
\* would be later.
MeasuredInForce ==
    \A r \in Scored : answered[r] # <<>> /\ Alone(answered[r][1]) =>
        LET s == scoring[answered[r][1]]
        IN /\ \A i \in OpenOnes : s.scoredAt < scoring[i].stamp
           /\ (\A o \in readings : o.revisedAt <= s.scoredAt) =>
                  \A p \in G!Carried(s.file, s.settled) : G!InForceAt(p, clock) = G!Figure(s.file, p)

ScoresInv ==
    /\ ScoresTyped /\ AnsweredByOne /\ WhoOverlapsMeets /\ LoadedStands /\ ReadingsAreOfOne /\ NewIsOfTheFile
    /\ NewRevises /\ AloneIsLatest /\ AloneCovers /\ CardIsOfTheLast /\ MeasuredInForce /\ G!RevisionsRevise

\* What is in force of a period, of all that is known of it.
Known(all, p, at) == {o \in all : o.period = p /\ o.revisedAt <= at}
InForceOf(known) ==
    IF known = {} THEN G!Unread ELSE (CHOOSE o \in known : \A other \in known : other.revisedAt <= o.revisedAt).value

LEMMA LastIs ==
    ASSUME NEW known, NEW n \in Nat, known # {}, \A o \in known : o.revisedAt \in Nat /\ o.revisedAt <= n
    PROVE  \E m \in known : (\A other \in known : other.revisedAt <= m.revisedAt) /\ InForceOf(known) = m.value
<1> DEFINE T == {k \in Nat : \E o \in known : k = n - o.revisedAt}
<1>1. T # {} /\ T \subseteq Nat
  <2>1. PICK o \in known : TRUE
    OBVIOUS
  <2>2. n - o.revisedAt \in Nat
    BY <2>1
  <2> QED
    BY <2>1, <2>2
<1>2. IsWellFoundedOn(OpToRel(<, Nat), Nat)
  BY NatLessThanWellFounded, Zenon
<1>3. PICK least \in T : \A k \in T : ~ (<<k, least>> \in OpToRel(<, Nat))
  <2> HIDE DEF T
  <2> QED
    BY <1>1, <1>2, WFMin, Zenon
<1>4. OpToRel(<, Nat) = {s \in Nat \X Nat : s[1] < s[2]}
  BY Zenon DEF OpToRel
<1>5. PICK m \in known : least = n - m.revisedAt
  OBVIOUS
<1>6. ASSUME NEW o \in known PROVE o.revisedAt <= m.revisedAt
  <2>1. n - o.revisedAt \in T /\ n - o.revisedAt \in Nat /\ least \in Nat
    OBVIOUS
  <2>2. ~(n - o.revisedAt < least)
    BY <1>3, <1>4, <2>1
  <2>3. o.revisedAt \in Nat /\ m.revisedAt \in Nat
    OBVIOUS
  <2> QED
    BY <1>5, <2>2, <2>3
<1> DEFINE last == CHOOSE o \in known : \A other \in known : other.revisedAt <= o.revisedAt
<1>7. last \in known /\ \A other \in known : other.revisedAt <= last.revisedAt
  BY <1>6
<1>8. InForceOf(known) = last.value
  BY DEF InForceOf
<1> QED
  BY <1>7, <1>8

LEMMA InForceByReadings ==
    /\ \A p, at : G!InForceAt(p, at) = InForceOf(Known(readings, p, at))
    /\ \A p, at : G!InForceAt(p, at)' = InForceOf(Known(readings', p, at))
BY DEF G!InForceAt, InForceOf, Known

\* Each reading is as old as its scoring.
LEMMA ReadingFacts ==
    ASSUME ScoresTyped, ReadingsAreOfOne, NEW o \in readings
    PROVE  o.revisedAt \in Nat /\ o.revisedAt <= clock /\ o.by \in Scorings /\ o.revisedAt = scoring[o.by].stamp
BY DEF ScoresTyped, ReadingsAreOfOne, Readings, OpenOnes

LEMMA EntryFacts ==
    ASSUME ScoresTyped, NEW i \in Scorings
    PROVE  /\ scoring[i] \in Entries /\ scoring[i].stamp \in Nat /\ scoring[i].scoredAt \in Nat
           /\ scoring[i].run \in Scored /\ scoring[i].file \in File /\ scoring[i].stamp <= clock
           /\ clock \in Nat /\ Len(scoring) \in Nat
<1>1. scoring[i] \in Entries
  BY ElementOfSeq DEF ScoresTyped, Scorings
<1> QED
  BY <1>1 DEF ScoresTyped, Entries

\* What was known as late as everything there is, is known later.
LEMMA KnownLater ==
    ASSUME NEW all, NEW p, NEW at \in Nat, NEW later \in Nat, \A o \in all : o.revisedAt \in Nat /\ o.revisedAt <= at,
           at <= later
    PROVE  Known(all, p, at) = Known(all, p, later)
BY DEF Known

\* A step of one scoring which nobody else sees.
LEMMA QuietStep ==
    ASSUME ScoresInv, NEW i \in OpenOnes, scoring' \in Seq(Entries), clock' \in Nat,
           card' = card, actual' = actual, readings' = readings, answered' = answered, met' = met,
           clock <= clock', Len(scoring') = Len(scoring),
           \A j \in Scorings : j # i => scoring'[j] = scoring[j],
           \A j \in Scorings : /\ scoring'[j].run = scoring[j].run /\ scoring'[j].file = scoring[j].file
                               /\ scoring'[j].settled = scoring[j].settled /\ scoring'[j].stamp = scoring[j].stamp
                               /\ scoring'[j].loaded = scoring[j].loaded /\ scoring'[j].card = scoring[j].card
                               /\ scoring'[j].scoredAt <= clock',
           scoring'[i].phase # "over" =>
               \A o \in scoring'[i].new :
                  /\ o.period \in scoring[i].settled /\ o.value = G!Figure(scoring[i].file, o.period)
                  /\ o.revisedAt = scoring[i].stamp /\ o.by = i /\ o.source = scoring[i].file,
           scoring'[i].phase # "over" =>
               \A n \in scoring'[i].new, o \in readings :
                   Follows(o, n, readings) => o.value # n.value \/ {o.by, i} \in met,
           scoring'[i].phase # "over" /\ Alone(i) /\ scoring'[i].phase # "graded" =>
               \A p \in G!Carried(scoring[i].file, scoring[i].settled) :
                   (\E n \in scoring'[i].new : n.period = p)
                   \/ G!InForceAt(p, scoring[i].stamp) = G!Figure(scoring[i].file, p)
    PROVE  ScoresInv'
<1>1. Scorings' = Scorings /\ OpenOnes' \subseteq OpenOnes /\ OpenOnes \subseteq Scorings
  BY DEF Scorings, OpenOnes
<1>t. ScoresTyped'
  <2>1. \A r \in Scored : card[r].scoredAt \in Nat /\ card[r].scoredAt <= clock
    BY DEF ScoresInv, ScoresTyped, Cards
  <2>2. \A j \in Scorings : scoring[j].stamp \in Nat /\ scoring[j].stamp <= clock
    BY EntryFacts DEF ScoresInv
  <2>3. \A r \in Scored : card[r].scoredAt <= clock'
    BY <2>1 DEF ScoresInv, ScoresTyped
  <2>4. \A j \in Scorings : scoring'[j].stamp <= clock'
    BY <2>2 DEF ScoresInv, ScoresTyped
  <2> QED
    BY <1>1, <2>3, <2>4 DEF ScoresInv, ScoresTyped
<1>2. \A j \in Scorings \ OpenOnes : j \in Scorings' \ OpenOnes' /\ j # i /\ scoring'[j] = scoring[j]
  BY <1>1
<1>3. \A j \in OpenOnes' : j \in OpenOnes /\ (j = i => scoring'[i].phase # "over") /\ (j # i => scoring'[j] = scoring[j])
  BY <1>1 DEF OpenOnes
<1>4. \A j \in Scorings : (Alone(j)' <=> Alone(j)) /\ (AloneOnItsRun(j)' <=> AloneOnItsRun(j))
  BY <1>1 DEF Alone, AloneOnItsRun
<1>5. AnsweredByOne'
  BY <1>2 DEF ScoresInv, AnsweredByOne
<1>6. WhoOverlapsMeets'
  BY <1>1, <1>3 DEF ScoresInv, WhoOverlapsMeets
<1>7. LoadedStands'
  BY <1>1, <1>3, <1>4 DEF ScoresInv, LoadedStands
<1>8. ReadingsAreOfOne'
  BY <1>2 DEF ScoresInv, ReadingsAreOfOne
<1>9. NewIsOfTheFile'
  BY <1>1, <1>3 DEF ScoresInv, NewIsOfTheFile
<1>10. NewRevises'
  BY <1>3 DEF ScoresInv, NewRevises
<1>11. AloneIsLatest'
  BY <1>1, <1>3, <1>4 DEF ScoresInv, AloneIsLatest
<1>12. AloneCovers'
  <2> SUFFICES ASSUME NEW j \in OpenOnes', Alone(j)', scoring'[j].phase # "graded", NEW p \in G!Carried(scoring'[j].file, scoring'[j].settled)
               PROVE  (\E n \in scoring'[j].new : n.period = p)
                      \/ InForceOf(Known(readings', p, scoring'[j].stamp)) = G!Figure(scoring'[j].file, p)
    BY InForceByReadings DEF AloneCovers
  <2>1. G!InForceAt(p, scoring[j].stamp) = InForceOf(Known(readings', p, scoring[j].stamp))
    BY InForceByReadings
  <2>2. Alone(j) /\ j \in Scorings /\ scoring'[j].stamp = scoring[j].stamp
    BY <1>1, <1>3, <1>4
  <2> QED
    BY <1>1, <1>3, <2>1, <2>2 DEF ScoresInv, AloneCovers
<1>13. CardIsOfTheLast'
  <2> SUFFICES ASSUME NEW r \in Scored, answered[r] # <<>>, AloneOnItsRun(answered[r][1])'
               PROVE  LET s == scoring'[answered[r][1]]
                      IN /\ card'[r] = G!Card(r, s.file, s.scoredAt)
                         /\ \A p \in s.settled : actual'[r][p] = G!Figure(s.file, p)
    BY DEF CardIsOfTheLast
  <2>1. answered[r][1] \in Scorings \ OpenOnes
    BY DEF ScoresInv, AnsweredByOne
  <2> QED
    BY <1>2, <1>4, <2>1 DEF ScoresInv, CardIsOfTheLast
<1>14. MeasuredInForce'
  <2> SUFFICES ASSUME NEW r \in Scored, answered[r] # <<>>, Alone(answered[r][1])'
               PROVE  LET s == scoring'[answered[r][1]]
                      IN /\ \A j \in OpenOnes' : s.scoredAt < scoring'[j].stamp
                         /\ (\A o \in readings : o.revisedAt <= s.scoredAt) =>
                                \A p \in G!Carried(s.file, s.settled) : InForceOf(Known(readings, p, clock')) = G!Figure(s.file, p)
    BY InForceByReadings DEF MeasuredInForce
  <2>1. answered[r][1] \in Scorings \ OpenOnes
    BY DEF ScoresInv, AnsweredByOne
  <2>2. Alone(answered[r][1]) /\ scoring'[answered[r][1]] = scoring[answered[r][1]]
    BY <1>2, <1>4, <2>1
  <2>3. \A j \in OpenOnes' : j \in OpenOnes /\ scoring'[j].stamp = scoring[j].stamp
    BY <1>1, <1>3
  <2>4. clock \in Nat /\ clock' \in Nat
    BY DEF ScoresInv, ScoresTyped
  <2>5. \A p : Known(readings, p, clock) = Known(readings, p, clock')
    <3>1. \A o \in readings : o.revisedAt \in Nat /\ o.revisedAt <= clock
      BY ReadingFacts DEF ScoresInv
    <3> QED
      BY <2>4, <3>1, KnownLater
  <2>6. \A p : InForceOf(Known(readings, p, clock')) = G!InForceAt(p, clock)
    BY <2>5, InForceByReadings
  <2> QED
    BY <2>2, <2>3, <2>6 DEF ScoresInv, MeasuredInForce
<1>15. G!RevisionsRevise'
  BY DEF ScoresInv, G!RevisionsRevise
<1> QED
  BY <1>t, <1>5, <1>6, <1>7, <1>8, <1>9, <1>10, <1>11, <1>12, <1>13, <1>14, <1>15 DEF ScoresInv

LEMMA RecordStep ==
    ASSUME ScoresInv, NEW i \in Scorings, G!Record(i) PROVE ScoresInv'
<1> DEFINE s == scoring[i]
           new == {[period |-> p, value |-> G!Figure(s.file, p), revisedAt |-> s.stamp, source |-> s.file, by |-> i] :
                     p \in G!Changed(s)}
<1>c. clock' = clock /\ clock \in Nat
  BY DEF G!Record, ScoresInv, ScoresTyped
<1>0. clock <= clock' /\ clock' \in Nat
  BY <1>c
<1>1. /\ s.phase = "graded" /\ scoring' = [scoring EXCEPT ![i].phase = "recorded", ![i].new = new]
      /\ card' = card /\ actual' = actual /\ readings' = readings /\ clock' = clock /\ answered' = answered
      /\ met' = met
  BY DEF G!Record
<1>2. /\ scoring \in Seq(Entries) /\ s \in Entries /\ s.settled = G!Settled(s.run, s.file) /\ s.settled \subseteq Periods
      /\ s.stamp \in Nat /\ s.file \in File /\ clock \in Nat /\ i \in Nat
  BY EntryFacts DEF ScoresInv, ScoresTyped, Scorings, Entries
<1>3. G!Changed(s) \subseteq s.settled
  BY DEF G!Changed, G!Carried
<1>4. new \in SUBSET Readings
  <2>1. \A p \in G!Changed(s) : p \in Periods /\ G!Figure(s.file, p) \in Figures
    BY <1>2, <1>3 DEF Figures
  <2> QED
    BY <1>2, <2>1 DEF Readings
<1>5. /\ scoring' \in Seq(Entries) /\ Len(scoring') = Len(scoring)
      /\ \A j \in Scorings : j # i => scoring'[j] = scoring[j]
      /\ scoring'[i].phase = "recorded" /\ scoring'[i].new = new
      /\ scoring'[i].run = s.run /\ scoring'[i].file = s.file /\ scoring'[i].settled = s.settled
      /\ scoring'[i].stamp = s.stamp /\ scoring'[i].loaded = s.loaded /\ scoring'[i].card = s.card
      /\ scoring'[i].scoredAt = s.scoredAt
  <2>1. [s EXCEPT !.phase = "recorded", !.new = new] \in Entries
    <3> HIDE DEF new
    <3> QED
      BY <1>2, <1>4 DEF Entries
  <2>2. scoring' = [scoring EXCEPT ![i] = [s EXCEPT !.phase = "recorded", !.new = new]]
    BY <1>1, <1>2, <2>1
  <2> HIDE DEF new
  <2> QED
    BY <1>2, <2>1, <2>2, ExceptSeq DEF Scorings, Entries
<1>6. i \in OpenOnes
  BY <1>1 DEF OpenOnes
<1>7. \A o \in new : /\ o.period \in G!Changed(s) /\ o.value = G!Figure(s.file, o.period)
                     /\ o.revisedAt = s.stamp /\ o.by = i /\ o.source = s.file
  OBVIOUS
<1> HIDE DEF new
<1>8. ASSUME NEW n \in new, NEW o \in readings, Follows(o, n, readings)
      PROVE  o.value # n.value
  <2> DEFINE known == Known(readings, n.period, s.stamp)
  <2>1. \A m \in readings : m.revisedAt \in Nat /\ m.revisedAt # s.stamp
    <3> SUFFICES ASSUME NEW m \in readings PROVE m.revisedAt \in Nat /\ m.revisedAt # s.stamp
      OBVIOUS
    <3>1. m.by \in Scorings \ OpenOnes /\ m.revisedAt = scoring[m.by].stamp
      BY DEF ScoresInv, ReadingsAreOfOne
    <3>2. m.by < i \/ i < m.by
      BY <1>2, <1>6, <3>1 DEF Scorings
    <3>3. scoring[m.by].stamp \in Nat
      BY <3>1, EntryFacts DEF ScoresInv
    <3> QED
      <4>1. \A j, k \in Scorings : j < k => scoring[j].stamp < scoring[k].stamp
        BY DEF ScoresInv, ScoresTyped
      <4>2. scoring[m.by].stamp < s.stamp \/ s.stamp < scoring[m.by].stamp
        BY <3>1, <3>2, <4>1
      <4> QED
        BY <1>2, <3>1, <3>3, <4>2
  <2>2. o \in known
    <3>1. o.period = n.period /\ o.revisedAt < n.revisedAt
      BY <1>8 DEF Follows
    <3>2. n.revisedAt = s.stamp
      BY <1>7
    <3>3. o.revisedAt <= s.stamp
      BY <1>2, <2>1, <3>1, <3>2
    <3> QED
      BY <3>1, <3>3 DEF Known
  <2>3. \A m \in known : m \in readings /\ m.period = n.period /\ m.revisedAt \in Nat /\ m.revisedAt <= s.stamp
    BY <2>1 DEF Known
  <2>4. PICK last \in known : (\A m \in known : m.revisedAt <= last.revisedAt) /\ InForceOf(known) = last.value
    <3> HIDE DEF known
    <3> QED
      BY <1>2, <2>2, <2>3, LastIs
  <2>5. last.value # n.value
    BY <1>7, <2>4, InForceByReadings DEF G!Changed
  <2>6. last = o
    <3>1. last.revisedAt \in Nat /\ o.revisedAt \in Nat /\ o.revisedAt <= last.revisedAt /\ last.revisedAt < s.stamp
      BY <1>2, <2>1, <2>2, <2>3, <2>4
    <3>2. last.revisedAt \notin o.revisedAt + 1 .. s.stamp - 1
      <4>1. ~ \E m \in readings : m.period = o.period /\ m.revisedAt \in o.revisedAt + 1 .. n.revisedAt - 1
        BY <1>8 DEF Follows
      <4>2. n.revisedAt = s.stamp /\ last \in readings /\ last.period = o.period
        BY <1>7, <2>2, <2>3, <2>4
      <4> QED
        BY <4>1, <4>2
    <3>3. last.revisedAt = o.revisedAt
      BY <1>2, <3>1, <3>2
    <3> QED
      BY <2>2, <2>3, <3>3 DEF ScoresInv, ReadingsAreOfOne
  <2> QED
    BY <2>5, <2>6
<1>9. \A p \in G!Carried(s.file, s.settled) : (\E n \in new : n.period = p) \/ G!InForceAt(p, s.stamp) = G!Figure(s.file, p)
  <2> SUFFICES ASSUME NEW p \in G!Carried(s.file, s.settled), G!InForceAt(p, s.stamp) # G!Figure(s.file, p)
               PROVE  \E n \in new : n.period = p
    OBVIOUS
  <2>1. p \in G!Changed(s)
    BY DEF G!Changed
  <2>2. [period |-> p, value |-> G!Figure(s.file, p), revisedAt |-> s.stamp, source |-> s.file, by |-> i] \in new
    BY <2>1 DEF new
  <2> QED
    BY <2>2
<1>10. \A j \in Scorings : scoring'[j].scoredAt <= clock'
  BY <1>1, <1>5 DEF ScoresInv, ScoresTyped
<1>11. /\ \A j \in Scorings : /\ scoring'[j].run = scoring[j].run /\ scoring'[j].file = scoring[j].file
                               /\ scoring'[j].settled = scoring[j].settled /\ scoring'[j].stamp = scoring[j].stamp
                               /\ scoring'[j].loaded = scoring[j].loaded /\ scoring'[j].card = scoring[j].card
                               /\ scoring'[j].scoredAt <= clock'
       /\ clock <= clock' /\ clock' \in Nat
  <2> SUFFICES ASSUME NEW j \in Scorings
               PROVE  /\ scoring'[j].run = scoring[j].run /\ scoring'[j].file = scoring[j].file
                      /\ scoring'[j].settled = scoring[j].settled /\ scoring'[j].stamp = scoring[j].stamp
                      /\ scoring'[j].loaded = scoring[j].loaded /\ scoring'[j].card = scoring[j].card
    BY <1>0, <1>10
  <2>1. CASE j = i
    BY <1>5, <2>1
  <2>2. CASE j # i
    BY <1>5, <2>2
  <2> QED
    BY <2>1, <2>2
<1>12. /\ \A o \in scoring'[i].new :
             /\ o.period \in scoring[i].settled /\ o.value = G!Figure(scoring[i].file, o.period)
             /\ o.revisedAt = scoring[i].stamp /\ o.by = i /\ o.source = scoring[i].file
       /\ \A n \in scoring'[i].new, o \in readings :
             Follows(o, n, readings) => o.value # n.value \/ {o.by, i} \in met
       /\ \A p \in G!Carried(scoring[i].file, scoring[i].settled) :
             (\E n \in scoring'[i].new : n.period = p)
             \/ G!InForceAt(p, scoring[i].stamp) = G!Figure(scoring[i].file, p)
  BY <1>3, <1>5, <1>7, <1>8, <1>9
<1> QED
  BY <1>1, <1>5, <1>6, <1>11, <1>12, QuietStep

LEMMA StoreStep ==
    ASSUME ScoresInv, NEW i \in Scorings, G!Store(i) PROVE ScoresInv'
<1> DEFINE s == scoring[i]
<1>c. clock' = clock + 1 /\ clock \in Nat
  BY DEF G!Store, ScoresInv, ScoresTyped
<1>0. clock <= clock' /\ clock' \in Nat
  BY <1>c
<1>1. /\ s.phase = "recorded" /\ clock' = clock + 1
      /\ scoring' = [scoring EXCEPT ![i].phase = "stored", ![i].scoredAt = clock']
      /\ card' = card /\ actual' = actual /\ readings' = readings /\ answered' = answered /\ met' = met
  BY DEF G!Store
<1>2. scoring \in Seq(Entries) /\ s \in Entries /\ clock \in Nat
  BY EntryFacts DEF ScoresInv, ScoresTyped
<1>3. /\ scoring' \in Seq(Entries) /\ Len(scoring') = Len(scoring)
      /\ \A j \in Scorings : j # i => scoring'[j] = scoring[j]
      /\ scoring'[i].phase = "stored" /\ scoring'[i].new = s.new
      /\ scoring'[i].run = s.run /\ scoring'[i].file = s.file /\ scoring'[i].settled = s.settled
      /\ scoring'[i].stamp = s.stamp /\ scoring'[i].loaded = s.loaded /\ scoring'[i].card = s.card
      /\ scoring'[i].scoredAt = clock + 1
  <2>1. [s EXCEPT !.phase = "stored", !.scoredAt = clock + 1] \in Entries
    <3>1. clock + 1 \in Nat
      BY <1>2
    <3> QED
      BY <1>2, <3>1 DEF Entries
  <2>2. scoring' = [scoring EXCEPT ![i] = [s EXCEPT !.phase = "stored", !.scoredAt = clock + 1]]
    BY <1>1, <1>2, <2>1
  <2> QED
    BY <1>2, <2>1, <2>2, ExceptSeq DEF Scorings, Entries
<1>4. i \in OpenOnes
  BY <1>1 DEF OpenOnes
<1>5. \A j \in Scorings : scoring'[j].scoredAt <= clock'
  <2>1. \A j \in Scorings : scoring[j].scoredAt \in Nat /\ scoring[j].scoredAt <= clock
    BY EntryFacts DEF ScoresInv, ScoresTyped
  <2>2. \A j \in Scorings : scoring'[j].scoredAt = scoring[j].scoredAt \/ scoring'[j].scoredAt = clock + 1
    BY <1>3
  <2> SUFFICES ASSUME NEW j \in Scorings PROVE scoring'[j].scoredAt <= clock'
    OBVIOUS
  <2>3. scoring[j].scoredAt \in Nat /\ scoring[j].scoredAt <= clock
    BY <2>1
  <2> QED
    BY <1>c, <2>2, <2>3
<1>6. /\ \A o \in s.new : /\ o.period \in s.settled /\ o.value = G!Figure(s.file, o.period)
                          /\ o.revisedAt = s.stamp /\ o.by = i /\ o.source = s.file
      /\ \A n \in s.new, o \in readings : Follows(o, n, readings) => o.value # n.value \/ {o.by, i} \in met
      /\ Alone(i) => \A p \in G!Carried(s.file, s.settled) :
                        (\E n \in s.new : n.period = p) \/ G!InForceAt(p, s.stamp) = G!Figure(s.file, p)
  BY <1>1, <1>4 DEF ScoresInv, NewIsOfTheFile, NewRevises, AloneCovers
<1>7. /\ \A j \in Scorings : /\ scoring'[j].run = scoring[j].run /\ scoring'[j].file = scoring[j].file
                               /\ scoring'[j].settled = scoring[j].settled /\ scoring'[j].stamp = scoring[j].stamp
                               /\ scoring'[j].loaded = scoring[j].loaded /\ scoring'[j].card = scoring[j].card
                               /\ scoring'[j].scoredAt <= clock'
       /\ clock <= clock' /\ clock' \in Nat
  <2> SUFFICES ASSUME NEW j \in Scorings
               PROVE  /\ scoring'[j].run = scoring[j].run /\ scoring'[j].file = scoring[j].file
                      /\ scoring'[j].settled = scoring[j].settled /\ scoring'[j].stamp = scoring[j].stamp
                      /\ scoring'[j].loaded = scoring[j].loaded /\ scoring'[j].card = scoring[j].card
    BY <1>0, <1>5
  <2>1. CASE j = i
    BY <1>3, <2>1
  <2>2. CASE j # i
    BY <1>3, <2>2
  <2> QED
    BY <2>1, <2>2
<1>8. /\ \A o \in scoring'[i].new :
             /\ o.period \in scoring[i].settled /\ o.value = G!Figure(scoring[i].file, o.period)
             /\ o.revisedAt = scoring[i].stamp /\ o.by = i /\ o.source = scoring[i].file
      /\ \A n \in scoring'[i].new, o \in readings :
             Follows(o, n, readings) => o.value # n.value \/ {o.by, i} \in met
      /\ Alone(i) => \A p \in G!Carried(scoring[i].file, scoring[i].settled) :
             (\E n \in scoring'[i].new : n.period = p)
             \/ G!InForceAt(p, scoring[i].stamp) = G!Figure(scoring[i].file, p)
  BY <1>3, <1>6
<1> QED
  BY <1>1, <1>3, <1>4, <1>7, <1>8, QuietStep

LEMMA AbortStep ==
    ASSUME ScoresInv, NEW i \in Scorings, G!Abort(i) PROVE ScoresInv'
<1> DEFINE s == scoring[i]
<1>c. clock' = clock /\ clock \in Nat
  BY DEF G!Abort, ScoresInv, ScoresTyped
<1>0. clock <= clock' /\ clock' \in Nat
  BY <1>c
<1>1. /\ s.phase # "over" /\ scoring' = [scoring EXCEPT ![i].phase = "over", ![i].new = {}]
      /\ card' = card /\ actual' = actual /\ readings' = readings /\ clock' = clock /\ answered' = answered
      /\ met' = met
  BY DEF G!Abort, G!Open
<1>2. scoring \in Seq(Entries) /\ s \in Entries /\ clock \in Nat
  BY EntryFacts DEF ScoresInv, ScoresTyped
<1>3. /\ scoring' \in Seq(Entries) /\ Len(scoring') = Len(scoring)
      /\ \A j \in Scorings : j # i => scoring'[j] = scoring[j]
      /\ scoring'[i].phase = "over"
      /\ scoring'[i].run = s.run /\ scoring'[i].file = s.file /\ scoring'[i].settled = s.settled
      /\ scoring'[i].stamp = s.stamp /\ scoring'[i].loaded = s.loaded /\ scoring'[i].card = s.card
      /\ scoring'[i].scoredAt = s.scoredAt
  <2>1. [s EXCEPT !.phase = "over", !.new = {}] \in Entries
    BY <1>2 DEF Entries
  <2>2. scoring' = [scoring EXCEPT ![i] = [s EXCEPT !.phase = "over", !.new = {}]]
    BY <1>1, <1>2, <2>1
  <2> QED
    BY <1>2, <2>1, <2>2, ExceptSeq DEF Scorings, Entries
<1>4. i \in OpenOnes
  BY <1>1 DEF OpenOnes
<1>5. \A j \in Scorings : scoring'[j].scoredAt <= clock'
  BY <1>1, <1>3 DEF ScoresInv, ScoresTyped
<1>6. /\ \A j \in Scorings : /\ scoring'[j].run = scoring[j].run /\ scoring'[j].file = scoring[j].file
                               /\ scoring'[j].settled = scoring[j].settled /\ scoring'[j].stamp = scoring[j].stamp
                               /\ scoring'[j].loaded = scoring[j].loaded /\ scoring'[j].card = scoring[j].card
                               /\ scoring'[j].scoredAt <= clock'
       /\ clock <= clock' /\ clock' \in Nat
  <2> SUFFICES ASSUME NEW j \in Scorings
               PROVE  /\ scoring'[j].run = scoring[j].run /\ scoring'[j].file = scoring[j].file
                      /\ scoring'[j].settled = scoring[j].settled /\ scoring'[j].stamp = scoring[j].stamp
                      /\ scoring'[j].loaded = scoring[j].loaded /\ scoring'[j].card = scoring[j].card
    BY <1>0, <1>5
  <2>1. CASE j = i
    BY <1>3, <2>1
  <2>2. CASE j # i
    BY <1>3, <2>2
  <2> QED
    BY <2>1, <2>2
<1> QED
  BY <1>1, <1>3, <1>4, <1>6, QuietStep

LEMMA BeginStep ==
    ASSUME ScoresInv, NEW r \in Scored, NEW f \in File, G!Begin(r, f) PROVE ScoresInv'
<1> DEFINE n == Len(scoring) + 1
           e == [run |-> r, file |-> f, phase |-> "graded", settled |-> G!Settled(r, f), loaded |-> actual[r],
                 card |-> card[r], stamp |-> clock + 1, new |-> {}, scoredAt |-> 0]
<1>1. /\ scoring' = Append(scoring, e) /\ met' = met \cup {{i, n} : i \in G!Open}
      /\ card' = card /\ actual' = actual /\ readings' = readings /\ answered' = answered
  BY DEF G!Begin
<1>c. clock' = clock + 1 /\ clock \in Nat
  BY DEF G!Begin, ScoresInv, ScoresTyped
<1>t. scoring \in Seq(Entries) /\ Len(scoring) \in Nat
  BY DEF ScoresInv, ScoresTyped
<1>2. e \in Entries
  <2>1. G!Settled(r, f) \subseteq Periods /\ clock + 1 \in Nat
    BY <1>c DEF G!Settled, Periods
  <2>2. actual[r] \in [Horizon[r] -> Figures] /\ card[r] \in Cards
    BY DEF ScoresInv, ScoresTyped
  <2> QED
    BY <2>1, <2>2 DEF Entries
<1>3. /\ scoring' \in Seq(Entries) /\ Len(scoring') = n /\ Scorings' = Scorings \cup {n} /\ n \notin Scorings
      /\ \A j \in Scorings : scoring'[j] = scoring[j] /\ j < n
      /\ scoring'[n] = e
  <2> HIDE DEF e
  <2> QED
    BY <1>1, <1>2, <1>t DEF Scorings
<1>4. OpenOnes' = OpenOnes \cup {n} /\ OpenOnes \subseteq Scorings
  <2>1. e.phase = "graded"
    OBVIOUS
  <2> HIDE DEF e, n
  <2> QED
    BY <1>3, <2>1 DEF OpenOnes
<1>5. \A i \in OpenOnes : {i, n} \in met'
  <2>1. G!Open = OpenOnes
    BY <1>t, LenProperties DEF G!Open, OpenOnes, Scorings
  <2> QED
    BY <1>1, <2>1
<1>6. \A x \in met : x \in met'
  BY <1>1
<1>7. \A j \in Scorings : Alone(j)' => Alone(j) /\ j \notin OpenOnes
  <2> HIDE DEF e, n
  <2> QED
    BY <1>3, <1>5, <1>6 DEF Alone
<1>8. \A j \in Scorings : AloneOnItsRun(j)' => AloneOnItsRun(j)
  <2> HIDE DEF e, n
  <2> QED
    BY <1>3, <1>6 DEF AloneOnItsRun
<1>9. \A o \in readings : o.revisedAt \in Nat /\ o.revisedAt <= clock /\ o.revisedAt < clock + 1
  <2>1. \A o \in readings : o.revisedAt \in Nat /\ o.revisedAt <= clock
    BY ReadingFacts DEF ScoresInv
  <2> QED
    BY <1>c, <2>1
<1>10. \A p : InForceOf(Known(readings, p, clock')) = G!InForceAt(p, clock)
  <2>1. clock' \in Nat /\ clock <= clock'
    BY <1>c
  <2>2. \A p : Known(readings, p, clock) = Known(readings, p, clock')
    BY <1>9, <1>c, <2>1, KnownLater
  <2> QED
    BY <2>2, InForceByReadings
<1>11. /\ e.phase = "graded" /\ e.new = {} /\ e.stamp = clock + 1 /\ e.run = r /\ e.file = f
       /\ e.settled = G!Settled(r, f) /\ e.card = card[r] /\ e.loaded = actual[r] /\ e.scoredAt = 0
  OBVIOUS
<1> HIDE DEF e, n
<1>12. ScoresTyped'
  <2>1. \A j \in Scorings : /\ scoring[j].stamp \in Nat /\ scoring[j].stamp <= clock
                            /\ scoring[j].scoredAt \in Nat /\ scoring[j].scoredAt <= clock
    BY EntryFacts DEF ScoresInv, ScoresTyped
  <2>2. \A j \in Scorings : scoring'[j].stamp < clock + 1 /\ scoring'[j].stamp <= clock' /\ scoring'[j].scoredAt <= clock'
    <3> SUFFICES ASSUME NEW j \in Scorings
                 PROVE  scoring[j].stamp < clock + 1 /\ scoring[j].stamp <= clock' /\ scoring[j].scoredAt <= clock'
      BY <1>3
    <3> QED
      BY <1>c, <2>1
  <2>3. \A q \in Scored : card'[q].scoredAt <= clock'
    <3>1. \A q \in Scored : card[q].scoredAt \in Nat /\ card[q].scoredAt <= clock
      BY DEF ScoresInv, ScoresTyped, Cards
    <3> QED
      BY <1>1, <1>c, <3>1
  <2>4. \A j \in Scorings' : /\ scoring'[j].settled = G!Settled(scoring'[j].run, scoring'[j].file)
                             /\ scoring'[j].stamp >= 1 /\ scoring'[j].stamp <= clock' /\ scoring'[j].scoredAt <= clock'
    <3> SUFFICES ASSUME NEW j \in Scorings'
                 PROVE  /\ scoring'[j].settled = G!Settled(scoring'[j].run, scoring'[j].file)
                        /\ scoring'[j].stamp >= 1 /\ scoring'[j].stamp <= clock' /\ scoring'[j].scoredAt <= clock'
      OBVIOUS
    <3>1. CASE j = n
      <4>1. clock + 1 >= 1 /\ clock + 1 <= clock' /\ 0 <= clock'
        BY <1>c
      <4> QED
        BY <1>3, <1>11, <3>1, <4>1
    <3>2. CASE j # n
      BY <1>3, <2>2, <3>2 DEF ScoresInv, ScoresTyped
    <3> QED
      BY <3>1, <3>2
  <2>5. \A j, k \in Scorings' : j < k => scoring'[j].stamp < scoring'[k].stamp
    <3> SUFFICES ASSUME NEW j \in Scorings', NEW k \in Scorings', j < k
                 PROVE  scoring'[j].stamp < scoring'[k].stamp
      OBVIOUS
    <3>1. j \in Scorings
      BY <1>3, <1>t DEF Scorings, n
    <3>2. CASE k = n
      BY <1>3, <1>11, <2>2, <3>1, <3>2
    <3>3. CASE k # n
      <4>1. k \in Scorings
        BY <1>3, <3>3
      <4> QED
        BY <1>3, <3>1, <4>1 DEF ScoresInv, ScoresTyped
    <3> QED
      BY <3>2, <3>3
  <2>6. clock' \in Nat
    BY <1>c
  <2> QED
    BY <1>1, <1>3, <2>3, <2>4, <2>5, <2>6 DEF ScoresInv, ScoresTyped
<1>13. AnsweredByOne'
  BY <1>1, <1>3, <1>4 DEF ScoresInv, AnsweredByOne
<1>14. WhoOverlapsMeets'
  <2> SUFFICES ASSUME NEW i \in OpenOnes', NEW j \in Scorings', i < j PROVE {i, j} \in met'
    BY DEF WhoOverlapsMeets
  <2>1. i \in Scorings
    BY <1>3, <1>4, <1>t DEF Scorings, n
  <2>2. i \in OpenOnes
    BY <1>3, <1>4, <2>1
  <2> QED
    BY <1>3, <1>5, <1>6, <2>2 DEF ScoresInv, WhoOverlapsMeets
<1>15. LoadedStands'
  BY <1>1, <1>3, <1>4, <1>8, <1>11 DEF ScoresInv, LoadedStands
<1>16. ReadingsAreOfOne'
  BY <1>1, <1>3, <1>4 DEF ScoresInv, ReadingsAreOfOne
<1>17. NewIsOfTheFile'
  BY <1>3, <1>4, <1>11 DEF ScoresInv, NewIsOfTheFile
<1>18. NewRevises'
  BY <1>1, <1>3, <1>4, <1>6, <1>11 DEF ScoresInv, NewRevises
<1>19. AloneIsLatest'
  BY <1>1, <1>3, <1>4, <1>7, <1>9, <1>11 DEF ScoresInv, AloneIsLatest
<1>20. AloneCovers'
  BY <1>3, <1>4, <1>7, <1>11 DEF ScoresInv, AloneCovers
<1>21. CardIsOfTheLast'
  <2> SUFFICES ASSUME NEW q \in Scored, answered[q] # <<>>, AloneOnItsRun(answered[q][1])'
               PROVE  LET s == scoring'[answered[q][1]]
                      IN /\ card[q] = G!Card(q, s.file, s.scoredAt)
                         /\ \A p \in s.settled : actual[q][p] = G!Figure(s.file, p)
    BY <1>1 DEF CardIsOfTheLast
  <2>1. answered[q][1] \in Scorings
    BY DEF ScoresInv, AnsweredByOne
  <2>2. AloneOnItsRun(answered[q][1]) /\ scoring'[answered[q][1]] = scoring[answered[q][1]]
    BY <1>1, <1>3, <1>8, <2>1
  <2> QED
    BY <2>2 DEF ScoresInv, CardIsOfTheLast
<1>22. MeasuredInForce'
  <2> SUFFICES ASSUME NEW q \in Scored, answered[q] # <<>>, Alone(answered[q][1])'
               PROVE  LET s == scoring'[answered[q][1]]
                      IN /\ \A i \in OpenOnes' : s.scoredAt < scoring'[i].stamp
                         /\ (\A o \in readings : o.revisedAt <= s.scoredAt) =>
                                \A p \in G!Carried(s.file, s.settled) : InForceOf(Known(readings, p, clock')) = G!Figure(s.file, p)
    BY <1>1, InForceByReadings DEF MeasuredInForce
  <2>1. answered[q][1] \in Scorings
    BY DEF ScoresInv, AnsweredByOne
  <2>2. Alone(answered[q][1]) /\ scoring'[answered[q][1]] = scoring[answered[q][1]]
    BY <1>1, <1>3, <1>7, <2>1
  <2>3. scoring[answered[q][1]].scoredAt < clock + 1
    <3>1. scoring[answered[q][1]].scoredAt \in Nat /\ scoring[answered[q][1]].scoredAt <= clock
      BY <2>1, EntryFacts DEF ScoresInv, ScoresTyped
    <3> QED
      BY <1>c, <3>1
  <2>4. \A i \in OpenOnes' : scoring[answered[q][1]].scoredAt < scoring'[i].stamp
    BY <1>3, <1>4, <1>11, <2>2, <2>3 DEF ScoresInv, MeasuredInForce
  <2> QED
    BY <1>10, <2>2, <2>4 DEF ScoresInv, MeasuredInForce
<1>23. G!RevisionsRevise'
  BY <1>1, <1>6 DEF ScoresInv, G!RevisionsRevise
<1> QED
  BY <1>12, <1>13, <1>14, <1>15, <1>16, <1>17, <1>18, <1>19, <1>20, <1>21, <1>22, <1>23 DEF ScoresInv

\* What is written of a card: each column the new value or what is there, and where nothing has changed
\* since it was loaded, the new card.
LEMMA FlushedIs ==
    ASSUME NEW new \in Cards, NEW loaded \in Cards, NEW now \in Cards
    PROVE  LET flushed == G!Flushed(new, loaded, now)
           IN /\ flushed \in Cards
              /\ flushed.periods \in {new.periods, now.periods} /\ flushed.miss \in {new.miss, now.miss}
              /\ flushed.scoredAt \in {new.scoredAt, now.scoredAt}
              /\ loaded = now => flushed = new
<1> DEFINE flushed == G!Flushed(new, loaded, now)
<1>1. /\ DOMAIN new = {"source", "periods", "miss", "scoredAt"} /\ DOMAIN now = DOMAIN new
      /\ new = [source |-> new.source, periods |-> new.periods, miss |-> new.miss, scoredAt |-> new.scoredAt]
  BY DEF Cards
<1>2. flushed = [source |-> flushed.source, periods |-> flushed.periods, miss |-> flushed.miss,
                 scoredAt |-> flushed.scoredAt]
  BY <1>1 DEF G!Flushed
<1>3. /\ flushed.source = IF new.source # loaded.source THEN new.source ELSE now.source
      /\ flushed.periods = IF new.periods # loaded.periods THEN new.periods ELSE now.periods
      /\ flushed.miss = IF new.miss # loaded.miss THEN new.miss ELSE now.miss
      /\ flushed.scoredAt = IF new.scoredAt # loaded.scoredAt THEN new.scoredAt ELSE now.scoredAt
  BY <1>1 DEF G!Flushed
<1> HIDE DEF flushed
<1>4. flushed \in Cards
  BY <1>2, <1>3 DEF Cards
<1>5. loaded = now => flushed = new
  BY <1>1, <1>2, <1>3
<1> QED
  BY <1>3, <1>4, <1>5 DEF flushed

LEMMA SettledIsPart ==
    ASSUME NEW r \in Scored, NEW f \in File
    PROVE  /\ G!Settled(r, f) \subseteq Horizon[r] /\ IsFiniteSet(G!Settled(r, f))
           /\ Cardinality(G!Settled(r, f)) \in Nat /\ Cardinality(G!Settled(r, f)) <= Cardinality(Horizon[r])
<1>1. IsFiniteSet(Horizon[r]) /\ G!Settled(r, f) \subseteq Horizon[r]
  BY ScoringAssumption DEF G!Settled
<1> QED
  BY <1>1, FS_Subset, FS_CardinalityType

LEMMA CountsAlike == \A S : G!Cardinality(S) = Cardinality(S)
BY DEF G!Cardinality, Cardinality, G!IsFiniteSet, IsFiniteSet

LEMMA CardIs ==
    ASSUME NEW r \in Scored, NEW f \in File, NEW at \in Nat
    PROVE  LET c == G!Card(r, f, at)
           IN /\ c \in Cards /\ c.periods <= Cardinality(Horizon[r]) /\ c.miss \in MissesOf(r) /\ c.scoredAt = at
              /\ c.source = f /\ c.periods = Cardinality(G!Settled(r, f))
              /\ c.miss = G!Misses(r, G!Said(f, G!Settled(r, f)))
<1> DEFINE c == G!Card(r, f, at)
<1>1. /\ c = [source |-> f, periods |-> Cardinality(G!Settled(r, f)),
              miss |-> G!Misses(r, G!Said(f, G!Settled(r, f))), scoredAt |-> at]
  BY CountsAlike DEF G!Card
<1>2. G!Misses(r, G!Said(f, G!Settled(r, f))) \in MissesOf(r)
  BY DEF MissesOf
<1>3. Cardinality(G!Settled(r, f)) \in Nat /\ Cardinality(G!Settled(r, f)) <= Cardinality(Horizon[r])
  BY SettledIsPart
<1> HIDE DEF c
<1>4. c \in Cards
  BY <1>1, <1>2, <1>3 DEF Cards
<1> QED
  BY <1>1, <1>2, <1>3, <1>4 DEF c

LEMMA CommitStep ==
    ASSUME ScoresInv, NEW i \in Scorings, G!Commit(i) PROVE ScoresInv'
<1> DEFINE s == scoring[i]
           r == scoring[i].run
           next == [s EXCEPT !.phase = "over", !.new = {}]
<1>1. /\ s.phase = "stored"
      /\ card' = [card EXCEPT ![r] = G!Flushed(G!Card(r, s.file, s.scoredAt), s.card, card[r])]
      /\ actual' = [actual EXCEPT ![r] =
                       [p \in Horizon[r] |-> IF p \in G!Touched(s) THEN G!Figure(s.file, p) ELSE actual[r][p]]]
      /\ readings' = readings \cup s.new
      /\ answered' = [answered EXCEPT ![r] = <<i, G!Computed(r, s.file)>>]
      /\ scoring' = [scoring EXCEPT ![i].phase = "over", ![i].new = {}]
      /\ clock' = clock /\ met' = met
  BY DEF G!Commit, G!Graded, G!ScoredAt
<1>2. /\ scoring \in Seq(Entries) /\ s \in Entries /\ r \in Scored /\ s.file \in File /\ s.scoredAt \in Nat
      /\ s.stamp \in Nat /\ clock \in Nat /\ s.scoredAt <= clock /\ s.stamp <= clock /\ i \in Nat
      /\ s.settled = G!Settled(r, s.file) /\ s.new \in SUBSET Readings /\ s.card \in Cards
  BY EntryFacts DEF ScoresInv, ScoresTyped, Scorings, Entries
<1>3. /\ scoring' \in Seq(Entries) /\ Len(scoring') = Len(scoring) /\ Scorings' = Scorings
      /\ \A j \in Scorings : j # i => scoring'[j] = scoring[j]
      /\ scoring'[i].phase = "over" /\ scoring'[i].run = r /\ scoring'[i].file = s.file
      /\ scoring'[i].settled = s.settled /\ scoring'[i].stamp = s.stamp /\ scoring'[i].scoredAt = s.scoredAt
  <2>1. next \in Entries
    BY <1>2 DEF Entries
  <2>2. scoring' = [scoring EXCEPT ![i] = next]
    BY <1>1, <1>2, <2>1
  <2> QED
    BY <1>2, <2>1, <2>2, ExceptSeq DEF Scorings, Entries
<1>4. \A j \in Scorings : /\ scoring'[j].run = scoring[j].run /\ scoring'[j].file = scoring[j].file
                          /\ scoring'[j].settled = scoring[j].settled /\ scoring'[j].stamp = scoring[j].stamp
                          /\ scoring'[j].scoredAt = scoring[j].scoredAt
  <2> SUFFICES ASSUME NEW j \in Scorings
               PROVE  /\ scoring'[j].run = scoring[j].run /\ scoring'[j].file = scoring[j].file
                      /\ scoring'[j].settled = scoring[j].settled /\ scoring'[j].stamp = scoring[j].stamp
                      /\ scoring'[j].scoredAt = scoring[j].scoredAt
    OBVIOUS
  <2>1. CASE j = i
    BY <1>3, <2>1
  <2>2. CASE j # i
    BY <1>3, <2>2
  <2> QED
    BY <2>1, <2>2
<1>5. /\ i \in OpenOnes /\ OpenOnes \subseteq Scorings /\ OpenOnes' = OpenOnes \ {i}
      /\ \A j \in OpenOnes' : j \in OpenOnes /\ j \in Scorings /\ j # i /\ scoring'[j] = scoring[j]
      /\ \A j \in Scorings \ OpenOnes : j \in Scorings' \ OpenOnes' /\ j # i /\ scoring'[j] = scoring[j]
  BY <1>1, <1>3 DEF OpenOnes
<1>6. \A j : (Alone(j)' <=> (\A k \in Scorings : {j, k} \notin met))
  BY <1>1, <1>3 DEF Alone
<1>7. \A j \in OpenOnes' : {i, j} \in met /\ {j, i} \in met
  <2> SUFFICES ASSUME NEW j \in OpenOnes' PROVE {i, j} \in met
    OBVIOUS
  <2>1. j < i \/ i < j
    BY <1>5 DEF Scorings
  <2> QED
    BY <1>5, <2>1 DEF ScoresInv, WhoOverlapsMeets
<1>8. \A j \in Scorings : (Alone(j)' <=> Alone(j)) /\ (AloneOnItsRun(j)' <=> AloneOnItsRun(j))
  BY <1>1, <1>3, <1>4 DEF Alone, AloneOnItsRun
<1>9. \A j \in Scorings : j # i => scoring[j].stamp # s.stamp /\ (scoring[j].stamp > s.stamp => i < j)
  <2> SUFFICES ASSUME NEW j \in Scorings, j # i
               PROVE  scoring[j].stamp # s.stamp /\ (scoring[j].stamp > s.stamp => i < j)
    OBVIOUS
  <2>1. scoring[j].stamp \in Nat /\ j \in Nat
    BY EntryFacts DEF ScoresInv, Scorings
  <2>2. /\ j < i => scoring[j].stamp < s.stamp
        /\ i < j => s.stamp < scoring[j].stamp
    BY DEF ScoresInv, ScoresTyped
  <2> QED
    BY <1>2, <2>1, <2>2
<1>10. \A o \in s.new : /\ o.period \in s.settled /\ o.value = G!Figure(s.file, o.period) /\ o.revisedAt = s.stamp
                        /\ o.by = i /\ o.source = s.file
  BY <1>5 DEF ScoresInv, NewIsOfTheFile
<1>11. \A o \in readings : /\ o.by \in Scorings \ OpenOnes /\ o.revisedAt = scoring[o.by].stamp
                           /\ o.revisedAt \in Nat /\ o.revisedAt <= clock /\ o.revisedAt # s.stamp
  <2>1. \A o \in readings : o.revisedAt \in Nat /\ o.revisedAt <= clock
    BY ReadingFacts DEF ScoresInv
  <2>2. \A o \in readings : o.by \in Scorings \ OpenOnes /\ o.revisedAt = scoring[o.by].stamp
    BY DEF ScoresInv, ReadingsAreOfOne
  <2> QED
    BY <1>5, <1>9, <2>1, <2>2
<1>12. \A q \in Scored : q # r => card'[q] = card[q] /\ actual'[q] = actual[q] /\ answered'[q] = answered[q]
  BY <1>1 DEF ScoresInv, ScoresTyped, AnsweredByOne
<1>13. /\ card'[r] = G!Flushed(G!Card(r, s.file, s.scoredAt), s.card, card[r])
       /\ actual'[r] = [p \in Horizon[r] |-> IF p \in G!Touched(s) THEN G!Figure(s.file, p) ELSE actual[r][p]]
       /\ answered'[r] = <<i, G!Computed(r, s.file)>> /\ answered'[r][1] = i
       /\ DOMAIN card' = Scored /\ DOMAIN actual' = Scored /\ DOMAIN answered' = Scored
  BY <1>1, <1>2 DEF ScoresInv, ScoresTyped, AnsweredByOne
<1> HIDE DEF next
<1>14. ScoresTyped'
  <2>1. card'[r] \in Cards /\ card'[r].periods <= Cardinality(Horizon[r]) /\ card'[r].miss \in MissesOf(r)
        /\ card'[r].scoredAt <= clock
    <3> DEFINE c == G!Card(r, s.file, s.scoredAt)
    <3>1. /\ c \in Cards /\ c.periods <= Cardinality(Horizon[r]) /\ c.miss \in MissesOf(r)
          /\ c.scoredAt = s.scoredAt
      BY <1>2, CardIs
    <3>2. /\ card[r] \in Cards /\ card[r].periods <= Cardinality(Horizon[r]) /\ card[r].miss \in MissesOf(r)
          /\ card[r].scoredAt <= clock
      BY <1>2 DEF ScoresInv, ScoresTyped
    <3> HIDE DEF c
    <3>3. /\ card'[r] \in Cards /\ card'[r].periods \in {c.periods, card[r].periods}
          /\ card'[r].miss \in {c.miss, card[r].miss} /\ card'[r].scoredAt \in {c.scoredAt, card[r].scoredAt}
      BY <1>2, <1>13, <3>1, <3>2, FlushedIs DEF c
    <3> QED
      BY <1>2, <3>1, <3>2, <3>3
  <2>2. card' \in [Scored -> Cards]
    <3>1. card \in [Scored -> Cards]
      BY DEF ScoresInv, ScoresTyped
    <3> QED
      BY <1>1, <1>13, <2>1, <3>1
  <2>3. \A q \in Scored : /\ card'[q].periods <= Cardinality(Horizon[q]) /\ card'[q].miss \in MissesOf(q)
                          /\ card'[q].scoredAt <= clock'
    BY <1>1, <1>12, <2>1 DEF ScoresInv, ScoresTyped
  <2>4. actual'[r] \in [Horizon[r] -> Figures]
    <3>1. actual[r] \in [Horizon[r] -> Figures]
      BY <1>2 DEF ScoresInv, ScoresTyped
    <3>2. \A p \in Horizon[r] : G!Figure(s.file, p) \in Figures
      BY <1>2 DEF Figures, Periods
    <3> QED
      BY <1>13, <3>1, <3>2
  <2>5. \A q \in Scored : actual'[q] \in [Horizon[q] -> Figures]
    BY <1>12, <2>4 DEF ScoresInv, ScoresTyped
  <2>6. readings' \subseteq Readings
    BY <1>1, <1>2 DEF ScoresInv, ScoresTyped
  <2>7. \A j \in Scorings' : /\ scoring'[j].settled = G!Settled(scoring'[j].run, scoring'[j].file)
                             /\ scoring'[j].stamp >= 1 /\ scoring'[j].stamp <= clock' /\ scoring'[j].scoredAt <= clock'
    <3> SUFFICES ASSUME NEW j \in Scorings
                 PROVE  /\ scoring'[j].settled = G!Settled(scoring'[j].run, scoring'[j].file)
                        /\ scoring'[j].stamp >= 1 /\ scoring'[j].stamp <= clock' /\ scoring'[j].scoredAt <= clock'
      BY <1>3
    <3>1. /\ scoring[j].settled = G!Settled(scoring[j].run, scoring[j].file)
          /\ scoring[j].stamp >= 1 /\ scoring[j].stamp <= clock /\ scoring[j].scoredAt <= clock
      BY DEF ScoresInv, ScoresTyped
    <3> QED
      BY <1>1, <1>4, <3>1
  <2>8. \A j, k \in Scorings' : j < k => scoring'[j].stamp < scoring'[k].stamp
    <3> SUFFICES ASSUME NEW j \in Scorings, NEW k \in Scorings, j < k
                 PROVE  scoring'[j].stamp < scoring'[k].stamp
      BY <1>3
    <3>1. scoring[j].stamp < scoring[k].stamp
      BY DEF ScoresInv, ScoresTyped
    <3> QED
      BY <1>4, <3>1
  <2> QED
    BY <1>1, <1>2, <1>3, <1>13, <2>2, <2>3, <2>5, <2>6, <2>7, <2>8 DEF ScoresTyped
<1>15. AnsweredByOne'
  <2> SUFFICES ASSUME NEW q \in Scored, answered'[q] # <<>>
               PROVE  answered'[q][1] \in Scorings' \ OpenOnes' /\ scoring'[answered'[q][1]].run = q
    BY <1>13 DEF AnsweredByOne
  <2>1. CASE q = r
    BY <1>3, <1>5, <1>13, <2>1
  <2>2. CASE q # r
    BY <1>5, <1>12, <2>2 DEF ScoresInv, AnsweredByOne
  <2> QED
    BY <2>1, <2>2
<1>16. WhoOverlapsMeets'
  BY <1>1, <1>3, <1>5 DEF ScoresInv, WhoOverlapsMeets
<1>17. LoadedStands'
  <2> SUFFICES ASSUME NEW j \in OpenOnes', AloneOnItsRun(j)'
               PROVE  scoring'[j].card = card'[scoring'[j].run] /\ scoring'[j].loaded = actual'[scoring'[j].run]
    BY DEF LoadedStands
  <2>1. j \in OpenOnes /\ j \in Scorings /\ scoring'[j] = scoring[j] /\ AloneOnItsRun(j)
    BY <1>5, <1>8
  <2>2. scoring[j].run # r
    BY <1>7, <2>1 DEF AloneOnItsRun
  <2>3. scoring[j].run \in Scored
    BY <2>1, EntryFacts DEF ScoresInv
  <2> QED
    BY <1>12, <2>1, <2>2, <2>3 DEF ScoresInv, LoadedStands
<1>18. ReadingsAreOfOne'
  <2>1. \A o \in readings' : o.by \in Scorings' \ OpenOnes' /\ o.revisedAt = scoring'[o.by].stamp
    BY <1>1, <1>3, <1>5, <1>10, <1>11
  <2>2. ASSUME NEW o \in readings', NEW m \in readings', o.period = m.period, o.revisedAt = m.revisedAt
        PROVE  o = m
    <3>1. CASE o \in readings /\ m \in readings
      BY <2>2, <3>1 DEF ScoresInv, ReadingsAreOfOne
    <3>2. CASE o \in s.new /\ m \in s.new
      BY <1>2, <1>10, <2>2, <3>2 DEF Readings
    <3>3. CASE (o \in s.new /\ m \in readings) \/ (o \in readings /\ m \in s.new)
      BY <1>10, <1>11, <2>2, <3>3
    <3> QED
      BY <1>1, <3>1, <3>2, <3>3
  <2> QED
    BY <2>1, <2>2 DEF ReadingsAreOfOne
<1>19. NewIsOfTheFile'
  BY <1>5 DEF ScoresInv, NewIsOfTheFile
<1>20. NewRevises'
  <2> SUFFICES ASSUME NEW j \in OpenOnes', NEW n \in scoring'[j].new, NEW o \in readings', Follows(o, n, readings')
               PROVE  o.value # n.value \/ {o.by, j} \in met
    BY <1>1 DEF NewRevises
  <2>1. CASE o \in readings
    <3>1. Follows(o, n, readings)
      BY <1>1 DEF Follows
    <3> QED
      BY <1>5, <2>1, <3>1 DEF ScoresInv, NewRevises
  <2>2. CASE o \in s.new
    BY <1>7, <1>10, <2>2
  <2> QED
    BY <1>1, <2>1, <2>2
<1>21. AloneIsLatest' /\ AloneCovers'
  <2>1. \A j \in OpenOnes' : ~ Alone(j)'
    BY <1>5, <1>6, <1>7
  <2> QED
    BY <2>1 DEF AloneIsLatest, AloneCovers
<1>22. CardIsOfTheLast'
  <2> SUFFICES ASSUME NEW q \in Scored, answered'[q] # <<>>, AloneOnItsRun(answered[q][1])'
               PROVE  LET e == scoring'[answered'[q][1]]
                      IN /\ card'[q] = G!Card(q, e.file, e.scoredAt)
                         /\ \A p \in e.settled : actual'[q][p] = G!Figure(e.file, p)
    BY DEF CardIsOfTheLast
  <2>1. CASE q = r
    <3>1. AloneOnItsRun(i)
      BY <1>8, <1>13, <2>1
    <3>2. s.card = card[r] /\ s.loaded = actual[r]
      BY <1>5, <3>1 DEF ScoresInv, LoadedStands
    <3>3. card'[r] = G!Card(r, s.file, s.scoredAt)
      BY <1>2, <1>13, <3>2, CardIs, FlushedIs
    <3>4. \A p \in s.settled : actual'[r][p] = G!Figure(s.file, p)
      BY <1>2, <1>13, <3>2, SettledIsPart DEF G!Touched
    <3>5. answered'[q][1] = i /\ scoring'[answered'[q][1]] = scoring'[i]
      BY <1>13, <2>1
    <3>6. card'[q] = G!Card(q, scoring'[i].file, scoring'[i].scoredAt)
      BY <1>3, <2>1, <3>3
    <3>7. \A p \in scoring'[i].settled : actual'[q][p] = G!Figure(scoring'[i].file, p)
      BY <1>3, <2>1, <3>4
    <3> QED
      BY <3>5, <3>6, <3>7
  <2>2. CASE q # r
    <3>1. answered'[q] = answered[q] /\ answered[q][1] \in Scorings \ OpenOnes
      BY <1>12, <2>2 DEF ScoresInv, AnsweredByOne
    <3>2. AloneOnItsRun(answered[q][1]) /\ scoring'[answered[q][1]] = scoring[answered[q][1]]
      BY <1>5, <1>8, <3>1
    <3> QED
      BY <1>12, <2>2, <3>1, <3>2 DEF ScoresInv, CardIsOfTheLast
  <2> QED
    BY <2>1, <2>2
<1>23. MeasuredInForce'
  <2> SUFFICES ASSUME NEW q \in Scored, answered'[q] # <<>>, Alone(answered[q][1])'
               PROVE  LET e == scoring'[answered'[q][1]]
                      IN /\ \A j \in OpenOnes' : e.scoredAt < scoring'[j].stamp
                         /\ (\A o \in readings' : o.revisedAt <= e.scoredAt) =>
                                \A p \in G!Carried(e.file, e.settled) : InForceOf(Known(readings', p, clock)) = G!Figure(e.file, p)
    BY <1>1, InForceByReadings DEF MeasuredInForce
  <2>1. CASE q = r
    <3>1. Alone(i)
      BY <1>8, <1>13, <2>1
    <3>2. OpenOnes' = {}
      BY <1>5, <1>7, <3>1 DEF Alone
    <3>3. \A o \in readings : o.revisedAt \in Nat /\ o.revisedAt < s.stamp /\ o.revisedAt <= s.stamp
      <4>1. \A o \in readings : o.revisedAt < s.stamp
        BY <1>5, <3>1 DEF ScoresInv, AloneIsLatest
      <4> QED
        BY <1>2, <1>11, <4>1
    <3>4. ASSUME NEW p \in G!Carried(s.file, s.settled) PROVE InForceOf(Known(readings', p, clock)) = G!Figure(s.file, p)
      <4>1. CASE \E n \in s.new : n.period = p
        <5> DEFINE known == Known(readings', p, clock)
        <5>1. PICK n \in s.new : n.period = p
          BY <4>1
        <5>2. n.revisedAt = s.stamp /\ n \in known
          BY <1>1, <1>2, <1>10, <5>1 DEF Known
        <5>3. \A o \in known : o \in readings' /\ o.period = p /\ o.revisedAt \in Nat /\ o.revisedAt <= clock
          BY <1>1, <1>2, <1>10, <1>11 DEF Known
        <5>4. PICK m \in known : (\A other \in known : other.revisedAt <= m.revisedAt) /\ InForceOf(known) = m.value
          <6> HIDE DEF known
          <6> QED
            BY <1>2, <5>2, <5>3, LastIs
        <5>5. m \notin readings
          <6>1. s.stamp <= m.revisedAt
            BY <5>2, <5>4
          <6> QED
            BY <1>2, <3>3, <6>1
        <5>6. m \in s.new /\ m.period = p
          BY <1>1, <5>3, <5>5
        <5> QED
          BY <1>10, <5>4, <5>6
      <4>2. CASE ~ \E n \in s.new : n.period = p
        <5>1. G!InForceAt(p, s.stamp) = G!Figure(s.file, p)
          BY <1>1, <1>5, <3>1, <4>2 DEF ScoresInv, AloneCovers
        <5>2. Known(readings', p, clock) = Known(readings, p, clock)
          BY <1>1, <4>2 DEF Known
        <5>3. Known(readings, p, s.stamp) = Known(readings, p, clock)
          BY <1>2, <3>3, KnownLater
        <5> QED
          BY <5>1, <5>2, <5>3, InForceByReadings
      <4> QED
        BY <4>1, <4>2
    <3>5. answered'[q][1] = i /\ scoring'[answered'[q][1]] = scoring'[i]
      BY <1>13, <2>1
    <3>6. \A p \in G!Carried(scoring'[i].file, scoring'[i].settled) : InForceOf(Known(readings', p, clock)) = G!Figure(scoring'[i].file, p)
      BY <1>3, <3>4
    <3> QED
      BY <3>2, <3>5, <3>6
  <2>2. CASE q # r
    <3> DEFINE k == answered[q][1]
    <3>1. answered'[q] = answered[q] /\ k \in Scorings \ OpenOnes
      BY <1>12, <2>2 DEF ScoresInv, AnsweredByOne
    <3>2. Alone(k) /\ scoring'[k] = scoring[k] /\ answered'[q][1] = k
      BY <1>5, <1>8, <3>1
    <3>3. scoring[k].scoredAt < s.stamp /\ \A j \in OpenOnes' : scoring[k].scoredAt < scoring'[j].stamp
      BY <1>5, <2>2, <3>1, <3>2 DEF ScoresInv, MeasuredInForce
    <3>4. ASSUME \A o \in readings' : o.revisedAt <= scoring[k].scoredAt PROVE readings' = readings
      <4>1. scoring[k].scoredAt \in Nat
        BY <3>1, EntryFacts DEF ScoresInv
      <4>2. s.new = {}
        BY <1>1, <1>2, <1>10, <3>3, <3>4, <4>1
      <4> QED
        BY <1>1, <4>2
    <3>5. (\A o \in readings : o.revisedAt <= scoring[k].scoredAt) =>
              \A p \in G!Carried(scoring[k].file, scoring[k].settled) : InForceOf(Known(readings, p, clock)) = G!Figure(scoring[k].file, p)
      BY <2>2, <3>1, <3>2, InForceByReadings DEF ScoresInv, MeasuredInForce
    <3> HIDE DEF k
    <3> QED
      BY <3>2, <3>3, <3>4, <3>5
  <2> QED
    BY <2>1, <2>2
<1>24. G!RevisionsRevise'
  <2> SUFFICES ASSUME NEW o \in readings', NEW n \in readings', Follows(o, n, readings')
               PROVE  o.value # n.value \/ {o.by, n.by} \in met
    BY <1>1 DEF G!RevisionsRevise, Follows
  <2>1. Follows(o, n, readings) /\ o.revisedAt < n.revisedAt
    BY <1>1 DEF Follows
  <2>2. CASE o \in readings /\ n \in readings
    BY <2>1, <2>2 DEF ScoresInv, G!RevisionsRevise, Follows
  <2>3. CASE o \in readings /\ n \in s.new
    BY <1>5, <1>10, <2>1, <2>3 DEF ScoresInv, NewRevises
  <2>4. CASE o \in s.new /\ n \in readings
    <3>1. n.by \in Scorings /\ n.by # i /\ scoring[n.by].stamp > s.stamp
      BY <1>2, <1>5, <1>10, <1>11, <2>1, <2>4
    <3>2. i < n.by
      BY <1>9, <3>1
    <3> QED
      BY <1>5, <1>10, <2>4, <3>1, <3>2 DEF ScoresInv, WhoOverlapsMeets
  <2>5. CASE o \in s.new /\ n \in s.new
    BY <1>2, <1>10, <2>1, <2>5
  <2> QED
    BY <1>1, <2>2, <2>3, <2>4, <2>5
<1> QED
  BY <1>14, <1>15, <1>16, <1>17, <1>18, <1>19, <1>20, <1>21, <1>22, <1>23, <1>24 DEF ScoresInv

LEMMA InitScores == G!Init => ScoresInv
<1> SUFFICES ASSUME G!Init PROVE ScoresInv
  OBVIOUS
<1>1. /\ card = [r \in Scored |-> [source |-> 0, periods |-> 0, miss |-> 0, scoredAt |-> 0]]
      /\ actual = [r \in Scored |-> [p \in Horizon[r] |-> G!Unread]]
      /\ readings = {} /\ scoring = <<>> /\ clock = 0 /\ answered = [r \in Scored |-> <<>>] /\ met = {}
  BY DEF G!Init, G!NoCard, G!None
<1>2. Scorings = {} /\ OpenOnes = {} /\ scoring \in Seq(Entries)
  BY <1>1 DEF Scorings, OpenOnes
<1>3. ScoresTyped
  <2>1. \A r \in Scored : 0 \in MissesOf(r) /\ 0 <= Cardinality(Horizon[r])
    <3>1. \A r \in Scored : Cardinality(Horizon[r]) \in Nat
      BY ScoringAssumption, FS_CardinalityType
    <3> QED
      BY <3>1 DEF MissesOf
  <2>2. card \in [Scored -> Cards]
    BY <1>1, <2>1 DEF Cards
  <2>3. \A r \in Scored : actual[r] \in [Horizon[r] -> Figures]
    BY <1>1 DEF Figures
  <2>4. \A r \in Scored : card[r].periods = 0 /\ card[r].miss = 0 /\ card[r].scoredAt = 0
    BY <1>1
  <2> QED
    BY <1>1, <1>2, <2>1, <2>2, <2>3, <2>4 DEF ScoresTyped
<1>4. \A r \in Scored : answered[r] = <<>>
  BY <1>1
<1> QED
  BY <1>1, <1>2, <1>3, <1>4
  DEF ScoresInv, AnsweredByOne, WhoOverlapsMeets, LoadedStands, ReadingsAreOfOne, NewIsOfTheFile, NewRevises,
      AloneIsLatest, AloneCovers, CardIsOfTheLast, MeasuredInForce, G!RevisionsRevise

LEMMA StepScores == ScoresInv /\ [G!Next]_scores => ScoresInv'
<1> SUFFICES ASSUME ScoresInv, [G!Next]_scores PROVE ScoresInv'
  OBVIOUS
<1>1. ASSUME NEW r \in Scored, NEW f \in File, G!Begin(r, f) PROVE ScoresInv'
  BY <1>1, BeginStep
<1>2. ASSUME NEW i \in DOMAIN scoring, G!Record(i) \/ G!Store(i) \/ G!Commit(i) \/ G!Abort(i) PROVE ScoresInv'
  <2>1. i \in Scorings
    BY DEF Scorings, ScoresInv, ScoresTyped
  <2> QED
    BY <1>2, <2>1, RecordStep, StoreStep, CommitStep, AbortStep
<1>3. CASE UNCHANGED scores
  <2>1. /\ card' = card /\ actual' = actual /\ readings' = readings /\ scoring' = scoring /\ clock' = clock
        /\ answered' = answered /\ met' = met
    BY <1>3 DEF scores
  <2>2. Scorings' = Scorings /\ OpenOnes' = OpenOnes
    BY <2>1 DEF Scorings, OpenOnes
  <2>3. ScoresTyped' /\ AnsweredByOne' /\ WhoOverlapsMeets' /\ ReadingsAreOfOne' /\ NewIsOfTheFile' /\ NewRevises'
    BY <2>1, <2>2 DEF ScoresInv, ScoresTyped, AnsweredByOne, WhoOverlapsMeets, ReadingsAreOfOne, NewIsOfTheFile,
                      NewRevises
  <2>4. \A i : (Alone(i)' <=> \A j \in Scorings : {i, j} \notin met)
               /\ (AloneOnItsRun(i)' <=> \A j \in Scorings : scoring[j].run = scoring[i].run => {i, j} \notin met)
    BY <2>1, <2>2 DEF Alone, AloneOnItsRun
  <2>5. LoadedStands' /\ AloneIsLatest' /\ CardIsOfTheLast'
    BY <2>1, <2>2, <2>4 DEF ScoresInv, LoadedStands, AloneIsLatest, CardIsOfTheLast, Alone, AloneOnItsRun
  <2>6. AloneCovers' /\ MeasuredInForce'
    <3>1. AloneCovers'
      <4> SUFFICES ASSUME NEW i \in OpenOnes', Alone(i)', scoring'[i].phase # "graded", NEW p \in G!Carried(scoring'[i].file, scoring'[i].settled)
                   PROVE  (\E n \in scoring'[i].new : n.period = p)
                          \/ InForceOf(Known(readings', p, scoring'[i].stamp)) = G!Figure(scoring'[i].file, p)
        BY InForceByReadings DEF AloneCovers
      <4>1. Alone(i)
        BY <2>4 DEF Alone
      <4> QED
        BY <2>1, <2>2, <4>1, InForceByReadings DEF ScoresInv, AloneCovers
    <3>2. MeasuredInForce'
      <4> SUFFICES ASSUME NEW r \in Scored, answered'[r] # <<>>, Alone(answered[r][1])'
                   PROVE  LET e == scoring'[answered'[r][1]]
                          IN /\ \A j \in OpenOnes' : e.scoredAt < scoring'[j].stamp
                             /\ (\A o \in readings' : o.revisedAt <= e.scoredAt) =>
                                    \A p \in G!Carried(e.file, e.settled) : InForceOf(Known(readings', p, clock')) = G!Figure(e.file, p)
        BY InForceByReadings DEF MeasuredInForce
      <4>1. Alone(answered[r][1])
        BY <2>1, <2>4 DEF Alone
      <4>2. \A p : G!InForceAt(p, clock) = InForceOf(Known(readings, p, clock))
        BY InForceByReadings
      <4> QED
        BY <2>1, <2>2, <4>1, <4>2 DEF ScoresInv, MeasuredInForce
    <3> QED
      BY <3>1, <3>2
  <2>7. G!RevisionsRevise'
    BY <2>1 DEF ScoresInv, G!RevisionsRevise
  <2> QED
    BY <2>3, <2>5, <2>6, <2>7 DEF ScoresInv
<1> QED
  BY <1>1, <1>2, <1>3 DEF G!Next

\* What the invariant says of the cards, and of what is told of them.
LEMMA InvCards == ScoresInv => G!TypeOK /\ G!CardIsOfOneFile /\ G!RestatementsAreTold
<1> SUFFICES ASSUME ScoresInv PROVE G!TypeOK /\ G!CardIsOfOneFile /\ G!RestatementsAreTold
  OBVIOUS
<1>1. /\ DOMAIN scoring = Scorings
      /\ \A i \in Scorings : scoring[i] \in Entries
  <2>1. scoring \in Seq(Entries)
    BY DEF ScoresInv, ScoresTyped
  <2> QED
    BY <2>1, EntryFacts, LenProperties DEF Scorings, ScoresInv
<1>2. clock \in Nat /\ \A o \in readings : o \in Readings /\ o.revisedAt \in Nat /\ o.revisedAt <= clock
  BY ReadingFacts DEF ScoresInv, ScoresTyped
<1>3. G!TypeOK
  <2>1. \A o \in readings : o.revisedAt \in 1..clock /\ o.period \in G!Period /\ o.source \in File
    <3> SUFFICES ASSUME NEW o \in readings PROVE o.revisedAt \in 1..clock /\ o.period \in G!Period /\ o.source \in File
      OBVIOUS
    <3>1. o.revisedAt >= 1
      <4>1. o.by \in Scorings /\ o.revisedAt = scoring[o.by].stamp
        BY ReadingFacts DEF ScoresInv
      <4> QED
        BY <4>1 DEF ScoresInv, ScoresTyped
    <3> QED
      BY <1>2, <3>1 DEF Readings, Periods, G!Period
  <2>2. \A r \in Scored :
           /\ card[r].source \in File \cup {0} /\ card[r].periods \in 0..Cardinality(Horizon[r])
           /\ card[r].miss \in MissesOf(r) /\ card[r].scoredAt \in 0..clock /\ DOMAIN actual[r] = Horizon[r]
    <3> SUFFICES ASSUME NEW r \in Scored
                 PROVE  /\ card[r].source \in File \cup {0} /\ card[r].periods \in 0..Cardinality(Horizon[r])
                        /\ card[r].miss \in MissesOf(r) /\ card[r].scoredAt \in 0..clock /\ DOMAIN actual[r] = Horizon[r]
      OBVIOUS
    <3>1. /\ card[r] \in Cards /\ card[r].periods <= Cardinality(Horizon[r]) /\ card[r].miss \in MissesOf(r)
          /\ card[r].scoredAt <= clock /\ actual[r] \in [Horizon[r] -> Figures]
      BY DEF ScoresInv, ScoresTyped
    <3>2. card[r].source \in File \cup {0} /\ card[r].periods \in Nat /\ card[r].scoredAt \in Nat
      BY <3>1 DEF Cards
    <3>3. Cardinality(Horizon[r]) \in Nat
      BY ScoringAssumption, FS_CardinalityType
    <3> QED
      BY <1>2, <3>1, <3>2, <3>3
  <2>3. \A i \in DOMAIN scoring : scoring[i].phase \in {"graded", "recorded", "stored", "over"}
    BY <1>1 DEF Entries
  <2> QED
    BY <2>1, <2>2, <2>3, CountsAlike DEF G!TypeOK, G!None, MissesOf
<1>4. ASSUME NEW r \in Scored, answered[r] # <<>>, AloneOnItsRun(answered[r][1]), card[r].periods > 0
      PROVE  LET e == scoring[answered[r][1]]
             IN /\ e.file \in File /\ e.run = r /\ answered[r][1] \in Scorings
                /\ card[r].source = e.file /\ card[r].periods = Cardinality(G!Settled(r, e.file))
                /\ card[r].miss = G!Misses(r, G!Said(e.file, G!Settled(r, e.file)))
                /\ card[r].scoredAt = e.scoredAt /\ e.settled = G!Settled(r, e.file)
                /\ \A p \in G!Settled(r, e.file) : actual[r][p] = G!Figure(e.file, p)
  <2> DEFINE k == answered[r][1]
  <2>1. k \in Scorings /\ scoring[k].run = r
    BY <1>4 DEF ScoresInv, AnsweredByOne
  <2>2. scoring[k].file \in File /\ scoring[k].scoredAt \in Nat
    BY <2>1, EntryFacts DEF ScoresInv
  <2>3. scoring[k].settled = G!Settled(r, scoring[k].file)
    BY <2>1 DEF ScoresInv, ScoresTyped
  <2>4. /\ card[r] = G!Card(r, scoring[k].file, scoring[k].scoredAt)
        /\ \A p \in scoring[k].settled : actual[r][p] = G!Figure(scoring[k].file, p)
    BY <1>4 DEF ScoresInv, CardIsOfTheLast
  <2> HIDE DEF k
  <2>5. /\ card[r].source = scoring[k].file /\ card[r].scoredAt = scoring[k].scoredAt
        /\ card[r].periods = Cardinality(G!Settled(r, scoring[k].file))
        /\ card[r].miss = G!Misses(r, G!Said(scoring[k].file, G!Settled(r, scoring[k].file)))
    BY <2>2, <2>4, CardIs
  <2> QED
    BY <2>1, <2>2, <2>3, <2>4, <2>5 DEF k
<1>5. G!CardIsOfOneFile
  <2> SUFFICES ASSUME NEW r \in Scored, answered[r] # <<>>, G!ApartFromItsOwn(r), card[r].periods > 0
               PROVE  /\ card[r].periods = G!Cardinality(G!Settled(r, card[r].source))
                      /\ \A p \in G!Settled(r, card[r].source) : actual[r][p] = G!Figure(card[r].source, p)
                      /\ card[r].miss = G!Misses(r, [p \in G!Settled(r, card[r].source) |-> actual[r][p]])
    BY DEF G!CardIsOfOneFile
  <2>1. scoring[answered[r][1]].run = r
    BY DEF ScoresInv, AnsweredByOne
  <2>2. AloneOnItsRun(answered[r][1])
    BY <1>1, <2>1 DEF AloneOnItsRun, G!ApartFromItsOwn
  <2> DEFINE f == card[r].source
  <2>3. /\ card[r].periods = Cardinality(G!Settled(r, f))
        /\ card[r].miss = G!Misses(r, G!Said(f, G!Settled(r, f)))
        /\ \A p \in G!Settled(r, f) : actual[r][p] = G!Figure(f, p)
    BY <1>4, <2>2
  <2>4. [p \in G!Settled(r, f) |-> actual[r][p]] = G!Said(f, G!Settled(r, f))
    BY <2>3 DEF G!Said
  <2> QED
    BY <2>3, <2>4, CountsAlike
<1>6. G!SupersededIsTold
  <2> SUFFICES ASSUME NEW r \in Scored, answered[r] # <<>>, G!Apart(r), card[r].periods > 0,
                      NEW p \in G!Carried(card[r].source, G!Settled(r, card[r].source)),
                      actual[r][p] # G!InForceAt(p, clock)
               PROVE  \E o \in readings : o.revisedAt > card[r].scoredAt
    BY DEF G!SupersededIsTold, G!RestatedSince, G!InForce
  <2>1. Alone(answered[r][1]) /\ AloneOnItsRun(answered[r][1])
    BY <1>1 DEF Alone, AloneOnItsRun, G!Apart
  <2> DEFINE e == scoring[answered[r][1]]
  <2>2. /\ card[r].source = e.file /\ card[r].scoredAt = e.scoredAt /\ e.settled = G!Settled(r, e.file)
        /\ \A q \in G!Settled(r, e.file) : actual[r][q] = G!Figure(e.file, q)
        /\ answered[r][1] \in Scorings
    BY <1>4, <2>1
  <2>5. p \in G!Settled(r, e.file) /\ p \in G!Carried(e.file, e.settled)
    BY <2>2 DEF G!Carried
  <2>3. ~ \A o \in readings : o.revisedAt <= e.scoredAt
    BY <2>1, <2>2, <2>5 DEF ScoresInv, MeasuredInForce
  <2>4. e.scoredAt \in Nat
    BY <2>2, EntryFacts DEF ScoresInv
  <2> QED
    BY <1>2, <2>2, <2>3, <2>4
<1> QED
  BY <1>3, <1>5, <1>6 DEF ScoresInv, G!RestatementsAreTold

\* However many runs are scored, against whatever files and figures, and however the transactions overlap:
\* a card is that of one file and carries its error, one measured against figures that were restated says
\* so, and of two readings that follow each other the later says something else; of those, that is, that
\* met no other scoring (score_run, _store, record and stored_scorecard).
THEOREM CardsAlwaysHonest == MCSpec => []CardsAreHonest
<1>1. MCInit => ScoresInv
  BY InitScores DEF MCInit
<1>2. ScoresInv /\ [MCNext]_<<part, vars, scores>> => ScoresInv'
  <2>1. [MCNext]_<<part, vars, scores>> => [G!Next]_scores
    BY DEF MCNext
  <2> QED
    BY <2>1, StepScores
<1>3. ScoresInv => CardsAreHonest
  BY InvCards DEF CardsAreHonest
<1> QED
  BY <1>1, <1>2, <1>3, PTL DEF MCSpec
================================================================================
