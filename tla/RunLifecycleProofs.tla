-------------------------- MODULE RunLifecycleProofs --------------------------
(***************************************************************************)
(* Theorems about RunLifecycle, for every shape of run and every set of    *)
(* cancel requests; and, in the second part, about Distributed, the run    *)
(* with a broker.  The argument for the three invariants of the first:     *)
(*  - nobody but the task writes the tables of an active run, so they hold *)
(*    what its steps so far stored, and its last step is to complete it;   *)
(*  - in a process that serves requests only a cancel kills the task of an *)
(*    active run, and the cancel is then bound to end it, or be refused;   *)
(*  - while a run is active and no cancel holds its lock, the bus holds no *)
(*    outcome but that of a cancel that could not commit.                  *)
(***************************************************************************)
EXTENDS MCRunLifecycle, TLAPS

(* The steps of a run. *)

Tables == {"output", "insights", "series"}
Complete(k) == {"output", "insights"} \cup (IF k = "grouped" THEN {"series"} ELSE {})

\* the tables that the steps before the i-th fill
StoredBefore(k, i) == {Path(k)[j] : j \in 1..(i - 1)} \cap Tables

\* Where a run's steps are: it completes at its end and there alone, and fills
\* each table once.
LEMMA PathSteps ==
  ASSUME NEW k \in AllKinds
  PROVE  /\ Len(Path(k)) = IF k = "single" THEN 10 ELSE IF k = "grouped" THEN 16 ELSE 11
         /\ Path(k)[1] = "checkpoint"
         /\ \A i \in 1..Len(Path(k)) :
              /\ Path(k)[i] \in {"checkpoint", "check", "fit", "complete"} \cup Tables
              /\ Path(k)[i] = "complete" <=> i = Len(Path(k))
              /\ Path(k)[i] = "output" <=> i = 6
              /\ Path(k)[i] = "insights" <=> i = 9
              /\ Path(k)[i] = "series" <=> k = "grouped" /\ i = 15
<1>1. CASE k = "single"
  BY <1>1 DEF Path, Common, Tables
<1>2. CASE k = "grouped"
  BY <1>2 DEF Path, Common, Tables
<1>3. CASE k = "empty"
  BY <1>3 DEF Path, Common, Tables
<1> QED BY <1>1, <1>2, <1>3 DEF AllKinds

\* The tables that are filled grow by one at the steps that fill one, from
\* nothing when the first is, to all of them when the run completes.
LEMMA PathFacts ==
  ASSUME NEW k \in AllKinds, NEW i \in 1..Len(Path(k))
  PROVE  /\ i = 1 => StoredBefore(k, i) = {}
         /\ Path(k)[i] = "complete" => StoredBefore(k, i) = Complete(k)
         /\ Path(k)[i] = "output" => StoredBefore(k, i) = {}
         /\ StoredBefore(k, i + 1) = StoredBefore(k, i) \cup ({Path(k)[i]} \cap Tables)
<1> DEFINE p == Path(k)
           n == Len(p)
<1> HIDE DEF n
<1>a. n = IF k = "single" THEN 10 ELSE IF k = "grouped" THEN 16 ELSE 11
  BY PathSteps DEF n
<1>b. i \in 1..n
  BY DEF n
<1>c. n \in {10, 11, 16} /\ (k = "grouped" => n = 16)
  BY <1>a
<1>1. i \in Nat /\ 1 <= i /\ i <= n /\ n \in {10, 11, 16} /\ (k = "grouped" => n = 16)
  BY <1>b, <1>c
<1>2. i = 1 => StoredBefore(k, i) = {}
  BY DEF StoredBefore
<1>3. ASSUME p[i] = "complete" PROVE StoredBefore(k, i) = Complete(k)
  <2>1. i = n
    BY <1>3, PathSteps DEF n
  <2>2. \A t : t \in StoredBefore(k, i) <=> \E j \in 1..(n - 1) : t = p[j] /\ p[j] \in Tables
    BY <2>1 DEF StoredBefore
  <2>3. {6, 9} \subseteq 1..(n - 1) /\ (k = "grouped" => 15 \in 1..(n - 1))
    BY <1>1
  <2>4. p[6] = "output" /\ p[9] = "insights" /\ (k = "grouped" => p[15] = "series")
    BY <1>1, PathSteps DEF n
  <2>5. \A j \in 1..(n - 1) : p[j] \in Tables => p[j] \in Complete(k)
    BY <1>1, PathSteps DEF n, Tables, Complete
  <2>6. Complete(k) \subseteq StoredBefore(k, i)
    BY <2>2, <2>3, <2>4 DEF Tables, Complete
  <2>7. StoredBefore(k, i) \subseteq Complete(k)
    BY <2>2, <2>5
  <2> QED BY <2>6, <2>7
<1>4. ASSUME p[i] = "output" PROVE StoredBefore(k, i) = {}
  <2>1. i = 6
    BY <1>4, PathSteps
  <2>2. \A j \in 1..5 : j \in 1..n /\ j # 6 /\ j # 9 /\ j # 15
    BY <1>1
  <2>3. \A j \in 1..5 : p[j] \notin Tables
    BY <2>2, PathSteps DEF n, Tables
  <2> QED BY <2>1, <2>3 DEF StoredBefore
<1>5. StoredBefore(k, i + 1) = StoredBefore(k, i) \cup ({p[i]} \cap Tables)
  <2>1. 1..((i + 1) - 1) = (1..(i - 1)) \cup {i}
    BY <1>1
  <2> QED BY <2>1 DEF StoredBefore
<1> QED BY <1>2, <1>3, <1>4, <1>5

--------------------------------------------------------------------------------
(* The invariant. *)

\* A run that has not begun, and one whose first checkpoint is to come, is at
\* its first step.
AtTheStart ==
  /\ place = "undispatched" => at = 1
  /\ place = "executing" /\ row = "pending" => at = 1

\* As long as the row is active the tables hold what the steps so far stored:
\* nobody else has written them, and nobody may delete the run.
StoredSoFar ==
  row \in Active /\ place \in {"undispatched", "executing"} => results = StoredBefore(kind, at)

\* The step that completes a run is its last.
WholeAtTheEnd ==
  row = "completed" => results = Needed /\ place \notin {"undispatched", "executing"}

\* Only a cancel kills the task of an active run, and it has more to do.
KilledByCancel ==
  process = "up" /\ killed /\ row \in Active =>
    \E c \in Cancel : cancel[c] \in {"flushing", "flushed", "undone"}

\* The row lock of a cancel keeps the run from being erased.
LockHolds == Locked => row # "absent"

\* What complete_run is about to announce is so, unless a cancel overruled it.
AnnouncesWhatIs ==
  place = "announcing" =>
    \/ row \in {"completed", "absent"}
    \/ row = "failed" /\ \E c \in Cancel : cancel[c] = "done"

\* The bus is lost with its process.
QuietWhenDown == process = "down" => frame = "none"

\* the parts of the invariant, each inductive with the types and those before it
Storage == AtTheStart /\ StoredSoFar /\ WholeAtTheEnd
Ownership == KilledByCancel /\ NoOrphanedRun
Frames == LockHolds /\ AnnouncesWhatIs /\ QuietWhenDown /\ FrameTruthful

IInv == TypeOK /\ Storage /\ Ownership /\ Frames

\* The tables and the places, without the path.
LEMMA Types ==
  ASSUME TypeOK
  PROVE  /\ kind \in AllKinds
         /\ at \in 1..Len(Path(kind))
         /\ Op \in {"checkpoint", "check", "fit", "complete"} \cup Tables
         /\ Needed = Complete(kind)
         /\ Len(Path(kind)) \in Nat
<1>1. kind \in AllKinds /\ at \in 1..Len(Path(kind))
  BY RunLifecycleAssumption DEF TypeOK
<1> QED BY <1>1, PathSteps DEF Op, Needed, Complete

LEMMA InitIInv == Init => IInv
<1> SUFFICES ASSUME Init PROVE IInv
  OBVIOUS
<1> USE DEF Init
<1>1. kind \in AllKinds
  BY RunLifecycleAssumption
<1>2. 1 \in 1..Len(Path(kind))
  BY <1>1, PathSteps
<1>3. TypeOK
  BY <1>2 DEF TypeOK, Places, CancelPlaces
<1>4. AtTheStart /\ StoredSoFar
  BY <1>1, <1>2, PathFacts DEF AtTheStart, StoredSoFar
<1>5. WholeAtTheEnd /\ KilledByCancel /\ NoOrphanedRun
  BY DEF WholeAtTheEnd, KilledByCancel, NoOrphanedRun
<1>6. LockHolds /\ AnnouncesWhatIs /\ QuietWhenDown /\ FrameTruthful
  BY DEF LockHolds, AnnouncesWhatIs, QuietWhenDown, FrameTruthful, Locked
<1> QED BY <1>3, <1>4, <1>5, <1>6 DEF IInv, Storage, Ownership, Frames

\* What a step's transaction does to the row and to the tables.
LEMMA EffectOf ==
  ASSUME TypeOK, Effect
  PROVE  \/ /\ Op = "checkpoint" /\ ~Locked /\ UNCHANGED results
            /\ row' = IF row \in Active THEN "running" ELSE row
         \/ /\ Op = "complete" /\ ~Locked /\ UNCHANGED results
            /\ row' = IF row \in Active THEN "completed" ELSE row
         \/ Op \in {"check", "fit"} /\ UNCHANGED <<row, results>>
         \/ /\ Op \in Tables /\ row # "absent" /\ ~Locked /\ UNCHANGED row
            /\ results' = IF Op = "output" THEN {Op} ELSE results \cup {Op}
  BY Types DEF Effect, Conditional, Store, Accepted, stored, Tables

\* Whatever of it a step that ends the task has done, or that goes on: an
\* active row may have been advanced, and completed only with every table full.
LEMMA EffectIsSafe ==
  ASSUME IInv, place = "executing", Effect \/ UNCHANGED stored
  PROVE  /\ row' # row => row \in Active /\ ~Locked /\ row' \in {"running", "completed"}
         /\ results' \subseteq Tables
         /\ row # "completed"
         /\ row' = "completed" => results' = Needed /\ Op = "complete"
<1> USE DEF IInv, Storage
<1>1. row # "completed"
  BY DEF WholeAtTheEnd
<1>0. TypeOK /\ results \subseteq Tables
  BY DEF TypeOK, Tables
<1>2. CASE UNCHANGED stored
  BY <1>0, <1>1, <1>2 DEF stored
<1>3. CASE Effect
  <2>1. row \in Active /\ Op = "complete" => results = Needed
    BY <1>0, Types, PathFacts DEF StoredSoFar, Op
  <2> QED BY <1>0, <1>1, <1>3, <2>1, EffectOf DEF Active
<1> QED BY <1>2, <1>3

LEMMA TypeStep == IInv /\ [Next]_vars => TypeOK'
<1> SUFFICES ASSUME IInv, [Next]_vars PROVE TypeOK'
  OBVIOUS
<1> USE DEF Places, CancelPlaces, stored, task, requests, Publish
<1>0. /\ TypeOK /\ 1 \in 1..Len(Path(kind))
      /\ results \subseteq Tables /\ Tables = {"output", "insights", "series"}
      /\ row \in {"absent", "pending", "running", "completed", "failed"}
      /\ kind \in AllKinds /\ at \in 1..Len(Path(kind)) /\ Len(Path(kind)) \in Nat
  BY Types DEF IInv, TypeOK, Tables
<1>1. CASE Dispatch
  BY <1>1 DEF Dispatch, TypeOK, IInv
<1>2. CASE Advance
  <2>1. row' \in {row, "running", "completed"} /\ results' \subseteq Tables
    BY <1>0, <1>2, EffectIsSafe DEF Advance
  <2>2. at' \in 1..Len(Path(kind))
    <3>1. place' = "executing" => at # Len(Path(kind))
      BY <1>0, <1>2, PathSteps DEF Advance, Op, Passed
    <3> QED BY <1>0, <1>2, <3>1 DEF Advance
  <2> QED BY <1>0, <1>2, <2>1, <2>2 DEF Advance, TypeOK
<1>3. CASE Announce
  BY <1>3 DEF Announce, TypeOK, IInv
<1>4. CASE Record
  BY <1>4 DEF Record, Conditional, TypeOK, IInv
<1>5. CASE Unwind
  <2>1. row' \in {row, "running", "completed", "failed"} /\ results' \subseteq Tables
    BY <1>0, <1>5, EffectIsSafe DEF Unwind, Conditional
  <2> QED BY <1>0, <1>5, <2>1 DEF Unwind, TypeOK
<1>6. CASE Unheard
  BY <1>6 DEF Unheard, TypeOK, IInv
<1>7. CASE Fail
  <2>1. row' \in {row, "running", "completed"} /\ results' \subseteq Tables
    BY <1>0, <1>7, EffectIsSafe DEF Fail
  <2> QED BY <1>0, <1>7, <2>1 DEF Fail, TypeOK
<1>8. CASE RecordFails
  BY <1>8 DEF RecordFails, TypeOK, IInv
<1>9. ASSUME NEW c \in Cancel, CancelRead(c) PROVE TypeOK'
  BY <1>9 DEF CancelRead, TypeOK, IInv
<1>10. ASSUME NEW c \in Cancel, CancelTask(c) PROVE TypeOK'
  BY <1>10 DEF CancelTask, TypeOK, IInv
<1>11. ASSUME NEW c \in Cancel, CancelFlush(c) PROVE TypeOK'
  BY <1>11 DEF CancelFlush, TypeOK, IInv
<1>12. ASSUME NEW c \in Cancel, CancelCommit(c) PROVE TypeOK'
  BY <1>12 DEF CancelCommit, TypeOK, IInv
<1>13. ASSUME NEW c \in Cancel, CancelUndone(c) PROVE TypeOK'
  BY <1>13 DEF CancelUndone, TypeOK, IInv
<1>14. CASE DeleteRead
  BY <1>14 DEF DeleteRead, TypeOK, IInv
<1>15. CASE Erase
  BY <1>15 DEF Erase, TypeOK, IInv
<1>16. CASE Forget
  BY <1>16 DEF Forget, TypeOK, IInv
<1>17. CASE Close
  <2>1. /\ process' = "closing" /\ killed' \in {killed, killed \/ (place = "executing" /\ Op = "fit")}
        /\ UNCHANGED <<kind, row, results, place, at, cancel, delete, frame>>
    BY <1>17 DEF Close
  <2>2. killed' \in BOOLEAN
    BY <2>1, <1>0 DEF TypeOK
  <2>3. Path(kind)' = Path(kind)
    BY <2>1
  <2> QED
    BY <1>0, <2>1, <2>2, <2>3 DEF TypeOK
<1>18. CASE Stop
  BY <1>0, <1>18 DEF Stop, TypeOK, IInv
<1>19. CASE Recover
  BY <1>19 DEF Recover, TypeOK, IInv
<1>20. CASE UNCHANGED vars
  BY <1>20 DEF vars, TypeOK, IInv
<1> QED BY <1>1, <1>2, <1>3, <1>4, <1>5, <1>6, <1>7, <1>8, <1>9, <1>10, <1>11, <1>12, <1>13, <1>14, <1>15, <1>16, <1>17, <1>18, <1>19, <1>20 DEF Next, Step, CancelStep

LEMMA StorageStep == IInv /\ [Next]_vars => Storage'
<1> SUFFICES ASSUME IInv, [Next]_vars PROVE Storage'
  OBVIOUS
<1>0. TypeOK /\ Storage /\ Locked \in BOOLEAN
  BY DEF IInv, Locked
<1> USE DEF Storage, AtTheStart, StoredSoFar, WholeAtTheEnd, Active, Working, stored, task, requests
<1>1. CASE Dispatch
  BY <1>0, <1>1 DEF Dispatch, Needed
<1>2. CASE Advance
  <2>1. place = "executing" /\ Effect /\ UNCHANGED kind
        /\ row # "completed" /\ (row' = "completed" => results' = Needed /\ Op = "complete")
    BY <1>2, EffectIsSafe DEF Advance
  <2>2. place' = "executing" => at' = at + 1 /\ Passed /\ Op # "complete"
    BY <1>2 DEF Advance
  <2>3. place' # "undispatched"
    BY <1>2 DEF Advance
  <2>4. AtTheStart'
    <3>1. row = "pending" => Op = "checkpoint"
      BY <1>0, <2>1, Types, PathSteps DEF Op
    <3> QED BY <1>0, <2>1, <2>2, <2>3, <3>1, EffectOf, Types DEF Passed, Accepted, Tables
  <2>5. ASSUME row' \in Active, place' = "executing"
        PROVE  results' = StoredBefore(kind, at + 1)
    <3>1. results = StoredBefore(kind, at)
      BY <1>0, <2>1, <2>5, EffectIsSafe
    <3>2. /\ Op = "output" => StoredBefore(kind, at) = {}
          /\ StoredBefore(kind, at + 1) = StoredBefore(kind, at) \cup ({Op} \cap Tables)
      BY <1>0, Types, PathFacts DEF Op
    <3>3. \/ Op \in {"checkpoint", "check", "fit"} /\ results' = results
          \/ Op \in Tables /\ results' = IF Op = "output" THEN {Op} ELSE results \cup {Op}
      BY <1>0, <2>1, <2>2, <2>5, EffectOf
    <3> QED BY <3>1, <3>2, <3>3 DEF Tables
  <2>6. StoredSoFar'
    BY <2>1, <2>2, <2>3, <2>5
  <2>7. WholeAtTheEnd'
    BY <2>1, <2>2, <2>3 DEF Needed
  <2> QED BY <2>4, <2>6, <2>7
<1>3. CASE Announce
  BY <1>0, <1>3 DEF Announce, Needed
<1>4. CASE Record
  BY <1>0, <1>4 DEF Record, Conditional, Accepted, Needed
<1>5. CASE Unwind
  <2>1. place' = "ended" /\ UNCHANGED kind
    BY <1>5 DEF Unwind
  <2>2. row' = "completed" => results' = Needed
    BY <1>0, <1>5, EffectIsSafe DEF Unwind, Conditional
  <2> QED BY <2>1, <2>2 DEF Needed
<1>6. CASE Unheard
  BY <1>0, <1>6 DEF Unheard, Needed
<1>7. CASE Fail
  <2>1. place' = "recording" /\ UNCHANGED kind
    BY <1>7 DEF Fail
  <2>2. row' = "completed" => results' = Needed
    BY <1>0, <1>7, EffectIsSafe DEF Fail
  <2> QED BY <2>1, <2>2 DEF Needed
<1>8. CASE RecordFails
  BY <1>0, <1>8 DEF RecordFails, Needed
<1>9. ASSUME NEW c \in Cancel, CancelRead(c) PROVE Storage'
  BY <1>0, <1>9 DEF CancelRead, Needed
<1>10. ASSUME NEW c \in Cancel, CancelTask(c) PROVE Storage'
  BY <1>0, <1>10 DEF CancelTask, Needed
<1>11. ASSUME NEW c \in Cancel, CancelFlush(c) PROVE Storage'
  BY <1>0, <1>11 DEF CancelFlush, Needed
<1>12. ASSUME NEW c \in Cancel, CancelCommit(c) PROVE Storage'
  BY <1>0, <1>12 DEF CancelCommit, Needed
<1>13. ASSUME NEW c \in Cancel, CancelUndone(c) PROVE Storage'
  BY <1>0, <1>13 DEF CancelUndone, Needed
<1>14. CASE DeleteRead
  BY <1>0, <1>14 DEF DeleteRead, Needed
<1>15. CASE Erase
  BY <1>0, <1>15 DEF Erase, Needed
<1>16. CASE Forget
  BY <1>0, <1>16 DEF Forget, Needed
<1>17. CASE Close
  BY <1>0, <1>17 DEF Close, Needed
<1>18. CASE Stop
  BY <1>0, <1>18 DEF Stop, Needed
<1>19. CASE Recover
  BY <1>0, <1>19 DEF Recover, Needed
<1>20. CASE UNCHANGED vars
  BY <1>0, <1>20 DEF vars, Needed
<1> QED BY <1>1, <1>2, <1>3, <1>4, <1>5, <1>6, <1>7, <1>8, <1>9, <1>10, <1>11, <1>12, <1>13, <1>14, <1>15, <1>16, <1>17, <1>18, <1>19, <1>20 DEF Next, Step, CancelStep

LEMMA OwnershipStep == IInv /\ [Next]_vars => Ownership'
<1> SUFFICES ASSUME IInv, [Next]_vars PROVE Ownership'
  OBVIOUS
<1>0. /\ TypeOK /\ Ownership
      /\ cancel \in [Cancel -> CancelPlaces]
  BY DEF IInv, TypeOK
<1> USE DEF Ownership, KilledByCancel, NoOrphanedRun, StoreFailed, Active, Working, Alive, stored, task, requests
<1>1. CASE Dispatch
  BY <1>0, <1>1 DEF Dispatch
<1>2. CASE Advance
  <2>1. ~killed' /\ UNCHANGED <<process, cancel>> /\ (row' \in Active => row \in Active)
    BY <1>2, EffectIsSafe DEF Advance
  <2>2. place' = "ended" => row' \notin Active
    <3>1. ASSUME ~Passed PROVE row' \notin Active
      <4>1. \/ Op \in {"checkpoint", "complete"} /\ row \notin Active
            \/ Op = "check" /\ row # "running"
        BY <3>1 DEF Passed, Accepted
      <4>2. row = "pending" => Op = "checkpoint"
        BY <1>0, <1>2, Types, PathSteps DEF IInv, Storage, AtTheStart, Advance, Op
      <4> QED BY <2>1, <4>1, <4>2
    <3> QED BY <1>2, <3>1 DEF Advance
  <2>3. place' \in {"executing", "announcing", "ended"}
    BY <1>2 DEF Advance
  <2> QED BY <2>1, <2>2, <2>3
<1>3. CASE Announce
  <2>1. row \notin Active
    BY <1>3 DEF Announce, IInv, Frames, AnnouncesWhatIs
  <2> QED BY <1>3, <2>1 DEF Announce
<1>4. CASE Record
  BY <1>0, <1>4 DEF Record, Conditional, Accepted
<1>5. CASE Unwind
  <2>1. ~killed' /\ killed /\ UNCHANGED <<process, cancel>> /\ (row' \in Active => row \in Active)
    BY <1>5, EffectIsSafe DEF Unwind, Conditional
  <2> QED BY <1>0, <2>1
<1>6. CASE Unheard
  BY <1>0, <1>6 DEF Unheard
<1>7. CASE Fail
  BY <1>0, <1>7 DEF Fail
<1>8. CASE RecordFails
  BY <1>0, <1>8 DEF RecordFails
<1>9. ASSUME NEW c \in Cancel, CancelRead(c) PROVE Ownership'
  BY <1>0, <1>9 DEF CancelRead
<1>10. ASSUME NEW c \in Cancel, CancelTask(c) PROVE Ownership'
  BY <1>0, <1>10 DEF CancelTask
<1>11. ASSUME NEW c \in Cancel, CancelFlush(c) PROVE Ownership'
  BY <1>0, <1>11 DEF CancelFlush
<1>12. ASSUME NEW c \in Cancel, CancelCommit(c) PROVE Ownership'
  BY <1>0, <1>12 DEF CancelCommit
<1>13. ASSUME NEW c \in Cancel, CancelUndone(c) PROVE Ownership'
  BY <1>0, <1>13 DEF CancelUndone
<1>14. CASE DeleteRead
  BY <1>0, <1>14 DEF DeleteRead
<1>15. CASE Erase
  BY <1>0, <1>15 DEF Erase
<1>16. CASE Forget
  BY <1>0, <1>16 DEF Forget
<1>17. CASE Close
  BY <1>0, <1>17 DEF Close
<1>18. CASE Stop
  BY <1>0, <1>18 DEF Stop
<1>19. CASE Recover
  BY <1>0, <1>19 DEF Recover
<1>20. CASE UNCHANGED vars
  BY <1>0, <1>20 DEF vars
<1> QED BY <1>1, <1>2, <1>3, <1>4, <1>5, <1>6, <1>7, <1>8, <1>9, <1>10, <1>11, <1>12, <1>13, <1>14, <1>15, <1>16, <1>17, <1>18, <1>19, <1>20 DEF Next, Step, CancelStep


\* While the row is active and no cancel holds it, the bus holds no outcome but
\* that of a cancel which failed.
LEMMA ActiveFrame ==
  ASSUME IInv, UNCHANGED <<frame, cancel>>,
         row' # row => row \in Active /\ ~Locked /\ row' # "absent"
  PROVE  LockHolds' /\ FrameTruthful'
<1>1. frame \in {"none", "completed", "failed"} /\ FrameTruthful /\ LockHolds
  BY DEF IInv, Frames, TypeOK
<1> QED BY <1>1 DEF FrameTruthful, LockHolds, Locked, Active

LEMMA FramesStep == IInv /\ [Next]_vars => Frames'
<1> SUFFICES ASSUME IInv, [Next]_vars PROVE Frames'
  OBVIOUS
<1>0. /\ TypeOK /\ Frames
      /\ cancel \in [Cancel -> CancelPlaces]
  BY DEF IInv, TypeOK
<1> USE DEF Frames, LockHolds, AnnouncesWhatIs, QuietWhenDown, FrameTruthful, Locked, Publish, Active, Alive, stored, task, requests
<1>1. CASE Dispatch
  BY <1>0, <1>1 DEF Dispatch
<1>2. CASE Advance
  <2>1. /\ UNCHANGED <<frame, cancel, process>>
        /\ row' # row => row \in Active /\ ~Locked /\ row' # "absent"
    BY <1>2, EffectIsSafe DEF Advance
  <2>2. LockHolds' /\ FrameTruthful'
    BY <2>1, ActiveFrame
  <2>3. place' = "announcing" => Op = "complete" /\ row \in Active
    <3>1. place' = "announcing" => Op = "complete" /\ Passed
      BY <1>2 DEF Advance
    <3> QED BY <3>1 DEF Passed, Accepted
  <2>4. place' = "announcing" => row' = "completed"
    BY <1>0, <1>2, <2>3, EffectOf DEF Advance, Tables
  <2> QED BY <1>0, <2>1, <2>2, <2>4
<1>3. CASE Announce
  BY <1>0, <1>3 DEF Announce
<1>4. CASE Record
  <2>1. frame \in {"none", "completed", "failed"} /\ place' = "ended" /\ UNCHANGED <<cancel, process>>
    BY <1>0, <1>4 DEF Record, TypeOK
  <2>2. row' = IF row \in Active THEN "failed" ELSE row
    BY <1>4 DEF Record, Conditional, Accepted
  <2>3. frame' = IF row \in Active /\ frame = "none" THEN "failed" ELSE frame
    BY <1>4 DEF Record, Accepted
  <2> QED BY <1>0, <1>4, <2>1, <2>2, <2>3 DEF Record
<1>5. CASE Unwind
  <2>1. /\ UNCHANGED <<frame, cancel, process>> /\ place' = "ended"
        /\ row' # row => row \in Active /\ ~Locked /\ row' # "absent"
    BY <1>5, EffectIsSafe DEF Unwind, Conditional, Accepted
  <2> QED BY <1>0, <2>1, ActiveFrame
<1>6. CASE Unheard
  BY <1>0, <1>6 DEF Unheard
<1>7. CASE Fail
  <2>1. /\ UNCHANGED <<frame, cancel, process>> /\ place' = "recording"
        /\ row' # row => row \in Active /\ ~Locked /\ row' # "absent"
    BY <1>7, EffectIsSafe DEF Fail
  <2> QED BY <1>0, <2>1, ActiveFrame
<1>8. CASE RecordFails
  BY <1>0, <1>8 DEF RecordFails
<1>9. ASSUME NEW c \in Cancel, CancelRead(c) PROVE Frames'
  BY <1>0, <1>9 DEF CancelRead
<1>10. ASSUME NEW c \in Cancel, CancelTask(c) PROVE Frames'
  BY <1>0, <1>10 DEF CancelTask
<1>11. ASSUME NEW c \in Cancel, CancelFlush(c) PROVE Frames'
  BY <1>0, <1>11 DEF CancelFlush
<1>12. ASSUME NEW c \in Cancel, CancelCommit(c) PROVE Frames'
  <2>1. row' = "failed" /\ cancel'[c] = "done" /\ UNCHANGED <<frame, place, process>>
    BY <1>0, <1>12 DEF CancelCommit
  <2>2. frame \in {"none", "completed", "failed"} /\ process # "down"
    BY <1>0, <1>12 DEF CancelCommit, TypeOK
  <2> QED BY <1>0, <2>1, <2>2
<1>13. ASSUME NEW c \in Cancel, CancelUndone(c) PROVE Frames'
  BY <1>0, <1>13 DEF CancelUndone
<1>14. CASE DeleteRead
  BY <1>0, <1>14 DEF DeleteRead
<1>15. CASE Erase
  BY <1>0, <1>15 DEF Erase
<1>16. CASE Forget
  BY <1>0, <1>16 DEF Forget
<1>17. CASE Close
  BY <1>0, <1>17 DEF Close
<1>18. CASE Stop
  BY <1>0, <1>18 DEF Stop
<1>19. CASE Recover
  BY <1>0, <1>19 DEF Recover
<1>20. CASE UNCHANGED vars
  BY <1>0, <1>20 DEF vars
<1> QED BY <1>1, <1>2, <1>3, <1>4, <1>5, <1>6, <1>7, <1>8, <1>9, <1>10, <1>11, <1>12, <1>13, <1>14, <1>15, <1>16, <1>17, <1>18, <1>19, <1>20 DEF Next, Step, CancelStep

LEMMA Invariance == Spec => []IInv
<1>1. IInv /\ [Next]_vars => IInv'
  BY TypeStep, StorageStep, OwnershipStep, FramesStep DEF IInv
<1> QED BY InitIInv, <1>1, PTL DEF Spec

\* The state of a run, of its task and of the requests about it is always one
\* of the code's.
THEOREM TypeCorrectness == Spec => []TypeOK
<1>1. IInv => TypeOK
  BY DEF IInv
<1> QED BY <1>1, Invariance, PTL

\* However many cancels and deletes race the task, and whichever of its
\* transactions fail or go through unheard: a run that reads as completed has
\* each table its page shows, and no other.
THEOREM CompletedRunsAreWhole == Spec => []CompletedIsWhole
<1>1. IInv => CompletedIsWhole
  BY DEF IInv, Storage, WholeAtTheEnd, CompletedIsWhole
<1> QED BY <1>1, Invariance, PTL

\* An active run of a process that serves requests has a task, a request or a
\* cancel that will finish it, unless the database refused the last word.
THEOREM ActiveRunsHaveOwners == Spec => []NoOrphanedRun
<1>1. IInv => NoOrphanedRun
  BY DEF IInv, Ownership
<1> QED BY <1>1, Invariance, PTL

\* What the bus tells every stream about the end of a run is what its row says,
\* but for a cancel that overruled it or could not commit.
THEOREM FramesAgreeWithTheRow == Spec => []FrameTruthful
<1>1. IInv => FrameTruthful
  BY DEF IInv, Frames
<1> QED BY <1>1, Invariance, PTL

\* An ended run changes how it ended in a cancel's commit and in no other step:
\* the conditional updates leave it alone, and so does recovery.
THEOREM OnlyACancelOverrules == Spec => OnlyCancelOverrules
<1> DEFINE Overruled == row \in {"completed", "failed"} /\ row' \notin {row, "absent"}
<1>1. ASSUME IInv, [Next]_vars, Overruled
      PROVE  \E c \in Cancel : CancelCommit(c)
  <2> USE DEF stored, task, requests, Active
  <2>1. ~ (Dispatch \/ Announce \/ Unheard \/ RecordFails)
    BY <1>1 DEF Dispatch, Announce, Unheard, RecordFails
  <2>2. ~ (Advance \/ Fail)
    BY <1>1, EffectIsSafe DEF Advance, Fail
  <2>3. ~ (Record \/ Unwind)
    BY <1>1, EffectIsSafe DEF Record, Unwind, Conditional, Accepted
  <2>4. \A c \in Cancel : ~ (CancelRead(c) \/ CancelTask(c) \/ CancelFlush(c) \/ CancelUndone(c))
    BY <1>1 DEF CancelRead, CancelTask, CancelFlush, CancelUndone
  <2>5. ~ (DeleteRead \/ Erase \/ Forget)
    BY <1>1 DEF DeleteRead, Erase, Forget
  <2>6. ~ (Close \/ Stop \/ Recover \/ UNCHANGED vars)
    BY <1>1 DEF Close, Stop, Recover, vars
  <2> QED
    BY <1>1, <2>1, <2>2, <2>3, <2>4, <2>5, <2>6 DEF Next, Step, CancelStep
<1>2. IInv /\ [Next]_vars => [Overruled => (\E c \in Cancel : CancelCommit(c))]_vars
  BY <1>1
<1> QED BY <1>2, Invariance, PTL DEF Spec, OnlyCancelOverrules

--------------------------------------------------------------------------------
(* The run with a broker.                                                  *)
(*                                                                         *)
(* That one which reads as completed has each of its results once, for any *)
(* number of fan-outs, of chunks and of workers that die.  Between the     *)
(* run's task and the callback of its chord there is only the row.  What   *)
(* makes them one after the other is that the task fans out last: as long  *)
(* as it does not come again behind its fan-out (refanned), the tables     *)
(* have one writer at a time.  D is Distributed, as TLC runs it.           *)

\* The bounds are numbers; a run may be fanned out in no chunk at all.
Sizes == MaxFanOuts \in Nat /\ Chunks \in Nat /\ MaxLosses \in Nat

Results == D!Tables \X D!Job \X (0..MaxLosses)

(* The invariant. *)

QueuedTypes ==
  /\ D!TypeOK
  /\ step \in [D!Job -> Nat] /\ cleared \in [D!Job -> SUBSET Results]
  /\ \A j \in D!Job : job[j] = "storing" => D!Op(j) \in D!Tables

Of(t) == {r \in queuedResults : r[1] = t}
Once(t) == \E r \in queuedResults : Of(t) = {r}

\* The run's task fans out last, and then only the one callback writes.
OneWriter ==
  /\ \A k \in D!FanOut : k # 1 => job[k] = "none" /\ left[k] = 0
  /\ D!Fanned # {} => job[0] = "over"

\* What the run's task has stored when it is past a step, and what its open
\* transaction is about to replace.
TaskHasStored ==
  /\ D!Fanned # {} => Once("output") /\ Once("insights")
  /\ job[0] \in {"executing", "storing"} =>
       /\ step[0] > 6 => Once("output")
       /\ step[0] \in 7..9 => Of("insights") = {}
       /\ step[0] > 9 => Once("insights")
  /\ job[0] = "storing" => cleared[0] = IF step[0] = 6 THEN queuedResults ELSE {}

\* The same of the callback.
CallbackHasStored ==
  \A k \in D!FanOut :
    /\ job[k] = "executing" /\ step[k] = 5 => Once("series")
    /\ job[k] = "storing" => cleared[k] = Of("series")

\* A callback that is delivered again after it has completed the run is yet to
\* ask whether the run goes on.
CompletedForGood ==
  queuedRow = "completed" =>
    /\ D!Fanned # {} /\ Once("series")
    /\ \A k \in D!FanOut : job[k] # "storing" /\ (job[k] = "executing" => step[k] = 1)

Written == ~refanned => OneWriter /\ TaskHasStored /\ CallbackHasStored /\ CompletedForGood

QueuedInv == QueuedTypes /\ Written

-------------------------------------------------------------------------------
(* The steps of the tasks. *)

\* What the steps of each path do, and where.
LEMMA Ops ==
  ASSUME QueuedTypes, NEW j \in D!Job
  PROVE  /\ step[j] \in Nat /\ step[j] >= 1
         /\ j = 0 => /\ step[j] <= 12
                     /\ D!Op(j) \in {"checkpoint", "check", "fit", "output", "insights", "dispatch"}
                     /\ D!Op(j) = "output" <=> step[j] = 6
                     /\ D!Op(j) = "insights" <=> step[j] = 9
                     /\ D!Op(j) = "dispatch" <=> step[j] = 12
         /\ j # 0 => /\ step[j] <= 5 /\ j \in D!FanOut
                     /\ D!Op(j) \in {"checkpoint", "check", "series", "complete"}
                     /\ D!Op(j) = "series" <=> step[j] = 4
                     /\ D!Op(j) = "complete" <=> step[j] = 5
                     /\ step[j] = 1 => D!Op(j) = "check"
<1>1. step[j] \in 1..Len(D!Path(j))
  BY DEF QueuedTypes, D!TypeOK
<1>2. CASE j = 0
  <2>1. step[j] \in 1..12
    BY <1>1, <1>2 DEF D!Path
  <2> QED
    BY <1>2, <2>1 DEF D!Op, D!Path
<1>3. CASE j # 0
  <2>1. step[j] \in 1..5 /\ j \in D!FanOut
    BY <1>1, <1>3 DEF D!Path, D!Job
  <2> QED
    BY <1>3, <2>1 DEF D!Op, D!Path
<1> QED
  BY <1>2, <1>3

\* A task that goes on to its next step has one.
LEMMA GoesToNext ==
  ASSUME QueuedTypes, NEW j \in D!Job, D!Op(j) \notin {"complete", "dispatch"}, D!Step(j)
  PROVE  /\ step' = [step EXCEPT ![j] = step[j] + 1]
         /\ \A i \in D!Job : step'[i] \in 1..Len(D!Path(i))
         /\ step' \in [D!Job -> Nat]
<1>1. step' = [step EXCEPT ![j] = step[j] + 1] /\ step \in [D!Job -> Nat]
  BY DEF D!Step, QueuedTypes
<1>2. step[j] + 1 \in 1..Len(D!Path(j))
  BY Ops DEF D!Path
<1>3. \A i \in D!Job : step[i] \in 1..Len(D!Path(i))
  BY DEF QueuedTypes, D!TypeOK
<1> QED
  BY <1>1, <1>2, <1>3

\* A chord that is under way, or was, is not forgotten.
LEMMA FannedStays ==
  ASSUME left' = left, \A k \in D!FanOut : job[k] = "none" <=> job'[k] = "none"
  PROVE  D!Fanned' = D!Fanned
  BY DEF D!Fanned, D!FanOut

\* What a transaction may leave behind, committed or not.
LEMMA CommitTypes ==
  ASSUME QueuedTypes, NEW j \in D!Job, job[j] = "storing",
         queuedResults' \in {queuedResults, D!CommitOf(j)}, cleared' = D!Cleared(j)
  PROVE  /\ queuedResults' \subseteq Results
         /\ cleared' \in [D!Job -> SUBSET Results]
         /\ \A i \in D!Job : cleared'[i] \subseteq queuedResults'
<1>1. queuedResults \subseteq Results /\ cleared \in [D!Job -> SUBSET Results] /\ losses \in 0..MaxLosses
  BY DEF QueuedTypes, D!TypeOK, Results
<1>2. D!Op(j) \in D!Tables
  BY DEF QueuedTypes
<1>3. queuedResults' \subseteq Results
  BY <1>1, <1>2 DEF D!CommitOf, Results
<1>4. \A i \in D!Job : D!Cleared(j)[i] \subseteq queuedResults' /\ D!Cleared(j)[i] \subseteq Results
  BY <1>1 DEF D!Cleared
<1> QED
  BY <1>3, <1>4 DEF D!Cleared

LEMMA QueuedInit == Sizes /\ D!Init => QueuedInv
<1> SUFFICES ASSUME Sizes, D!Init PROVE QueuedInv
  OBVIOUS
<1>1. \A j \in D!Job : 1 \in 1..Len(D!Path(j))
  BY DEF D!Path, D!Job, D!FanOut
<1>2. QueuedTypes
  <2>1. D!TypeOK
    <3>1. job \in [D!Job -> {"none", "queued", "executing", "storing", "recording", "over"}]
      BY DEF D!Init
    <3>2. left \in [D!FanOut -> 0..Chunks] /\ losses \in 0..MaxLosses
      BY DEF Sizes, D!Init
    <3>3. \A j \in D!Job : step[j] \in 1..Len(D!Path(j)) /\ cleared[j] \subseteq queuedResults
      BY <1>1 DEF D!Init
    <3> QED
      BY <3>1, <3>2, <3>3 DEF D!Init, D!TypeOK
  <2>2. /\ step \in [D!Job -> Nat] /\ cleared \in [D!Job -> SUBSET Results]
        /\ \A j \in D!Job : job[j] # "storing"
    BY DEF D!Init
  <2> QED
    BY <2>1, <2>2 DEF QueuedTypes
<1>3. D!Fanned = {}
  BY DEF D!Fanned, D!Init, D!FanOut, D!Job
<1>4. Written
  BY <1>3 DEF D!Init, Written, OneWriter, TaskHasStored, CallbackHasStored, CompletedForGood, D!Job,
         D!FanOut
<1> QED
  BY <1>2, <1>4 DEF QueuedInv

LEMMA StepTypes == Sizes /\ QueuedTypes /\ [D!Next]_(D!vars) => QueuedTypes'
<1> SUFFICES ASSUME Sizes, QueuedTypes, [D!Next]_(D!vars) PROVE QueuedTypes'
  OBVIOUS
<1> USE DEF QueuedTypes, D!TypeOK, Results
<1>a. 0 \in D!Job /\ D!FanOut \subseteq D!Job
  BY DEF D!Job
<1>b. \A j \in D!Job : 1 \in 1..Len(D!Path(j))
  BY DEF D!Path, D!Job
<1>1. CASE D!Send
  BY <1>1, <1>a DEF D!Send, D!Goes, D!stored, D!bounds, D!Op
<1>2. CASE D!SendFails
  BY <1>2, <1>a DEF D!SendFails, D!bounds, D!Op
<1>3. CASE D!SenderDies
  BY <1>3 DEF D!SenderDies, D!stored, D!work, D!Op
<1>4. ASSUME NEW j \in D!Job, D!Deliver(j) PROVE QueuedTypes'
  BY <1>4, <1>b DEF D!Deliver, D!Goes, D!stored, D!bounds, D!Op
<1>5. ASSUME NEW j \in D!Job, D!Check(j) PROVE QueuedTypes'
  <2>1. CASE D!Goes(j, "over") /\ UNCHANGED step
    BY <1>5, <2>1 DEF D!Check, D!Goes, D!stored, D!bounds, D!Op
  <2>2. CASE D!Step(j) /\ UNCHANGED job
    <3>1. D!Op(j) \notin {"complete", "dispatch"} /\ job[j] # "storing"
      BY <1>5 DEF D!Check, D!At
    <3>2. /\ step' = [step EXCEPT ![j] = step[j] + 1] /\ step' \in [D!Job -> Nat]
          /\ \A i \in D!Job : step'[i] \in 1..Len(D!Path(i))
      BY <2>2, <3>1, GoesToNext
    <3> QED
      BY <1>5, <2>2, <3>1, <3>2 DEF D!Check, D!stored, D!bounds, D!Op
  <2> QED
    BY <1>5, <2>1, <2>2 DEF D!Check
<1>6. ASSUME NEW j \in D!Job, D!Checkpoint(j) PROVE QueuedTypes'
  <2>0. queuedRow' \in {"pending", "running", "completed", "failed"}
    BY <1>6 DEF D!Checkpoint
  <2>1. CASE D!Goes(j, "over") /\ UNCHANGED step
    BY <1>6, <2>0, <2>1 DEF D!Checkpoint, D!Goes, D!bounds, D!Op
  <2>2. CASE D!Step(j) /\ UNCHANGED job
    <3>1. D!Op(j) \notin {"complete", "dispatch"} /\ job[j] # "storing"
      BY <1>6 DEF D!Checkpoint, D!At
    <3>2. /\ step' = [step EXCEPT ![j] = step[j] + 1] /\ step' \in [D!Job -> Nat]
          /\ \A i \in D!Job : step'[i] \in 1..Len(D!Path(i))
      BY <2>2, <3>1, GoesToNext
    <3> QED
      BY <1>6, <2>0, <2>2, <3>1, <3>2 DEF D!Checkpoint, D!bounds, D!Op
  <2> QED
    BY <1>6, <2>1, <2>2 DEF D!Checkpoint
<1>7. ASSUME NEW j \in D!Job, D!Complete(j) PROVE QueuedTypes'
  BY <1>7 DEF D!Complete, D!Goes, D!bounds, D!Op
<1>8. ASSUME NEW j \in D!Job, D!Store(j) PROVE QueuedTypes'
  BY <1>8 DEF D!Store, D!At, D!Goes, D!stored, D!bounds, D!Op
<1>9. ASSUME NEW j \in D!Job, D!Commit(j) PROVE QueuedTypes'
  <2>1. job[j] = "storing" /\ queuedResults' = D!CommitOf(j) /\ cleared' = D!Cleared(j)
    BY <1>9 DEF D!Commit
  <2>2. D!Op(j) \notin {"complete", "dispatch"}
    BY <2>1 DEF D!Tables
  <2>3. /\ step' = [step EXCEPT ![j] = step[j] + 1] /\ step' \in [D!Job -> Nat]
        /\ \A i \in D!Job : step'[i] \in 1..Len(D!Path(i))
    BY <1>9, <2>2, GoesToNext DEF D!Commit
  <2>4. job' = [job EXCEPT ![j] = "executing"]
    BY <1>9 DEF D!Commit, D!Goes
  <2>5. \A i \in D!Job : job'[i] = "storing" => D!Op(i)' \in D!Tables
    BY <2>3, <2>4 DEF D!Op
  <2>6. /\ queuedResults' \subseteq Results /\ cleared' \in [D!Job -> SUBSET Results]
        /\ \A i \in D!Job : cleared'[i] \subseteq queuedResults'
    BY <2>1, CommitTypes
  <2> QED
    BY <1>9, <2>3, <2>4, <2>5, <2>6 DEF D!Commit, D!bounds
<1>10. ASSUME NEW j \in D!Job, D!Fail(j) PROVE QueuedTypes'
  <2>1. queuedRow' \in {"pending", "running", "completed", "failed"} /\ job' = [job EXCEPT ![j] = "recording"]
    BY <1>10 DEF D!Fail, D!Goes
  <2>2. /\ queuedResults' \subseteq Results /\ cleared' \in [D!Job -> SUBSET Results]
        /\ \A i \in D!Job : cleared'[i] \subseteq queuedResults'
    <3>1. CASE job[j] = "storing"
      BY <1>10, <3>1, CommitTypes DEF D!Fail
    <3>2. CASE job[j] # "storing"
      BY <1>10, <3>2 DEF D!Fail
    <3> QED
      BY <3>1, <3>2
  <2> QED
    BY <1>10, <2>1, <2>2 DEF D!Fail, D!bounds, D!Op
<1>11. ASSUME NEW j \in D!Job, D!Record(j) PROVE QueuedTypes'
  BY <1>11 DEF D!Record, D!Goes, D!bounds, D!Op
<1>12. ASSUME NEW j \in D!Job, D!RecordFails(j) PROVE QueuedTypes'
  BY <1>12 DEF D!RecordFails, D!Goes, D!stored, D!Op
<1>13. ASSUME NEW j \in D!Job, D!WorkerLost(j) PROVE QueuedTypes'
  <2>1. job' = [job EXCEPT ![j] = "queued"] /\ losses' \in 0..MaxLosses /\ refanned' \in BOOLEAN
    BY <1>13 DEF D!WorkerLost, D!Goes, Sizes
  <2>2. /\ queuedResults' \subseteq Results /\ cleared' \in [D!Job -> SUBSET Results]
        /\ \A i \in D!Job : cleared'[i] \subseteq queuedResults'
    <3>1. CASE job[j] = "storing"
      BY <1>13, <3>1, CommitTypes DEF D!WorkerLost
    <3>2. CASE job[j] # "storing"
      BY <1>13, <3>2 DEF D!WorkerLost
    <3> QED
      BY <3>1, <3>2
  <2> QED
    BY <1>13, <2>1, <2>2 DEF D!WorkerLost, D!Op
<1>14. CASE D!Dispatch
  BY <1>14, <1>a DEF D!Dispatch, D!Goes, D!stored, D!bounds, D!Op, Sizes
<1>15. ASSUME NEW k \in D!FanOut, D!Collected(k) PROVE QueuedTypes'
  <2>1. left' \in [D!FanOut -> 0..Chunks]
    BY <1>15 DEF D!Collected, Sizes
  <2>2. job' = job \/ job' = [job EXCEPT ![k] = "queued"]
    BY <1>15 DEF D!Collected, D!Goes
  <2> QED
    BY <1>15, <1>a, <2>1, <2>2 DEF D!Collected, D!stored, D!bounds, D!Op
<1>16. CASE D!LostBehindIt
  <2>1. job' = [job EXCEPT ![0] = "queued"] /\ losses' \in 0..MaxLosses /\ refanned' \in BOOLEAN
    BY <1>16 DEF D!LostBehindIt, D!Goes, Sizes
  <2> QED
    BY <1>16, <1>a, <2>1 DEF D!LostBehindIt, D!stored, D!Op
<1>17. CASE D!HardLimit
  <2>1. ASSUME NEW j \in D!Job, D!Busy(j), D!Goes(j, "over"), UNCHANGED left,
               IF job[j] = "storing" THEN queuedResults' \in {queuedResults, D!CommitOf(j)} /\ cleared' = D!Cleared(j)
               ELSE UNCHANGED <<queuedResults, cleared>>
        PROVE  QueuedTypes'
    <3>1. /\ queuedResults' \subseteq Results /\ cleared' \in [D!Job -> SUBSET Results]
          /\ \A i \in D!Job : cleared'[i] \subseteq queuedResults'
      <4>1. CASE job[j] = "storing"
        BY <2>1, <4>1, CommitTypes
      <4>2. CASE job[j] # "storing"
        BY <2>1, <4>2
      <4> QED
        BY <4>1, <4>2
    <3> QED
      BY <1>17, <2>1, <3>1 DEF D!HardLimit, D!Goes, D!Op
  <2>2. ASSUME NEW k \in D!FanOut, left' = [left EXCEPT ![k] = 0], D!Goes(k, "over"),
               UNCHANGED <<queuedResults, cleared>>
        PROVE  QueuedTypes'
    BY <1>17, <1>a, <2>2 DEF D!HardLimit, D!Goes, D!Op, Sizes
  <2> QED
    BY <1>17, <2>1, <2>2 DEF D!HardLimit
<1>18. CASE D!CancelRead
  BY <1>18 DEF D!CancelRead, D!stored, D!work, D!bounds, D!Op
<1>19. CASE D!Revoke
  <2>1. PICK heard \in SUBSET D!Job, chunks \in SUBSET D!FanOut :
          /\ job' = [j \in D!Job |-> IF j \in heard \cup chunks THEN "over" ELSE job[j]]
          /\ left' = [k \in D!FanOut |-> IF k \in chunks THEN 0 ELSE left[k]]
          /\ cleared' = [j \in D!Job |-> IF j \in heard THEN {} ELSE cleared[j]]
    BY <1>19 DEF D!Revoke
  <2>2. job' \in [D!Job -> {"none", "queued", "executing", "storing", "recording", "over"}]
    BY <2>1
  <2>3. left' \in [D!FanOut -> 0..Chunks]
    BY <2>1 DEF Sizes
  <2>4. cleared' \in [D!Job -> SUBSET Results] /\ \A j \in D!Job : cleared'[j] \subseteq queuedResults
    BY <2>1
  <2>5. \A j \in D!Job : job'[j] = "storing" => job[j] = "storing"
    BY <2>1
  <2> QED
    BY <1>19, <2>2, <2>3, <2>4, <2>5 DEF D!Revoke, D!stored, D!bounds, D!Op
<1>20. CASE D!CancelCommit
  BY <1>20 DEF D!CancelCommit, D!work, D!bounds, D!Op
<1>21. CASE D!CancelFails
  BY <1>21 DEF D!CancelFails, D!stored, D!work, D!Op
<1>22. CASE UNCHANGED D!vars
  BY <1>22 DEF D!vars, D!stored, D!work, D!bounds, D!Op
<1> QED
  BY <1>1, <1>2, <1>3, <1>4, <1>5, <1>6, <1>7, <1>8, <1>9, <1>10, <1>11, <1>12, <1>13, <1>14, <1>15,
     <1>16, <1>17, <1>18, <1>19, <1>20, <1>21, <1>22 DEF D!Next, D!Task

-------------------------------------------------------------------------------
(* That what is written stays so. *)

Stored == OneWriter /\ TaskHasStored /\ CallbackHasStored /\ CompletedForGood

\* A step that stores nothing and completes nothing, after which each task is
\* where it was, at its first step, or not at work.
LEMMA Quiet ==
  ASSUME QueuedTypes, Stored, UNCHANGED queuedResults, D!Fanned' = D!Fanned,
         \A k \in D!FanOut : job[k] = "none" /\ left[k] = 0 => job'[k] = "none" /\ left'[k] = 0,
         job[0] = "over" => job'[0] = "over",
         \A j \in D!Job : job'[j] \in {"executing", "storing"} =>
           \/ job'[j] = job[j] /\ step'[j] = step[j] /\ cleared'[j] = cleared[j]
           \/ job'[j] = "executing" /\ step'[j] = 1,
         queuedRow' = "completed" => queuedRow = "completed"
  PROVE  Stored'
<1> USE DEF Stored, Once, Of
<1>a. 0 \in D!Job /\ D!FanOut \subseteq D!Job
  BY DEF D!Job
<1>1. OneWriter'
  BY DEF OneWriter
<1>2. TaskHasStored'
  BY <1>a DEF TaskHasStored
<1>3. CallbackHasStored'
  BY <1>a DEF CallbackHasStored
<1>4. CompletedForGood'
  BY <1>a DEF CompletedForGood
<1> QED
  BY <1>1, <1>2, <1>3, <1>4

\* A task goes on to its next step, having stored nothing.
LEMMA GoesOn ==
  ASSUME QueuedTypes, Stored, NEW j \in D!Job, job[j] = "executing", D!Op(j) \in {"check", "fit", "checkpoint"},
         D!Step(j), UNCHANGED <<queuedResults, job, cleared, left>>,
         queuedRow' = "completed" => queuedRow = "completed" /\ j = 0
  PROVE  Stored'
<1> USE DEF Stored, Once, Of
<1>1. /\ step' = [step EXCEPT ![j] = step[j] + 1] /\ step \in [D!Job -> Nat] /\ 0 \in D!Job /\ D!FanOut \subseteq D!Job
  BY DEF D!Step, QueuedTypes, D!Job
<1>2. D!Fanned' = D!Fanned
  BY FannedStays
<1>3. OneWriter'
  BY <1>2 DEF OneWriter
<1>4. j = 0 => step[0] \in Nat /\ step[0] # 6 /\ step[0] # 9
  BY Ops
<1>5. j # 0 => step[j] \in Nat /\ step[j] # 4
  BY Ops
<1>6. TaskHasStored'
  BY <1>1, <1>2, <1>4 DEF TaskHasStored
<1>7. CallbackHasStored'
  BY <1>1, <1>5 DEF CallbackHasStored, D!FanOut
<1>8. CompletedForGood'
  BY <1>1, <1>2 DEF CompletedForGood, D!FanOut
<1> QED
  BY <1>3, <1>6, <1>7, <1>8

\* The callback completes the run, and is over or fails behind that.
LEMMA Completes ==
  ASSUME QueuedTypes, Stored, NEW j \in D!Job, job[j] = "executing", D!Op(j) = "complete",
         NEW p \in {"over", "recording"}, D!Goes(j, p), queuedRow' \in {queuedRow, "completed"},
         UNCHANGED <<queuedResults, step, cleared, left>>
  PROVE  Stored'
<1> USE DEF Stored, Once, Of
<1>1. j \in D!FanOut /\ step[j] = 5 /\ j # 0
  BY Ops
<1>2. job' = [job EXCEPT ![j] = p] /\ job \in [D!Job -> {"none", "queued", "executing", "storing", "recording", "over"}]
  BY DEF D!Goes, QueuedTypes, D!TypeOK
<1>a. 0 \in D!Job /\ D!FanOut \subseteq D!Job
  BY DEF D!Job
<1>3. D!Fanned' = D!Fanned
  BY <1>2, <1>a, FannedStays
<1>4. j \in D!Fanned
  BY <1>1 DEF D!Fanned
<1>5. j = 1 /\ Once("series")
  BY <1>1 DEF OneWriter, CallbackHasStored
<1>6. OneWriter'
  BY <1>1, <1>2, <1>3, <1>5, <1>a DEF OneWriter
<1>7. TaskHasStored'
  BY <1>1, <1>2, <1>3, <1>a DEF TaskHasStored
<1>8. CallbackHasStored'
  BY <1>1, <1>2, <1>a DEF CallbackHasStored
<1>9. CompletedForGood'
  <2>1. \A k \in D!FanOut : job'[k] \notin {"executing", "storing"}
    BY <1>1, <1>2, <1>5, <1>a DEF OneWriter
  <2> QED
    BY <2>1, <1>3, <1>4, <1>5 DEF CompletedForGood
<1> QED
  BY <1>6, <1>7, <1>8, <1>9

\* What a commit of the run's task, or of the callback, makes of the tables.
LEMMA Committed ==
  ASSUME QueuedTypes, Stored, NEW j \in D!Job, job[j] = "storing", queuedResults' = D!CommitOf(j)
  PROVE  /\ j = 0 /\ step[0] = 6 => Once("output")' /\ Of("insights")' = {}
         /\ j = 0 /\ step[0] = 9 => Of("output")' = Of("output") /\ Once("insights")'
         /\ j # 0 => /\ Of("output")' = Of("output") /\ Of("insights")' = Of("insights")
                     /\ Once("series")'
<1>1. D!CommitOf(j) = (queuedResults \ cleared[j]) \cup {<<D!Op(j), j, losses>>}
  BY DEF D!CommitOf
<1>2. CASE j = 0 /\ step[0] = 6
  <2>1. cleared[j] = queuedResults /\ D!Op(j) = "output"
    BY <1>2, Ops DEF Stored, TaskHasStored
  <2>2. queuedResults' = {<<"output", j, losses>>}
    BY <1>1, <2>1
  <2>3. Of("output")' = {<<"output", j, losses>>} /\ Of("insights")' = {}
    BY <2>2 DEF Of
  <2>4. Once("output")'
    BY <2>2, <2>3 DEF Once
  <2> QED
    BY <1>2, <2>3, <2>4
<1>3. CASE j = 0 /\ step[0] = 9
  <2>1. cleared[j] = {} /\ D!Op(j) = "insights" /\ Of("insights") = {}
    BY <1>3, Ops DEF Stored, TaskHasStored
  <2>2. queuedResults' = queuedResults \cup {<<"insights", j, losses>>}
    BY <1>1, <2>1
  <2>3. Of("insights")' = {<<"insights", j, losses>>}
    BY <2>1, <2>2 DEF Of
  <2>4. Of("output")' = Of("output")
    BY <2>2 DEF Of
  <2>5. Once("insights")'
    BY <2>2, <2>3 DEF Once
  <2> QED
    BY <1>3, <2>4, <2>5
<1>4. CASE j # 0
  <2>1. j \in D!FanOut /\ D!Op(j) = "series"
    BY <1>4, Ops DEF QueuedTypes, D!Tables
  <2>2. cleared[j] = Of("series")
    BY <2>1 DEF Stored, CallbackHasStored
  <2>3. queuedResults' = (queuedResults \ Of("series")) \cup {<<"series", j, losses>>}
    BY <1>1, <2>1, <2>2
  <2>4. Of("series")' = {<<"series", j, losses>>}
    BY <2>3 DEF Of
  <2>5. Of("output")' = Of("output") /\ Of("insights")' = Of("insights")
    BY <2>3 DEF Of
  <2> QED
    BY <1>4, <2>3, <2>4, <2>5 DEF Once
<1> QED
  BY <1>2, <1>3, <1>4

\* A task that is interrupted as it commits leaves its work done or not, and
\* is not at work any more.
LEMMA LeavesOff ==
  ASSUME QueuedTypes, Stored, NEW j \in D!Job, job[j] = "storing", queuedResults' \in {queuedResults, D!CommitOf(j)},
         NEW p \in {"queued", "recording", "over"}, D!Goes(j, p), cleared' = D!Cleared(j),
         UNCHANGED <<queuedRow, step, left>>
  PROVE  Stored'
<1>1. job' = [job EXCEPT ![j] = p] /\ job \in [D!Job -> {"none", "queued", "executing", "storing", "recording", "over"}]
  BY DEF D!Goes, QueuedTypes, D!TypeOK
<1>a. 0 \in D!Job /\ D!FanOut \subseteq D!Job /\ 0 \notin D!FanOut
  BY DEF D!Job, D!FanOut
<1>2. D!Fanned' = D!Fanned
  BY <1>1, <1>a, FannedStays
<1>3. OneWriter'
  BY <1>1, <1>2, <1>a DEF Stored, OneWriter
<1>4. CASE j = 0
  <2>1. D!Fanned = {} /\ \A k \in D!FanOut : job[k] = "none"
    BY <1>4 DEF Stored, OneWriter, D!Fanned
  <2>2. TaskHasStored' /\ CallbackHasStored' /\ CompletedForGood'
    BY <1>1, <1>2, <1>a, <1>4, <2>1 DEF Stored, TaskHasStored, CallbackHasStored, CompletedForGood
  <2> QED
    BY <1>3, <2>2 DEF Stored
<1>5. CASE j # 0
  <2>1. j \in D!FanOut /\ j \in D!Fanned
    BY <1>5 DEF D!Job, D!Fanned
  <2>2. j = 1 /\ job[0] = "over" /\ Once("output") /\ Once("insights") /\ queuedRow # "completed"
    BY <2>1 DEF Stored, OneWriter, TaskHasStored, CompletedForGood
  <2>3. Of("output")' = Of("output") /\ Of("insights")' = Of("insights")
    BY <1>5, Committed DEF Of
  <2>4. Once("output")' /\ Once("insights")'
    BY <2>2, <2>3 DEF Once, Of
  <2>5. job'[0] = "over" /\ \A k \in D!FanOut : job'[k] \notin {"executing", "storing"}
    BY <1>1, <1>5, <1>a, <2>2 DEF Stored, OneWriter
  <2> QED
    BY <1>3, <2>2, <2>4, <2>5 DEF Stored, TaskHasStored, CallbackHasStored, CompletedForGood
<1> QED
  BY <1>4, <1>5

LEMMA StepStored ==
  ASSUME QueuedTypes, QueuedTypes', Stored, ~refanned', [D!Next]_(D!vars)
  PROVE  Stored'
<1>a. 0 \in D!Job /\ D!FanOut \subseteq D!Job /\ 0 \notin D!FanOut
  BY DEF D!Job, D!FanOut
<1>b. /\ job \in [D!Job -> {"none", "queued", "executing", "storing", "recording", "over"}]
      /\ step \in [D!Job -> Nat] /\ cleared \in [D!Job -> SUBSET Results]
      /\ left \in [D!FanOut -> 0..Chunks]
  BY DEF QueuedTypes, D!TypeOK
<1>1. CASE D!Send
  <2>1. D!Fanned' = D!Fanned
    BY <1>1, <1>a, <1>b, FannedStays DEF D!Send, D!Goes
  <2> QED
    BY <1>1, <1>a, <1>b, <2>1, Quiet DEF D!Send, D!Goes, D!stored, D!bounds
<1>2. CASE D!SendFails
  <2>1. D!Fanned' = D!Fanned
    BY <1>2, <1>a, <1>b, FannedStays DEF D!SendFails
  <2> QED
    BY <1>2, <1>a, <1>b, <2>1, Quiet DEF D!SendFails, D!bounds
<1>3. CASE D!SenderDies
  <2>1. D!Fanned' = D!Fanned
    BY <1>3, FannedStays DEF D!SenderDies, D!work
  <2> QED
    BY <1>3, <2>1, Quiet DEF D!SenderDies, D!stored, D!work
<1>4. ASSUME NEW j \in D!Job, D!Deliver(j) PROVE Stored'
  <2>1. D!Fanned' = D!Fanned
    BY <1>4, <1>a, <1>b, FannedStays DEF D!Deliver, D!Goes
  <2> QED
    BY <1>4, <1>a, <1>b, <2>1, Quiet DEF D!Deliver, D!Goes, D!stored, D!bounds
<1>5. ASSUME NEW j \in D!Job, job[j] = "executing", D!Goes(j, "over"), UNCHANGED <<queuedResults, step, cleared, left>>,
             queuedRow' = "completed" => queuedRow = "completed"
      PROVE  Stored'
  <2>1. D!Fanned' = D!Fanned
    BY <1>5, <1>a, <1>b, FannedStays DEF D!Goes
  <2> QED
    BY <1>5, <1>a, <1>b, <2>1, Quiet DEF D!Goes
<1>6. ASSUME NEW j \in D!Job, D!Check(j) PROVE Stored'
  <2>1. job[j] = "executing" /\ D!Op(j) \in {"check", "fit"}
    BY <1>6 DEF D!Check, D!At
  <2>2. CASE D!Op(j) = "check" /\ queuedRow # "running"
    BY <1>5, <1>6, <2>1, <2>2 DEF D!Check, D!stored
  <2>3. CASE ~(D!Op(j) = "check" /\ queuedRow # "running")
    <3>1. queuedRow = "completed" => j = 0
      BY <2>1, <2>3, Ops
    <3> QED
      BY <1>6, <2>1, <2>3, <3>1, GoesOn DEF D!Check, D!stored
  <2> QED
    BY <2>2, <2>3
<1>7. ASSUME NEW j \in D!Job, D!Checkpoint(j) PROVE Stored'
  <2>1. job[j] = "executing" /\ D!Op(j) = "checkpoint"
    BY <1>7 DEF D!Checkpoint, D!At
  <2>2. CASE queuedRow \in D!Active
    BY <1>7, <2>1, <2>2, GoesOn DEF D!Checkpoint, D!Active
  <2>3. CASE queuedRow \notin D!Active
    BY <1>5, <1>7, <2>1, <2>3 DEF D!Checkpoint
  <2> QED
    BY <2>2, <2>3
<1>8. ASSUME NEW j \in D!Job, D!Complete(j) PROVE Stored'
  BY <1>8, Completes DEF D!Complete, D!At
<1>9. ASSUME NEW j \in D!Job, D!Store(j) PROVE Stored'
  <2>1. /\ job[j] = "executing" /\ D!Op(j) \in D!Tables
        /\ job' = [job EXCEPT ![j] = "storing"]
        /\ cleared' = [cleared EXCEPT ![j] = {r \in queuedResults : r[1] \in D!Clears(D!Op(j))}]
        /\ UNCHANGED <<queuedRow, queuedResults, step, left>>
    BY <1>9 DEF D!Store, D!At, D!Goes, D!stored
  <2>2. D!Fanned' = D!Fanned
    BY <1>a, <1>b, <2>1, FannedStays
  <2>3. OneWriter'
    BY <1>a, <1>b, <2>1, <2>2 DEF Stored, OneWriter
  <2>4. CASE j = 0
    <3>1. D!Fanned = {} /\ \A k \in D!FanOut : job[k] = "none"
      BY <2>1, <2>4 DEF Stored, OneWriter, D!Fanned
    <3>2. step[0] \in {6, 9} /\ (D!Op(0) = IF step[0] = 6 THEN "output" ELSE "insights")
      BY <2>1, <2>4, Ops DEF D!Tables
    <3>3. \A r \in queuedResults : r[1] \in D!Tables
      BY DEF QueuedTypes, D!TypeOK
    <3>4. cleared'[0] = IF step[0] = 6 THEN queuedResults ELSE {}
      BY <1>a, <1>b, <2>1, <2>4, <3>2, <3>3 DEF D!Clears
    <3>5. step' = step /\ \A t \in D!Tables : (Once(t)' <=> Once(t)) /\ Of(t)' = Of(t)
      BY <2>1 DEF Once, Of
    <3>6. TaskHasStored'
      BY <1>a, <1>b, <2>1, <2>2, <2>4, <3>1, <3>4, <3>5 DEF Stored, TaskHasStored, D!Tables
    <3>7. CallbackHasStored' /\ CompletedForGood'
      BY <1>a, <1>b, <2>1, <2>2, <2>4, <3>1 DEF Stored, CallbackHasStored, CompletedForGood
    <3> QED
      BY <2>3, <3>6, <3>7 DEF Stored
  <2>5. CASE j # 0
    <3>1. j \in D!FanOut /\ D!Op(j) = "series" /\ step[j] = 4 /\ j \in D!Fanned
      BY <2>1, <2>5, Ops DEF D!Tables, D!Fanned
    <3>2. job[0] = "over" /\ queuedRow # "completed"
      BY <2>1, <3>1 DEF Stored, OneWriter, CompletedForGood
    <3>3. cleared'[j] = Of("series")
      BY <1>b, <2>1, <3>1 DEF D!Clears, Of
    <3>4. step' = step /\ \A t \in D!Tables : (Once(t)' <=> Once(t)) /\ Of(t)' = Of(t)
      BY <2>1 DEF Once, Of
    <3>5. TaskHasStored'
      BY <1>a, <1>b, <2>1, <2>2, <2>5, <3>2, <3>4 DEF Stored, TaskHasStored, D!Tables
    <3>6. CallbackHasStored'
      BY <1>a, <1>b, <2>1, <3>3, <3>4 DEF Stored, CallbackHasStored, D!Tables
    <3> QED
      BY <2>1, <2>3, <3>2, <3>5, <3>6 DEF Stored, CompletedForGood
  <2> QED
    BY <2>4, <2>5
<1>10. ASSUME NEW j \in D!Job, D!Commit(j) PROVE Stored'
  <2>1. /\ job[j] = "storing" /\ queuedResults' = D!CommitOf(j)
        /\ job' = [job EXCEPT ![j] = "executing"] /\ step' = [step EXCEPT ![j] = step[j] + 1]
        /\ \A k \in D!Job : k # j => cleared'[k] = cleared[k] \cap queuedResults'
        /\ UNCHANGED <<queuedRow, left>>
    BY <1>10 DEF D!Commit, D!Goes, D!Step, D!Cleared
  <2>2. D!Fanned' = D!Fanned
    BY <1>a, <1>b, <2>1, FannedStays
  <2>3. OneWriter'
    BY <1>a, <1>b, <2>1, <2>2 DEF Stored, OneWriter
  <2>4. CASE j = 0
    <3>1. D!Fanned = {} /\ \A k \in D!FanOut : job[k] = "none"
      BY <2>1, <2>4 DEF Stored, OneWriter, D!Fanned
    <3>2. step[0] \in {6, 9}
      BY <2>1, <2>4, Ops DEF QueuedTypes, D!Tables
    <3>3. step'[0] = step[0] + 1 /\ job'[0] = "executing"
      BY <1>a, <1>b, <2>1, <2>4
    <3>4. ASSUME step[0] = 6 PROVE TaskHasStored'
      <4>1. Once("output")' /\ Of("insights")' = {}
        BY <2>1, <2>4, <3>4, Committed
      <4>2. step'[0] = 7 /\ job'[0] = "executing" /\ D!Fanned' = {}
        BY <2>2, <3>1, <3>3, <3>4
      <4> QED
        BY <4>1, <4>2 DEF TaskHasStored
    <3>5. ASSUME step[0] = 9 PROVE TaskHasStored'
      <4>1. Once("output")
        BY <2>1, <2>4, <3>5 DEF Stored, TaskHasStored
      <4>2. Once("insights")' /\ Of("output")' = Of("output")
        BY <2>1, <2>4, <3>5, Committed
      <4>3. Once("output")'
        BY <4>1, <4>2 DEF Once, Of
      <4>4. step'[0] = 10 /\ job'[0] = "executing" /\ D!Fanned' = {}
        BY <2>2, <3>1, <3>3, <3>5
      <4> QED
        BY <4>2, <4>3, <4>4 DEF TaskHasStored
    <3>6. CallbackHasStored' /\ CompletedForGood'
      BY <1>a, <1>b, <2>1, <2>2, <2>4, <3>1 DEF Stored, CallbackHasStored, CompletedForGood
    <3> QED
      BY <2>3, <3>2, <3>4, <3>5, <3>6 DEF Stored
  <2>5. CASE j # 0
    <3>1. j \in D!FanOut /\ j \in D!Fanned
      BY <2>1, <2>5 DEF D!Job, D!Fanned
    <3>2. j = 1 /\ job[0] = "over" /\ Once("output") /\ Once("insights") /\ queuedRow # "completed"
      BY <2>1, <3>1 DEF Stored, OneWriter, TaskHasStored, CompletedForGood
    <3>3. Of("output")' = Of("output") /\ Of("insights")' = Of("insights") /\ Once("series")'
      BY <2>1, <2>5, Committed
    <3>4. Once("output")' /\ Once("insights")'
      BY <3>2, <3>3 DEF Once, Of
    <3>5. job'[0] = "over"
      BY <1>a, <1>b, <2>1, <2>5, <3>2
    <3>6. \A k \in D!FanOut : job'[k] # "storing" /\ (job'[k] = "executing" => k = j)
      BY <1>a, <1>b, <2>1, <3>1, <3>2 DEF Stored, OneWriter
    <3> QED
      BY <2>1, <2>3, <3>2, <3>3, <3>4, <3>5, <3>6 DEF Stored, TaskHasStored, CallbackHasStored,
             CompletedForGood
  <2> QED
    BY <2>4, <2>5
\* a task that is interrupted, wherever it is, and not where it completes the run
<1>11. ASSUME NEW j \in D!Job, D!Busy(j), NEW p \in {"queued", "recording", "over"}, D!Goes(j, p),
              UNCHANGED <<queuedRow, step, left>>, j = 0 => p = "over" \/ D!Fanned = {} \/ job[0] # "over",
              IF job[j] = "storing" THEN queuedResults' \in {queuedResults, D!CommitOf(j)} /\ cleared' = D!Cleared(j)
              ELSE UNCHANGED <<queuedResults, cleared>>
       PROVE  Stored'
  <2>1. CASE job[j] = "storing"
    BY <1>11, <2>1, LeavesOff
  <2>2. CASE job[j] # "storing"
    <3>1. job[j] \in {"executing", "recording"} /\ job' = [job EXCEPT ![j] = p]
      BY <1>11, <2>2 DEF D!Busy, D!Goes
    <3>2. D!Fanned' = D!Fanned
      BY <1>11, <1>a, <1>b, <3>1, FannedStays
    <3> QED
      BY <1>11, <1>a, <1>b, <2>2, <3>1, <3>2, Quiet
  <2> QED
    BY <2>1, <2>2
<1>12. ASSUME NEW j \in D!Job, D!Fail(j) PROVE Stored'
  <2>1. CASE D!Op(j) = "complete" /\ job[j] = "executing"
    BY <1>12, <2>1, Completes DEF D!Fail, D!Active
  <2>2. CASE ~(D!Op(j) = "complete" /\ job[j] = "executing")
    <3>1. queuedRow' = queuedRow
      BY <1>12, <2>2 DEF D!Fail
    <3> QED
      BY <1>11, <1>12, <3>1 DEF D!Fail, D!Busy
  <2> QED
    BY <2>1, <2>2
<1>13. ASSUME NEW j \in D!Job, job[j] = "recording", D!Goes(j, "over"), UNCHANGED <<queuedResults, step, cleared, left>>,
              queuedRow' = "completed" => queuedRow = "completed"
       PROVE  Stored'
  <2>1. D!Fanned' = D!Fanned
    BY <1>13, <1>a, <1>b, FannedStays DEF D!Goes
  <2> QED
    BY <1>13, <1>a, <1>b, <2>1, Quiet DEF D!Goes
<1>14. ASSUME NEW j \in D!Job, D!Record(j) \/ D!RecordFails(j) PROVE Stored'
  BY <1>13, <1>14 DEF D!Record, D!RecordFails, D!stored
<1>15. ASSUME NEW j \in D!Job, D!WorkerLost(j) PROVE Stored'
  BY <1>11, <1>15 DEF D!WorkerLost
<1>16. CASE D!Dispatch
  <2>1. job[0] = "executing" /\ step[0] = 12
    BY <1>16, <1>a, Ops DEF D!Dispatch, D!At
  <2>2. D!Fanned = {} /\ \A k \in D!FanOut : job[k] = "none" /\ left[k] = 0
    BY <1>b, <2>1 DEF Stored, OneWriter, D!Fanned
  <2>3. PICK k \in D!FanOut : left' = [left EXCEPT ![k] = Chunks] /\ \A l \in 1..(k - 1) : l \in D!Fanned
    BY <1>16 DEF D!Dispatch
  <2>4. k = 1
    BY <2>2, <2>3 DEF D!FanOut
  <2>5. job' = [job EXCEPT ![0] = "over"] /\ UNCHANGED <<queuedRow, queuedResults, step, cleared>>
    BY <1>16 DEF D!Dispatch, D!Goes, D!stored
  <2>6. \A l \in D!FanOut : job'[l] = "none" /\ (l # 1 => left'[l] = 0)
    BY <1>a, <1>b, <2>2, <2>3, <2>4, <2>5
  <2>7. OneWriter' /\ CallbackHasStored'
    BY <1>a, <1>b, <2>5, <2>6 DEF OneWriter, CallbackHasStored
  <2>8. TaskHasStored'
    <3>1. Once("output") /\ Once("insights")
      BY <2>1 DEF Stored, TaskHasStored
    <3>2. Once("output")' /\ Once("insights")'
      BY <2>5, <3>1 DEF Once, Of
    <3> QED
      BY <1>a, <1>b, <2>5, <3>2 DEF TaskHasStored
  <2>9. CompletedForGood'
    BY <2>2, <2>5 DEF Stored, CompletedForGood
  <2> QED
    BY <2>7, <2>8, <2>9 DEF Stored
<1>17. ASSUME NEW k \in D!FanOut, D!Collected(k) PROVE Stored'
  <2>1. left[k] > 0 /\ left' = [left EXCEPT ![k] = left[k] - 1] /\ (left'[k] = 0 => job'[k] = "queued")
        /\ (job' = job \/ job' = [job EXCEPT ![k] = "queued"])
    BY <1>17, <1>a, <1>b DEF D!Collected, D!Goes
  <2>2. D!Fanned' = D!Fanned
    BY <1>a, <1>b, <2>1 DEF D!Fanned
  <2> QED
    BY <1>17, <1>a, <1>b, <2>1, <2>2, Quiet DEF D!Collected, D!stored
<1>18. CASE D!LostBehindIt
  BY <1>18 DEF D!LostBehindIt
<1>19. CASE D!HardLimit
  <2>1. UNCHANGED <<queuedRow, step>>
    BY <1>19 DEF D!HardLimit
  <2>2. ASSUME NEW j \in D!Job, D!Busy(j), D!Goes(j, "over"), UNCHANGED left,
               IF job[j] = "storing" THEN queuedResults' \in {queuedResults, D!CommitOf(j)} /\ cleared' = D!Cleared(j)
               ELSE UNCHANGED <<queuedResults, cleared>>
        PROVE  Stored'
    BY <1>11, <2>1, <2>2
  <2>3. ASSUME NEW k \in D!FanOut, left[k] > 0, left' = [left EXCEPT ![k] = 0], D!Goes(k, "over"),
               UNCHANGED <<queuedResults, cleared>>
        PROVE  Stored'
    <3>1. D!Fanned' = D!Fanned
      BY <1>a, <1>b, <2>3 DEF D!Fanned, D!Goes
    <3> QED
      BY <1>a, <1>b, <2>1, <2>3, <3>1, Quiet DEF D!Goes
  <2> QED
    BY <1>19, <2>2, <2>3 DEF D!HardLimit
<1>20. CASE D!CancelRead
  <2>1. D!Fanned' = D!Fanned
    BY <1>20, FannedStays DEF D!CancelRead, D!work
  <2> QED
    BY <1>20, <2>1, Quiet DEF D!CancelRead, D!stored, D!work
<1>21. CASE D!Revoke
  <2>1. PICK heard \in SUBSET {j \in D!Job : job[j] = "queued" \/ D!Busy(j)},
             chunks \in SUBSET {k \in D!FanOut : left[k] > 0} :
          /\ job' = [j \in D!Job |-> IF j \in heard \cup chunks THEN "over" ELSE job[j]]
          /\ left' = [k \in D!FanOut |-> IF k \in chunks THEN 0 ELSE left[k]]
          /\ cleared' = [j \in D!Job |-> IF j \in heard THEN {} ELSE cleared[j]]
    BY <1>21 DEF D!Revoke
  <2>2. \A k \in D!FanOut : k \in heard \cup chunks => k \in D!Fanned
    BY <1>a, <2>1 DEF D!Fanned, D!Busy
  <2>3. D!Fanned' = D!Fanned
    BY <1>a, <2>1, <2>2 DEF D!Fanned
  <2>4. \A j \in D!Job : job'[j] \in {"executing", "storing"} => job'[j] = job[j] /\ cleared'[j] = cleared[j]
    BY <2>1
  <2>5. job[0] = "over" => job'[0] = "over"
    BY <1>a, <2>1
  <2>6. \A k \in D!FanOut : job[k] = "none" /\ left[k] = 0 => job'[k] = "none" /\ left'[k] = 0
    BY <1>a, <2>1 DEF D!Busy
  <2> QED
    BY <1>21, <2>3, <2>4, <2>5, <2>6, Quiet DEF D!Revoke, D!stored
<1>22. CASE D!CancelCommit
  <2>1. D!Fanned' = D!Fanned
    BY <1>22, FannedStays DEF D!CancelCommit, D!work
  <2> QED
    BY <1>22, <2>1, Quiet DEF D!CancelCommit, D!work
<1>23. CASE D!CancelFails
  <2>1. D!Fanned' = D!Fanned
    BY <1>23, FannedStays DEF D!CancelFails, D!work
  <2> QED
    BY <1>23, <2>1, Quiet DEF D!CancelFails, D!stored, D!work
<1>24. CASE UNCHANGED D!vars
  <2>1. D!Fanned' = D!Fanned
    BY <1>24, FannedStays DEF D!vars, D!work
  <2> QED
    BY <1>24, <2>1, Quiet DEF D!vars, D!stored, D!work
<1> QED
  BY <1>1, <1>2, <1>3, <1>4, <1>6, <1>7, <1>8, <1>9, <1>10, <1>12, <1>14, <1>15, <1>16, <1>17,
     <1>18, <1>19, <1>20, <1>21, <1>22, <1>23, <1>24 DEF D!Next, D!Task

LEMMA QueuedStep == Sizes /\ QueuedInv /\ [D!Next]_(D!vars) => QueuedInv'
<1> SUFFICES ASSUME Sizes, QueuedInv, [D!Next]_(D!vars) PROVE QueuedInv'
  OBVIOUS
<1>1. QueuedTypes'
  BY StepTypes DEF QueuedInv
\* once it has happened it has happened
<1>2. refanned \in BOOLEAN /\ (refanned => refanned')
  BY DEF QueuedInv, QueuedTypes, D!TypeOK, D!Next, D!vars, D!bounds, D!Task, D!Send, D!SendFails,
         D!SenderDies, D!Deliver, D!Check, D!Checkpoint,
         D!Complete, D!Store, D!Commit, D!Fail, D!Record, D!RecordFails, D!WorkerLost, D!Dispatch,
         D!Collected, D!LostBehindIt,
         D!HardLimit, D!CancelRead, D!Revoke, D!CancelCommit, D!CancelFails
<1>3. ASSUME ~refanned' PROVE Stored'
  <2>1. Stored
    BY <1>2, <1>3 DEF QueuedInv, Written, Stored
  <2> QED
    BY <1>1, <1>3, <2>1, StepStored DEF QueuedInv
<1> QED
  BY <1>1, <1>3 DEF QueuedInv, Written, Stored

\* The run with a broker is explored beside one without, which leaves it alone.
LEMMA QueuedInvariance ==
  ASSUME Sizes
  PROVE  MCSpec => []QueuedInv
<1>1. MCInit => QueuedInv
  BY QueuedInit DEF MCInit
<1>2. [MCNext]_<<part, vars, queued>> => [D!Next]_(D!vars)
  BY DEF MCNext, queued, D!vars, D!stored, D!work, D!bounds
<1>3. QueuedInv /\ [MCNext]_<<part, vars, queued>> => QueuedInv'
  BY <1>2, QueuedStep
<1> QED
  BY <1>1, <1>3, PTL DEF MCSpec

\* A run that reads as completed has each of its results, once, however often
\* the broker delivered its tasks and wherever their workers died, unless the
\* run's own task came again behind its fan-out; and no open transaction
\* deletes what is not committed.
THEOREM CompletedHasEachOnce ==
  ASSUME Sizes
  PROVE  MCSpec => []QueuedCompletedOnce
<1>1. QueuedInv => QueuedCompletedOnce
  <2> SUFFICES ASSUME QueuedInv
               PROVE  D!TypeOK /\ D!CompletedOnce
    BY DEF QueuedCompletedOnce
  <2>1. D!TypeOK
    BY DEF QueuedInv, QueuedTypes
  <2>2. ASSUME queuedRow = "completed", ~refanned, NEW t \in D!Tables PROVE Once(t)
    BY <2>2 DEF QueuedInv, Written, TaskHasStored, CompletedForGood, D!Tables
  <2>3. D!CompletedOnce
    BY <2>2 DEF D!CompletedOnce, Once, Of
  <2> QED
    BY <2>1, <2>3
<1> QED
  BY <1>1, QueuedInvariance, PTL
================================================================================
