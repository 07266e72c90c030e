------------------------------- MODULE Scheduler -------------------------------
(***************************************************************************)
(* Admission to the process pool that fits models: class Scheduler and     *)
(* ExecutorRegistry.run_for of app/services/job_runner.py.                 *)
(*                                                                         *)
(* A piece of work is one caller of run_for: a run's model search or one   *)
(* chunk of a grouped run's series.  It acquires a slot, awaits on_start,  *)
(* hands its function to the pool, awaits the result and releases the slot *)
(* in a finally block.  Everything the scheduler does between two awaits   *)
(* is one step of the event loop, hence one action; the pool's worker      *)
(* processes run beside it.  A piece that ends is idle again: its caller   *)
(* may come back with another function.                                    *)
(***************************************************************************)
EXTENDS Integers, FiniteSets

CONSTANTS
    Run,     \* the runs that ask for model work
    Piece,   \* the callers of run_for
    RunOf,   \* RunOf[p] is the run on whose behalf p calls
    Slots    \* Scheduler.slots, which is also the pool's max_workers

ASSUME SchedulerAssumption ==
    /\ IsFiniteSet(Piece)
    /\ RunOf \in [Piece -> Run]
    /\ Slots \in Nat \ {0}

VARIABLES
    held,       \* _held, the counts unrolled: <<r, i>> is the i-th slot of run r
    waiting,    \* _waiting
    earlier,    \* the order of the waiters' sequence numbers, as pairs
    admitted,   \* the waiters' futures
    closed,     \* _closed
    step,       \* where each piece is suspended
    cancelling, \* a CancelledError is on its way to the piece
    job,        \* the piece's function in the process pool
    abandoned,  \* workers still fitting for a piece that was cancelled
    broken      \* a worker process died: the executor refuses every submit

queue == <<waiting, earlier, admitted>>
pool  == <<job, abandoned, broken>>
vars  == <<held, queue, closed, step, cancelling, pool>>

Steps == {"idle", "announcing", "parked", "starting", "working", "refused"}

TypeOK ==
    /\ held \subseteq Run \X (1..Slots)
    /\ waiting \subseteq Piece
    /\ earlier \subseteq waiting \X waiting
    /\ admitted \in [Piece -> {"none", "pending", "granted", "cancelled"}]
    /\ closed \in BOOLEAN
    /\ step \in [Piece -> Steps]
    /\ cancelling \in [Piece -> BOOLEAN]
    /\ job \in [Piece -> {"none", "queued", "running", "done"}]
    /\ abandoned \in 0..Slots
    /\ broken \in BOOLEAN

Init ==
    /\ held = {}
    /\ waiting = {}
    /\ earlier = {}
    /\ admitted = [p \in Piece |-> "none"]
    /\ closed = FALSE
    /\ step = [p \in Piece |-> "idle"]
    /\ cancelling = [p \in Piece |-> FALSE]
    /\ job = [p \in Piece |-> "none"]
    /\ abandoned = 0
    /\ broken = FALSE

--------------------------------------------------------------------------------
(* What the scheduler's methods compute from its state. *)

\* _held.get(r, 0), in the slots h
Count(h, r) == Cardinality({s \in h : s[1] = r})

\* waiters whose future nobody has resolved or cancelled
Live == {p \in waiting : admitted[p] = "pending"}

\* What run w's count will be when the loop of _promote reaches w: its slots in
\* h and those of its run's live waiters that are served before w.
Turn(h, w) ==
    Count(h, RunOf[w])
      + Cardinality({v \in Live : RunOf[v] = RunOf[w] /\ <<v, w>> \in earlier})

\* Mutant of Precedes: the queue is first in, first out.
PrecedesByArrival(h, v, w) == <<v, w>> \in earlier

\* Mutant of Precedes: ties go to the latest waiter.
PrecedesNewestFirst(h, v, w) ==
    \/ Turn(h, v) < Turn(h, w)
    \/ Turn(h, v) = Turn(h, w) /\ <<w, v>> \in earlier

\* the key of _promote: fewest slots held first, then the order of arrival
Precedes(h, v, w) ==
    \/ Turn(h, v) < Turn(h, w)
    \/ Turn(h, v) = Turn(h, w) /\ <<v, w>> \in earlier

\* Mutant of Reached: `if` for `while`, the first waiter and no other.
ReachedFirstOnly(h) ==
    {w \in waiting :
        Cardinality(h) < Slots /\ \A v \in waiting : ~Precedes(h, v, w)}

\* The waiters that _promote takes off the list when the slots in h are held:
\* it stops as soon as the live ones it served have filled the free slots.  A
\* waiter whose future is done is dropped without a slot.
Reached(h) ==
    {w \in waiting :
        Cardinality({v \in Live : Precedes(h, v, w)}) < Slots - Cardinality(h)}

Granted(h) == Reached(h) \cap Live

Remove(ps) ==
    /\ waiting' = waiting \ ps
    /\ earlier' = {e \in earlier : e[1] \notin ps /\ e[2] \notin ps}

\* _release(RunOf[p]) followed by its _promote; p's own future is forgotten
Release(p) ==
    LET r == RunOf[p]
        h == held \ {<<r, Count(held, r)>>}
    IN  /\ held' = h \cup {<<RunOf[w], Turn(h, w) + 1>> : w \in Granted(h)}
        /\ Remove(Reached(h))
        /\ admitted' = [q \in Piece |-> IF q = p THEN "none"
                                        ELSE IF q \in Granted(h) THEN "granted"
                                        ELSE admitted[q]]

Resumed(p, s) ==
    /\ step' = [step EXCEPT ![p] = s]
    /\ cancelling' = [cancelling EXCEPT ![p] = FALSE]

--------------------------------------------------------------------------------
(* Scheduler.acquire *)

AcquireRefused(p) ==
    /\ step[p] = "idle" /\ closed
    /\ Resumed(p, "refused")
    /\ UNCHANGED <<held, queue, closed, pool>>

AcquireAtOnce(p) ==
    /\ step[p] = "idle" /\ ~closed
    /\ waiting = {} /\ Cardinality(held) < Slots
    /\ held' = held \cup {<<RunOf[p], Count(held, RunOf[p]) + 1>>}
    /\ Resumed(p, "starting")
    /\ UNCHANGED <<queue, closed, pool>>

\* a model search passes on_wait and awaits it first, a chunk of series does not
AcquireLater(p) ==
    /\ step[p] = "idle" /\ ~closed
    /\ waiting # {} \/ Cardinality(held) >= Slots
    /\ waiting' = waiting \cup {p}
    /\ earlier' = earlier \cup {<<q, p>> : q \in waiting}
    /\ admitted' = [admitted EXCEPT ![p] = "pending"]
    /\ \E s \in {"announcing", "parked"} : Resumed(p, s)
    /\ UNCHANGED <<held, closed, pool>>

\* on_wait returned, or raised an Exception that is logged and dropped
Announced(p) ==
    /\ step[p] = "announcing" /\ ~cancelling[p]
    /\ admitted[p] # "cancelled"
    /\ Resumed(p, IF admitted[p] = "granted" THEN "starting" ELSE "parked")
    /\ UNCHANGED <<held, queue, closed, pool>>

Wake(p) ==
    /\ step[p] = "parked" /\ ~cancelling[p]
    /\ admitted[p] = "granted"
    /\ Resumed(p, "starting")
    /\ UNCHANGED <<held, queue, closed, pool>>

\* Mutant of Unwind: without the elif, a slot granted before the cancellation
\* arrived is never given back.
UnwindKeepsSlot(p) ==
    /\ step[p] \in {"announcing", "parked"}
    /\ cancelling[p] \/ admitted[p] = "cancelled"
    /\ Remove({p})
    /\ admitted' = [admitted EXCEPT ![p] = "none"]
    /\ Resumed(p, "idle")
    /\ UNCHANGED <<held, closed, pool>>

\* the except BaseException branch of acquire
Unwind(p) ==
    /\ step[p] \in {"announcing", "parked"}
    /\ cancelling[p] \/ admitted[p] = "cancelled"
    /\ \/ /\ p \in waiting
          /\ Remove({p})
          /\ admitted' = [admitted EXCEPT ![p] = "none"]
          /\ UNCHANGED held
       \/ /\ p \notin waiting
          /\ admitted[p] = "granted"
          /\ Release(p)
       \/ /\ p \notin waiting
          /\ admitted[p] # "granted"
          /\ admitted' = [admitted EXCEPT ![p] = "none"]
          /\ UNCHANGED <<held, waiting, earlier>>
    /\ Resumed(p, "idle")
    /\ UNCHANGED <<closed, pool>>

--------------------------------------------------------------------------------
(* ExecutorRegistry.run_for once the slot is held *)

Submit(p) ==
    /\ step[p] = "starting" /\ ~cancelling[p]
    /\ ~broken
    /\ job' = [job EXCEPT ![p] = "queued"]
    /\ Resumed(p, "working")
    /\ UNCHANGED <<held, queue, closed, abandoned, broken>>

\* Mutant of GiveBack: the release is not in a finally block.
GiveBackOnSuccess(p) ==
    /\ step[p] \in {"starting", "working"}
    /\ step[p] = "working" => cancelling[p] \/ job[p] = "done"
    /\ IF job[p] = "done" THEN Release(p) ELSE UNCHANGED <<held, queue>>
    /\ job' = [job EXCEPT ![p] = "none"]
    /\ Resumed(p, "idle")
    /\ UNCHANGED <<closed, abandoned, broken>>

\* the finally block: on_start or the submit raised, the result came back, or a
\* CancelledError arrived at either await
GiveBack(p) ==
    /\ step[p] \in {"starting", "working"}
    /\ step[p] = "working" => cancelling[p] \/ job[p] = "done"
    /\ Release(p)
    /\ job' = [job EXCEPT ![p] = "none"]
    /\ Resumed(p, "idle")
    /\ UNCHANGED <<closed, abandoned, broken>>

\* task.cancel() on the caller.  Parked, it cancels the future the piece awaits
\* and leaves the waiter on the list until the task runs.  Working, it withdraws
\* a job no worker has picked up; a worker that has is not interrupted.
Cancel(p) ==
    /\ step[p] \in {"announcing", "parked", "starting", "working"}
    /\ ~cancelling[p]
    /\ cancelling' = [cancelling EXCEPT ![p] = TRUE]
    /\ admitted' = IF step[p] = "parked" /\ admitted[p] = "pending"
                     THEN [admitted EXCEPT ![p] = "cancelled"] ELSE admitted
    /\ job' = [job EXCEPT ![p] = "none"]
    /\ abandoned' = IF job[p] = "running" THEN abandoned + 1 ELSE abandoned
    /\ UNCHANGED <<held, waiting, earlier, closed, step, broken>>

\* Scheduler.close, the first thing drain does
Close ==
    /\ ~closed
    /\ closed' = TRUE
    /\ admitted' = [p \in Piece |-> IF p \in Live THEN "cancelled" ELSE admitted[p]]
    /\ Remove(waiting)
    /\ UNCHANGED <<held, step, cancelling, pool>>

--------------------------------------------------------------------------------
(* The ProcessPoolExecutor *)

Running == {p \in Piece : job[p] = "running"}

Pick(p) ==
    /\ job[p] = "queued"
    /\ Cardinality(Running) + abandoned < Slots
    /\ job' = [job EXCEPT ![p] = "running"]
    /\ UNCHANGED <<held, queue, closed, step, cancelling, abandoned, broken>>

Finish(p) ==
    /\ job[p] = "running"
    /\ job' = [job EXCEPT ![p] = "done"]
    /\ UNCHANGED <<held, queue, closed, step, cancelling, abandoned, broken>>

FinishAbandoned ==
    /\ abandoned > 0
    /\ abandoned' = abandoned - 1
    /\ UNCHANGED <<held, queue, closed, step, cancelling, job, broken>>

\* BrokenProcessPool: every job fails, and nothing replaces the executor
WorkerDies ==
    /\ ~broken
    /\ Running # {} \/ abandoned > 0
    /\ broken' = TRUE
    /\ job' = [p \in Piece |-> IF job[p] = "none" THEN "none" ELSE "done"]
    /\ abandoned' = 0
    /\ UNCHANGED <<held, queue, closed, step, cancelling>>

--------------------------------------------------------------------------------
Resume(p) == Announced(p) \/ Wake(p) \/ Unwind(p) \/ Submit(p) \/ GiveBack(p)

Acquire(p) == AcquireRefused(p) \/ AcquireAtOnce(p) \/ AcquireLater(p)

Next ==
    \/ \E p \in Piece : \/ Acquire(p) \/ Resume(p) \/ Cancel(p)
                        \/ Pick(p) \/ Finish(p)
    \/ Close \/ FinishAbandoned \/ WorkerDies

Spec == Init /\ [][Next]_vars

\* The event loop runs every task that is ready and awaits that end are resumed;
\* a worker takes the next job when it is free and a fit ends.  Nobody has to
\* call, cancel or close anything.
Fairness ==
    /\ \A p \in Piece : WF_vars(Resume(p)) /\ WF_vars(Pick(p)) /\ WF_vars(Finish(p))
    /\ WF_vars(FinishAbandoned)

FairSpec == Spec /\ Fairness

--------------------------------------------------------------------------------
(* Properties *)

\* the pieces that own a slot: admitted, whether or not they woke up to see it
Owners ==
    {p \in Piece : \/ step[p] \in {"starting", "working"}
                   \/ step[p] \in {"announcing", "parked"} /\ admitted[p] = "granted"}

\* The counts in _held are exactly the pieces that own a slot and never more
\* than the pool has workers: no cancellation, whichever await it hits, leaks a
\* slot or gives one back twice (acquire's except branch, run_for's finally).
SlotAccounting ==
    /\ Cardinality(held) <= Slots
    /\ \A r \in Run : Count(held, r) = Cardinality({p \in Owners : RunOf[p] = r})

\* Nobody waits beside a free slot, cancelled waiters still on the list
\* included: acquire queues only when the pool is full and _release promotes.
WorkConserving == waiting # {} => Cardinality(held) = Slots

\* "A freed worker goes to the waiter whose run holds the fewest already, with
\* arrival order breaking ties": a step that admits v and leaves w waiting finds
\* v's run with fewer slots than w's, or with as many and v ahead of w.
FairShare ==
    [][\A v, w \in Live :
          admitted'[v] = "granted" /\ w \in Live' =>
            LET mine(p) == Cardinality({o \in Owners' \ {v} : RunOf[o] = RunOf[p]})
            IN  \/ mine(v) < mine(w)
                \/ mine(v) = mine(w) /\ <<v, w>> \in earlier]_vars

\* Every waiter is eventually admitted or thrown out, although callers keep
\* coming, are cancelled at any await and leave work behind in the pool.
NoStarvation == \A p \in Piece : p \in waiting ~> p \notin waiting

\* A drain that is given the time ends: once close() has run, the slots in use
\* come back and no piece stays suspended.
DrainCompletes ==
    closed ~> held = {} /\ \A p \in Piece : step[p] \in {"idle", "refused"}

\* The counts, the futures and the two-stage wake-up are a fair pool of slots.
SlotPool ==
    INSTANCE FairSlots WITH owner <- Owners, wanting <- Live
ImplementsFairSlots == SlotPool!Spec
================================================================================
