-------------------------------- MODULE Distributed -------------------------------
(***************************************************************************)
(* One grouped run on a deployment with a broker: workers/tasks.py, and    *)
(* forecast_service.py and series_service.py as its tasks execute them.    *)
(* The run's own task fans out a chord of chunks, whose callback finalises *)
(* the run.  A task is acknowledged when it ends, so that of a worker that *)
(* died is delivered again, from its beginning.                            *)
(*                                                                         *)
(* Between the database and a task a reply may be lost; between two tasks  *)
(* there is only the run's row.  Row locks, which only delay, are left out.*)
(***************************************************************************)
EXTENDS Integers, Sequences, FiniteSets

CONSTANTS
    MaxFanOuts,  \* bound: fan-outs of one run
    Chunks,      \* chunks of each
    MaxLosses    \* bound: workers that die with a task in hand

VARIABLES
    row,       \* forecast_runs.status as committed
    results,   \* committed result rows, each with the attempt that wrote it
    job,       \* where the run's task, 0, and the callback of each fan-out are
    at,        \* the step of its path
    cleared,   \* what its open transaction has deleted
    left,      \* the chunks of each fan-out the chord still waits for
    cancel,    \* where the cancel request is
    losses,
    dropped,   \* history: what would have ended the run is gone for good
    refanned   \* history: the run's task came again after it had fanned out

stored == <<row, results>>
work == <<job, at, cleared, left>>
bounds == <<losses, dropped, refanned>>
vars == <<stored, work, cancel, bounds>>

Active == {"pending", "running"}
FanOut == 1..MaxFanOuts
Job == {0} \cup FanOut
Tables == {"output", "insights", "series"}

\* _execute and forecast_series, to the dispatch; finalise
Path(j) == IF j = 0
           THEN <<"checkpoint", "check", "fit", "checkpoint", "check", "output",
                  "checkpoint", "check", "insights", "check", "checkpoint", "dispatch">>
           ELSE <<"check", "checkpoint", "check", "series", "complete">>

TypeOK ==
    /\ row \in {"pending", "running", "completed", "failed"}
    /\ results \subseteq Tables \X Job \X (0..MaxLosses)
    /\ job \in [Job -> {"none", "queued", "executing", "storing", "recording", "over"}]
    /\ \A j \in Job : at[j] \in 1..Len(Path(j)) /\ cleared[j] \subseteq results
    /\ left \in [FanOut -> 0..Chunks]
    /\ cancel \in {"none", "read", "revoked", "done", "undone", "refused"}
    /\ losses \in 0..MaxLosses /\ dropped \in BOOLEAN /\ refanned \in BOOLEAN

\* start_run has committed the row
Init ==
    /\ row = "pending" /\ results = {}
    /\ job = [j \in Job |-> "none"] /\ at = [j \in Job |-> 1]
    /\ cleared = [j \in Job |-> {}] /\ left = [k \in FanOut |-> 0]
    /\ cancel = "none" /\ losses = 0 /\ dropped = FALSE /\ refanned = FALSE

Fanned == {k \in FanOut : left[k] > 0 \/ job[k] # "none"}
Op(j) == Path(j)[at[j]]
Goes(j, p) == job' = [job EXCEPT ![j] = p]
Step(j) == at' = [at EXCEPT ![j] = @ + 1]

-----------------------------------------------------------------------------
(* dispatch_run. *)

Send ==
    /\ job[0] = "none" /\ ~dropped
    /\ Goes(0, "queued")
    /\ UNCHANGED <<stored, at, cleared, left, cancel, bounds>>

\* the broker does not answer, having taken the task or not, and mark_failed records it
SendFails ==
    /\ job[0] = "none" /\ ~dropped
    /\ job' \in {job, [job EXCEPT ![0] = "queued"]}
    /\ row' = IF row \in Active THEN "failed" ELSE row
    /\ UNCHANGED <<results, at, cleared, left, cancel, bounds>>

\* the process dies first, and recover_interrupted_runs has nothing to do with a broker
SenderDies ==
    /\ job[0] = "none" /\ ~dropped /\ dropped' = TRUE
    /\ UNCHANGED <<stored, work, cancel, losses, refanned>>

-----------------------------------------------------------------------------
(* The tasks. *)

Deliver(j) ==
    /\ job[j] = "queued"
    /\ Goes(j, "executing") /\ at' = [at EXCEPT ![j] = 1]
    /\ UNCHANGED <<stored, cleared, left, cancel, bounds>>

At(j, ops) == job[j] = "executing" /\ Op(j) \in ops

Check(j) ==
    /\ At(j, {"check", "fit"})
    /\ IF Op(j) = "check" /\ row # "running" THEN Goes(j, "over") /\ UNCHANGED at
       ELSE Step(j) /\ UNCHANGED job
    /\ UNCHANGED <<stored, cleared, left, cancel, bounds>>

Checkpoint(j) ==
    /\ At(j, {"checkpoint"})
    /\ row' = IF row \in Active THEN "running" ELSE row
    /\ IF row \in Active THEN Step(j) /\ UNCHANGED job ELSE Goes(j, "over") /\ UNCHANGED at
    /\ UNCHANGED <<results, cleared, left, cancel, bounds>>

Complete(j) ==
    /\ At(j, {"complete"})
    /\ row' = IF row \in Active THEN "completed" ELSE row
    /\ Goes(j, "over")
    /\ UNCHANGED <<results, at, cleared, left, cancel, bounds>>

\* _clear_results, persist
ClearsOwn(op) == {op} \ {"insights"}
Clears(op) == CASE op = "output" -> Tables
                [] op = "series" -> {"series"}
                [] OTHER -> {}

\* what the transaction deletes is what was committed when it began to write
Store(j) ==
    /\ At(j, Tables)
    /\ Goes(j, "storing")
    /\ cleared' = [cleared EXCEPT ![j] = {r \in results : r[1] \in Clears(Op(j))}]
    /\ UNCHANGED <<stored, at, left, cancel, bounds>>

CommitOf(j) == (results \ cleared[j]) \cup {<<Op(j), j, losses>>}
Cleared(j) == [k \in Job |-> IF k = j THEN {} ELSE cleared[k] \cap results']
Commit(j) ==
    /\ job[j] = "storing"
    /\ results' = CommitOf(j)
    /\ cleared' = Cleared(j)
    /\ Goes(j, "executing") /\ Step(j)
    /\ UNCHANGED <<row, left, cancel, bounds>>

\* dispatch: chord(header)(callback)
Dispatch ==
    /\ At(0, {"dispatch"})
    /\ \E k \in FanOut \ Fanned :
          /\ \A l \in 1..(k - 1) : l \in Fanned
          /\ left' = [left EXCEPT ![k] = Chunks]
    /\ Goes(0, "over")
    /\ UNCHANGED <<stored, at, cleared, cancel, bounds>>

\* fit_series_task: whatever it meets, it answers with rows; the last answer queues the callback
CollectedIfFit(k) ==
    /\ left[k] > 0
    /\ \/ left' = [left EXCEPT ![k] = @ - 1]
          /\ IF left[k] = 1 THEN Goes(k, "queued") ELSE UNCHANGED job
       \/ left' = [left EXCEPT ![k] = 0] /\ Goes(k, "over")
    /\ UNCHANGED <<stored, at, cleared, cancel, bounds>>
Collected(k) ==
    /\ left[k] > 0
    /\ left' = [left EXCEPT ![k] = @ - 1]
    /\ IF left[k] = 1 THEN Goes(k, "queued") ELSE UNCHANGED job
    /\ UNCHANGED <<stored, at, cleared, cancel, bounds>>

Busy(j) == job[j] \in {"executing", "storing", "recording"}

\* an exception, or the soft time limit, with the reply to a commit read or not
Fail(j) ==
    /\ job[j] \in {"executing", "storing"}
    /\ IF job[j] = "storing" THEN results' \in {results, CommitOf(j)} /\ cleared' = Cleared(j)
       ELSE UNCHANGED <<results, cleared>>
    /\ row' \in {row} \cup (IF Op(j) = "complete" /\ row \in Active /\ job[j] = "executing"
                            THEN {"completed"} ELSE {})
    /\ Goes(j, "recording")
    /\ UNCHANGED <<at, left, cancel, bounds>>

Record(j) ==
    /\ job[j] = "recording"
    /\ row' = IF row \in Active THEN "failed" ELSE row
    /\ Goes(j, "over")
    /\ UNCHANGED <<results, at, cleared, left, cancel, bounds>>

\* mark_failed swallows the database's refusal, so that nothing is tried again
RecordFails(j) ==
    /\ job[j] = "recording"
    /\ Goes(j, "over") /\ dropped' = TRUE
    /\ UNCHANGED <<stored, at, cleared, left, cancel, losses, refanned>>

\* the worker dies with the task: task_reject_on_worker_lost
WorkerLost(j) ==
    /\ Busy(j) /\ losses < MaxLosses
    /\ losses' = losses + 1
    /\ IF job[j] = "storing" THEN results' \in {results, CommitOf(j)} /\ cleared' = Cleared(j)
       ELSE UNCHANGED <<results, cleared>>
    /\ Goes(j, "queued")
    /\ refanned' = (refanned \/ (j = 0 /\ Fanned # {}))
    /\ UNCHANGED <<row, at, left, cancel, dropped>>

\* the worker dies once it has fanned out and before it acknowledges that
LostBehindIt ==
    /\ job[0] = "over" /\ Fanned # {} /\ Op(0) = "dispatch" /\ losses < MaxLosses
    /\ Cardinality(Fanned) < MaxFanOuts
    /\ losses' = losses + 1 /\ refanned' = TRUE
    /\ Goes(0, "queued")
    /\ UNCHANGED <<stored, at, cleared, left, cancel, dropped>>

\* task_time_limit: the task is killed, and not delivered again; a chord that lost a chunk is over
HardLimit ==
    /\ dropped' = TRUE
    /\ \/ \E j \in Job :
             /\ Busy(j) /\ Goes(j, "over")
             /\ IF job[j] = "storing" THEN results' \in {results, CommitOf(j)} /\ cleared' = Cleared(j)
                ELSE UNCHANGED <<results, cleared>>
             /\ UNCHANGED left
       \/ \E k \in FanOut :
             /\ left[k] > 0 /\ left' = [left EXCEPT ![k] = 0] /\ Goes(k, "over")
             /\ UNCHANGED <<results, cleared>>
    /\ UNCHANGED <<row, at, cancel, losses, refanned>>

-----------------------------------------------------------------------------
(* cancel_run. *)

CancelRead ==
    /\ cancel = "none"
    /\ cancel' = IF row \in Active THEN "read" ELSE "refused"
    /\ UNCHANGED <<stored, work, bounds>>

\* control.revoke, heard or not: what is queued is discarded, what runs is terminated
Revoke ==
    /\ cancel = "read" /\ cancel' = "revoked"
    /\ \E heard \in SUBSET {j \in Job : job[j] = "queued" \/ Busy(j)}, chunks \in SUBSET {k \in FanOut : left[k] > 0} :
          /\ job' = [j \in Job |-> IF j \in heard \cup chunks THEN "over" ELSE job[j]]
          /\ left' = [k \in FanOut |-> IF k \in chunks THEN 0 ELSE left[k]]
          /\ cleared' = [j \in Job |-> IF j \in heard THEN {} ELSE cleared[j]]
    /\ UNCHANGED <<stored, at, bounds>>

\* the status it read is not asked for again
CancelCommit ==
    /\ cancel = "revoked" /\ cancel' = "done"
    /\ row' = "failed"
    /\ UNCHANGED <<results, work, bounds>>

CancelFails ==
    /\ cancel \in {"read", "revoked"} /\ cancel' = "undone"
    /\ dropped' = (dropped \/ cancel = "revoked")
    /\ UNCHANGED <<stored, work, losses, refanned>>

Task(j) == Deliver(j) \/ Check(j) \/ Checkpoint(j) \/ Complete(j) \/ Store(j) \/ Commit(j) \/ Record(j)

Next ==
    \/ Send \/ SendFails \/ SenderDies
    \/ \E j \in Job : Task(j) \/ Fail(j) \/ RecordFails(j) \/ WorkerLost(j)
    \/ Dispatch \/ (\E k \in FanOut : Collected(k)) \/ LostBehindIt \/ HardLimit
    \/ CancelRead \/ Revoke \/ CancelCommit \/ CancelFails

Spec == Init /\ [][Next]_vars

\* the broker delivers what it holds, and a task that executes goes on
Fairness ==
    /\ WF_vars(Send)
    /\ \A j \in Job : WF_vars(Task(j))
    /\ WF_vars(Dispatch)
    /\ \A k \in FanOut : WF_vars(Collected(k))
    /\ WF_vars(CancelCommit \/ CancelFails)
    /\ WF_vars(Revoke)

FairSpec == Spec /\ Fairness

-----------------------------------------------------------------------------
\* A run that reads as completed has each of its results, once, however often its tasks were
\* delivered; unless its own task came again behind a fan-out that was under way, when two attempts
\* write over each other.
CompletedOnce ==
    row = "completed" /\ ~refanned =>
        \A t \in Tables : \E r \in results : {q \in results : q[1] = t} = {r}

\* A run ends through any failure and any lost worker, unless what would have ended it is gone for
\* good: a task killed at its hard limit, a request that died before it sent one, a database that
\* refused the last word.
EveryRunEnds == row \in Active ~> (row \notin Active \/ dropped)
=================================================================================
