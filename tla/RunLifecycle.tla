----------------------------- MODULE RunLifecycle -----------------------------
(***************************************************************************)
(* One forecast run on a deployment without a broker: its row, its stored  *)
(* results, the background task that executes it, the requests that cancel *)
(* and delete it, and the process they all live in.                        *)
(* forecast_service.py, series_service.py and main.py.                     *)
(*                                                                         *)
(* A transaction takes effect in one step, except a cancel's, whose row    *)
(* lock other writers meet between its flush and its commit.  A coroutine  *)
(* is always suspended at an await, so whatever interrupts the task finds  *)
(* the step's transaction either not done or done with its reply unread.   *)
(***************************************************************************)
EXTENDS Integers, Sequences

CONSTANTS
    Kinds,  \* the shapes of run considered, a subset of AllKinds
    Cancel  \* the cancel requests that may arrive

\* without a grain, with one, and with one that no series falls under
AllKinds == {"single", "grouped", "empty"}

ASSUME RunLifecycleAssumption == Kinds \subseteq AllKinds

VARIABLES
    kind,      \* which of AllKinds the run is
    row,       \* forecast_runs.status as committed; "absent" once deleted
    results,   \* which result tables hold rows of this run
    place,     \* where the task is, one of Places
    at,        \* its step in Path while it executes
    killed,    \* a CancelledError is on its way to the task
    cancel,    \* where each cancel request is
    delete,    \* where the delete request is
    frame,     \* the terminal frame the progress bus holds, which is sticky
    process    \* "up", "closing" (draining) or "down"

requests == <<cancel, delete>>
stored   == <<row, results>>
task     == <<place, at, killed>>
vars     == <<kind, stored, task, requests, frame, process>>

Active == {"pending", "running"}

\* _execute, then forecast_series and finalise for a run with a grain
Common == <<"checkpoint", "check", "fit", "checkpoint", "check", "output",
          "checkpoint", "check", "insights">>

\* completing before the series are stored
PathCompletesEarly(k) ==
    Common \o CASE k = "single"  -> <<"complete">>
                [] k = "grouped" -> <<"complete", "check", "checkpoint", "fit",
                                      "checkpoint", "check", "series">>
                [] k = "empty"   -> <<"check", "complete">>

Path(k) ==
    Common \o CASE k = "single"  -> <<"complete">>
                [] k = "grouped" -> <<"check", "checkpoint", "fit", "checkpoint",
                                      "check", "series", "complete">>
                [] k = "empty"   -> <<"check", "complete">>

\* executing: on its Path; announcing: complete_run after its commit;
\* recording: mark_failed; unrecorded: mark_failed could not write; unheard:
\* start_run never learnt that its commit went through
Places == {"undispatched", "unheard", "executing", "announcing", "recording",
           "unrecorded", "ended"}

CancelPlaces ==
    {"none", "read", "flushing", "flushed", "done", "refused", "undone", "gone"}

TypeOK ==
    /\ kind \in Kinds
    /\ row \in {"absent", "pending", "running", "completed", "failed"}
    /\ results \subseteq {"output", "insights", "series"}
    /\ place \in Places
    /\ at \in 1..Len(Path(kind))
    /\ killed \in BOOLEAN
    /\ cancel \in [Cancel -> CancelPlaces]
    /\ delete \in {"none", "read", "forgetting"}
    /\ frame \in {"none", "completed", "failed"}
    /\ process \in {"up", "closing", "down"}

\* start_run has committed the row and is about to dispatch it
Init ==
    /\ kind \in Kinds
    /\ row = "pending" /\ results = {}
    /\ place = "undispatched" /\ at = 1 /\ killed = FALSE
    /\ cancel = [c \in Cancel |-> "none"] /\ delete = "none"
    /\ frame = "none"
    /\ process = "up"

Alive == process # "down"
Working == place \in {"executing", "announcing", "recording"}
Op == Path(kind)[at]

\* a cancel's uncommitted update holds the run's row lock
Locked == \E c \in Cancel : cancel[c] = "flushed"

Publish(status) == frame' = IF frame = "none" THEN status ELSE frame

-----------------------------------------------------------------------------
(* The background task. *)

Dispatch ==
    /\ process = "up" /\ place = "undispatched"
    /\ place' = "executing"
    /\ UNCHANGED <<kind, stored, at, killed, requests, frame, process>>

\* the reply to start_run's commit is lost: the request fails, and a
\* resubmission with its idempotency key only joins the run
Unheard ==
    /\ process = "up" /\ place = "undispatched"
    /\ place' = "unheard"
    /\ UNCHANGED <<kind, stored, at, killed, requests, frame, process>>

\* the update ... where status in (pending, running) of checkpoint_progress
\* and complete_run: Accepted is whether it returned a row
Accepted == row \in Active
Conditional(status) ==
    /\ ~Locked
    /\ row' = IF Accepted THEN status ELSE row
    /\ UNCHANGED results

\* _persist_output empties every result table first; the rest only add.  The
\* foreign keys refuse a row for a run that is gone
Store(table) ==
    /\ row # "absent" /\ ~Locked
    /\ results' = IF table = "output" THEN {table} ELSE results \cup {table}
    /\ UNCHANGED row

\* what the step's transaction does once it commits
Effect ==
    CASE Op = "checkpoint"       -> Conditional("running")
      [] Op = "complete"         -> Conditional("completed")
      [] Op \in {"check", "fit"} -> UNCHANGED stored
      [] OTHER                   -> Store(Op)

\* what lets the task go on to its next step
Passed == CASE Op \in {"checkpoint", "complete"} -> Accepted
            [] Op = "check"                      -> row = "running"
            [] OTHER                             -> TRUE

Advance ==
    /\ Alive /\ place = "executing" /\ ~killed
    /\ Op = "check" => row # "absent"
    /\ Effect
    /\ place' = IF ~Passed THEN "ended"
                ELSE IF Op = "complete" THEN "announcing" ELSE "executing"
    /\ at' = IF place' = "executing" THEN at + 1 ELSE at
    /\ UNCHANGED <<kind, killed, requests, frame, process>>

\* an exception that nothing turns into a failed run
FailSilently ==
    /\ Alive /\ place = "executing" /\ ~killed
    /\ Effect \/ UNCHANGED stored
    /\ place' = "ended"
    /\ UNCHANGED <<kind, at, killed, requests, frame, process>>

\* any step may raise, with or without its transaction having gone through:
\* execute_run catches it and calls mark_failed
Fail ==
    /\ Alive /\ place = "executing" /\ ~killed
    /\ Effect \/ UNCHANGED stored
    /\ place' = "recording"
    /\ UNCHANGED <<kind, at, killed, requests, frame, process>>

Announce ==
    /\ Alive /\ place = "announcing" /\ ~killed
    /\ Publish("completed")
    /\ place' = "ended"
    /\ UNCHANGED <<kind, stored, at, killed, requests, process>>

\* mark_failed writing whatever the status has become
RecordAnyway ==
    /\ Alive /\ place = "recording" /\ ~killed
    /\ ~Locked
    /\ row' = IF row = "absent" THEN row ELSE "failed"
    /\ Publish("failed")
    /\ place' = "ended"
    /\ UNCHANGED <<kind, results, at, killed, requests, process>>

\* mark_failed announcing a failure that it did not record
RecordSaysSo ==
    /\ Alive /\ place = "recording" /\ ~killed
    /\ Conditional("failed")
    /\ Publish("failed")
    /\ place' = "ended"
    /\ UNCHANGED <<kind, at, killed, requests, process>>

\* mark_failed, which publishes only what it recorded
Record ==
    /\ Alive /\ place = "recording" /\ ~killed
    /\ Conditional("failed")
    /\ IF Accepted THEN Publish("failed") ELSE UNCHANGED frame
    /\ place' = "ended"
    /\ UNCHANGED <<kind, at, killed, requests, process>>

\* the database refuses mark_failed too, and the exception is only logged
RecordFails ==
    /\ Alive /\ place = "recording" /\ ~killed
    /\ place' = "unrecorded"
    /\ UNCHANGED <<kind, stored, at, killed, requests, frame, process>>

\* the CancelledError surfaces at the await, which execute_run does not catch
Unwind ==
    /\ Alive /\ killed /\ Working
    /\ \/ place = "executing" /\ Effect
       \/ place = "recording" /\ Conditional("failed")
       \/ UNCHANGED stored
    /\ place' = "ended" /\ killed' = FALSE
    /\ UNCHANGED <<kind, at, requests, frame, process>>

-----------------------------------------------------------------------------
(* cancel_run, one request c. *)

CancelRead(c) ==
    /\ Alive /\ cancel[c] = "none" /\ row # "absent"
    /\ cancel' = [cancel EXCEPT ![c] = IF row \in Active THEN "read" ELSE "refused"]
    /\ UNCHANGED <<kind, stored, task, delete, frame, process>>

\* the coroutine resumes with what it read and cancels a task that is going
CancelTask(c) ==
    /\ Alive /\ cancel[c] = "read"
    /\ killed' = (killed \/ Working)
    /\ cancel' = [cancel EXCEPT ![c] = "flushing"]
    /\ UNCHANGED <<kind, stored, place, at, delete, frame, process>>

\* the update names the row and no status; the frame is out before the commit
CancelFlush(c) ==
    /\ Alive /\ cancel[c] = "flushing" /\ ~Locked /\ row # "absent"
    /\ Publish("failed")
    /\ cancel' = [cancel EXCEPT ![c] = "flushed"]
    /\ UNCHANGED <<kind, stored, task, delete, process>>

CancelCommit(c) ==
    /\ Alive /\ cancel[c] = "flushed"
    /\ row' = "failed"
    /\ cancel' = [cancel EXCEPT ![c] = "done"]
    /\ UNCHANGED <<kind, results, task, delete, frame, process>>

\* the flush or the commit is refused and get_session rolls back
CancelUndone(c) ==
    /\ Alive /\ cancel[c] \in {"flushing", "flushed"}
    /\ cancel' = [cancel EXCEPT ![c] = "undone"]
    /\ UNCHANGED <<kind, stored, task, delete, frame, process>>

-----------------------------------------------------------------------------
(* delete_run. *)

DeleteRead ==
    /\ Alive /\ delete = "none" /\ row \in {"completed", "failed"}
    /\ delete' = "read"
    /\ UNCHANGED <<kind, stored, task, cancel, frame, process>>

\* the results, the row and the commit
Erase ==
    /\ Alive /\ delete = "read" /\ ~Locked
    /\ row' = "absent" /\ results' = {}
    /\ delete' = "forgetting"
    /\ UNCHANGED <<kind, task, cancel, frame, process>>

\* forget_progress
Forget ==
    /\ Alive /\ delete = "forgetting"
    /\ frame' = "none"
    /\ delete' = "none"
    /\ UNCHANGED <<kind, stored, task, cancel, process>>

-----------------------------------------------------------------------------
(* The process. *)

\* drain closes the scheduler: a task waiting there for a worker is cancelled
Close ==
    /\ process = "up" /\ process' = "closing"
    /\ killed' \in {killed, killed \/ (place = "executing" /\ Op = "fit")}
    /\ UNCHANGED <<kind, stored, place, at, requests, frame>>

\* a crash, or the end of a drain: transactions roll back and memory is lost
Stop ==
    /\ Alive /\ process' = "down"
    /\ place' = "ended" /\ at' = 1 /\ killed' = FALSE
    /\ cancel' = [c \in Cancel |->
                    IF cancel[c] \in {"read", "flushing", "flushed"} THEN "gone" ELSE cancel[c]]
    /\ delete' = "none"
    /\ frame' = "none"
    /\ UNCHANGED <<kind, stored>>

\* overlooking the run whose row was committed and never dispatched
RecoverRunningOnly ==
    /\ process = "down" /\ process' = "up"
    /\ row' = IF row = "running" THEN "failed" ELSE row
    /\ UNCHANGED <<kind, results, task, requests, frame>>

\* recover_interrupted_runs, before the first request is served
Recover ==
    /\ process = "down" /\ process' = "up"
    /\ row' = IF row \in Active THEN "failed" ELSE row
    /\ UNCHANGED <<kind, results, task, requests, frame>>

CancelStep(c) ==
    CancelRead(c) \/ CancelTask(c) \/ CancelFlush(c) \/ CancelCommit(c) \/ CancelUndone(c)

Step == Dispatch \/ Advance \/ Announce \/ Record \/ Unwind

Next ==
    \/ Unheard \/ Step \/ Fail \/ RecordFails
    \/ \E c \in Cancel : CancelStep(c)
    \/ DeleteRead \/ Erase \/ Forget
    \/ Close \/ Stop \/ Recover

\* the event loop resumes a coroutine whose await is over, the container is
\* restarted, and a process that drains stops
Fairness ==
    /\ WF_vars(Step)
    /\ WF_vars(Recover)
    /\ WF_vars(process = "closing" /\ Stop)
    /\ \A c \in Cancel :
         WF_vars(CancelTask(c) \/ CancelFlush(c) \/ CancelCommit(c) \/ CancelUndone(c))

Spec == Init /\ [][Next]_vars
FairSpec == Spec /\ Fairness

-----------------------------------------------------------------------------
(* Properties. *)

Needed == {"output", "insights"} \cup (IF kind = "grouped" THEN {"series"} ELSE {})

\* A run that reads as completed has everything its page shows, whichever of
\* its transactions failed, was cancelled or raced a delete on the way.
CompletedIsWhole == row = "completed" => results = Needed

\* The database refused to write how the run ended, mark_failed's update or a
\* cancel's after it had already cancelled the task, or it did not say that
\* the run had begun.
StoreFailed == place \in {"unrecorded", "unheard"} \/ \E c \in Cancel : cancel[c] = "undone"

\* While the process serves requests, an active run has somebody who will
\* finish it: its task, the request that dispatches it, or a cancel.  Only a
\* database that refused the last word, or lost the first, leaves one stuck.
NoOrphanedRun ==
    process = "up" /\ row \in Active =>
        \/ place = "undispatched" \/ Working
        \/ \E c \in Cancel : cancel[c] \in {"flushing", "flushed"}
        \/ StoreFailed

\* The terminal frame that ends every open stream agrees with the row, except
\* where a cancel overruled or could not commit what it had announced.  (A
\* deleted run may keep one: complete_run can announce after the forget.)
FrameTruthful ==
    \/ frame \in {"none", row} \/ row = "absent"
    \/ frame = "failed" /\ \E c \in Cancel : cancel[c] \in {"flushed", "undone"}
    \/ frame = "completed" /\ row = "failed" /\ \E c \in Cancel : cancel[c] = "done"

\* Once a run has ended nothing but a cancel that read it as active changes
\* how: not the failure path of a task whose last commit went through and
\* whose reply was lost, and not recovery.
OnlyCancelOverrules ==
    [][(row \in {"completed", "failed"} /\ row' \notin {row, "absent"})
         => (\E c \in Cancel : CancelCommit(c))]_vars

\* Every run ends, through any failure, cancel, drain or crash, unless the
\* database refused to record that it did, or lost the reply that began it.
EveryRunEnds == row \in Active ~> (row \notin Active \/ StoreFailed)

\* "A finished run cannot be cancelled."
CompletedIsFinal == [][row = "completed" => row' \in {"completed", "absent"}]_vars
=============================================================================
