---------------------------- MODULE MCRunLifecycle ----------------------------
(***************************************************************************)
(* A run of every kind without a broker, with cancel requests beside its   *)
(* task, and a grouped run with one, for TLC: two deployments, explored    *)
(* one at a time.                                                          *)
(***************************************************************************)
EXTENDS RunLifecycle, TLC

CONSTANTS c1, c2, MaxFanOuts, Chunks, MaxLosses

MCCancel == {c1, c2}
MCOneCancel == {c1}

VARIABLES part,
          queuedRow, queuedResults, job, step, cleared, left, queuedCancel, losses, dropped, refanned
queued == <<queuedRow, queuedResults, job, step, cleared, left, queuedCancel, losses, dropped, refanned>>

D == INSTANCE Distributed WITH
        row <- queuedRow, results <- queuedResults, at <- step, cancel <- queuedCancel

MCInit == /\ Init /\ D!Init
          /\ part \in {"process", "broker"}
          /\ part = "broker" => kind = "grouped"
MCNext == \/ part = "process" /\ Next /\ UNCHANGED <<part, queued>>
          \/ part = "broker" /\ D!Next /\ UNCHANGED <<part, vars>>
MCSpec == MCInit /\ [][MCNext]_<<part, vars, queued>>

MCFairness ==
    /\ WF_vars(part = "process" /\ Step)
    /\ WF_vars(part = "process" /\ Recover)
    /\ WF_vars(part = "process" /\ process = "closing" /\ Stop)
    /\ \A c \in Cancel :
         WF_vars(/\ part = "process"
                 /\ CancelTask(c) \/ CancelFlush(c) \/ CancelCommit(c) \/ CancelUndone(c))
    /\ WF_queued(part = "broker" /\ D!Send)
    /\ \A j \in 0..MaxFanOuts : WF_queued(part = "broker" /\ D!Task(j))
    /\ WF_queued(part = "broker" /\ D!Dispatch)
    /\ \A k \in 1..MaxFanOuts : WF_queued(part = "broker" /\ D!Collected(k))
    /\ WF_queued(part = "broker" /\ (D!CancelCommit \/ D!CancelFails))
    /\ WF_queued(part = "broker" /\ D!Revoke)
MCFairSpec == MCSpec /\ MCFairness

\* see Distributed: a run that reads as completed has each of its results, once
QueuedCompletedOnce == D!TypeOK /\ D!CompletedOnce

\* see Distributed: every run ends, unless what would have ended it is gone for good
QueuedRunEnds == part = "broker" => D!EveryRunEnds

\* see RunLifecycle: every run ends, unless the database refused to record that it did
ProcessRunEnds == part = "process" => EveryRunEnds
===============================================================================
