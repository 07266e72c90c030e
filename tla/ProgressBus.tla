----------------------------- MODULE ProgressBus -----------------------------
(***************************************************************************)
(* How the progress of one run reaches the browsers that watch it, on a    *)
(* deployment without a broker: ProgressBus of job_runner.py, the pump     *)
(* that brings a worker process's frames to it, and the Server-Sent Events *)
(* stream _progress_stream of routes/forecasts.py with its reconnections.  *)
(*                                                                         *)
(* A frame is its status and its updated_at.  The frames of one run are    *)
(* stamped by one host's clock, and progress rises with the stamp, so the  *)
(* two comparisons of publish are one.                                     *)
(***************************************************************************)
EXTENDS Integers, Sequences

CONSTANTS
    Stream,       \* the browsers
    QueueSize,    \* _QUEUE_MAXSIZE of a subscriber's queue
    ChannelSize,  \* maxsize of the queue the worker processes write to
    MaxRunning    \* bound: running frames that are stamped

ASSUME ProgressBusAssumption ==
    /\ QueueSize \in Nat \ {0}
    /\ ChannelSize \in Nat \ {0}
    /\ MaxRunning \in Nat

VARIABLES
    clock,    \* the last stamp given out
    row,      \* the run's row: its status and updated_at
    draft,    \* the stamp of a cancel's uncommitted row, or 0
    writer,   \* what the task or a cancel is in the middle of
    job,      \* the model search in its worker process
    channel,  \* frames on their way from the worker process
    latest,   \* _latest of this run, or None
    dropped,  \* history: a terminal frame has left _latest
    subs,     \* _subscribers of this run
    queue,    \* the queue of each subscription
    phase,    \* where each browser's stream is
    held,     \* the row it read, and then its initial frame
    seen,     \* the stamp of the last frame the browser received, its Last-Event-ID
    told      \* the status in that frame

run  == <<clock, row, draft, writer, job>>
bus  == <<latest, dropped, subs, queue>>
sse  == <<phase, held, seen, told>>
vars == <<run, channel, bus, sse>>

Terminal == {"completed", "failed"}
None == [status |-> "none", stamp |-> 0]
Frame(status, stamp) == [status |-> status, stamp |-> stamp]
Later(f, g) == IF f.stamp > g.stamp THEN f ELSE g

\* completing, cancelling and saying: between a commit, or a flush, and the
\* publish; cancelled: published and not yet committed
Writers == {"idle", "saying", "completing", "cancelling", "cancelled", "undone", "done",
            "erased", "gone"}
Phases == {"closed", "read", "greeting", "joining", "waiting", "ended", "gone"}

TypeOK ==
    /\ clock \in Nat
    /\ row \in [status : {"running", "absent"} \cup Terminal, stamp : 0..clock]
    /\ draft \in 0..clock
    /\ writer \in Writers
    /\ job \in {"none", "fitting", "abandoned"}
    /\ Len(channel) <= ChannelSize
    /\ latest \in [status : {"none", "running"} \cup Terminal, stamp : 0..clock]
    /\ dropped \in BOOLEAN
    /\ subs \subseteq Stream
    /\ \A s \in Stream : Len(queue[s]) <= QueueSize
    /\ phase \in [Stream -> Phases]
    /\ seen \in [Stream -> 0..clock]
    /\ told \in [Stream -> {"none", "running"} \cup Terminal]

Init ==
    /\ clock = 1 /\ row = Frame("running", 1) /\ draft = 0 /\ writer = "idle" /\ job = "none"
    /\ channel = <<>>
    /\ latest = None /\ dropped = FALSE /\ subs = {} /\ queue = [s \in Stream |-> <<>>]
    /\ phase = [s \in Stream |-> "closed"] /\ held = [s \in Stream |-> None]
    /\ seen = [s \in Stream |-> 0] /\ told = [s \in Stream |-> "none"]

-----------------------------------------------------------------------------
(* ProgressBus. *)

\* a terminal frame does not stop what comes after it
AcceptsNewer(f) == f.status \in Terminal \/ f.stamp > latest.stamp

\* nothing follows a terminal frame, and a running frame must be newer
Accepts(f) ==
    /\ latest.status \notin Terminal
    /\ f.status \in Terminal \/ f.stamp > latest.stamp

\* put_nowait, dropping the oldest frame of a full queue
Put(q, f) == Append(IF Len(q) = QueueSize THEN Tail(q) ELSE q, f)

Publish(f) ==
    IF Accepts(f)
    THEN /\ latest' = f
         /\ queue' = [s \in Stream |-> IF s \in subs THEN Put(queue[s], f) ELSE queue[s]]
         /\ UNCHANGED <<dropped, subs>>
    ELSE UNCHANGED bus

\* _trim_latest, when other runs have filled _latest
Trim ==
    /\ latest.status \in Terminal /\ subs = {}
    /\ latest' = None /\ dropped' = TRUE
    /\ UNCHANGED <<run, channel, subs, queue, sse>>

-----------------------------------------------------------------------------
(* The run: its task, its worker process, a cancel and a delete. *)

\* checkpoint_progress commits, and then publishes with a stamp of its own
Checkpoint ==
    /\ writer = "idle" /\ job = "none" /\ clock < MaxRunning
    /\ clock' = clock + 1
    /\ row' = Frame("running", clock')
    /\ writer' = "saying"
    /\ UNCHANGED <<draft, job, channel, bus, sse>>

Say ==
    /\ writer = "saying"
    /\ clock' = clock + 1
    /\ Publish(Frame("running", clock'))
    /\ writer' = "idle"
    /\ UNCHANGED <<row, draft, job, channel, sse>>

StartJob ==
    /\ writer = "idle" /\ job = "none"
    /\ job' = "fitting"
    /\ UNCHANGED <<clock, row, draft, writer, channel, bus, sse>>

\* publish_progress in the worker: a full channel loses the frame
Report ==
    /\ job # "none" /\ clock < MaxRunning
    /\ clock' = clock + 1
    /\ channel' = IF Len(channel) < ChannelSize
                  THEN Append(channel, Frame("running", clock')) ELSE channel
    /\ UNCHANGED <<row, draft, writer, job, bus, sse>>

JobDone ==
    /\ job # "none"
    /\ job' = "none"
    /\ UNCHANGED <<clock, row, draft, writer, channel, bus, sse>>

\* pump and _deliver
Deliver ==
    /\ channel # <<>>
    /\ Publish(channel[1])
    /\ channel' = Tail(channel)
    /\ UNCHANGED <<run, sse>>

\* complete_run and mark_failed: stamped, committed, and then announced
Finish(status) ==
    /\ writer = "idle" /\ job = "none"
    /\ clock' = clock + 1
    /\ row' = Frame(status, clock')
    /\ writer' = "completing"
    /\ UNCHANGED <<draft, job, channel, bus, sse>>

Announce ==
    /\ writer = "completing"
    /\ clock' = clock + 1
    /\ Publish(Frame(row.status, clock'))
    /\ writer' = "done"
    /\ UNCHANGED <<row, draft, job, channel, sse>>

\* cancel_run: the flush stamps the row, which nobody else sees before the
\* commit; the worker goes on with a job that nobody waits for
Cancel ==
    /\ writer \in {"idle", "saying"}
    /\ clock' = clock + 1
    /\ draft' = clock'
    /\ job' = IF job = "fitting" THEN "abandoned" ELSE job
    /\ writer' = "cancelling"
    /\ UNCHANGED <<row, channel, bus, sse>>

SayCancelled ==
    /\ writer = "cancelling"
    /\ clock' = clock + 1
    /\ Publish(Frame("failed", clock'))
    /\ writer' = "cancelled"
    /\ UNCHANGED <<row, draft, job, channel, sse>>

CancelCommit ==
    /\ writer = "cancelled"
    /\ row' = Frame("failed", draft)
    /\ writer' = "done"
    /\ UNCHANGED <<clock, draft, job, channel, bus, sse>>

\* the commit is refused: the row stays as it was
CancelUndone ==
    /\ writer = "cancelled"
    /\ writer' = "undone"
    /\ UNCHANGED <<clock, row, draft, job, channel, bus, sse>>

\* delete_run, and then forget_progress
Erase ==
    /\ row.status \in Terminal /\ writer = "done"
    /\ row' = [row EXCEPT !.status = "absent"]
    /\ writer' = "erased"
    /\ UNCHANGED <<clock, draft, job, channel, bus, sse>>

Forget ==
    /\ writer = "erased"
    /\ latest' = None /\ subs' = {}
    /\ dropped' = (dropped \/ latest.status \in Terminal)
    /\ writer' = "gone"
    /\ UNCHANGED <<clock, row, draft, job, channel, queue, sse>>

-----------------------------------------------------------------------------
(* The stream of browser s. *)

Goes(s, p) == phase' = [phase EXCEPT ![s] = p]

\* get_run_state, whose answer the coroutine reads later
Open(s) ==
    /\ phase[s] = "closed"
    /\ held' = [held EXCEPT ![s] = row]
    /\ Goes(s, IF row.status = "absent" THEN "gone" ELSE "read")
    /\ UNCHANGED <<run, channel, bus, seen, told>>

\* _current_progress: a finished row stands, else the bus may know better
Initial(s) ==
    /\ phase[s] = "read"
    /\ held' = [held EXCEPT ![s] =
                  IF @.status \in Terminal THEN @
                  ELSE IF latest.status \in Terminal THEN latest
                  ELSE Later(@, latest)]
    /\ Goes(s, "greeting")
    /\ UNCHANGED <<run, channel, bus, seen, told>>

\* yielding f, unless the browser has had it or a later one
Send(s, f) ==
    IF f.stamp > seen[s]
    THEN /\ seen' = [seen EXCEPT ![s] = f.stamp]
         /\ told' = [told EXCEPT ![s] = f.status]
    ELSE UNCHANGED <<seen, told>>

\* event_source up to its subscription: the initial frame goes to the browser
\* and to the bus
Greet(s) ==
    /\ phase[s] = "greeting"
    /\ Send(s, held[s])
    /\ IF held[s].status \in Terminal
       THEN Goes(s, "ended") /\ UNCHANGED bus
       ELSE Goes(s, "joining") /\ Publish(held[s])
    /\ UNCHANGED <<run, channel, held>>

\* without the replay
JoinWithoutReplay(s) ==
    /\ phase[s] = "joining"
    /\ queue' = [queue EXCEPT ![s] = <<>>]
    /\ Goes(s, "waiting") /\ subs' = subs \cup {s}
    /\ UNCHANGED <<run, channel, latest, dropped, held, seen, told>>

\* the first step of subscribe: its queue, and a replay of the latest frame
Join(s) ==
    /\ phase[s] = "joining"
    /\ queue' = [queue EXCEPT ![s] = <<>>]
    /\ IF latest.status \in Terminal
       THEN Goes(s, "ended") /\ UNCHANGED subs
       ELSE Goes(s, "waiting") /\ subs' = subs \cup {s}
    /\ IF latest = None THEN UNCHANGED <<seen, told>> ELSE Send(s, latest)
    /\ UNCHANGED <<run, channel, latest, dropped, held>>

\* a terminal frame ends the stream before it is sent
TakeEndsUnsent(s) ==
    /\ phase[s] = "waiting" /\ queue[s] # <<>>
    /\ queue' = [queue EXCEPT ![s] = Tail(@)]
    /\ IF queue[s][1].status \in Terminal
       THEN Goes(s, "ended") /\ subs' = subs \ {s} /\ UNCHANGED <<seen, told>>
       ELSE Send(s, queue[s][1]) /\ UNCHANGED <<phase, subs>>
    /\ UNCHANGED <<run, channel, latest, dropped, held>>

\* the next frame of the queue; a terminal one ends the stream
Take(s) ==
    /\ phase[s] = "waiting" /\ queue[s] # <<>>
    /\ Send(s, queue[s][1])
    /\ queue' = [queue EXCEPT ![s] = Tail(@)]
    /\ IF queue[s][1].status \in Terminal
       THEN Goes(s, "ended") /\ subs' = subs \ {s}
       ELSE UNCHANGED <<phase, subs>>
    /\ UNCHANGED <<run, channel, latest, dropped, held>>

\* the browser goes away, the connection's lifetime passes, or an ended
\* stream is reopened as an EventSource does
Reconnect(s) ==
    /\ phase[s] \notin {"closed", "gone"}
    /\ Goes(s, "closed") /\ subs' = subs \ {s}
    /\ queue' = [queue EXCEPT ![s] = <<>>]
    /\ UNCHANGED <<run, channel, latest, dropped, held, seen, told>>

RunStep ==
    \/ Checkpoint \/ Say \/ StartJob \/ Report \/ JobDone \/ Deliver
    \/ Finish("completed") \/ Finish("failed") \/ Announce
    \/ Cancel \/ SayCancelled \/ CancelCommit \/ CancelUndone
    \/ Erase \/ Forget

StreamStep(s) == Initial(s) \/ Greet(s) \/ Join(s) \/ Take(s)

Next ==
    \/ RunStep \/ Trim
    \/ \E s \in Stream : Open(s) \/ StreamStep(s) \/ Reconnect(s)

Spec == Init /\ [][Next]_vars

-----------------------------------------------------------------------------
(* Properties. *)

\* A stream that waits on its queue has not missed how the run ended: if the
\* bus holds a terminal frame, it is the last one in the queue, through a
\* full queue, a late subscription and a trimmed bus.
NoMissedOutcome ==
    \A s \in subs : latest.status \in Terminal =>
        queue[s] # <<>> /\ queue[s][Len(queue[s])] = latest

\* A cancel's row carries the stamp of its flush, and the worker can stamp a
\* frame that a browser receives before the cancel is announced.
Overtaken(s) == draft # 0 /\ seen[s] > draft

\* A stream that ends because the run did has told its browser the outcome,
\* over this connection or one before it.
OutcomeIsShown ==
    \A s \in Stream : phase[s] = "ended" => told[s] \in Terminal \/ Overtaken(s)

\* What a subscriber is yet to be sent is in the order it was stamped, though
\* the task and the worker processes publish along two paths.
QueuesInOrder ==
    \A s \in subs : \A i, j \in 1..Len(queue[s]) :
        i < j /\ queue[s][j].status = "running" => queue[s][i].stamp < queue[s][j].stamp

\* A browser that was told how the run ended is never told that it runs,
\* through any reconnection and whatever an abandoned worker still reports.
\* A bus that dropped the terminal frame under pressure promises nothing.
OutcomeIsLast ==
    [][\A s \in Stream :
         told[s] \in Terminal => told'[s] \in Terminal \/ dropped]_vars
=============================================================================
