---------------------------------- MODULE Relay -----------------------------------
(***************************************************************************)
(* progress_relay.py, the stream of routes/forecasts.py and the browser's  *)
(* use-forecast-progress.ts on a deployment with a broker: a worker on     *)
(* another host, with a clock of its own, reports a run to a store and a   *)
(* channel, and a web process passes on what the channel brings it.        *)
(***************************************************************************)
EXTENDS Integers, Sequences

CONSTANTS
    Skews,       \* by how much the worker's clock may be fast, or slow when negative
    MaxReports,  \* bound: running frames
    MaxFaults,   \* bound: cancels, calls to the store that fail, relays that drop, streams that break
    MaxAttempts  \* MAX_STREAM_ATTEMPTS

VARIABLES
    ahead,     \* by how much it is
    clock,     \* the web process's clock
    progress,  \* how far the worker is
    row,       \* the run's committed row
    unsaid,    \* the outcome that is committed and not yet announced, as a set
    store,     \* the frame under _latest_key
    cancel,    \* where the request that cancels the run is
    flushed,   \* the row as that request has it, once it is flushed
    resting,   \* the worker's publisher waits for _publisher_retry_at
    channel,   \* published and not yet received
    relay,     \* whether ProgressRelay is subscribed
    latest,    \* _latest of the web process's bus
    queue,     \* the frames the stream has yet to take
    phase,     \* where the browser's stream is
    initial,   \* what the stream read when it was opened
    updated,   \* last_updated of the stream
    attempts,  \* connections that failed one after another
    shown,     \* what the browser shows, newestFrame being its stamp
    faults

request == <<cancel, flushed>>
run == <<ahead, clock, progress, row, unsaid, resting, request>>
broker == <<store, channel, relay>>
web == <<latest, queue, phase, initial, updated>>
browser == <<attempts, shown>>
vars == <<run, broker, web, browser, faults>>

Terminal == {"completed", "failed"}
None == [status |-> "none", progress |-> 0, stamp |-> 0]
Frame(status, progress_, stamp) == [status |-> status, progress |-> progress_, stamp |-> stamp]

\* two hosts never stamp alike
WebStamp == 2 * (clock + 1)
WorkerStamp == 2 * (clock + 1 + ahead) + 1
FirstStamp == 2 * (MaxReports + 2)

Frames == [status : {"none", "running"} \cup Terminal, progress : 0..MaxReports, stamp : Int]

TypeOK ==
    /\ row \in Frames /\ store \in Frames /\ latest \in Frames /\ initial \in Frames /\ shown \in Frames
    /\ \A i \in DOMAIN channel : channel[i] \in Frames
    /\ \A i \in DOMAIN queue : queue[i] \in Frames
    /\ unsaid \subseteq Frames /\ flushed \in Frames
    /\ cancel \in {"none", "read", "flushed", "overruled", "undone"}
    /\ phase \in {"closed", "reading", "greeting", "joining", "waiting", "ended", "polling", "done"}
    /\ attempts \in 0..MaxAttempts + 1

Init ==
    /\ ahead \in Skews
    /\ clock = MaxReports + 2 /\ progress = 0
    /\ row = Frame("running", 0, FirstStamp) /\ unsaid = {} /\ resting = FALSE
    /\ cancel = "none" /\ flushed = None
    /\ store = None /\ channel = <<>> /\ relay = TRUE
    /\ latest = None /\ queue = <<>> /\ phase = "closed" /\ initial = None /\ updated = 0
    /\ attempts = 0 /\ shown = None /\ faults = 0

-----------------------------------------------------------------------------
(* _PUBLISH_LATEST, one script in the store. *)

Superseded(old, new) ==
    \/ old.status \in Terminal
    \/ /\ new.status \notin Terminal
       /\ \/ new.progress < old.progress
          \/ new.progress = old.progress /\ new.stamp <= old.stamp

PublishLatest(f) ==
    IF store # None /\ Superseded(store, f) THEN UNCHANGED <<store, channel>>
    ELSE /\ store' = f
         /\ channel' = IF relay THEN Append(channel, f) ELSE channel

\* publish_from_worker: after a failure only an outcome is tried, and the answer may be what is lost
PublishFromWorker(f, outcome) ==
    IF resting /\ f.status \notin Terminal THEN UNCHANGED <<store, channel, resting, faults>>
    ELSE /\ outcome = "ok" \/ faults < MaxFaults
         /\ IF outcome = "lost" THEN UNCHANGED <<store, channel>> ELSE PublishLatest(f)
         /\ resting' = (outcome # "ok")
         /\ faults' = IF outcome = "ok" THEN faults ELSE faults + 1

CoolDown ==
    /\ resting /\ resting' = FALSE
    /\ UNCHANGED <<ahead, clock, progress, row, unsaid, request, broker, web, browser, faults>>

-----------------------------------------------------------------------------
(* The worker, which does not know of a cancel until it is revoked. *)

\* the cancel's uncommitted update holds the row's lock
Locked == cancel = "flushed"

Report(stored, outcome) ==
    /\ progress < MaxReports /\ unsaid = {} /\ row.status # "completed" /\ cancel # "overruled"
    /\ stored => ~Locked
    /\ progress' = progress + 1 /\ clock' = clock + 1
    /\ LET f == Frame("running", progress + 1, WorkerStamp)
       IN /\ row' = IF stored /\ row.status = "running" THEN f ELSE row
          /\ PublishFromWorker(f, outcome)
    /\ UNCHANGED <<ahead, unsaid, request, relay, web, browser>>

\* complete_run or mark_failed commit, and the announcement follows
End(status) ==
    /\ row.status = "running" /\ ~Locked
    /\ clock' = clock + 1
    /\ row' = Frame(status, progress, WorkerStamp)
    /\ unsaid' = {row'}
    /\ UNCHANGED <<ahead, progress, resting, request, broker, web, browser, faults>>

Announce(outcome) ==
    /\ unsaid # {}
    /\ PublishFromWorker(CHOOSE f \in unsaid : TRUE, outcome)
    /\ unsaid' = {}
    /\ UNCHANGED <<ahead, clock, progress, row, request, relay, web, browser>>

\* the worker's host stops between the two
Forgotten ==
    /\ unsaid # {} /\ faults < MaxFaults
    /\ faults' = faults + 1 /\ unsaid' = {}
    /\ UNCHANGED <<ahead, clock, progress, row, resting, request, broker, web, browser>>

-----------------------------------------------------------------------------
(* The bus of the web process. *)

Refuses(old, new) ==
    /\ old # None
    /\ \/ old.status \in Terminal
       \/ /\ new.status \notin Terminal
          /\ new.progress < old.progress \/ new.stamp <= old.stamp

BusPublish(f) ==
    IF Refuses(latest, f) THEN UNCHANGED <<latest, queue>>
    ELSE /\ latest' = f
         /\ queue' = IF phase = "waiting" THEN Append(queue, f) ELSE queue

\* cancel_run reads the status, and awaits the revocation
CancelRead ==
    /\ cancel = "none" /\ row.status = "running" /\ faults < MaxFaults
    /\ cancel' = "read" /\ faults' = faults + 1
    /\ UNCHANGED <<ahead, clock, progress, row, unsaid, resting, flushed, broker, web, browser>>

\* the update is flushed, whatever the row says by now, and the end is announced before it is committed:
\* to this process' own bus, and to the others through the channel
CancelFlush(sent) ==
    /\ cancel = "read" /\ cancel' = "flushed"
    /\ LET f == Frame("failed", row.progress, WebStamp)
       IN /\ flushed' = f /\ BusPublish(f)
          /\ IF sent THEN PublishLatest(f) /\ UNCHANGED faults
             ELSE faults < MaxFaults /\ faults' = faults + 1 /\ UNCHANGED <<store, channel>>
    /\ UNCHANGED <<ahead, clock, progress, row, unsaid, resting, relay, phase, initial, updated, browser>>

\* the request's session commits with the answer
CancelCommit ==
    /\ cancel = "flushed"
    /\ cancel' = IF row.status = "running" THEN "none" ELSE "overruled"
    /\ row' = flushed /\ flushed' = None
    /\ UNCHANGED <<ahead, clock, progress, unsaid, resting, broker, web, browser, faults>>

\* or its commit fails, or it is given up; one that gets no further than its reading is left there
CancelUndone ==
    /\ cancel = "flushed" /\ faults < MaxFaults
    /\ cancel' = "undone" /\ flushed' = None
    /\ faults' = faults + 1
    /\ UNCHANGED <<ahead, clock, progress, row, unsaid, resting, broker, web, browser>>

Receive ==
    /\ relay /\ channel # <<>>
    /\ channel' = Tail(channel)
    /\ BusPublish(Head(channel))
    /\ UNCHANGED <<run, store, relay, phase, initial, updated, browser, faults>>

\* what is published while the relay reconnects is lost
Drop ==
    /\ relay /\ faults < MaxFaults
    /\ faults' = faults + 1
    /\ relay' = FALSE /\ channel' = <<>>
    /\ UNCHANGED <<run, store, web, browser>>

Reconnect ==
    /\ ~relay /\ relay' = TRUE
    /\ UNCHANGED <<run, store, channel, web, browser, faults>>

-----------------------------------------------------------------------------
(* _current_progress, and the stream that starts from it. *)

Further(f, g) == IF f.progress > g.progress \/ (f.progress = g.progress /\ f.stamp >= g.stamp)
                 THEN f ELSE g
Latest(f, g) == IF f.status \in Terminal /\ g.status \in Terminal
                THEN IF f.stamp >= g.stamp THEN f ELSE g
                ELSE IF f.status \in Terminal THEN f
                ELSE IF g.status \in Terminal THEN g ELSE Further(f, g)

CurrentIgnoringRow(read, restored) == Latest(latest, restored)
Current(read, restored) ==
    IF read.status \in Terminal THEN read ELSE Latest(Latest(read, latest), restored)

\* the store answers, or is not asked
Restored == {store} \cup (IF faults < MaxFaults THEN {None} ELSE {})

Open ==
    /\ phase = "closed"
    /\ phase' = "reading" /\ initial' = row
    /\ UNCHANGED <<run, broker, latest, queue, updated, browser, faults>>

Merge(restored) ==
    /\ phase = "reading"
    /\ phase' = "greeting" /\ initial' = Current(initial, restored)
    /\ UNCHANGED <<run, broker, latest, queue, updated, browser, faults>>

\* apply of the browser
ApplyAll(f) == shown' = IF shown.status \in Terminal THEN shown ELSE f
Apply(f) ==
    shown' = IF \/ shown.status \in Terminal \/ f.stamp = shown.stamp
                \/ f.stamp < shown.stamp /\ f.status \notin Terminal
             THEN shown ELSE f

After(f) == IF shown'.status \in Terminal THEN "done" ELSE f

\* a new EventSource has no Last-Event-ID: the first frame is always sent
Greet ==
    /\ phase = "greeting"
    /\ Apply(initial) /\ attempts' = 0
    /\ phase' = After(IF initial.status \in Terminal THEN "ended" ELSE "joining")
    /\ updated' = initial.stamp
    /\ UNCHANGED <<run, broker, latest, queue, initial, faults>>

\* progress_bus.publish(initial), and then subscribe with its replay
Join ==
    /\ phase = "joining"
    /\ latest' = IF Refuses(latest, initial) THEN latest ELSE initial
    /\ queue' = <<latest'>>
    /\ phase' = "waiting"
    /\ UNCHANGED <<run, broker, initial, updated, browser, faults>>

Take ==
    /\ phase = "waiting" /\ queue # <<>>
    /\ LET f == Head(queue)
       IN /\ IF f.stamp > updated THEN Apply(f) /\ updated' = f.stamp ELSE UNCHANGED <<shown, updated>>
          /\ phase' = After(IF f.status \in Terminal THEN "ended" ELSE "waiting")
    /\ queue' = IF phase' = "waiting" THEN Tail(queue) ELSE <<>>
    /\ UNCHANGED <<run, broker, latest, initial, attempts, faults>>

\* Deadline passes: "expired", and the browser connects anew
Expire ==
    /\ phase = "waiting"
    /\ phase' = "closed" /\ queue' = <<>> /\ attempts' = 0
    /\ UNCHANGED <<run, broker, latest, initial, updated, shown, faults>>

\* onerror: the stream ended or broke; after too many in a row the browser polls
Retry ==
    /\ phase = "ended"
    /\ attempts' = attempts + 1
    /\ phase' = IF attempts' > MaxAttempts THEN "polling" ELSE "closed"
    /\ UNCHANGED <<run, broker, latest, queue, initial, updated, shown, faults>>

Break ==
    /\ phase \in {"reading", "greeting", "joining", "waiting"} /\ faults < MaxFaults
    /\ faults' = faults + 1
    /\ phase' = "ended" /\ queue' = <<>>
    /\ UNCHANGED <<run, broker, latest, initial, updated, browser>>

Poll(restored) ==
    /\ phase = "polling"
    /\ Apply(Current(row, restored))
    /\ phase' = After("polling")
    /\ UNCHANGED <<run, broker, latest, queue, initial, updated, attempts, faults>>

-----------------------------------------------------------------------------
Outcome == {"ok", "lost", "unanswered"}

Cancelled == CancelCommit \/ CancelUndone
Talk == Announce("ok") \/ Announce("lost") \/ Announce("unanswered")
Relaying == Receive \/ Reconnect
Watch == \/ Open \/ Greet \/ Join \/ Take \/ Expire \/ Retry
         \/ \E restored \in Restored : Merge(restored) \/ Poll(restored)

Next ==
    \/ \E stored \in BOOLEAN, outcome \in Outcome : Report(stored, outcome)
    \/ \E status \in Terminal : End(status)
    \/ Talk \/ Forgotten \/ CoolDown
    \/ CancelRead \/ (\E sent \in BOOLEAN : CancelFlush(sent)) \/ Cancelled
    \/ Relaying \/ Drop
    \/ Watch \/ Break

\* a handler, the relay and the browser go on, what was flushed is committed or is not, and a deadline passes
Fairness == /\ WF_vars(Talk) /\ WF_vars(Cancelled) /\ WF_vars(Relaying) /\ WF_vars(Watch) /\ WF_vars(Expire)

Spec == Init /\ [][Next]_vars /\ Fairness

-----------------------------------------------------------------------------
\* A cancel and the run's own end have crossed: it overruled an end it did not know of, or announced one
\* that was never committed.
Crossed == cancel \in {"overruled", "undone"}

\* However the clocks differ, and though the channel loses what it is given, the worker stops before
\* it speaks, and streams break: once a run has ended, a browser that watches it comes to show that
\* very outcome; but where a cancel and the end of the run have crossed, when it comes to show that the
\* run has ended, and which way may be for good what the row does not say.
OutcomeComesThrough ==
    \A status \in Terminal :
        row.status = status ~> shown.status = status \/ (Crossed /\ shown.status \in Terminal)

\* A screen never goes back to less progress, whatever the store, the bus and the row say when a
\* new stream starts from them, and whichever of them fails to answer; but for a worker whose clock
\* is behind, whose frames look older than the row it was given.
ScreenNeverGoesBack ==
    [][ahead >= 0 /\ shown'.status = "running" => shown'.progress >= shown.progress]_vars
=================================================================================
