---------------------------------- MODULE Streams ---------------------------------
(***************************************************************************)
(* streams.py and lifecycle.py: the leases of the event streams a process  *)
(* holds open, and the event that wakes them when it is told to stop.  One *)
(* event loop runs everything but the signal handler, which can come in    *)
(* between any two steps of what the loop is doing.                        *)
(***************************************************************************)
EXTENDS Integers, FiniteSets

CONSTANTS
    Request,      \* the requests for a stream
    ClientOf,     \* who each is from
    MaxTotal,     \* sse_max_streams_total
    MaxPerClient  \* sse_max_streams_per_client

VARIABLES
    phase,     \* where each request is
    perClient, \* _per_client
    total,     \* _total
    stopping,  \* _shutting_down_at is set
    event,     \* _drain_event: whether it is there, with its loop, and set
    waking     \* event.set is scheduled on the loop

registry == <<perClient, total>>
drain == <<stopping, event, waking>>
vars == <<phase, registry, drain>>

Client == {ClientOf[q] : q \in Request}
Phases == {"none", "leased", "handed", "open", "making", "checking", "waiting",
           "refused", "failed", "unread", "closed"}
Mid == {"making", "checking"}
Holding == {q \in Request : phase[q] \in {"leased", "handed", "open", "waiting", "unread"} \cup Mid}

TypeOK ==
    /\ phase \in [Request -> Phases]
    /\ perClient \in [Client -> Nat] /\ total \in Nat
    /\ stopping \in BOOLEAN /\ waking \in BOOLEAN
    /\ event \in [made : BOOLEAN, looped : BOOLEAN, set : BOOLEAN]

Init ==
    /\ phase = [q \in Request |-> "none"]
    /\ perClient = [c \in Client |-> 0] /\ total = 0
    /\ stopping = FALSE /\ waking = FALSE
    /\ event = [made |-> FALSE, looped |-> FALSE, set |-> FALSE]

\* the loop is between two callbacks
Free == \A q \in Request : phase[q] \notin Mid

Go(q, from, to) == phase[q] = from /\ phase' = [phase EXCEPT ![q] = to]

-----------------------------------------------------------------------------
(* StreamRegistry. *)

Full(c) == total >= MaxTotal \/ perClient[c] >= MaxPerClient

Acquire(q) ==
    LET c == ClientOf[q] IN
    /\ Free /\ UNCHANGED drain
    /\ IF Full(c)
       THEN Go(q, "none", "refused") /\ UNCHANGED registry
       ELSE /\ Go(q, "none", "leased")
            /\ perClient' = [perClient EXCEPT ![c] = @ + 1] /\ total' = total + 1

Release(q) ==
    LET c == ClientOf[q]  Less(n) == IF n > 0 THEN n - 1 ELSE 0 IN
    /\ perClient' = [perClient EXCEPT ![c] = Less(@)] /\ total' = Less(total)

\* the endpoint reads what the stream starts from; an exception gives the lease back
Prepare(q) == Free /\ Go(q, "leased", "handed") /\ UNCHANGED <<registry, drain>>
Fail(q) == Free /\ Go(q, "leased", "failed") /\ Release(q) /\ UNCHANGED drain

\* the body is iterated, or the client is gone before it is: then no generator gives the lease back
Begin(q) == Free /\ Go(q, "handed", "open") /\ UNCHANGED <<registry, drain>>
Leave(q) == Free /\ Go(q, "handed", "unread") /\ UNCHANGED <<registry, drain>>

\* released_after
Close(q) ==
    /\ Free /\ phase[q] \in {"open", "waiting"}
    /\ phase' = [phase EXCEPT ![q] = "closed"]
    /\ Release(q) /\ UNCHANGED drain

-----------------------------------------------------------------------------
(* drain_event, begin_shutdown. *)

\* a stream asks for the event: the first one makes it
Ask(q) ==
    /\ Free /\ Go(q, "open", IF event.made THEN "checking" ELSE "making")
    /\ event' = [event EXCEPT !.made = TRUE]
    /\ UNCHANGED <<registry, stopping, waking>>

Loop(q) ==
    /\ Go(q, "making", "checking")
    /\ event' = [event EXCEPT !.looped = TRUE]
    /\ UNCHANGED <<registry, stopping, waking>>

CheckNothing(q) == Go(q, "checking", "waiting") /\ UNCHANGED <<registry, drain>>
Check(q) ==
    /\ Go(q, "checking", "waiting")
    /\ event' = IF stopping THEN [event EXCEPT !.set = TRUE] ELSE event
    /\ UNCHANGED <<registry, stopping, waking>>

\* the signal handler
BeginShutdown ==
    /\ ~stopping /\ stopping' = TRUE
    /\ waking' = (event.made /\ event.looped)
    /\ UNCHANGED <<phase, registry, event>>

Wake ==
    /\ Free /\ waking
    /\ waking' = FALSE /\ event' = [event EXCEPT !.set = TRUE]
    /\ UNCHANGED <<phase, registry, stopping>>

Next ==
    \/ \E q \in Request :
          \/ Acquire(q) \/ Prepare(q) \/ Fail(q) \/ Begin(q) \/ Leave(q) \/ Close(q)
          \/ Ask(q) \/ Loop(q) \/ Check(q)
    \/ BeginShutdown \/ Wake

Spec == Init /\ [][Next]_vars

-----------------------------------------------------------------------------
\* The counters of the registry are the leases that are held, and respect both ceilings: a request
\* that fails, a stream that ends and one that is refused leave no count behind.
LeasesAreCounted ==
    /\ total = Cardinality(Holding) /\ total <= MaxTotal
    /\ \A c \in Client : /\ perClient[c] = Cardinality({q \in Holding : ClientOf[q] = c})
                         /\ perClient[c] <= MaxPerClient

\* Whenever the signal comes, be it while the event is being made: no stream waits on it that is
\* not about to be woken.
NobodySleepsThrough ==
    \A q \in Request : stopping /\ phase[q] = "waiting" => event.set \/ waking
=================================================================================
