------------------------------ MODULE AsyncCache ------------------------------
(***************************************************************************)
(* get_or_set of core/cache.py for one key: the requests for one dashboard *)
(* answer, each of which may be cancelled when its browser goes away.      *)
(*                                                                         *)
(* What a request does between two awaits is one action.  The future of a  *)
(* pending computation is named by the request that leads it, and a value  *)
(* is not told from another: the key holds the version of what it answers. *)
(***************************************************************************)
EXTENDS Integers, FiniteSets

CONSTANT Request  \* each calls get_or_set once

None == "none"

ASSUME AsyncCacheAssumption == None \notin Request

VARIABLES
    entry,      \* _entries holds a live entry for the key
    pending,    \* _pending: whose future, or None
    future,     \* the future that each request made, if it made one
    stage,      \* where each request is
    leader,     \* whose future it waits on, or waited on
    cancelling  \* a CancelledError is on its way to it

vars == <<entry, pending, future, stage, leader, cancelling>>

TypeOK ==
    /\ entry \in BOOLEAN
    /\ pending \in {None} \cup Request
    /\ future \in [Request -> {None, "pending", "value", "error", "abandoned"}]
    /\ stage \in [Request -> {"new", "computing", "waiting", "served", "raised", "stopped"}]
    /\ leader \in [Request -> {None} \cup Request]
    /\ cancelling \in [Request -> BOOLEAN]
    /\ \A r \in Request : (future[r] = "pending") = (stage[r] = "computing")

Init ==
    /\ entry = FALSE /\ pending = None
    /\ future = [r \in Request |-> None] /\ stage = [r \in Request |-> "new"]
    /\ leader = [r \in Request |-> None]
    /\ cancelling = [r \in Request |-> FALSE]

Goes(r, s) ==
    /\ stage' = [stage EXCEPT ![r] = s]
    /\ cancelling' = [cancelling EXCEPT ![r] = FALSE]

\* a computation that can be waited on
Joinable == pending # None /\ future[pending] = "pending"

\* r becomes the leader, whoever was
Begin(r) ==
    /\ pending' = r /\ future' = [future EXCEPT ![r] = "pending"]
    /\ Goes(r, "computing")

Hit(r) ==
    /\ stage[r] = "new" /\ entry
    /\ Goes(r, "served")
    /\ UNCHANGED <<entry, pending, future, leader>>

Join(r) ==
    /\ stage[r] = "new" /\ ~entry /\ Joinable
    /\ leader' = [leader EXCEPT ![r] = pending]
    /\ Goes(r, "waiting")
    /\ UNCHANGED <<entry, pending, future>>

\* without a look at the computations under way
LeadAlways(r) ==
    /\ stage[r] = "new" /\ ~entry
    /\ Begin(r)
    /\ UNCHANGED <<entry, leader>>

Lead(r) ==
    /\ stage[r] = "new" /\ ~entry /\ ~Joinable
    /\ Begin(r)
    /\ UNCHANGED <<entry, leader>>

\* the future is resolved and the finally block removes it, if it is still there
Settle(r, outcome) ==
    /\ future' = [future EXCEPT ![r] = outcome]
    /\ pending' = IF pending = r THEN None ELSE pending
    /\ UNCHANGED leader

Computed(r) ==
    /\ stage[r] = "computing" /\ ~cancelling[r]
    /\ Settle(r, "value") /\ entry' = TRUE
    /\ Goes(r, "served")

Failed(r) ==
    /\ stage[r] = "computing" /\ ~cancelling[r]
    /\ Settle(r, "error") /\ UNCHANGED entry
    /\ Goes(r, "raised")

\* except Exception, which a cancellation is not: the future stays unresolved
AbandonQuietly(r) ==
    /\ stage[r] = "computing" /\ cancelling[r]
    /\ pending' = IF pending = r THEN None ELSE pending
    /\ Goes(r, "stopped")
    /\ UNCHANGED <<entry, future, leader>>

Abandon(r) ==
    /\ stage[r] = "computing" /\ cancelling[r]
    /\ Settle(r, "abandoned") /\ UNCHANGED entry
    /\ Goes(r, "stopped")

Outcome(r) == future[leader[r]]

\* _join returns or raises what the leader came to
Given(r) ==
    /\ stage[r] = "waiting" /\ ~cancelling[r]
    /\ \/ Outcome(r) = "value" /\ Goes(r, "served")
       \/ Outcome(r) = "error" /\ Goes(r, "raised")
    /\ UNCHANGED <<entry, pending, future, leader>>

\* _join returns _ABANDONED: r computes, with no second look at the cache.
\* A cancellation of r that arrives with the leader's is taken for the leader's
TakeOver(r) ==
    /\ stage[r] = "waiting" /\ Outcome(r) = "abandoned"
    /\ Begin(r)
    /\ UNCHANGED <<entry, leader>>

Stop(r) ==
    /\ stage[r] = "waiting" /\ cancelling[r] /\ Outcome(r) # "abandoned"
    /\ Goes(r, "stopped")
    /\ UNCHANGED <<entry, pending, future, leader>>

\* the browser of r goes away
Cancel(r) ==
    /\ stage[r] \in {"computing", "waiting"} /\ ~cancelling[r]
    /\ cancelling' = [cancelling EXCEPT ![r] = TRUE]
    /\ UNCHANGED <<entry, pending, future, stage, leader>>

\* the entry expires, is evicted, or is forgotten with its run
Drop ==
    /\ entry /\ entry' = FALSE
    /\ UNCHANGED <<pending, future, stage, leader, cancelling>>

Resume(r) ==
    \/ Computed(r) \/ Failed(r) \/ Abandon(r)
    \/ Given(r) \/ TakeOver(r) \/ Stop(r)

Next ==
    \/ \E r \in Request : Hit(r) \/ Join(r) \/ Lead(r) \/ Resume(r) \/ Cancel(r)
    \/ Drop

Spec == Init /\ [][Next]_vars

\* a computation ends, and the event loop resumes what waited for it
FairSpec == Spec /\ \A r \in Request : WF_vars(Resume(r))

-----------------------------------------------------------------------------
(* Properties. *)

Computing == {r \in Request : stage[r] = "computing"}

\* The key is never wedged on a computation that is over: what _pending holds
\* is under way, whichever of several leaders ends first.
PendingIsLive == pending # None => pending \in Computing

\* A key is computed twice at a time only in the wake of a leader that left.
ComputedOnce ==
    Cardinality(Computing) > 1 => \E r \in Request : future[r] = "abandoned"

\* Whoever waits is released, through any sequence of leaders that leave: by
\* an answer, an error, its own cancellation, or by computing itself.
WaitersAreReleased ==
    \A r \in Request : stage[r] = "waiting" ~> stage[r] # "waiting"

\* "Concurrent misses on one key are coalesced: ten tabs wait on one
\* computation rather than starting ten."
Coalesced == Cardinality(Computing) <= 1
=============================================================================
