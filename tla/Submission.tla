------------------------------ MODULE Submission ------------------------------
(***************************************************************************)
(* The requests that carry one idempotency key: POST /forecasts/run        *)
(* (start_run, create_or_join_run) and POST /forecasts/{id}/retry          *)
(* (retry_run of the route and of the service), up to the dispatch of the  *)
(* run.  A client that got no answer may send its request again.           *)
(***************************************************************************)
EXTENDS Integers

CONSTANTS
    Request,  \* each is one HTTP request
    Retry     \* those among them that are retries of a failed run

ASSUME SubmissionAssumption == Retry \subseteq Request

VARIABLES
    stage,    \* where each request is
    writing,  \* the requests whose insert is not committed
    creator,  \* the requests whose run is committed under the key
    tasks     \* by whom execute_run was started for that run

vars == <<stage, writing, creator, tasks>>

\* looked: a retry between its two lookups; creating: about to insert; losing:
\* refused by the unique index; inserted; dispatching: committed;
\* rejoining: a retry that found a run at its second lookup; joined, created:
\* answered with a run; conflict: answered with an IntegrityError; refused: by
\* the database; unheard: the reply to its commit was lost
Stages == {"new", "looked", "creating", "losing", "inserted", "dispatching", "rejoining",
           "joined", "created", "conflict", "refused", "unheard"}

TypeOK ==
    /\ stage \in [Request -> Stages]
    /\ writing \subseteq Request /\ creator \subseteq Request
    /\ writing = {r \in Request : stage[r] = "inserted"}
    /\ tasks \subseteq Request

Init ==
    /\ stage = [r \in Request |-> "new"]
    /\ writing = {} /\ creator = {} /\ tasks = {}

Goes(r, s) == stage' = [stage EXCEPT ![r] = s]

\* run_for_idempotency_key, the first statement of either route
Look(r) ==
    /\ stage[r] = "new"
    /\ Goes(r, IF creator # {} THEN "joined" ELSE IF r \in Retry THEN "looked" ELSE "creating")
    /\ UNCHANGED <<writing, creator, tasks>>

\* retry_run of the service looks again, and its caller is not told which it was
LookAgain(r) ==
    /\ stage[r] = "looked"
    /\ Goes(r, IF creator # {} THEN "rejoining" ELSE "creating")
    /\ UNCHANGED <<writing, creator, tasks>>

\* a key without a unique index
InsertUnchecked(r) ==
    /\ stage[r] = "creating"
    /\ Goes(r, "inserted") /\ writing' = writing \cup {r}
    /\ UNCHANGED <<creator, tasks>>

\* create_run: an insert under a key that another transaction has not yet
\* committed waits for that transaction.  Only a start does so in a savepoint
Insert(r) ==
    /\ stage[r] = "creating" /\ writing = {}
    /\ IF creator = {}
       THEN Goes(r, "inserted") /\ writing' = {r}
       ELSE Goes(r, IF r \in Retry THEN "conflict" ELSE "losing") /\ UNCHANGED writing
    /\ UNCHANGED <<creator, tasks>>

\* the except branch of create_or_join_run
Lose(r) ==
    /\ stage[r] = "losing"
    /\ Goes(r, IF creator # {} THEN "joined" ELSE "conflict")
    /\ UNCHANGED <<writing, creator, tasks>>

Commit(r) ==
    /\ stage[r] = "inserted"
    /\ Goes(r, "dispatching")
    /\ writing' = writing \ {r} /\ creator' = creator \cup {r}
    /\ UNCHANGED tasks

CommitUnheard(r) ==
    /\ stage[r] = "inserted"
    /\ Goes(r, "unheard")
    /\ writing' = writing \ {r} /\ creator' = creator \cup {r}
    /\ UNCHANGED tasks

\* the database refuses, anywhere before the commit: the session rolls back
Refuse(r) ==
    /\ stage[r] \in {"creating", "losing", "inserted"}
    /\ Goes(r, "refused")
    /\ writing' = writing \ {r}
    /\ UNCHANGED <<creator, tasks>>

\* a retry that commits its run and never dispatches it
DispatchByStartsOnly(r) ==
    /\ stage[r] \in {"dispatching", "rejoining"}
    /\ Goes(r, IF stage[r] = "dispatching" THEN "created" ELSE "joined")
    /\ tasks' = IF r \in Retry THEN tasks ELSE tasks \cup {r}
    /\ UNCHANGED <<writing, creator>>

\* dispatch_run, by who created the run and by a retry that rejoined it
Dispatch(r) ==
    /\ stage[r] \in {"dispatching", "rejoining"}
    /\ Goes(r, IF stage[r] = "dispatching" THEN "created" ELSE "joined")
    /\ tasks' = tasks \cup {r}
    /\ UNCHANGED <<writing, creator>>

Resume(r) ==
    Look(r) \/ LookAgain(r) \/ Insert(r) \/ Lose(r) \/ Commit(r) \/ Dispatch(r)

Next == \E r \in Request : Resume(r) \/ CommitUnheard(r) \/ Refuse(r)

Spec == Init /\ [][Next]_vars

\* a request goes on once its await is over
FairSpec == Spec /\ \A r \in Request : WF_vars(Resume(r))

-----------------------------------------------------------------------------
(* Properties. *)

\* The requests of one key that reach a start together make one run and start
\* one task for it.  Only a retry that rejoins a run starts another.
ExecutedOnce ==
    /\ \A r, s \in creator : r = s
    /\ tasks \ creator \subseteq Retry

\* A start that loses the race for the key is answered with the winner's run,
\* never with the index's refusal.
LoserIsAnswered == \A r \in Request : stage[r] = "conflict" => r \in Retry

\* Every run that a request was answered with is executed, unless the reply to
\* its commit was lost: then those who resubmit join a run that stays pending.
JoinedRuns ==
    (\E r \in Request : stage[r] \in {"joined", "created"})
      ~> (tasks # {} \/ \E r \in Request : stage[r] = "unheard")
=============================================================================
