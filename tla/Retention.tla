------------------------------- MODULE Retention -------------------------------
(***************************************************************************)
(* retention_service.py: a pass plans what to remove in one transaction    *)
(* and removes it run by run through delete_run, while runs finish, people *)
(* save scenarios and delete runs, and other passes are under way.  A      *)
(* transaction sees what others commit between two of its statements.      *)
(***************************************************************************)
EXTENDS Integers, FiniteSets, FiniteSetsExt

CONSTANTS
    Run,    \* the runs, numbered in the order of created_at
    Keep,   \* retention_keep_runs
    Batch,  \* retention_batch
    Pass,   \* the passes: the hourly one, and those asked for by hand
    MaxScenarios    \* bound: runs with a scenario at one time

ASSUME RetentionAssumption ==
    /\ Run \subseteq Nat /\ IsFiniteSet(Run)
    /\ Keep \in Nat \ {0}
    /\ Batch \in Nat \ {0}
    /\ "user" \notin Pass
    /\ MaxScenarios \in Nat

VARIABLES
    status,    \* status[r]: "none" before it is created, "absent" once deleted
    finished,  \* the completed runs in the order of completed_at, as pairs <<earlier, later>>
    old,       \* the runs created before the cutoff: all up to this number
    scenarios, \* the runs a saved scenario refers to
    stage,     \* where each pass is
    protected, \* what its plan protects
    removing,  \* what it has still to remove
    checked,   \* the run whose status delete_run has read, per deleter
    late,      \* history: the runs that ended under a plan that had looked for the newest
    lost       \* history: how many of the newest went unseen since all passes were idle

data == <<status, finished, old, scenarios>>
pass == <<stage, protected, removing>>
history == <<late, lost>>
vars == <<data, pass, checked, history>>

User == "user"
Deleter == Pass \cup {User}
Terminal == {"completed", "failed"}
Ended == {r \in Run : status[r] \in Terminal}
Idle == \A p \in Pass : stage[p] = "idle"

TypeOK ==
    /\ status \in [Run -> {"none", "active", "absent"} \cup Terminal]
    /\ finished \subseteq Run \X Run
    /\ old \in Nat
    /\ scenarios \subseteq Run
    /\ stage \in [Pass -> {"idle", "scenarios", "recent", "selecting", "removing"}]
    /\ protected \in [Pass -> SUBSET Run]
    /\ removing \in [Pass -> SUBSET Run] /\ \A p \in Pass : Cardinality(removing[p]) <= Batch
    /\ checked \in [Deleter -> SUBSET Run] /\ \A d \in Deleter : Cardinality(checked[d]) <= 1
    /\ late \subseteq Run /\ lost \in Nat

Init ==
    /\ status = [r \in Run |-> "none"]
    /\ finished = {} /\ old = 0 /\ scenarios = {}
    /\ stage = [p \in Pass |-> "idle"]
    /\ protected = [p \in Pass |-> {}] /\ removing = [p \in Pass |-> {}]
    /\ checked = [d \in Deleter |-> {}]
    /\ late = {} /\ lost = 0

-----------------------------------------------------------------------------
(* The world around the passes. *)

Create(r) ==
    /\ status[r] = "none" /\ \A q \in Run : q < r => status[q] # "none"
    /\ status' = [status EXCEPT ![r] = "active"]
    /\ UNCHANGED <<finished, old, scenarios, pass, checked, history>>

End(r, outcome) ==
    /\ status[r] = "active"
    /\ status' = [status EXCEPT ![r] = outcome]
    /\ finished' = IF outcome = "completed"
                   THEN finished \cup {<<q, r>> : q \in {q \in Run : status[q] = "completed"}}
                   ELSE finished
    /\ late' = IF \E p \in Pass : stage[p] = "selecting" THEN late \cup {r} ELSE late
    /\ UNCHANGED <<old, scenarios, pass, checked, lost>>

SaveScenario(r) ==
    /\ status[r] = "completed"
    /\ scenarios' = scenarios \cup {r} /\ Cardinality(scenarios') <= MaxScenarios
    /\ UNCHANGED <<status, finished, old, pass, checked, history>>

Age ==
    /\ \E r \in Run : r > old /\ status[r] # "none"
    /\ old' = old + 1
    /\ UNCHANGED <<status, finished, scenarios, pass, checked, history>>

-----------------------------------------------------------------------------
(* plan. *)

\* latest_completed_run, which the dashboard shows
Latest == {r \in Run : status[r] = "completed"
                       /\ \A q \in Run : status[q] = "completed" => <<r, q>> \notin finished}

Newer(r) == {q \in Ended : q > r}

\* _most_recent
MostRecent == {r \in Ended : Cardinality(Newer(r)) < Keep}

\* what is old has ended, and what is protected is not to go
Candidates(keep) == {r \in Ended : r <= old} \ keep

\* the oldest of them, as many as a pass may take
OldestFirst(S) == {r \in S : Cardinality({q \in S : q < r}) < Batch}

\* a statement of p's plan that protects the runs in S
Protect(p, from, to, S) ==
    /\ stage[p] = from
    /\ stage' = [stage EXCEPT ![p] = to]
    /\ protected' = [protected EXCEPT ![p] = @ \cup S]
    /\ UNCHANGED <<data, removing, checked>>

PlanLatest(p) == Protect(p, "idle", "scenarios", Latest) /\ UNCHANGED history

PlanScenarios(p) == Protect(p, "scenarios", "recent", scenarios) /\ UNCHANGED history

\* a plan that is not told which runs are the newest
PlanRecentForgotten(p) == Protect(p, "recent", "selecting", {}) /\ UNCHANGED history

PlanRecent(p) == Protect(p, "recent", "selecting", MostRecent) /\ UNCHANGED history

Plan(p) ==
    /\ stage[p] = "selecting"
    /\ stage' = [stage EXCEPT ![p] = "removing"]
    /\ removing' = [removing EXCEPT ![p] = OldestFirst(Candidates(protected[p]))]
    /\ protected' = [protected EXCEPT ![p] = {}]
    /\ UNCHANGED <<data, checked, history>>

-----------------------------------------------------------------------------
(* delete_run, by a pass for its oldest candidate or by a person. *)

\* get_run_state and the guard
Read(d, r) ==
    /\ checked[d] = {} /\ status[r] \in Terminal
    /\ checked' = [checked EXCEPT ![d] = {r}]
    /\ UNCHANGED <<data, pass, history>>

\* the deletes and their commit; scenarios go with their run by foreign key
Erase(d, r) ==
    /\ r \in checked[d]
    /\ status' = [status EXCEPT ![r] = "absent"]
    /\ scenarios' = scenarios \ {r}
    /\ checked' = [checked EXCEPT ![d] = {}]
    /\ lost' = IF ~Idle /\ (d = User \/ r \in late) THEN lost + 1 ELSE lost
    /\ finished' = {e \in finished : r \notin {e[1], e[2]}}
    /\ UNCHANGED <<old, stage, protected, late>>

Turn(p, r) == stage[p] = "removing" /\ r \in removing[p] /\ r = Min(removing[p])

SweepRead(p, r) == Turn(p, r) /\ Read(p, r)

SweepErase(p, r) ==
    /\ Turn(p, r) /\ Erase(p, r)
    /\ removing' = [removing EXCEPT ![p] = @ \ {r}]

\* NotFound, or the database refuses: logged, and the pass goes on
SweepSkip(p, r) ==
    /\ Turn(p, r)
    /\ removing' = [removing EXCEPT ![p] = @ \ {r}]
    /\ checked' = [checked EXCEPT ![p] = {}]
    /\ UNCHANGED <<data, stage, protected, history>>

SweepDone(p) ==
    /\ stage[p] = "removing" /\ removing[p] = {}
    /\ stage' = [stage EXCEPT ![p] = "idle"]
    /\ IF Idle' THEN late' = {} /\ lost' = 0 ELSE UNCHANGED history
    /\ UNCHANGED <<data, protected, removing, checked>>

UserErase(r) == Erase(User, r) /\ UNCHANGED removing

Next ==
    \/ \E r \in Run : \/ Create(r) \/ End(r, "completed") \/ End(r, "failed")
                      \/ SaveScenario(r) \/ Read(User, r) \/ UserErase(r)
    \/ Age
    \/ \E p \in Pass : \/ PlanLatest(p) \/ PlanScenarios(p) \/ PlanRecent(p) \/ Plan(p)
                       \/ SweepDone(p)
    \/ \E p \in Pass, r \in Run : SweepRead(p, r) \/ SweepErase(p, r) \/ SweepSkip(p, r)

Spec == Init /\ [][Next]_vars

-----------------------------------------------------------------------------
(* Properties. *)

Removed(r) == status[r] # "absent" /\ status'[r] = "absent"
BySweep(p, r) == r \in checked[p] /\ checked'[p] = {}

\* A run that has not finished is never removed, by a pass or by a person.
UnfinishedStays == [][\A r \in Run : Removed(r) => status[r] \in Terminal]_vars

\* However late a pass gets to a run, Keep finished ones are newer, less those
\* that people deleted under the passes at work: two passes that overlap take
\* no more of the newest than one.  The exception is a run that ended between
\* the statement that protects the newest and the one that selects: the plan
\* takes it for any other, and whoever counts on it is one short.
NewestStay ==
    [][\A r \in Run, p \in Pass :
         Removed(r) /\ BySweep(p, r) => Cardinality(Newer(r)) + lost >= Keep \/ r \in late]_vars

\* "Three protections hold whatever the limits say: a run that has not
\* finished, the run the dashboard is showing, and any run a saved scenario
\* refers to are never removed" by a pass.
ProtectedStay ==
    [][\A r \in Run, p \in Pass :
         Removed(r) /\ BySweep(p, r) =>
           status[r] \in Terminal /\ r \notin Latest \cup scenarios]_vars
================================================================================
