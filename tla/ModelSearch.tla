-------------------------------- MODULE ModelSearch -------------------------------
(***************************************************************************)
(* run_forecast of engine.py: candidate models backtested by a pool of     *)
(* threads while the caller is told how far they are, the best of them     *)
(* chosen, fitted on the whole history and, when that comes to nothing,    *)
(* replaced by the naive model.  A backtest is abstracted to whether it    *)
(* held and what it cost.                                                  *)
(***************************************************************************)
EXTENDS Integers, Sequences, FiniteSets, SequencesExt, FiniteSetsExt

CONSTANTS
    Kinds,    \* the kinds build_candidates yields, in its order, Naive being among them or not
    Naive, Ensemble,
    Workers,  \* forecast_model_concurrency
    Costs     \* composite scores of a backtest that held; 0 is one that measured nothing

VARIABLES
    kinds,    \* candidates of this run: candidate_models may leave some out
    short,    \* values.size < floor or plan.n_folds = 0
    backtest, \* what the backtest of each kind comes to
    blended,  \* what combination.blend makes of them
    stage,
    thread,   \* where each candidate's task is
    watch,    \* _InFlight: _done and _running
    indexed,  \* the results as_completed has brought, in that order
    line,     \* the last line the caller was told
    model,    \* the kind whose forecast is returned
    winner,   \* selection.winner: the kind whose backtest is returned with it
    usedFallback,
    sound     \* history: the returned forecast is of a model that was fitted, and did not diverge

given == <<kinds, short, backtest, blended>>
search == <<thread, watch, indexed, line>>
outcome == <<model, winner, usedFallback, sound>>
vars == <<given, stage, search, outcome>>

None == "none"
Kind == Range(Kinds) \cup {Naive, Ensemble}
Total == Len(kinds)
Task == 1..Total
Result == [held : BOOLEAN, cost : Costs \cup {0}]

TypeOK ==
    /\ Range(kinds) \subseteq Kind /\ short \in BOOLEAN
    /\ backtest \in [Range(Kinds) -> Result] /\ blended \in Result
    /\ stage \in {"backtesting", "fitting", "predicting", "over", "failed"}
    /\ thread \in [Task -> {"queued", "running", "finished", "resolved", "taken"}]
    /\ watch.done \in 0..Total /\ watch.running \subseteq Kind
    /\ Range(indexed) \subseteq Task
    /\ model \in Kind \cup {None} /\ winner \in Kind \cup {None}
    /\ usedFallback \in BOOLEAN /\ sound \in BOOLEAN

Unstarted ==
    /\ stage = IF kinds = <<>> THEN "failed" ELSE "backtesting"
    /\ thread = [i \in Task |-> "queued"]
    /\ watch = [done |-> 0, running |-> {}]
    /\ indexed = <<>> /\ line = [of |-> 0, done |-> 0, running |-> {}]
    /\ model = None /\ winner = None /\ usedFallback = short /\ sound = FALSE

Climbing(n, top) == {f \in [1..n -> 1..top] : \A i, j \in 1..n : i < j => f[i] < f[j]}

\* what candidate_models can leave of them, in their order
Allow == UNION {{[i \in 1..n |-> Kinds[at[i]]] : at \in Climbing(n, Len(Kinds))} : n \in 1..Len(Kinds)}

\* too short a history has one candidate, and candidate_models has to leave it in; naive stands for
\* the seasonal one as well
Init ==
    /\ short \in BOOLEAN
    /\ \E allowed \in Allow :
          kinds = IF ~short THEN allowed ELSE IF Naive \in Range(allowed) THEN <<Naive>> ELSE <<>>
    /\ backtest \in [Range(Kinds) -> {r \in Result : r.cost # 0 => r.held}]
    /\ blended \in [held : BOOLEAN, cost : {0} \cup Costs]
    /\ (blended.held <=> blended.cost # 0)
    /\ blended.held => Cardinality({i \in Task : backtest[kinds[i]].cost # 0}) >= 2
    /\ Unstarted

-----------------------------------------------------------------------------
(* The pool and _InFlight. *)

At(i, from, to) == thread[i] = from /\ thread' = [thread EXCEPT ![i] = to]

Started(i) ==
    /\ Cardinality({j \in Task : thread[j] \in {"running", "finished"}}) < Workers
    /\ \A j \in Task : j < i => thread[j] # "queued"
    /\ At(i, "queued", "running")
    /\ watch' = [watch EXCEPT !.running = @ \cup {kinds[i]}]
    /\ UNCHANGED <<given, stage, indexed, line, outcome>>

\* in the finally of run_candidate, before the future has its result
Finished(i) ==
    /\ At(i, "running", "finished")
    /\ watch' = [done |-> watch.done + 1, running |-> watch.running \ {kinds[i]}]
    /\ UNCHANGED <<given, stage, indexed, line, outcome>>

Resolved(i) ==
    /\ At(i, "finished", "resolved")
    /\ UNCHANGED <<given, stage, watch, indexed, line, outcome>>

\* as_completed
Completed(i) ==
    /\ At(i, "resolved", "taken")
    /\ indexed' = Append(indexed, i)
    /\ line' = [of |-> i, done |-> watch.done, running |-> watch.running]
    /\ UNCHANGED <<given, stage, watch, outcome>>

-----------------------------------------------------------------------------
(* select_model *)

\* results: by the order of the candidates, the blend behind them
Results == kinds

Blend == IF blended.held THEN <<Ensemble>> ELSE <<>>
OutcomeOf(k) == IF k = Ensemble THEN blended ELSE backtest[k]

First(seq, S) == seq[Min({i \in DOMAIN seq : seq[i] \in S})]

\* the sort is stable; with nothing to compare it is the first that ran, or the first
Selected(results) ==
    LET usable == {k \in Range(results) : OutcomeOf(k).cost # 0}
        ran == {k \in Range(results) : OutcomeOf(k).held}
        least == Min({OutcomeOf(k).cost : k \in usable})
    IN IF usable # {} THEN First(results, {k \in usable : OutcomeOf(k).cost = least})
       ELSE IF ran # {} THEN First(results, ran)
       ELSE results[1]

Select ==
    /\ stage = "backtesting" /\ \A i \in Task : thread[i] = "taken"
    /\ winner' = Selected(Results \o Blend) /\ model' = winner'
    /\ stage' = "fitting"
    /\ UNCHANGED <<given, search, usedFallback, sound>>

-----------------------------------------------------------------------------
(* The final fit, and what it is replaced by. *)

Allowed == Naive \in Range(kinds)

\* build_candidate raises when candidate_models leaves the naive model out
FallBackQuietly ==
    /\ UNCHANGED <<given, search, winner, usedFallback>>
    /\ IF Allowed THEN model' = Naive /\ sound' = TRUE ELSE UNCHANGED <<model, sound>>
FallBack ==
    /\ UNCHANGED <<given, search, winner>>
    /\ usedFallback' = TRUE
    /\ IF Allowed THEN model' = Naive /\ sound' = TRUE ELSE UNCHANGED <<model, sound>>

Fit ==
    /\ stage = "fitting" /\ stage' = "predicting" /\ sound' = TRUE
    /\ UNCHANGED <<given, search, model, winner, usedFallback>>

FitRaises ==
    /\ stage = "fitting" /\ model # Naive
    /\ stage' = IF Allowed THEN "predicting" ELSE "failed"
    /\ FallBack

\* outside any try: what the factory calls raises, or the fitted model does when it is asked; the members
\* of a blend are built in its fit
BuildRaises ==
    /\ stage = "fitting" /\ model # Ensemble /\ stage' = "failed"
    /\ UNCHANGED <<given, search, outcome>>
PredictRaises ==
    /\ stage = "predicting" /\ model # Naive /\ stage' = "failed"
    /\ UNCHANGED <<given, search, outcome>>

Predict ==
    /\ stage = "predicting" /\ stage' = "over"
    /\ UNCHANGED <<given, search, outcome>>

\* the naive model is not asked whether it diverges
Diverges ==
    /\ stage = "predicting" /\ model # Naive
    /\ stage' = IF Allowed THEN "over" ELSE "failed"
    /\ FallBack

Next ==
    \/ \E i \in Task : Started(i) \/ Finished(i) \/ Resolved(i) \/ Completed(i)
    \/ Select \/ BuildRaises \/ Fit \/ FitRaises \/ PredictRaises \/ Predict \/ Diverges

Spec == Init /\ [][Next]_vars

-----------------------------------------------------------------------------
\* The better claim to win is the lower score, or any score where the other has none; or to have run,
\* though nothing could be measured, where the other did not.
Better(j, k) ==
    LET mine == OutcomeOf(j)  other == OutcomeOf(k)
    IN \/ mine.cost # 0 /\ (other.cost = 0 \/ mine.cost < other.cost)
       \/ mine.held /\ ~other.held

\* Which model wins does not depend on which thread was the first to answer: none has a better claim,
\* and of those with the same claim it is the one that was named first.
WinnerIgnoresOrder ==
    winner # None =>
        LET offered == kinds \o Blend
        IN \E w \in 1..Len(offered) :
              /\ offered[w] = winner
              /\ \A i \in 1..Len(offered) :
                    /\ ~Better(offered[i], offered[w])
                    /\ i < w => Better(offered[w], offered[i])

\* A forecast that does not say it fell back is that of the model whose backtest comes with it.  A run
\* that had to fall back on the naive model has a forecast, if it was allowed that model; one that ends
\* without either left it out or was ended by its winner raising where nothing is caught, as it was
\* built or asked for its forecast.
BacktestIsOfTheModel ==
    /\ stage = "over" => sound /\ (model = winner \/ (usedFallback /\ model = Naive))
    /\ stage = "failed" => Naive \notin Range(kinds) \/ (model = winner /\ usedFallback = short)

\* A line never lists the model it reports as one still fitting, counts no fewer than have answered,
\* and leaves no model counted twice.
LineIsHonest ==
    line.of # 0 =>
        /\ kinds[line.of] \notin line.running /\ line.done >= Len(indexed)
        /\ line.done + Cardinality(line.running) <= Total

SearchIsHonest == WinnerIgnoresOrder /\ BacktestIsOfTheModel /\ LineIsHonest
=================================================================================
