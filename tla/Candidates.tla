-------------------------------- MODULE Candidates --------------------------------
(***************************************************************************)
(* Which models a history is forecast with (engine.py run_forecast): those *)
(* that Routing leaves of what the caller and the server offer, each built *)
(* again in every window of the backtest from that window's own profile,   *)
(* and the best on the whole history; a leaf of a hierarchy is tried with  *)
(* fewer (_fit_leaf).  What a series' errors are measured by follows its   *)
(* profile (metric_plan.py).  How well a model does is left open.          *)
(***************************************************************************)
EXTENDS Routing

CONSTANTS
    None,
    Tasks,      \* [series, wanted, fill, leaf]: a history, candidate_models, gap_fill
    Cuts,       \* cut_points of the backtest, for histories of each length
    Horizon     \* how many periods after a cut are its validation window

VARIABLES
    task,
    prophet,    \* prophet_availability().available
    values, profile,
    candidates, \* of this run, in build_candidates' order
    results,    \* for each candidate tried so far, the windows it was fitted in
    members,    \* of the ensemble, when that won
    model,      \* what the forecast is of
    stage, why

vars == <<task, prophet, values, profile, candidates, results, members, model, stage, why>>

-----------------------------------------------------------------------------
(* run_forecast and _fit_leaf. *)
SegmentCandidates == <<"naive", "seasonal_naive", "theta", "holt_winters", "croston">>
Window(cut) == Prepared(SubSeq(task.series, 1, cut), task.fill)
CutsOf(v) == {c \in Cuts : c < Len(v)}

Given(asked, available) ==
    /\ task = asked /\ prophet = available
    /\ values = <<>> /\ profile = None /\ candidates = <<>> /\ results = <<>>
    /\ members = {} /\ model = None /\ stage = "given" /\ why = None
Init == \E asked \in Tasks, available \in BOOLEAN : Given(asked, available)

Because(reason) == [of |-> reason, instead |-> {}]
End(outcome, reason) == stage' = outcome /\ why' = reason

\* values.size < floor or plan.n_folds = 0: the one that can do with what there is
Short(v, p) == Len(v) < Floor(p) \/ CutsOf(v) = {}
Fallback(v, p) == IF p.period > 1 /\ Len(v) >= p.period THEN "seasonal_naive" ELSE "naive"

Offer ==
    /\ stage = "given"
    /\ LET v == Prepared(task.series, task.fill)
           p == Profile(v)
           offered == Offered(p, task.wanted, prophet)
       IN /\ values' = v /\ profile' = p
          /\ IF Len(v) < 2 \/ (task.leaf /\ (Known(v) = {} \/ Short(v, p)))
             THEN End("refused", Because("too little history")) /\ UNCHANGED candidates
             ELSE IF task.leaf /\ Known(v) # DOMAIN v
             THEN End("refused", Because("gaps")) /\ UNCHANGED candidates
             ELSE IF task.leaf
             THEN candidates' = SegmentCandidates /\ End("backtesting", None)
             ELSE IF offered = <<>>
             THEN End("refused", Message(p, task.wanted, prophet)) /\ UNCHANGED candidates
             ELSE IF ~Short(v, p)
             THEN candidates' = offered /\ End("backtesting", None)
             ELSE IF Builds(Fallback(v, p), p, task.wanted, prophet)
             THEN candidates' = <<Fallback(v, p)>> /\ End("backtesting", Because("short"))
             ELSE End("refused", Because("unknown candidate")) /\ UNCHANGED candidates
    /\ UNCHANGED <<task, prophet, results, members, model>>

\* run_backtest: the factory builds what the window's own profile offers, and something was recorded of
\* the periods it is tried on (a fit that fails for reasons of its own is one that is not chosen)
Tried(cut) == {task.series[i] : i \in (cut + 1)..Min({cut + Horizon, Len(task.series)})} # {Gap}
FittedOnWhole(kind, cut, available) ==
    /\ Known(Window(cut)) = 1..cut /\ Tried(cut)
    /\ Builds(kind, profile, task.wanted, available)
    /\ cut >= MinObservations(kind, profile)
    /\ Fits(kind, Window(cut), profile)
Fitted(kind, cut, available) ==
    LET window == Window(cut)
        p == Profile(window)
    IN /\ Known(window) = DOMAIN window /\ Tried(cut)
       /\ Builds(kind, p, task.wanted, available)
       /\ Len(window) >= MinObservations(kind, p)
       /\ Fits(kind, window, p)
Backtest ==
    /\ stage = "backtesting" /\ Len(results) < Len(candidates)
    /\ LET kind == candidates[Len(results) + 1]
           fitted == {c \in CutsOf(values) : Fitted(kind, c, prophet)}
       IN results' = Append(results, [kind |-> kind, fitted |-> fitted])
    /\ UNCHANGED <<task, prophet, values, profile, candidates, members, model, stage, why>>

\* MIN_FOLD_SHARE of the folds
Held == {r \in ToSet(results) : r.fitted # {} /\ 2 * Cardinality(r.fitted) >= Cardinality(CutsOf(values))}

\* select_model: any that held, for all that is known here, a blend of several, or else the first
Select ==
    /\ stage = "backtesting" /\ Len(results) = Len(candidates)
    /\ \/ /\ model' \in IF Held = {} THEN {results[1].kind} ELSE {r.kind : r \in Held}
          /\ UNCHANGED members
       \/ /\ ~task.leaf /\ members' \in {S \in SUBSET {r.kind : r \in Held} : Cardinality(S) \in 2..3}
          /\ model' = "ensemble"
    /\ stage' = "fitting"
    /\ UNCHANGED <<task, prophet, values, profile, candidates, results, why>>

\* the refit: the winner is built from the profile of all of it; all but baselines may fail for reasons of their own
Refits(kind) == Builds(kind, profile, task.wanted, prophet) /\ Fits(kind, values, profile)
\* EnsembleForecaster.fit: members that do not fit are left out, and two are needed
Ensemble(S) == {k \in S : Refits(k) /\ Len(values) >= MinObservations(k, profile)}

Give(kind, kept) == model' = kind /\ members' = kept /\ stage' = "fitted" /\ UNCHANGED why

Refit ==
    /\ stage = "fitting"
    /\ IF model = "ensemble"
       THEN \E S \in SUBSET (Ensemble(members) \ Baselines) :
               LET kept == Ensemble(members) \ S
               IN Cardinality(kept) >= 2 /\ Give(model, kept)
       ELSE Refits(model) /\ Give(model, members)
    /\ UNCHANGED <<task, prophet, values, profile, candidates, results>>

\* it raises: a leaf is left without a model of its own, a run falls back on the naive one
FitRaises ==
    /\ stage = "fitting" /\ (model \in Baselines => ~Refits(model))
    /\ model = "ensemble" => Cardinality(Ensemble(members) \cap Baselines) < 2
    /\ members' = {}
    /\ IF ~task.leaf /\ Builds("naive", profile, task.wanted, prophet) /\ Fits("naive", values, profile)
       THEN model' = "naive" /\ End("fitted", Because("fallback"))
       ELSE model' = None /\ End("refused", Because("final fit"))
    /\ UNCHANGED <<task, prophet, values, profile, candidates, results>>

Next == Offer \/ Backtest \/ Select \/ Refit \/ FitRaises
Spec == Init /\ [][Next]_vars

-----------------------------------------------------------------------------
(* plan_for *)
Universal == {"mae", "rmse", "medae", "bias", "wmape", "relative_bias"}
Scaled == {"mase", "rmsse", "theil_u2"}
Reported(p) ==
    Universal \cup {"residual_acf1"}
    \cup (IF p.n > Lag(p) THEN Scaled ELSE {})
    \cup (IF p.zeros = 0 THEN {"mape", "smape"} ELSE {})
    \cup (IF p.nonNegative THEN {"rmsle"} ELSE {})
    \cup (IF p.moves THEN {"r_squared"} ELSE {})
Withheld(p) ==
    (IF p.n > Lag(p) THEN {} ELSE Scaled)
    \cup (IF p.zeros = 0 THEN {} ELSE {"mape", "smape"})
    \cup (IF p.nonNegative THEN {} ELSE {"rmsle"})
    \cup (IF p.moves THEN {} ELSE {"r_squared"})
Bursts(p) == p.nonNegative /\ p.class \in {"intermittent", "lumpy", "no_demand"}
Ranking(p) ==
    SelectSeq(CASE Bursts(p) -> <<"rmsse", "mase", "mae">>
                [] ~Bursts(p) /\ p.seasonal -> <<"mase", "wmape", "rmse">>
                [] OTHER -> <<"wmape", "mase", "rmse">>,
              LAMBDA k : k \in Reported(p))
Headline(p) ==
    CASE Bursts(p) -> IF "rmsse" \in Reported(p) THEN "rmsse" ELSE "mae"
      [] ~Bursts(p) /\ p.seasonal -> IF "mase" \in Reported(p) THEN "mase" ELSE "wmape"
      [] OTHER -> "wmape"

-----------------------------------------------------------------------------
TypeOK ==
    /\ stage \in {"given", "backtesting", "fitting", "fitted", "refused"}
    /\ Len(results) <= Len(candidates)
    /\ stage = "fitted" <=> model # None /\ stage # "fitting"
    /\ members # {} => stage \in {"fitting", "fitted"} /\ model = "ensemble"

\* A model is fitted only to what suits it: the forecast is of one that the demand of the whole history
\* permits, every member of a blend is, and what a backtest measured of a model was measured in windows
\* whose own demand permits it.
OnlySuited ==
    /\ stage = "fitted" =>
          IF model = "ensemble" THEN members \subseteq Route(profile) /\ Cardinality(members) >= 2
          ELSE model \in Route(profile)
    /\ \A i \in DOMAIN results : \A c \in results[i].fitted : results[i].kind \in Route(Profile(Window(c)))

\* A run that leaves the choice to the program is never left without a forecast, nor, when it has history
\* enough, without a backtest that held: the baselines are built in every window, whatever the window
\* before a long silence or a burst looks like. Two recorded values are enough.
AlwaysAnAnswer ==
    ~task.leaf /\ task.wanted = {} /\ Len(task.series) >= 2 /\ Known(task.series) # {} =>
        /\ stage # "refused"
        /\ stage = "fitting" /\ Known(task.series) = DOMAIN task.series /\ CutsOf(values) # {} =>
              \E r \in Held : r.kind \in Baselines

\* The model picked for too short a history can be fitted to what was recorded of it.
FallbackFits ==
    why = Because("short") /\ Known(task.series) # {} =>
                     /\ Fits(candidates[1], values, profile)
                     /\ Len(values) >= MinObservations(candidates[1], profile)

\* What the refusal of somebody's choice of models says can be had is had when it is asked for, and is none
\* of what was asked; a model is called unavailable only where it is.
AdviceWorks ==
    stage = "refused" /\ Len(values) >= 2 /\ task.wanted # {} /\ Offered(profile, task.wanted, prophet) = <<>> =>
        /\ why.instead # {} /\ why.instead \cap task.wanted = {}
        /\ \A k \in why.instead : Builds(k, profile, {k}, prophet) /\ k \in Route(profile)
        /\ why.of = "unavailable" => ~prophet /\ task.wanted = {"prophet"}

\* What was recorded is what is fitted: filling changes no period that has a value, and leaves no gap unless
\* it was asked to; what is filled in lies between what surrounds it.
FillKeepsRecorded ==
    stage # "given" =>
        /\ DOMAIN values = DOMAIN task.series
        /\ \A i \in Known(task.series) : values[i] = task.series[i]
        /\ task.fill # "none" => Known(values) = DOMAIN values
        /\ Known(task.series) # {} =>
              \A i \in Known(values) :
                 values[i] \in 0..0 \/ (values[i] <= Max(ToSet(Recorded(task.series)))
                                        /\ values[i] >= Min(ToSet(Recorded(task.series))))

\* Errors are measured by what can be computed of the series: a metric is reported or withheld with a
\* reason, never both; what leads and what ranks is reported; and nothing that divides by an actual is
\* reported of a series with zeros, or leads one whose demand comes in bursts.
PlanFits ==
    profile # None =>
        /\ Reported(profile) \cap Withheld(profile) = {}
        /\ Universal \cup Scaled \cup {"mape", "smape", "rmsle", "r_squared"} \subseteq Reported(profile) \cup Withheld(profile)
        /\ Headline(profile) \in Reported(profile) /\ Ranking(profile)[1] = Headline(profile)
        /\ profile.zeros > 0 => {"mape", "smape"} \cap Reported(profile) = {}
        /\ Bursts(profile) => "wmape" \notin ToSet(Ranking(profile))
        /\ "mase" \in Reported(profile) => Len(Recorded(values)) > Lag(profile)
====================================================================================
