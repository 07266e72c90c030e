----------------------------------- MODULE Bands -----------------------------------
(***************************************************************************)
(* The range around a forecast: its interval and its best and worst case,  *)
(* from the errors of the backtest or, when those are few, from how much   *)
(* the series moves (forecasting/scenarios.py); the check of it against    *)
(* what the backtest held out (calibration.py); the points as stored; and  *)
(* a what-if that reprices them (forecast_service.py).  The powers and     *)
(* deviations in between are any numbers that grow as theirs do.           *)
(***************************************************************************)
EXTENDS Integers, Sequences, FiniteSets, FiniteSetsExt

CONSTANTS
    None,
    Residuals,      \* what the folds may have left at a step: a sequence of errors
    Points,         \* the forecasts, by step
    Levels,         \* the confidence a run may ask for, in percent
    Scenario,       \* settings.scenario_confidence, in percent, of 1..99
    Growths,        \* how errors grow by step, in halves, from 2
    Spreads,        \* deviations a step may have
    Leverages, Multipliers, Volumes     \* of a what-if, in halves

VARIABLES
    buckets,    \* the errors by step
    positive,   \* no value of the history is negative
    point, level,
    bands,      \* IntervalBands, and whether errors made them, or None
    check,      \* half-widths that would have held, by step, the share they hold and the share that the
                \* range holds, or None
    whatif      \* the last simulation, or None

vars == <<buckets, positive, point, level, bands, check, whatif>>

Few == 8    \* MIN_EMPIRICAL_RESIDUALS
Steps == DOMAIN point
Abs(x) == IF x < 0 THEN -x ELSE x
Lesser(x, y) == IF x < y THEN x ELSE y
Greater(x, y) == IF x < y THEN y ELSE x
Up(a, b) == -((-a) \div b)
\* the k-th of some errors, the least first
Ranked(f, k) == Min({f[e] : e \in {e \in DOMAIN f : Cardinality({d \in DOMAIN f : f[d] <= f[e]}) >= k}})
Mean(s, j, k) ==
    LET sum[i \in (j - 1)..k] == IF i < j THEN 0 ELSE sum[i - 1] + s[i] IN sum[k] \div (k - j + 1)

-----------------------------------------------------------------------------
(* _rising: the closest sequence that never falls. *)
Rising(s) ==
    [i \in DOMAIN s |-> Max({Min({Mean(s, j, k) : k \in i..Len(s)}) : j \in 1..i})]
Negated(s) == [i \in DOMAIN s |-> -s[i]]

\* _conformal_bounds
ConformalBounds(f, percent) ==
    LET n == Cardinality(DOMAIN f)
        low == ((n + 1) * (100 - percent)) \div 200
        high == Up((n + 1) * (100 + percent), 200)
    IN [low |-> Ranked(f, Greater(low, 1)), high |-> Ranked(f, Lesser(high, n))]

\* all errors, each by its step and its place, and _one_step_equivalent
Errors == UNION {{t} \X DOMAIN buckets[t] : t \in Steps}
Unit(growth) == [e \in Errors |-> (2 * buckets[e[1]][e[2]]) \div growth[e[1]]]

\* each side of the range has a share of it, whatever side the errors were on
OneSided(bounds) == bounds
Sided(bounds) ==
    LET side == (bounds.high - bounds.low) \div 10
    IN [low |-> Lesser(bounds.low, -side), high |-> Greater(bounds.high, side)]

\* _quantile_offsets, or None
QuantileOffsets(growth, percent) ==
    LET pooled == ConformalBounds(Unit(growth), percent)
        at(t) == IF Len(buckets[t]) >= Few THEN ConformalBounds(buckets[t], percent)
                 ELSE [low |-> (pooled.low * growth[t]) \div 2, high |-> (pooled.high * growth[t]) \div 2]
        low == [t \in Steps |-> Sided(at(t)).low]
        high == [t \in Steps |-> Sided(at(t)).high]
    IN IF Cardinality(Errors) < Few \/ pooled.high <= pooled.low THEN None
       ELSE [low |-> Negated(Rising(Negated(low))), high |-> Rising(high)]

\* the other way: so many deviations to each side, by the quantile of the level
SigmaOffsets(sigmas, quantile) ==
    [low |-> [t \in Steps |-> -quantile * sigmas[t]], high |-> [t \in Steps |-> quantile * sigmas[t]]]

\* _sigma_by_step: the deviation of each step, made to rise, and no less than the series moves
Sigmas == {[t \in Steps |-> Greater(Rising(raw)[t], floor * t)] :
             raw \in [Steps -> Spreads], floor \in {0, Min(Spreads)}}

\* build_intervals
Built(interval, scenario) ==
    LET clip(x) == IF positive THEN Greater(x, 0) ELSE x
        low(t) == clip(point[t] + interval.low[t])
        high(t) == IF positive THEN Greater(point[t] + interval.high[t], low(t))
                   ELSE point[t] + interval.high[t]
        worst(t) == point[t] + Lesser(scenario.low[t], interval.low[t])
        best(t) == point[t] + Greater(scenario.high[t], interval.high[t])
    IN [t \in Steps |->
          [lower |-> low(t), upper |-> high(t),
           worst |-> IF positive THEN Lesser(Greater(worst(t), 0), low(t)) ELSE worst(t),
           best |-> IF positive THEN Greater(best(t), high(t)) ELSE best(t)]]

-----------------------------------------------------------------------------
(* calibrate: the half-width of each step that holds the level, no narrower than the ones before. *)
Missed(t) == [i \in DOMAIN buckets[t] |-> Abs(buckets[t][i])]
Halfwidth(t) ==
    LET rank == Up((Len(buckets[t]) + 1) * level, 100) IN Ranked(Missed(t), Lesser(rank, Len(buckets[t])))
Measured == {t \in Steps : buckets[t] # <<>>}
Widened(t) == Max({Halfwidth(u) : u \in Measured \cap 1..t})
Covered(t, width) == Cardinality({i \in DOMAIN buckets[t] : Missed(t)[i] <= width})

\* the share the range itself holds: the errors put around the forecast (realised_coverage), leaving out the
\* steps whose lower bound was cut at nothing
Skipped(at, t) == at[t].lower <= 0 /\ point[t] > 0
Contains(at, t, error) == point[t] + error \in at[t].lower..at[t].upper
Served(at, t) ==
    IF Skipped(at, t) THEN None
    ELSE Cardinality({i \in DOMAIN buckets[t] : Contains(at, t, buckets[t][i])})

Calibrated(at) ==
    [t \in Measured |-> [width |-> Widened(t), inside |-> Covered(t, Widened(t)), served |-> Served(at, t)]]

-----------------------------------------------------------------------------
(* simulate_what_if, in eighths for the scale and in sixteen times that for what it gives. *)
ScaleOf(volume, leverage, multiplier) == volume * Greater(4 + leverage * (multiplier - 2), 0)
Simulated(scale) ==
    LET widening == 16 + Abs(scale - 8)
        sim(t) == point[t] * scale * 16
        scaled(t, bound) == sim(t) + (bound - point[t]) * scale * widening
    IN [scale |-> scale,
        at |-> [t \in Steps |-> [point |-> sim(t),
                                 lower |-> scaled(t, bands.at[t].lower), upper |-> scaled(t, bands.at[t].upper),
                                 worst |-> scaled(t, bands.at[t].worst), best |-> scaled(t, bands.at[t].best)]]]

-----------------------------------------------------------------------------
Unbuilt == bands = None /\ check = None /\ whatif = None
Init ==
    /\ point \in Points /\ buckets \in [Steps -> Residuals] /\ positive \in BOOLEAN /\ level \in Levels
    /\ Unbuilt

Build ==
    /\ bands = None
    /\ \E growth \in Growths :
          LET interval == QuantileOffsets(growth, level)
              scenario == QuantileOffsets(growth, Scenario)
          IN \/ /\ interval # None /\ scenario # None
                /\ bands' = [at |-> Built(interval, scenario), errors |-> TRUE]
             \/ /\ interval = None \/ scenario = None
                /\ \E sigmas \in Sigmas, near, far \in {1, 2} :
                      /\ level <= Scenario => near <= far
                      /\ level >= Scenario => near >= far
                      /\ bands' = [at |-> Built(SigmaOffsets(sigmas, near), SigmaOffsets(sigmas, far)),
                                   errors |-> FALSE]
    /\ check' = IF Measured = {} THEN None ELSE Calibrated(bands'.at)
    /\ UNCHANGED <<buckets, positive, point, level, whatif>>

Simulate ==
    /\ bands # None
    /\ \E volume \in Volumes, leverage \in Leverages, multiplier \in Multipliers :
          whatif' = Simulated(ScaleOf(volume, leverage, multiplier))
    /\ UNCHANGED <<buckets, positive, point, level, bands, check>>

Next == Build \/ Simulate
Spec == Init /\ [][Next]_vars

-----------------------------------------------------------------------------
\* ForecastPoint, of what is forecast
ForecastPoint == [lower : Int, upper : Int, worst : Int, best : Int]

TypeOK ==
    /\ bands # None => bands \in [at : [Steps -> ForecastPoint], errors : BOOLEAN]
    /\ check # None =>
          \A t \in DOMAIN check : /\ check[t].inside \in 0..Len(buckets[t])
                                  /\ check[t].served \in (0..Len(buckets[t])) \cup {None}
    /\ whatif # None => whatif.scale >= 0

Nested(b) == b.worst <= b.lower /\ b.lower <= b.upper /\ b.upper <= b.best

\* a step with errors enough of its own, after which no step's own bounds are closer
WidestSoFar(t) ==
    LET own(u) == Sided(ConformalBounds(buckets[u], level))
    IN \A u \in t..Len(point) :
          Len(buckets[u]) >= Few /\ own(u).low <= own(t).low /\ own(t).high <= own(u).high

\* However the errors of the backtest fell, all to one side or none at all, the worst case is no
\* better than the interval and the best no worse, also when the run asks for more confidence than the
\* scenarios have; the interval holds the forecast, unless that is below nothing in a series that never
\* was; it does not narrow from one step to the next, but where it is cut at nothing; and nothing that
\* was never negative has a negative bound.  The half-widths the check gives would have held the share
\* asked for at every step, and so does the range itself at a step with errors enough of its own, where
\* it was not cut and no later step draws it in.  A what-if keeps the order and changes nothing when it changes nothing.
BandsHold ==
    /\ bands # None =>
          \A t \in Steps :
             LET b == bands.at[t] IN
             /\ Nested(b)
             /\ positive => b.worst >= 0
             /\ (positive /\ point[t] < 0) \/ (b.lower <= point[t] /\ point[t] <= b.upper)
             /\ \A u \in 1..t :
                   /\ ~positive => point[u] - bands.at[u].lower <= point[t] - b.lower
                   /\ ~positive \/ (point[t] >= 0 /\ point[u] >= 0) =>
                         bands.at[u].upper - point[u] <= b.upper - point[t]
    /\ check # None =>
          \A t \in DOMAIN check :
             /\ 100 * check[t].inside >= level * Len(buckets[t])
             /\ bands.errors /\ WidestSoFar(t) /\ ~(positive /\ point[t] <= 0) =>
                   check[t].served = None \/ 100 * check[t].served >= level * Len(buckets[t])
    /\ whatif # None =>
          \A t \in Steps :
             LET b == whatif.at[t] IN
             /\ Nested(b)
             /\ (positive /\ point[t] < 0) \/ (b.lower <= b.point /\ b.point <= b.upper)
             /\ whatif.scale = 8 =>
                   b.lower = 128 * bands.at[t].lower /\ b.best = 128 * bands.at[t].best
====================================================================================
