---------------------------------- MODULE FanOut ----------------------------------
(***************************************************************************)
(* The series of a canonical table (app/schema): each is judged by itself  *)
(* and told which way it will be forecast (validation.py), they are laid   *)
(* on one calendar (coverage.py), and forecast each on a thread of a pool, *)
(* with a fallback where no model fits, and summed to the levels above     *)
(* them (fanout.py).  What a history is, is in Routing; whether a fit is   *)
(* blocked for another reason than its length, and its figures, are left   *)
(* open.  A shift of level is looked for in longer histories than those    *)
(* here, and left out.                                                     *)
(***************************************************************************)
EXTENDS Routing

CONSTANTS
    None,
    Ids,            \* the identities of series, each the sequence of its parts, in the order of their texts
    Tables,         \* canonical frames: for each series its rows, <<period, value>>
    Floors,         \* min_history, or None
    Figures,        \* forecasts
    Horizon, MaxSeries, MaxPeriods

VARIABLES
    frame, floor,
    report, matrix,
    outcomes,       \* for each series forecast so far what came of it
    result

vars == <<frame, floor, report, matrix, outcomes, result>>

-----------------------------------------------------------------------------
(* validation.py *)
Periods(g) == {g[i][1] : i \in DOMAIN g}
Values(g) == [i \in DOMAIN g |-> g[i][2]]
Span(a, b) == b - a + 1
Positive(v) == {i \in Known(v) : v[i] > 0}

\* of no demand at all, seldom, or in bursts
Seldom(p) == p.class \in {"intermittent", "lumpy", "no_demand"}
IsIntermittent(v, adaptive) ==
    \/ 10 * Cardinality(Zeros(v)) >= 3 * Cardinality(Known(v))
    \/ adaptive /\ Profile(v).nonNegative /\ Seldom(Profile(v))

\* _outlier_count
Outliers(v) == IF Len(v) < 5 THEN {} ELSE Far(v)

\* what is said of a series that can be fitted
Shape(v, adaptive) ==
    CASE Zeros(v) = Known(v) -> {"all_zero"}
      [] Zeros(v) # Known(v) /\ IsIntermittent(v, adaptive) -> {"intermittent_demand"}
      [] Cardinality(ToSet(Recorded(v))) = 1 /\ Zeros(v) = {} -> {"constant_target"}
      [] OTHER -> {}
Findings(g, needed, adaptive) ==
    LET v == Values(g)
        said(code, when) == IF when THEN {code} ELSE {}
    IN said("short_history", Len(g) < needed) \cup Shape(v, adaptive)
       \cup said("negative_values", \E i \in Known(v) : v[i] < 0)
       \cup said("calendar_gaps", Span(g[1][1], g[Len(g)][1]) > Cardinality(Periods(g)))
       \cup said("leading_nulls", v[1] = Gap) \cup said("trailing_nulls", v[Len(v)] = Gap)
       \cup said("outliers", Outliers(Recorded(v)) # {})

Rejected(g, code) == [status |-> "reject", route |-> "none", observations |-> Len(g), findings |-> {code}]

\* _check_series
Checked(g, least) ==
    LET v == Values(g)
        adaptive == least = None
        needed == IF adaptive THEN Max({2, Floor(Profile(v))}) ELSE least
        findings == Findings(g, needed, adaptive)
    IN CASE Len(g) < 2 -> Rejected(g, "no_history")
         [] Len(g) >= 2 /\ Known(v) = {} -> Rejected(g, "all_null")
         [] OTHER -> [status |-> IF findings = {} THEN "ok" ELSE "warn",
                      route |-> IF Len(g) < needed \/ IsIntermittent(v, adaptive) THEN "fallback" ELSE "model",
                      observations |-> Len(g), findings |-> findings]

-----------------------------------------------------------------------------
(* coverage.py *)
Before(a, b) == \E i, j \in DOMAIN Ids : i < j /\ Ids[i] = a /\ Ids[j] = b
Start(g) == g[1][1]
End(g) == g[Len(g)][1]

Row(id, shown) ==
    LET g == frame[id]
        present == {i \in DOMAIN g : g[i][1] \in shown}
    IN [id |-> id, observations |-> Cardinality(present), gaps |-> Cardinality(shown) - Cardinality(present),
        zeros |-> Cardinality({i \in present : g[i][2] = 0}),
        status |-> report[id].status, route |-> report[id].route,
        first |-> Min({g[i][1] : i \in present} \cup {Max(shown) + 1})]

\* the sparsest stay when there are too many
Sparser(a, b) == a.gaps > b.gaps \/ (a.gaps = b.gaps /\ Before(a.id, b.id))
Sooner(a, b) == a.first < b.first \/ (a.first = b.first /\ Before(a.id, b.id))
Matrix ==
    IF DOMAIN frame = {} THEN [periods |-> {}, total |-> 0, rows |-> <<>>]
    ELSE LET end == Max({End(frame[id]) : id \in DOMAIN frame})
             start == Min({Start(frame[id]) : id \in DOMAIN frame})
             shown == Max({start, end - MaxPeriods + 1})..end
             rows == SetToSortSeq({Row(id, shown) : id \in DOMAIN frame}, Sparser)
             kept == ToSet(SubSeq(rows, 1, Min({MaxSeries, Len(rows)})))
         IN [periods |-> shown, total |-> Span(start, end), rows |-> SetToSortSeq(kept, Sooner)]

-----------------------------------------------------------------------------
(* fanout.py *)
\* fallback_kind
FallbackKind(v) ==
    CASE Seldom(Profile(v)) -> "croston"
      [] ~Seldom(Profile(v)) /\ Len(v) >= 2 * Season -> "seasonal_naive"
      [] OTHER -> "naive"
\* _fallback: whatever is no number is zero
Numbers(v) == [i \in DOMAIN v |-> IF v[i] = Gap THEN 0 ELSE v[i]]
Fallback(g) ==
    LET v == Numbers(Values(g))
        kind == FallbackKind(v)
    IN IF Builds(kind, Profile(v), {}, FALSE) /\ Fits(kind, v, Profile(v))
       THEN {[failed |-> FALSE, route |-> "fallback", model |-> kind, points |-> f] : f \in Figures}
       ELSE {[failed |-> TRUE, route |-> "fallback", model |-> None, points |-> <<>>]}

\* fit_leaf with gap_fill at its default: it may say that it is blocked, and must of gaps and short histories
LeafFits(g) ==
    IF Known(Values(g)) = DOMAIN g /\ Len(g) >= Floor(Profile(Values(g)))
    THEN {[failed |-> FALSE, route |-> "model", model |-> "best", points |-> f] : f \in Figures} ELSE {}

\* _forecast_one
LeafOnly(g, route) ==
    IF route = "model" /\ LeafFits(g) # {} THEN LeafFits(g)
    ELSE {[failed |-> TRUE, route |-> route, model |-> None, points |-> <<>>]}
ForecastOne(g, route) == (IF route = "model" THEN LeafFits(g) ELSE {}) \cup Fallback(g)

\* future_periods: each series goes on from its own last period
Rows(id) == {<<id, End(frame[id]) + k, outcomes[id].points[k]>> : k \in DOMAIN outcomes[id].points}
Under(id, depth) == SubSeq(id, 1, Min({depth, Len(id)}))
\* _bottom_up
Parents(rows, levels) ==
    {<<depth, Under(row[1], depth), row[2],
       MapThenSumSet(LAMBDA r : r[3], {r \in rows : Under(r[1], depth) = Under(row[1], depth) /\ r[2] = row[2]})>> :
       depth \in 1..(levels - 1), row \in rows}

-----------------------------------------------------------------------------
Unjudged == report = None /\ matrix = None /\ outcomes = <<>> /\ result = None
Init == frame \in Tables /\ floor \in Floors /\ Unjudged

\* validate_canonical
Validate ==
    /\ report = None
    /\ report' = [id \in DOMAIN frame |-> Checked(frame[id], floor)]
    /\ UNCHANGED <<frame, floor, matrix, outcomes, result>>

\* coverage_for
Draw ==
    /\ report # None /\ matrix = None /\ floor = None
    /\ matrix' = Matrix
    /\ UNCHANGED <<frame, floor, report, outcomes, result>>

Fittable == {id \in DOMAIN frame : report[id].status # "reject"}
\* the threads of the pool, in whatever order they come to an end
Forecast(id) ==
    /\ report # None /\ id \in Fittable \ DOMAIN outcomes
    /\ \E o \in ForecastOne(frame[id], report[id].route) :
          outcomes' = [i \in DOMAIN outcomes \cup {id} |-> IF i = id THEN o ELSE outcomes[i]]
    /\ UNCHANGED <<frame, floor, report, matrix, result>>

\* what the pool gave is taken in the order of the series
Gather ==
    /\ report # None /\ result = None /\ DOMAIN outcomes = Fittable
    /\ LET rows == UNION {Rows(id) : id \in Fittable}
           named(S, code(_)) == [i \in 1..Cardinality(S) |-> [id |-> SetToSortSeq(S, Before)[i],
                                                           code |-> code(SetToSortSeq(S, Before)[i])]]
           rejected == DOMAIN frame \ Fittable
           failed == {id \in Fittable : outcomes[id].failed}
       IN result' = [rows |-> rows, models |-> [id \in Fittable \ failed |-> outcomes[id].model], parents |-> Parents(rows, Max({Len(id) : id \in DOMAIN frame} \cup {0})),
                     errors |-> named(rejected, LAMBDA id : CHOOSE c \in report[id].findings : TRUE)
                                \o named(failed, LAMBDA id : "fit_failed")]
    /\ UNCHANGED <<frame, floor, report, matrix, outcomes>>

Next == Validate \/ Draw \/ Gather \/ \E id \in ToSet(Ids) : id \in DOMAIN frame /\ Forecast(id)
Spec == Init /\ [][Next]_vars

-----------------------------------------------------------------------------
(* What they hand on. *)
Code == {"no_history", "all_null", "short_history", "all_zero", "intermittent_demand", "constant_target",
         "negative_values", "calendar_gaps", "leading_nulls", "trailing_nulls", "outliers"}
SeriesReport == [status : {"ok", "warn", "reject"}, route : {"model", "fallback", "none"},
                 observations : Nat, findings : SUBSET Code]
ValidationReport == [DOMAIN frame -> SeriesReport]

CoverageRow == [id : DOMAIN frame, observations : Nat, gaps : Nat, zeros : Nat, first : Int,
                status : {"ok", "warn", "reject"}, route : {"model", "fallback", "none"}]
SeriesTruncated == Len(matrix.rows) < Cardinality(DOMAIN frame)
PeriodsTruncated == Cardinality(matrix.periods) < matrix.total
CoverageMatrix ==
    /\ \A i \in DOMAIN matrix.rows : matrix.rows[i] \in CoverageRow
    /\ SeriesTruncated => Len(matrix.rows) = MaxSeries
    /\ PeriodsTruncated => Cardinality(matrix.periods) = MaxPeriods

SeriesError == [id : DOMAIN frame, code : Code \cup {"fit_failed"}]
FanOutResult ==
    /\ \A i \in DOMAIN result.errors : result.errors[i] \in SeriesError
    /\ DOMAIN result.models = {row[1] : row \in result.rows}

TypeOK ==
    /\ report # None => report \in ValidationReport
    /\ matrix # None => CoverageMatrix
    /\ DOMAIN outcomes \subseteq DOMAIN frame
    /\ result # None => report # None /\ FanOutResult

\* Every series is answered once, by its forecast for each period or by one error; and an error is of a
\* series that has too little to say: one value, or none above zero twice. A series whose coverage was
\* shown with a model to come is forecast, unless there are values below zero or none in it, and none is
\* given a model that was shown with less.
EachIsAnswered ==
    result # None => \A id \in DOMAIN frame :
        LET errors == {i \in DOMAIN result.errors : result.errors[i].id = id}
            rows == {r \in result.rows : r[1] = id}
            v == Values(frame[id])
        IN /\ Cardinality(errors) + Cardinality({r[2] : r \in rows}) \div Horizon = 1
           /\ \A r, q \in rows : r[2] = q[2] => r = q
           /\ rows # {} => {r[2] : r \in rows} = (End(frame[id]) + 1)..(End(frame[id]) + Horizon)
           /\ errors # {} => Len(v) < 2 \/ Cardinality(Positive(v)) < 2
           /\ report[id].route = "model" /\ (\A i \in DOMAIN v : v[i] # Gap /\ v[i] >= 0) => errors = {}
           /\ rows # {} /\ outcomes[id].route = "model" => report[id].route = "model"

\* What is drawn is what was judged: a series that is shown whole shows a hole between its ends just
\* when it was told that its calendar has gaps, and nothing but zeros when it was told that too; only
\* the oldest periods and the fullest series are left away, and the rows are in the order they begin.
CoverageAgrees ==
    matrix # None =>
        LET shown == {row.id : row \in ToSet(matrix.rows)}
            full == ~PeriodsTruncated
        IN /\ Cardinality(shown) = Len(matrix.rows) /\ Len(matrix.rows) = Min({MaxSeries, Cardinality(DOMAIN frame)})
           /\ \A i, j \in DOMAIN matrix.rows : i < j => matrix.rows[i].first <= matrix.rows[j].first
           /\ \A row \in ToSet(matrix.rows) :
                 LET g == frame[row.id] IN
                 /\ row.observations + row.gaps = Cardinality(matrix.periods)
                 /\ full /\ row.status # "reject" =>
                      /\ row.observations = report[row.id].observations
                      /\ "calendar_gaps" \in report[row.id].findings <=> row.gaps > matrix.total - Span(Start(g), End(g))
                      /\ "all_zero" \in report[row.id].findings <=> row.zeros = Cardinality(Known(Values(g)))
           /\ \A id \in DOMAIN frame \ shown, row \in ToSet(matrix.rows) :
                 Cardinality({p \in Periods(frame[id]) : p \in matrix.periods}) >= row.observations

\* Every level above the series has, period by period, the sum of what was forecast for them.
ParentsAddUp ==
    result # None =>
        \A p \in result.parents :
           /\ \A q \in result.parents : p[1] = q[1] /\ p[2] = q[2] /\ p[3] = q[3] => p = q
           /\ LET above == {q \in result.parents : q[1] = p[1] /\ q[3] = p[3]}
              IN MapThenSumSet(LAMBDA q : q[4], above) = MapThenSumSet(LAMBDA r : r[3], {r \in result.rows : r[2] = p[3]})
====================================================================================
