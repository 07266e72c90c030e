---------------------------------- MODULE Advice ----------------------------------
(***************************************************************************)
(* What a run is told to mean, twice: the insights written when it has     *)
(* been fitted (insights/generators.py and engine.py), of which the page   *)
(* shows the weightiest; and the decision worked out from what is stored   *)
(* whenever somebody asks for it (forecasting/decisions.py), also after    *)
(* the run has been scored.  Percentages are whole numbers.                *)
(***************************************************************************)
EXTENDS Integers, Sequences, FiniteSets, FiniteSetsExt, TLC

CONSTANTS
    None,               \* Python's None, and what is not finite
    Runs,               \* the runs looked at
    Scores,             \* what scoring may find
    Limit,              \* how many insights a page shows
    AccuracyWarning, AccuracyPlannable, DownsideSevere   \* core/config.py

VARIABLES
    run,        \* what was fitted: accuracy, previous, history, residuals, periods, regions,
                \* categories, drivers, atRisk
    scored,     \* wmape, bias and coverage, or None
    made,       \* what the generators said, or None before they were asked
    decision    \* or None

vars == <<run, scored, made, decision>>

Sum(s) == LET to[i \in 0..Len(s)] == IF i = 0 THEN 0 ELSE to[i - 1] + s[i] IN to[Len(s)]
Abs(x) == IF x < 0 THEN -x ELSE x
Base(r) == Sum([i \in DOMAIN r.periods |-> r.periods[i].forecast])
Worst(r) ==
    IF \E i \in DOMAIN r.periods : r.periods[i].worst = None THEN None
    ELSE Sum([i \in DOMAIN r.periods |-> r.periods[i].worst])

-----------------------------------------------------------------------------
(* The generators, each of which finds one thing or nothing. *)
Say(type, severity, weight, says) ==
    {[type |-> type, severity |-> severity, weight |-> weight, says |-> says]}
SayIf(test, finding) == IF test THEN finding ELSE {}

AccuracyChange(r) ==
    IF r.accuracy = None THEN {}
    ELSE IF r.previous = None
         THEN IF r.accuracy < AccuracyWarning THEN Say("accuracy", "warning", 70, "directional")
              ELSE Say("accuracy", "positive", 60, "reliable")
    ELSE SayIf(r.accuracy > r.previous, Say("accuracy", "positive", 65, "improving"))
         \cup SayIf(r.accuracy < r.previous, Say("accuracy", "warning", 75, "degrading"))

ForecastGap(r) ==
    LET window == Min({Len(r.periods), Len(r.history)})
        baseline == Sum(SubSeq(r.history, Len(r.history) - window + 1, Len(r.history)))
        change == Sum([i \in 1..window |-> r.periods[i].forecast]) - baseline
    IN SayIf(window > 0 /\ baseline # 0 /\ 20 * Abs(change) >= Abs(baseline),
             IF change > 0 THEN Say("gap", "positive", 80, "growth")
             ELSE Say("gap", "warning", 80, "contraction"))

\* (base - worst) / |base| reaches so many percent
Downside(r, percent) ==
    Base(r) # 0 /\ Worst(r) # None /\ 100 * (Base(r) - Worst(r)) >= percent * Abs(Base(r))
WorstCaseRisk(r) ==
    SayIf(Downside(r, 3),
          IF Downside(r, DownsideSevere) THEN Say("worst", "critical", 85, "contingency")
          ELSE Say("worst", "warning", 70, "reserve"))

\* the largest of the last six residuals that there are, in standard deviations of all of them
Anomaly(r) ==
    LET known == SelectSeq(r.residuals, LAMBDA x : x # None)
        n == Len(known)
        spread == n * Sum([i \in 1..n |-> known[i] * known[i]]) - Sum(known) * Sum(known)
    IN SayIf(n >= 8 /\ spread > 0 /\ \E i \in (n - 5)..n : 4 * n * n * known[i] * known[i] >= 25 * spread,
             Say("anomaly", "warning", 78, "anomaly"))

Changes(segments) == {segments[i].change : i \in DOMAIN segments} \ {None}
RegionalGrowth(r) ==
    SayIf(\E x \in Changes(r.regions) : x >= 3, Say("region", "positive", 72, "supply"))
CategoryDecline(r) ==
    SayIf(\E x \in Changes(r.categories) : x <= -3, Say("category", "warning", 74, "review"))

\* the strongest, if it moves the forecast by five percent
DriverPositive(r) ==
    SayIf(\E x \in r.drivers : x >= 5, Say("driver up", "positive", 68, "protect"))
DriverNegative(r) ==
    SayIf(\E x \in r.drivers : x <= -5, Say("driver down", "warning", 76, "drag"))

ConfidenceWidening(r) ==
    LET width(i) == r.periods[i].upper - r.periods[i].lower
    IN SayIf(/\ Len(r.periods) >= 3
             /\ \A i \in {1, Len(r.periods)} : None \notin {r.periods[i].upper, r.periods[i].lower}
             /\ width(1) > 0 /\ 5 * width(Len(r.periods)) >= 9 * width(1),
             Say("widening", "info", 45, "range"))

RecommendationUnaware(r) ==
    IF r.accuracy # None /\ r.accuracy < AccuracyPlannable
    THEN Say("advice", "warning", 90, "improve data")
    ELSE Say("advice", "info", 40, "hold the plan")

Recommendation(r) ==
    IF r.periods = <<>> THEN {}
    ELSE IF r.accuracy # None /\ r.accuracy < AccuracyPlannable
         THEN Say("advice", "warning", 90, "improve data")
    ELSE IF Downside(r, DownsideSevere) THEN Say("advice", "warning", 88, "plan for the downside")
    ELSE IF r.regions # <<>> THEN Say("advice", "info", 55, "concentrate")
    ELSE Say("advice", "info", 40, "hold the plan")

Order == <<"accuracy", "gap", "worst", "anomaly", "region", "category", "driver up", "driver down",
           "widening", "advice">>
Findings(r) ==
    AccuracyChange(r) \cup ForecastGap(r) \cup WorstCaseRisk(r) \cup Anomaly(r) \cup RegionalGrowth(r)
    \cup CategoryDecline(r) \cup DriverPositive(r) \cup DriverNegative(r) \cup ConfidenceWidening(r)
    \cup Recommendation(r)

Bonus == [critical |-> 30, warning |-> 15, positive |-> 5, info |-> 0]
Score(f) == f.weight + Bonus[f.severity]
Place(f) == CHOOSE i \in DOMAIN Order : Order[i] = f.type
Ahead(f, g) == Score(f) > Score(g) \/ (Score(f) = Score(g) /\ Place(f) < Place(g))
Shown == {f \in made : Cardinality({g \in made : Ahead(g, f)}) < Limit}

-----------------------------------------------------------------------------
(* The decision. *)
GradeFor(accuracy) ==
    IF accuracy = None \/ accuracy < 55 THEN "indicative"
    ELSE IF accuracy < 75 THEN "directional" ELSE "plannable"
Firm(p) == None \notin {p.lower, p.upper} /\ p.forecast # 0 /\ 5 * (p.upper - p.lower) <= 3 * Abs(p.forecast)
ReliableHorizon(periods) ==
    Max({k \in 0..Len(periods) : \A i \in 1..k : Firm(periods[i])})

\* the largest first, until they hold half of what is at risk
ConcentrationOf(atRisk) ==
    LET positive == SortSeq(SelectSeq(atRisk, LAMBDA x : x > 0), LAMBDA a, b : a > b)
        held(k) == Sum(SubSeq(positive, 1, k))
        n == Len(positive)
        count == Min({k \in 1..n : 2 * held(k) >= held(n)})
    IN IF n = 0 THEN None
       ELSE [count |-> count, total |-> n, held |-> held(count), all |-> held(n)]
Lopsided(c) == c # None /\ c.count < c.total /\ c.held * c.total >= 2 * c.count * c.all

\* a bound of nothing at all is taken for no bound (point.lower or point.forecast)
BoundOr(bound, forecast) == IF bound \in {None, 0} THEN forecast ELSE bound
Bounded(periods) == \E i \in DOMAIN periods : None \notin {periods[i].lower, periods[i].upper}
TotalOf(r, bounds) ==
    IF Bounded(r.periods)
    THEN Sum([i \in DOMAIN r.periods |-> BoundOr(bounds[i], r.periods[i].forecast)])
    ELSE Base(r)
Commit(r) == TotalOf(r, [i \in DOMAIN r.periods |-> r.periods[i].lower])
Prepare(r) == TotalOf(r, [i \in DOMAIN r.periods |-> r.periods[i].upper])
DownsideOf(r, percent) ==
    LET worst == IF Worst(r) = None THEN Commit(r) ELSE Worst(r)
    IN IF Base(r) = 0 THEN percent <= 0 ELSE 100 * (Base(r) - worst) >= percent * Abs(Base(r))

Lean(s) == s # None /\ s.bias # None /\ s.wmape # 0 /\ 2 * Abs(s.bias) >= s.wmape
Accuracy(r, s) == IF s = None THEN r.accuracy ELSE IF s.wmape >= 100 THEN None ELSE 100 - s.wmape

Actions(r, s) ==
    LET grade == GradeFor(Accuracy(r, s))
        out == (IF Lean(s) THEN {"correct the plan"} ELSE {})
               \cup (IF grade = "indicative" THEN {"set no targets"} ELSE {})
               \cup (IF grade = "directional" THEN {"commit at the total"} ELSE {})
               \cup (IF ReliableHorizon(r.periods) < Len(r.periods) THEN {"forecast again"} ELSE {})
               \cup (IF DownsideOf(r, 5) THEN {"hold cover"} ELSE {})
               \cup (IF Lopsided(ConcentrationOf(r.atRisk)) THEN {"start with the few"} ELSE {})
               \cup (IF s # None /\ s.coverage # None /\ s.coverage < r.confidence
                     THEN {"widen the range"} ELSE {})
    IN IF out = {} THEN {"commit as it stands"} ELSE out

Decided(r, s) ==
    IF r.periods = <<>> THEN None
    ELSE [accuracy |-> Accuracy(r, s), commit |-> Commit(r), base |-> Base(r), prepare |-> Prepare(r),
          few |-> ConcentrationOf(r.atRisk), actions |-> Actions(r, s)]

-----------------------------------------------------------------------------
Untold == scored = None /\ made = None /\ decision = None
Init == run \in Runs /\ Untold

\* generate_insights: a generator that raises is passed over
Explain ==
    /\ made = None
    /\ \E lost \in {{}} \cup {{f} : f \in Findings(run)} : made' = Findings(run) \ lost
    /\ UNCHANGED <<run, scored, decision>>

\* score_run
Settle ==
    /\ scored = None /\ made # None
    /\ scored' \in Scores
    /\ UNCHANGED <<run, made, decision>>

\* dashboard_service.decision
Decide ==
    /\ made # None
    /\ decision' = Decided(run, scored)
    /\ UNCHANGED <<run, scored, made>>

Next == Explain \/ Settle \/ Decide
Spec == Init /\ [][Next]_vars

-----------------------------------------------------------------------------
TypeOK ==
    /\ scored \in Scores \cup {None}
    /\ made # None => \A f, g \in made : f.type = g.type => f = g
    /\ decision # None => decision.actions # {}

Told == {f.says : f \in Shown}

\* Among the insights the page shows none contradicts another: nobody is told to hold the plan, or to
\* concentrate on a region, beside a severe worst case, and figures that are called reliable are not
\* called directional; what is left out is never graver than what is shown.
InsightsAgree ==
    made # None =>
    /\ Told \cap {"hold the plan", "concentrate"} # {} => "contingency" \notin Told
    /\ "reliable" \in Told => "improve data" \notin Told
    /\ \A f \in made \ Shown, g \in Shown : Bonus[f.severity] <= Bonus[g.severity]

\* The decision of a run not yet scored agrees with its insights: whoever is told to commit to the
\* plan as it stands reads neither of a severe worst case nor of figures too inaccurate to plan with
\* (between AccuracyPlannable and AccuracyWarning the accuracy insight calls figures directional that
\* the decision calls firm), and whoever is told to set no targets is not told that they are reliable.
\* What to commit to is at most the base case and what to prepare for at least that; and no fewer
\* series than those to start with hold half of what is at risk.
DecisionAgrees ==
    decision # None =>
    /\ scored = None /\ decision.actions = {"commit as it stands"} =>
          /\ Told \cap {"contingency", "improve data", "plan for the downside"} = {}
          /\ "directional" \in Told => run.accuracy >= AccuracyPlannable
    /\ scored = None /\ "set no targets" \in decision.actions => "reliable" \notin Told
    /\ decision.commit <= decision.base /\ decision.base <= decision.prepare
    /\ decision.few # None =>
          \A few \in SUBSET DOMAIN run.atRisk :
             Cardinality(few) < decision.few.count =>
                2 * MapThenSumSet(LAMBDA i : run.atRisk[i], few) < decision.few.all
===================================================================================
