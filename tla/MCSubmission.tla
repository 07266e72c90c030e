----------------------------- MODULE MCSubmission -----------------------------
(***************************************************************************)
(* A forecast from the request to the numbers, for TLC: the requests under *)
(* one key, two of them retries; the models that suit a history, and the   *)
(* search among them; the folds they are tried on; the rows that become a  *)
(* history; the calendar of its periods; the series of a grouped run that  *)
(* add up, and those of a table that is forecast whole; the range around   *)
(* its numbers; and what the run is said to mean.  Explored one at a time. *)
(***************************************************************************)
EXTENDS Submission, MCHistories, TLC

CONSTANTS s1, s2, y1, y2, Workers, MaxFolds, MaxPeriods, NoValue, Blocked, Limits, Asked,
          Kinds, Simplest, Combined, Costs,
          Residuals, Points, Levels, Scenario, Growths, Spreads, Leverages, Multipliers, Volumes

MCRequest == {s1, s2, y1, y2}
MCRetry == {y1, y2}

VARIABLES part,
          kinds, short, backtest, blended, round, thread, watch, indexed, line,
          model, winner, usedFallback, sound,
          asked, cuts, cut, fold, folds, verdict,
          frequency, first, step, recorded,
          table, total, limit, leaves, fits, rows,
          run, scored, made, decision,
          buckets, positive, point, level, bands, check, whatif,
          task, prophet, values, profile, candidates, results, members, chosen, phase, why,
          frame, floor, report, matrix, outcomes, result,
          lines, preparing, series, told, payload
search == <<kinds, short, backtest, blended, round, thread, watch, indexed, line,
            model, winner, usedFallback, sound>>
plan == <<asked, cuts, cut, fold, folds, verdict>>
history == <<frequency, first, step, recorded>>
tree == <<table, total, limit, leaves, fits, rows>>
advice == <<run, scored, made, decision>>
range == <<buckets, positive, point, level, bands, check, whatif>>
choice == <<task, prophet, values, profile, candidates, results, members, chosen, phase, why>>
fan == <<frame, floor, report, matrix, outcomes, result>>
making == <<lines, preparing, series, told, payload>>

MCKinds == <<Simplest, "theta", "ets">>

ASSUME SearchAssumption ==
    /\ Kinds \in Seq({Kinds[i] : i \in DOMAIN Kinds})
    /\ \A i, j \in DOMAIN Kinds : Kinds[i] = Kinds[j] => i = j
    /\ Costs \subseteq Nat

M == INSTANCE ModelSearch WITH Naive <- Simplest, Ensemble <- Combined, stage <- round

\* histories around the lengths that afford a fold more or less
MCPlans == [n : 0..16, horizon : {1, 2, 3, 9}, period : {2, 4, 7}, folds : {0, 1, 3, 20}]
B == INSTANCE Backtest

\* the ends of December 1999 and of January, February and April 2000
C == INSTANCE Calendar WITH
        FirstDays <- {1459, 1460, 1461, 1491, 1492, 1519, 1520, 1521, 1580, 1581}

\* three series of one column, two of them named like the whole and the pool, or of two columns;
\* fits of nothing, within their band, and below zero
MCTables == [{<<"a">>, <<"Total">>, <<"Others">>} -> {<<1, 2>>, <<0, 0>>}]
            \cup [{<<"a", "x">>, <<"a", "y">>, <<"b", "x">>} -> {<<1, 2>>, <<2, -1>>}]
            \cup [{<<"a", "x">>, <<"a", "y">>, <<"b", "x">>} -> {<<0, 0>>}]
MCFits == {Blocked,
           [forecast |-> <<0, 0>>, lower |-> <<0, 0>>, upper |-> <<1, 1>>],
           [forecast |-> <<2, 1>>, lower |-> <<1, 0>>, upper |-> <<3, 3>>],
           [forecast |-> <<-1, 3>>, lower |-> <<-2, 1>>, upper |-> <<0, 4>>]}
H == INSTANCE Hierarchy WITH
        None <- NoValue, Tables <- MCTables, Totals <- {<<6, 0>>, <<-4, 6>>}, MaxSeries <- Limits, Fits <- MCFits,
        Place <- [Others |-> 1, Total |-> 2, a |-> 3, b |-> 4, x |-> 5, y |-> 6]

\* a narrow band and a wide one, one from nothing, none; a history that grows, that stands still and
\* that is too short; errors with an outlier, and alternating ones
MCPeriod == {[forecast |-> 10, lower |-> 9, upper |-> 11, worst |-> 9],
             [forecast |-> 10, lower |-> 4, upper |-> 16, worst |-> 8],
             [forecast |-> 10, lower |-> 0, upper |-> 20, worst |-> 0],
             [forecast |-> 0, lower |-> 0, upper |-> 1, worst |-> 0],
             [forecast |-> 10, lower |-> NoValue, upper |-> NoValue, worst |-> NoValue]}
MCPeriods == UNION {[1..n -> MCPeriod] : n \in 0..2}
             \cup {[i \in 1..3 |-> [forecast |-> 10, lower |-> 9, upper |-> 11, worst |-> 9]]}
Quiet == [history |-> <<>>, residuals |-> <<>>, regions |-> <<>>, categories |-> <<>>, drivers |-> {},
          atRisk |-> <<>>]
Sides ==
    {Quiet,
     [Quiet EXCEPT !.history = <<8, 10>>, !.regions = <<[change |-> NoValue]>>, !.atRisk = <<1, 1, 1>>],
     [Quiet EXCEPT !.history = <<20, 20>>, !.residuals = <<0, 0, 0, 0, 0, 0, 0, 9>>,
        !.regions = <<[change |-> 4], [change |-> -4]>>,
        !.categories = <<[change |-> -3], [change |-> NoValue]>>,
        !.drivers = {5, -5}, !.atRisk = <<1, 5, 0, 1, 1>>],
     [Quiet EXCEPT !.history = <<5>>, !.residuals = <<0, 1, -1, NoValue, 1, -1, 1, -1, 0, 1>>,
        !.drivers = {4, -7}, !.atRisk = <<3, 1, 2, 4, 1>>]}
MCRun == Quiet @@ [accuracy |-> NoValue, previous |-> NoValue, periods |-> <<>>, confidence |-> 90]
MCRuns == {side @@ [accuracy |-> a, previous |-> p, periods |-> ps, confidence |-> 90] :
             side \in Sides, a \in {NoValue, 60, 77, 85}, p \in {NoValue, 77}, ps \in MCPeriods}
A == INSTANCE Advice WITH
        None <- NoValue, Runs <- MCRuns,
        Scores <- {[wmape |-> 0, bias |-> NoValue, coverage |-> 95], [wmape |-> 20, bias |-> -12, coverage |-> 80],
                   [wmape |-> 20, bias |-> NoValue, coverage |-> 80], [wmape |-> 120, bias |-> -12, coverage |-> 95]},
        Limit <- 8, AccuracyWarning <- 80, AccuracyPlannable <- 75, DownsideSevere <- 15

\* no errors, too few, as many to one side as they need be, more of both, and none that miss
MCResiduals == {<<>>, <<120>>, <<0, -240, -120>>, <<120, 360, 120, 240, 120, 240, 120, 240>>,
                <<0, -240, 0, -120, 360, 0, -240, -120, 120>>, <<0, 0, 0, 0, 0, 0, 0, 0>>}
MCPoints == {<<0, 240>>, <<480, 120>>, <<-120, 120>>}
MCGrowths == {<<2, 2>>, <<2, 3>>, <<2, 4>>}

\* confidence is a share between none and all
ASSUME BandsAssumption ==
    /\ \A errors \in Residuals : errors \in Seq(Int)
    /\ \A p \in Points : p \in Seq(Int) /\ \A g \in Growths : g \in [DOMAIN p -> Nat \ {0, 1}]
    /\ Levels \cup {Scenario} \subseteq 1..99
    /\ Spreads \cup Leverages \cup Multipliers \cup Volumes \subseteq Nat

R == INSTANCE Bands WITH None <- NoValue

K == INSTANCE Candidates WITH
        None <- NoValue, Gap <- Unfilled, Tasks <- MCTasks, Cuts <- {8, 12}, Horizon <- 4, Season <- 4, model <- chosen, stage <- phase

F == INSTANCE FanOut WITH
        None <- NoValue, Gap <- Hole, Season <- 2, Ids <- MCIds, Tables <- MCFrames, Floors <- {NoValue, 2},
        Figures <- {<<1, 2>>, <<3, 0>>}, Horizon <- 2, MaxSeries <- 2, MaxPeriods <- 9

L == INSTANCE History WITH
        Gap <- Unreadable, None <- Unreadable, Season <- 2, Tables <- MCTablesOfRows, Asked <- MCAsked,
        Width <- 2, Year <- 2, MaxSegments <- 2, rows <- lines, asked <- preparing

\* what is not explored is as it is with nothing to do
Failed == [held |-> FALSE, cost |-> 0]
AllFailed == [k \in {Kinds[i] : i \in DOMAIN Kinds} |-> Failed]
MCInit ==
    /\ part \in {"request", "search", "plan", "calendar", "tree", "advice", "range", "choice", "fan", "rows"}
    /\ part # "plan" => asked = [n |-> 0, horizon |-> 1, period |-> 2, folds |-> 0]
    /\ part # "calendar" => frequency = "daily" /\ first = 1459
    /\ IF part = "tree" THEN H!Init ELSE table = <<>> /\ total = <<0, 0>> /\ limit = 2 /\ H!Unread
    /\ IF part = "advice" THEN A!Init ELSE run = MCRun /\ A!Untold
    /\ IF part = "range" THEN R!Init
       ELSE point = <<0, 0>> /\ positive = TRUE /\ level = 50 /\ buckets = <<<<>>, <<>>>> /\ R!Unbuilt
    /\ IF part = "choice" THEN K!Init ELSE K!Given(Asking(<<1>>, {}, "auto", FALSE), FALSE)
    /\ IF part = "fan" THEN F!Init ELSE frame = <<>> /\ floor = NoValue /\ F!Unjudged
    /\ IF part = "rows" THEN L!Init ELSE lines = <<>> /\ preparing = Unreadable /\ L!Unmade
    /\ Init /\ B!Init /\ C!Init
    /\ IF part = "search" THEN M!Init ELSE kinds = <<>> /\ short = TRUE /\ blended = Failed /\ backtest = AllFailed /\ M!Unstarted
MCNext == \/ part = "request" /\ Next /\ UNCHANGED <<part, search, plan, history, tree, advice, range, choice, fan, making>>
          \/ part = "search" /\ M!Next /\ UNCHANGED <<part, vars, plan, history, tree, advice, range, choice, fan, making>>
          \/ part = "plan" /\ B!Next /\ UNCHANGED <<part, vars, search, history, tree, advice, range, choice, fan, making>>
          \/ part = "calendar" /\ C!Next /\ UNCHANGED <<part, vars, search, plan, tree, advice, range, choice, fan, making>>
          \/ part = "tree" /\ H!Next /\ UNCHANGED <<part, vars, search, plan, history, advice, range, choice, fan, making>>
          \/ part = "advice" /\ A!Next /\ UNCHANGED <<part, vars, search, plan, history, tree, range, choice, fan, making>>
          \/ part = "range" /\ R!Next /\ UNCHANGED <<part, vars, search, plan, history, tree, advice, choice, fan, making>>
          \/ part = "choice" /\ K!Next /\ UNCHANGED <<part, vars, search, plan, history, tree, advice, range, fan, making>>
          \/ part = "fan" /\ F!Next /\ UNCHANGED <<part, vars, search, plan, history, tree, advice, range, choice, making>>
          \/ part = "rows" /\ L!Next /\ UNCHANGED <<part, vars, search, plan, history, tree, advice, range, choice, fan>>
MCSpec == /\ MCInit /\ [][MCNext]_<<part, vars, search, plan, history, tree, advice, range, choice, fan, making>>
          /\ \A r \in Request : WF_vars(part = "request" /\ Resume(r))

\* see ModelSearch: the winner does not depend on the threads, what is returned is what was
\* backtested, and the lines told on the way are true
SearchIsHonest == part = "search" => M!TypeOK /\ M!SearchIsHonest

\* see Backtest: no model is scored on what it was trained on
FoldsAreHonest == B!FoldsAreHonest

\* see Calendar and History: periods adjoin, settle on their last day, and tell their frequency; no row is
\* lost on the way into them, and what is told of gaps, segments and drivers is what is done with them
PeriodsAreSound ==
    /\ part = "calendar" => C!CalendarAgrees
    /\ part = "rows" => L!TypeOK /\ L!NothingIsLost /\ L!GapsAreTold /\ L!DampingIsMild /\ L!BesideIt

\* see Hierarchy and FanOut: the series of a grouped run add up to its total at every node; each series
\* of a table is answered once, in the way that was shown for it, and the levels above are their sums
SeriesAddUp ==
    /\ part = "tree" => H!TypeOK /\ H!HierarchyAddsUp
    /\ part = "fan" => F!TypeOK /\ F!EachIsAnswered /\ F!CoverageAgrees /\ F!ParentsAddUp

\* see Advice: the insights of a run do not contradict one another, nor what is decided from it
AdviceAgrees == part = "advice" => A!TypeOK /\ A!InsightsAgree /\ A!DecisionAgrees

\* see Bands: a range is in order, holds its forecast and widens, and a what-if keeps it so
BandsHold == part = "range" => R!TypeOK /\ R!BandsHold

\* see Candidates: only what suits a history is fitted to it, something always is, what a refusal advises
\* works, gaps are filled and nothing else, and errors are measured by what can be computed
ChoiceIsSound ==
    part = "choice" => K!TypeOK /\ K!OnlySuited /\ K!AlwaysAnAnswer /\ K!FallbackFits /\ K!AdviceWorks /\ K!FillKeepsRecorded /\ K!PlanFits
===============================================================================
