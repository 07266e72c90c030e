CONSTANTS
    s1 = s1  s2 = s2  y1 = y1  y2 = y2
    Request <- MCRequest
    Retry <- MCRetry
    NoValue = NoValue
    Blocked = Blocked
    Unfilled = Unfilled  Hole = Unfilled  Unreadable = Unfilled
    Limits = {2, 3}
    Workers = 2
    Asked <- MCPlans
    MaxFolds = 5
    Kinds <- MCKinds  Simplest = "naive"  Combined = "ensemble"  Costs = {1, 2}
    Residuals <- MCResiduals  Points <- MCPoints  Growths <- MCGrowths
    Levels = {50, 80, 99}  Scenario = 95  Spreads = {0, 60, 240}
    Leverages = {0, 1, 2}  Multipliers = {0, 2, 6}  Volumes = {1, 2, 4}
    MaxPeriods = 7
SPECIFICATION MCSpec
INVARIANTS ExecutedOnce SearchIsHonest FoldsAreHonest PeriodsAreSound SeriesAddUp AdviceAgrees BandsHold ChoiceIsSound
PROPERTIES JoinedRuns
\* every request answered is a place to stop
CHECK_DEADLOCK FALSE
