CONSTANTS
    hourly = hourly  byhand = byhand
    Run <- MCRun
    Keep = 1
    Batch = 1
    MaxScenarios = 1
    Pass <- MCPass
    Scored = {1, 2}  Horizon <- MCHorizon  Predicted <- MCPredicted
    File = {1, 2, 3, 4}  Reach <- MCReach  Total <- MCTotal
    MaxScorings = 2
SYMMETRY MCSymmetry
SPECIFICATION MCSpec
INVARIANTS CardsAreHonest
PROPERTIES NewestStay
\* every run removed, and every pass idle, is a place to stop
CHECK_DEADLOCK FALSE
