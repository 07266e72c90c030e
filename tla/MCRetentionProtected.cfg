CONSTANTS
    hourly = hourly  byhand = byhand
    Run <- MCRun
    Keep = 1
    Batch = 2
    MaxScenarios = 1
    Pass <- MCOnePass
    Scored = {1, 2}  Horizon <- MCHorizon  Predicted <- MCPredicted
    File = {1, 2, 3, 4}  Reach <- MCReach  Total <- MCTotal
    MaxScorings = 0
SPECIFICATION MCSpec
PROPERTIES ProtectedStay
\* every run removed, and every pass idle, is a place to stop
CHECK_DEADLOCK FALSE
