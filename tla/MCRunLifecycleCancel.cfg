CONSTANTS
    c1 = c1  c2 = c2
    Kinds <- AllKinds
    Cancel <- MCOneCancel
    MaxFanOuts = 1
    Chunks = 1
    MaxLosses = 0
SPECIFICATION MCSpec
PROPERTIES CompletedIsFinal
CHECK_DEADLOCK FALSE
