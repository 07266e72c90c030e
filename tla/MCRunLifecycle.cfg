CONSTANTS
    c1 = c1  c2 = c2
    Kinds <- AllKinds
    Cancel <- MCCancel
    MaxFanOuts = 2
    Chunks = 2
    MaxLosses = 2
SPECIFICATION MCFairSpec
INVARIANTS CompletedIsWhole NoOrphanedRun FrameTruthful QueuedCompletedOnce
PROPERTIES OnlyCancelOverrules ProcessRunEnds QueuedRunEnds
\* a task that was killed and a chord that is over leave nothing to do
CHECK_DEADLOCK FALSE
