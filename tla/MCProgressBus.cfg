CONSTANTS
    s1 = s1  s2 = s2
    Stream <- MCStream
    QueueSize = 2
    ChannelSize = 2
    MaxRunning = 4
SYMMETRY MCSymmetry
SPECIFICATION Spec
INVARIANTS NoMissedOutcome OutcomeIsShown
PROPERTIES OutcomeIsLast
\* a deleted run with every browser told so has nothing left to do
CHECK_DEADLOCK FALSE
