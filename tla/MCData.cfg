CONSTANTS
    r1 = r1  r2 = r2  r3 = r3  r4 = r4
    Dataset = {d1, d2}  First = d1
    Header = {ca, cb, cc}
    ca = ca  cb = cb  cc = cc
    Detected <- MCInferred
    Asked <- MCAsked
    Editor = {q1, q2}
    Blank = Blank  Vacant = Blank
    Request <- MCRequest
    MaxRequests = 3
    Insight = {i1, i2}  Writer = {w1, w2}  Browser = {b1, b2}
    i1 = i1  MaxWrites = 2  MaxReads = 2  Start <- MCStart
SPECIFICATION MCSpec
INVARIANTS ComputedOnce DatasetsHold InsightsAreHonest ReadingIsHonest MappingIsSound
PROPERTIES WaitersAreReleased
\* every request answered is a place to stop
CHECK_DEADLOCK FALSE
