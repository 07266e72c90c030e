CONSTANTS
    Request = {r1, r2, r3}
SPECIFICATION Spec
INVARIANTS Coalesced
\* every request answered is a place to stop
CHECK_DEADLOCK FALSE
