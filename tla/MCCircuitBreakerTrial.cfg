CONSTANTS
    Caller = {t1, t2, t3}
    Threshold = 2
    Reset = 2
    Probing = FALSE
SPECIFICATION Spec
PROPERTIES OneTrialDecides
