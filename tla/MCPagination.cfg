SPECIFICATION Spec
CONSTANTS
    PageSize = 3
    ServedSize = 2
    StartPage = 2
    MaxRows = 7
CHECK_DEADLOCK FALSE
INVARIANTS NoneMissed ExactWhileUnshifted NoRequestPastTheEnd
