SPECIFICATION Spec
CONSTANTS
    Rotations = {r1, r2}
    MaxAttempts = 2
    Deliveries = {d1, d2}
    d1 = d1
    d2 = d2
    Bodies <- MCBodies
    Body <- MCBody
    TICKS = 2
    TOLERANCE = 1
    SKEW = 1
    MaxTime = 4
    NoCall = NoCall
    NotSent = NotSent
INVARIANTS
    AcceptedIsRecent
    PromptIsAccepted
    CurrentAfterRotation
    UnderstoodAsAnnounced
CHECK_DEADLOCK FALSE
SYMMETRY Symmetry
