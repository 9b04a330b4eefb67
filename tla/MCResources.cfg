SPECIFICATION Spec
CONSTANTS
    u1 = u1
    u2 = u2
    l = l
    Calls = {u1, u2, l}
    Method <- MCMethod
    Flags = {"flag"}
    Defaulted = {"flag"}
    Texts = {"text"}
    Names = {"a@x"}
CHECK_DEADLOCK FALSE
INVARIANTS TypeOK NoLostUpdate RefusedUnsent ProtocolErrorMeansDone ListedMatch
