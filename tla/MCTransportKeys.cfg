SPECIFICATION Spec
CONSTANTS
    w = w
    v = v
    r = r
    k = k
    None = None
    Calls = {w, v, r}
    Method <- ThreeWritesMethod
    CallerKeys = {k}
    IdempotencyKey <- OnePinnedKey
    AsyncCalls = {w}
    MaxRetries = 1
    RetryOnStatus = {502, 503, 504}
    Responses <- FewResponses
CHECK_DEADLOCK FALSE
INVARIANTS AtMostOneEffect DataIsBacked
PROPERTIES ImplementsRemoteOperation
