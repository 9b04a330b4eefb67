SPECIFICATION Spec
CONSTANTS
    w = w
    v = v
    r = r
    k = k
    None = None
    Calls = {w, r}
    Method <- WriteReadMethod
    CallerKeys = {k}
    IdempotencyKey <- WriteReadKey
    AsyncCalls = {w}
    MaxRetries = 1
    RetryOnStatus = {502, 503, 504}
    Responses <- RichResponses
CHECK_DEADLOCK FALSE
INVARIANTS NetworkErrorMeansUnreached
