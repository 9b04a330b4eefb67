SPECIFICATION FairSpec
CONSTANTS
    w = w
    v = v
    r = r
    k = k
    None = None
    Calls = {w, r}
    Method <- WriteReadMethod
    CallerKeys = {k}
    IdempotencyKey <- WriteReadKey
    AsyncCalls = {w}
    MaxRetries = 2
    RetryOnStatus = {502, 503, 504}
    Responses <- RichResponses
CHECK_DEADLOCK FALSE
INVARIANTS BudgetIsSpent BackoffBetweenSends
PROPERTIES FinalAnswerIsFinal CallsRunOut CallsEnd
