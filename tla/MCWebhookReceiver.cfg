SPECIFICATION FairReceiverSpec
CONSTANTS
    Dispatches = {d1, d2}
    Handlers = {h1, h2}
    EventTypes = {"payment.completed"}
    Transactions = {t1}
    Payment <- MCPayment
    Payloads <- MCPayloads
    Unavailable = {"PSIPNetworkError", "PSIPAuthError"}
    ViewVerify = TRUE
    NoBody = NoBody
CHECK_DEADLOCK FALSE
INVARIANTS ReceiverTypeOK HandledOnlyIfBacked AckMeansHandled GenuineNotRefused
PROPERTIES EveryPostAnswered DeliversAsPromised
