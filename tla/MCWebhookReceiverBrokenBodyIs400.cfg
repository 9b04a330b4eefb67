SPECIFICATION ReceiverSpec
CONSTANTS
    Dispatches = {d1, d2}
    Handlers = {h1, h2}
    EventTypes = {"payment.completed"}
    Transactions = {t1}
    Payment <- MCPayment
    Payloads <- MCPayloads
    Unavailable = {"PSIPNetworkError", "PSIPAuthError"}
    ViewVerify = TRUE
    NoBody = NoBody
SYMMETRY Symmetry
CHECK_DEADLOCK FALSE
INVARIANTS BrokenBodyIs400
