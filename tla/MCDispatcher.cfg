SPECIFICATION Spec
CONSTANTS
    Dispatches = {d1, d2}
    Handlers = {h1, h2, h3}
    EventTypes = {"payment.completed", "payment.refunded"}
SYMMETRY Symmetry
CHECK_DEADLOCK FALSE
INVARIANTS EveryHandlerRan NoFailureSwallowed VerifiedBeforeHandled
PROPERTY DispatchesRunOut
