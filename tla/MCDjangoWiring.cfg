SPECIFICATION Spec
CONSTANTS
    Registrars = {r1, r2}
    Requests = {q1, q2}
    Validator = Validator
    Tenant = Tenant
    None = None
SYMMETRY Symmetry
CHECK_DEADLOCK FALSE
INVARIANTS TypeOK RegisteredHandlersRun ParsedAndVerifiedAlike WrongSettingsFailFast

