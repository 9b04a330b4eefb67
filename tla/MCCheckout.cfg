SPECIFICATION Spec
CONSTANTS
    Words <- MCWords
    OrderTexts <- MCOrderTexts
    CurrencyTexts <- MCCurrencyTexts
    Amounts <- MCAmounts
    Environments <- MCEnvironments
    Overrides <- MCOverrides
    DjangoSettings <- MCSettings
    Samples <- MCSamples
INVARIANTS
    TypeOK
    ConfiguredAsAsked
    ModeAsAsked
    RefundedAsAsked
    SameWhenRebuilt
PROPERTIES
    VerifiedAsAsked
CHECK_DEADLOCK FALSE
