CONSTANTS
    MaxSends <- MCMaxSends
    MaxOpens <- MCMaxOpens
    Sizes <- MCSizes
    MaxWire <- MCMaxWire
    MaxDepth = 2
    NestedCalls = {"send"}
    NotifyFailures = {"send", "writeable"}
    EngineMayClose = TRUE
SPECIFICATION Spec
INVARIANT TypeOK
INVARIANT WriteRetiredOnce
INVARIANT CompletionsInSendOrder
INVARIANT NoStaleWrites
INVARIANT SessionOwnership
INVARIANT OpenCompletedOnce
PROPERTY AbstractSpec
