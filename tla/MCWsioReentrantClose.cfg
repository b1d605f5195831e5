CONSTANTS
    MaxSends <- MCMaxSends
    MaxOpens <- MCMaxOpens
    Sizes <- MCSizes
    MaxWire <- MCMaxWire
    MaxDepth = 2
    NestedCalls = {"close"}
    NotifyFailures = {"send", "writeable"}
    EngineMayClose = TRUE
SPECIFICATION Spec
INVARIANT WriteRetiredOnce
