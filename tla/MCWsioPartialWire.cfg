CONSTANTS
    MaxSends <- MCMaxSends
    MaxOpens <- MCMaxOpens
    Sizes <- MCSizes
    MaxWire <- MCMaxWire
    MaxDepth = 1
    NestedCalls = {}
    NotifyFailures = {"send", "writeable"}
    EngineMayClose = TRUE
SPECIFICATION Spec
INVARIANT WireFaithful
