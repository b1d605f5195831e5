CONSTANTS
    MaxSends <- MCMaxSends
    MaxOpens <- MCMaxOpens
    Sizes <- MCSizes
    MaxWire <- MCMaxWire
    MaxDepth = 2
    NestedCalls = {"destroy"}
    NotifyFailures = {"send", "writeable"}
    EngineMayClose = TRUE
SPECIFICATION Spec
INVARIANT InstanceOutlivesHandlers
