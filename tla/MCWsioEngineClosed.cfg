CONSTANTS
    MaxSends <- MCMaxSends
    MaxOpens <- MCMaxOpens
    Sizes <- MCSizes
    MaxWire <- MCMaxWire
    MaxDepth = 1
    NestedCalls = {}
    NotifyFailures = {}
    EngineMayClose = TRUE
SPECIFICATION FairSpec
PROPERTY WriteEventuallyCompletes
