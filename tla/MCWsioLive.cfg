CONSTANTS
    MaxSends <- MCMaxSends
    MaxOpens <- MCMaxOpens
    Sizes <- MCSizes
    MaxWire <- MCMaxWire
    MaxDepth = 2
    NestedCalls = {"send"}
    NotifyFailures = {}
    EngineMayClose = FALSE
SPECIFICATION FairSpec
PROPERTY AbstractFairSpec
