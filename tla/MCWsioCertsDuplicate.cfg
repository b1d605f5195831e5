CONSTANTS
    c1 = c1
    c2 = c2
    malformed = malformed
    Certs <- MCCerts
    Blocks <- MCCerts
    Malformed = malformed
    null = null
    Null = null
    MaxChain <- MCMaxChain
    MaxOpens <- MCMaxOpens
    DuplicateAddFails = TRUE
SYMMETRY MCSymmetry
SPECIFICATION CSpec
INVARIANT AnchorsTrusted
