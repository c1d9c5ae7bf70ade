SPECIFICATION Spec
CONSTANTS
    dom1 = dom1
    dom2 = dom2
    Codecs = {opus, speex}
    MaxPayloads = 2
    AnyCase = TRUE
    EmptyLists = FALSE
    MaxUris = 2
    Domains = {dom1, dom2, dom3}
    FactoryDomains <- MCFactoryDomains
    LocalDomains = {dom2}
    Timeouts = {0, 1, 4, 8}
    PerSecond = 2
    IntMax = 3
INVARIANT OnlyUnsupportedCodecsAreRejected
CHECK_DEADLOCK FALSE
