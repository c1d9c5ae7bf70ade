SPECIFICATION Spec
CONSTANTS
    dom1 = dom1
    dom2 = dom2
    Codecs = {opus, speex, pcmu}
    MaxPayloads = 3
    AnyCase = FALSE
    EmptyLists = FALSE
    MaxUris = 2
    Domains = {dom1, dom2, dom3}
    FactoryDomains <- MCFactoryDomains
    LocalDomains = {dom2}
    Timeouts = {0, 1, 4, 8}
    PerSecond = 2
    IntMax = 3
INVARIANTS
    TypeOK
    LoadedAsConfigured
    OnlyUnsupportedCodecsAreRejected
    RequestsFindTheServerReady
PROPERTY RejectedBeforeTheStart
CHECK_DEADLOCK FALSE
