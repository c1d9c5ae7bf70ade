SPECIFICATION Spec
CONSTANTS
    dom1 = dom1
    dom2 = dom2
    Codecs = {opus, speex}
    MaxPayloads = 2
    AnyCase = FALSE
    EmptyLists = FALSE
    MaxUris = 2
    Domains = {dom1, dom2, dom3}
    FactoryDomains <- MCFactoryDomains
    LocalDomains = {dom2}
    Timeouts = {1, 4}
    PerSecond = 2
    IntMax = 3
INVARIANT NoRtpTimeoutIsPositive
CHECK_DEADLOCK FALSE
