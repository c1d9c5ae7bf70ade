SPECIFICATION Spec
CONSTANTS
    r1 = r1
    r2 = r2
    d1 = d1
    d2 = d2
    x1 = x1
    x2 = x2
    y = y
    o = o
    p = p
    kx = kx
    ky = ky
    ko = ko
    kp = kp
    Rooms = {r1, r2}
    Addresses = {x1, o}
    LocalAddresses = {o}
    InvalidAors = {}
    Keys = {kx, ko}
    KeyOf <- MCKeyOf
    Devices = {d1}
    mCheckCapabilities = TRUE
    CapabilitiesOf <- MCSameCapabilities
    SpecsOf <- MCSpecsOf
    Clients = {c1}
    Events = {e1}
    OnlyKnownRefreshed = TRUE
    Objects = {b1, b2}
    MaxVersion = 1
    Null = Null
SYMMETRY RoomSymmetry
INVARIANTS
    StoreKnowsWhatRuns
    StoppedIsQuiet
    ViewsAreCurrent
PROPERTIES
    UpdatesImplemented
    PartsAsSpecified
CHECK_DEADLOCK FALSE
