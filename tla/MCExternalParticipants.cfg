SPECIFICATION Spec
CONSTANTS
    r1 = r1
    r2 = r2
    d1 = d1
    d2 = d2
    x1 = x1
    x2 = x2
    y = y
    o = o
    p = p
    kx = kx
    ky = ky
    ko = ko
    kp = kp
    Rooms = {r1, r2}
    Addresses = {x1, x2, y, p}
    LocalAddresses = {p}
    InvalidAors = {p}
    Keys = {kx, ky, kp}
    KeyOf <- MCKeyOf
    Devices = {d1, d2}
    mCheckCapabilities = TRUE
    CapabilitiesOf <- MCCapabilitiesOf
    SpecsOf <- MCSpecsOf
    Clients = {c1, c2}
    Events = {e1, e2}
    OnlyKnownRefreshed = TRUE
    Objects = {b1}
    MaxVersion = 0
    Null = Null
SYMMETRY Symmetry
INVARIANTS
    TypeOK
    OneSubscriptionPerPresence
    ViewsAreCurrent
PROPERTIES
    RefreshesAreOfGivenDevices
    UpdatesImplemented
CHECK_DEADLOCK FALSE
