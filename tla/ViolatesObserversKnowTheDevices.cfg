SPECIFICATION Spec
CONSTANTS
    Clients = {c1, c2}
    Events = {e1, e2, e3}
    Addresses = {a1, a2}
    Listeners = {l1, l2, l3}
    Devices = {d1, d2}
    Null = Null
    OnlyKnownRefreshed = FALSE
INVARIANT ObserversKnowTheDevices
