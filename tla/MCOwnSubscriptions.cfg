SPECIFICATION FairSpec
CONSTANTS
    r1 = r1
    r2 = r2
    d1 = d1
    d2 = d2
    Rooms <- MCRooms
    Devices <- MCDevices
    CapabilitiesOf <- MCCapabilitiesOf
    SpecsOf <- MCSpecsOf
    mCheckCapabilities = TRUE
    Objects = {o1, o2}
    Aors = {a1}
    Null = Null
    MaxVersion = 1
INVARIANTS
    TypeOK
    QuietRoomsAreCurrent
    PingsAreForGivenDevices
PROPERTIES
    RoomsNeverGoBack
    RoomsCatchUp
