SPECIFICATION FairSpec
CONSTANTS
    old = old
    g1 = g1
    Factories = {f1}
    Foci = {s1, s2}
    ChatRooms = {old}
    GruuOf <- MCGruuOf
    Grs = {g1}
    Uuids = {u1, u2}
    None = None
    Legacy = Legacy
    TextEnabled = TRUE
    MayBeBad = {s2, old}
INVARIANTS
    TypeOK
    BoundUuidIsPersisted
    WritableMeansBound
    RunningIsAllOrNothing
    SettledAddressesAreBound
    ContactAddressIsBound
PROPERTIES
    RequestedOnce
    FociGetTheirGruu
