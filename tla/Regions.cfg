SPECIFICATION Spec
CONSTANTS
    t1 = t1
    t2 = t2
    Top = 5
    TrampolinesPerRegion = 4
    Targets = {t1, t2}
    AddressOf <- Addresses
    JumpsTo <- OneJump
    Reach = 10
    LowEnd = 1
    HighEnd = 100
    Offset = 1
    SystemLower = 2
    SystemUpper = 2
    SystemStep = 2
    Null = Null
INVARIANTS
    FreeListsExact
    RegionsAreMapped
    WithinReach
PROPERTIES
    HeldSlotsSurvive
    HandsOutFreeSlots
