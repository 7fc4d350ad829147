SPECIFICATION Spec
CONSTANTS
    Base = 4
    Cap = 12
    Types <- MCTypes
    Format <- MCFormat
    Relays <- MCRelays
    NewType <- MCNewType
    Contents <- MCContents
    Uid = 6
    MaxMessages = 3
CHECK_DEADLOCK FALSE
INVARIANTS
    InOrder
    NothingKeptBack
