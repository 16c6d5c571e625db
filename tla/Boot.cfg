SPECIFICATION FairSpec
CONSTANTS
    RomUnits = 4
    TestUnits = 2
    FillUnits = 2
    Sizes = {0, 1, 2, 4}
    HardwareFails = TRUE
    MaxSends = 2
    MaxRestarts = 2
INVARIANTS
    StartsLoaded
    RegistersUsable
    StreamClosed
    MessageFits
PROPERTIES
    KeepsFlags
    BootEnds
CHECK_DEADLOCK FALSE
