SPECIFICATION FairSpec
CONSTANTS
    wait_max = 2
    MaxRestarts = 3
    Kinds = {"none", "V1", "V2", "HC"}
    Faults = {"cmd", "resp", "read"}
INVARIANTS
    ReadyMeansKnown
    SlowIdentification
PROPERTIES
    InitReturns
CHECK_DEADLOCK FALSE
