SPECIFICATION FairSpec
CONSTANTS
    RingSize = 7
    Slack = 2
    LongestCommand = 2
    DrawSizes = {1, 2}
    ClientSyncs = FALSE
INVARIANTS
    HeldAlone
    RefusedOnlyWhenFull
    ReadsWhatWasQueued
    WholeFrames
PROPERTIES
    EveryCallReturns
