SPECIFICATION FairSpec
CONSTANTS
    Threads = {1}
    Prefetch = TRUE
    PcWords = 4
    Targets <- MCTargets
    LsRequests <- MCLsRequests
INVARIANTS OpcodeIsPcs LoadIsRequests WritesAreStores
PROPERTIES RamRequestStable LoadAnswered OpcodeArrives
