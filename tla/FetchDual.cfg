SPECIFICATION FairSpec
CONSTANTS
    Threads = {1, 2}
    Prefetch = TRUE
    PcWords = 2
    Targets <- MCFewTargets
    LsRequests <- MCFewLsRequests
PROPERTIES Opcode2Arrives
