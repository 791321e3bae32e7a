SPECIFICATION FairSpec
CONSTANTS
    Threads = {1, 2}
    Program <- MCLive
    Adjacent <- MCLivePairs
    Interrupts = FALSE
    InterruptThread = 1
    IrqLevels = {FALSE}
PROPERTIES
    HazardsClear
    AccessIssued
