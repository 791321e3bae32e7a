SPECIFICATION Spec
CONSTANTS
    Threads = {1}
    Program <- MCIrqFlags
    Adjacent <- MCIrqFlagsPairs
    Interrupts = TRUE
    InterruptThread = 1
    IrqLevels = {FALSE, TRUE}
INVARIANTS
    InterruptSavesFlags
