SPECIFICATION Spec
CONSTANT Number_Of_Runs = 2
INVARIANTS AsleepIsDefinitive
CHECK_DEADLOCK FALSE
