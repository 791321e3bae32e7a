SPECIFICATION Spec
CONSTANT Number_Of_Runs = 2
PROPERTIES TestsAnswer
CHECK_DEADLOCK FALSE
