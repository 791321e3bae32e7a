SPECIFICATION FairSpec
CONSTANT Number_Of_Runs = 3
INVARIANTS ReportsInTurn CompletedMeansReported AnsweredAsleep SomebodyAwake
PROPERTIES ProgramsEnd
CHECK_DEADLOCK FALSE
