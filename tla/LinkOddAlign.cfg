CONSTANTS
    CodeBufferSize = 8
    Undefined = Undefined
    Sources <- MCSources
    NameOrder <- MCNames
    Programs <- MCOddPrograms
SPECIFICATION Spec
INVARIANTS ImageIsSource
