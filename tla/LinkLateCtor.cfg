CONSTANTS
    CodeBufferSize = 8
    Undefined = Undefined
    Sources <- MCSources
    NameOrder <- MCNames
    Programs <- MCCtorPrograms
SPECIFICATION Spec
INVARIANTS CtorsComplete
