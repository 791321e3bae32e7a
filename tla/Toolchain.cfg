CONSTANTS
    CodeBufferSize = 8
    Undefined = Undefined
    Sources <- MCSources
    NameOrder <- MCNames
    Programs <- MCPrograms
SPECIFICATION Spec
INVARIANTS ImageIsSource RelocsPointAtWords LinkFailsForCause NothingLeftOut LayoutStands ImageStands
PROPERTIES SizesOnlyGrow BuildEnds
