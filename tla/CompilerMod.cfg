SPECIFICATION Spec
CONSTANTS
    WordBits = 16
    FuzzyChunks = 3
    UnrollBelow = 32
    None = "none"
    Vars <- MCVars
    CodesFromLabel = {"label", "compare", "push", "subifp", "subpfp", "getreturn", "setreturn", "nop"}
    Programs <- MCRemainders
    Memory <- MCMemory
    Params <- MCParams
    GlobalAt <- MCGlobalAt
    Functions <- MCFunctions
    Arguments <- MCArguments
    Entry <- MCEntry
    StackLimit <- MCStackLimit
    CodeBase = 1024
    HaltAddr = 880
INVARIANT
    ReturnsItsValue
