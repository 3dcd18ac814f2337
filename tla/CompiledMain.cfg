\* Bodies of up to 3 operations, and one more print, on three shapes.
SPECIFICATION Spec
CONSTANTS
    MaxOps = 3
    Shapes <- Small
    Mismatch = TRUE
    Programs <- MCPrograms
CHECK_DEADLOCK FALSE
INVARIANTS
    TypeOK
    BuffersEncloseUses
    FailsOnlyIfIllegal
    MemorySafe
    OutputCorrect
    NothingLeaks
    SymbolsOnce
PROPERTIES
    Termination
