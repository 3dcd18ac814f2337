\* The two strings of the print lowering.
SPECIFICATION Spec
CONSTANTS
    MaxOps = 2
    Shapes <- Small
    Mismatch = FALSE
    Programs <- MCPrograms
CHECK_DEADLOCK FALSE
INVARIANTS
    StringsTerminated
