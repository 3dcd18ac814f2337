\* The claim of test/test.toy that mismatched operands are an error.
SPECIFICATION Spec
CONSTANTS
    MaxWide = 2
    MaxDeep = 1
    MaxRanks = 1
    Programs <- MCPrograms
    Sol <- Solve
CHECK_DEADLOCK FALSE
INVARIANTS
    MismatchRejected
