\* Bodies of 2 operations of any kind, of 2 leaves and one more, of 4 inferred ones, of 3 of mixed ranks.
SPECIFICATION Spec
CONSTANTS
    MaxWide = 2
    MaxDeep = 4
    MaxRanks = 3
    Programs <- MCPrograms
    Sol <- Solve
CHECK_DEADLOCK FALSE
INVARIANTS
    TypeOK
    WorklistExact
    Confluence
    VerifierAccepts
PROPERTIES
    Termination
    ImplementsFixpoint
