\* A module is returned although one of its records failed to parse.
SPECIFICATION Spec
CONSTANTS
    Identifiers <- Ids
    Scenarios <- Inputs
CHECK_DEADLOCK FALSE
INVARIANTS
    WellFormedAST
