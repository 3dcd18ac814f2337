\* The whole compiler on programs with calls, reshapes, transposes and structs.
SPECIFICATION DriverSpec
CONSTANT
    Modules <- MCPrograms
    Requests <- MCRequests
    Complete <- MCComplete
CHECK_DEADLOCK FALSE
INVARIANTS
    DriverTypeOK
    OperandsDefined
    NullReported
    AcceptsLegal
    GeneratedMeaning
    WellFormedThroughout
    FunctionsComplete
    RewritesShrink
    AccessesInRange
    OutputPreserved
    LegalCompiles
    ReadyForAffine
PROPERTIES
    Termination
