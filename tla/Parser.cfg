\* Up to 12 free tokens after a fixed beginning, for each construct.
SPECIFICATION Spec
CONSTANTS
    Identifiers <- Ids
    Scenarios <- Inputs
CHECK_DEADLOCK FALSE
INVARIANTS
    TypeOK
    PrecedenceRespected
    SourcePreserved
    DeclaresKnownStructs
    HolesReported
    TensorsUniform
    ModulesGrammatical
    DumpFaithful
PROPERTIES
    TerminatesElsewhere
