\* Struct declarations, literals and accesses.
SPECIFICATION Spec
CONSTANT
    Modules <- StructModules
CHECK_DEADLOCK FALSE
INVARIANT
    IndexInRange
