\* Two functions of a few statements.
SPECIFICATION Spec
CONSTANT
    Modules <- Scopes
CHECK_DEADLOCK FALSE
INVARIANT
    BlockFails
