\* The level that emit=mlir-llvm prints.
SPECIFICATION DriverSpec
CONSTANTS
    Modules <- Everywhere
    Requests <- MCRequests
    Complete <- MCComplete
INVARIANT
    LevelNamed
CHECK_DEADLOCK FALSE
