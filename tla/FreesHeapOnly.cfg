\* The buffers of the affine lowering: allocated with alloca, passed to free.
SPECIFICATION Spec
CONSTANTS
    MaxOps = 2
    Shapes <- Small
    Mismatch = FALSE
    Programs <- MCPrograms
CHECK_DEADLOCK FALSE
INVARIANTS
    FreesHeapOnly
