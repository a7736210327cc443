SPECIFICATION Spec
CONSTANTS
    Outputs = {o1, o2}
    PasswordSize = 3
    MaxUtf8 = 1
    MaxDepth = 2
INVARIANTS
    LockNotUsedAfterDestroy
CHECK_DEADLOCK FALSE
SYMMETRY Symmetry
