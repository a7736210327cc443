SPECIFICATION FairSpec
CONSTANTS
    Outputs = {o1, o2}
    PasswordSize = 4
    MaxUtf8 = 2
    MaxDepth = 2
INVARIANTS
  TypeOK
  UnlockOnlyAfterAuth
  EveryOutputCovered
PROPERTIES
  UnlocksLocked
  FprintStaysStopped
  LeaveUnlocks
CHECK_DEADLOCK FALSE
