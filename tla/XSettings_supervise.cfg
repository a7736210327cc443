SPECIFICATION FairSpec
CONSTANTS
    Pids = {p1, p2}
    NoPid = NoPid
    MaxQuickExits = 3
    QuickExit = 4
    StartupGrace = 2
    ReloadDelay = 1
    MaxTimers = 2
INVARIANTS
  OneInstance
  NoEarlyHup
  RestartArmed
PROPERTIES
  ChangeReachesChild
