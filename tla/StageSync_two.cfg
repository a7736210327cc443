SPECIFICATION Spec
CONSTANTS
    w1 = w1
    w2 = w2
    Windows <- TwoWindows
    Monitors <- TwoMonitors
    App <- AppOf
    MaxId = 3
    QuietWhileDown = TRUE
INVARIANTS
  OneSetPerId
  GroupsNotMixed
PROPERTIES
  GroupsKept
