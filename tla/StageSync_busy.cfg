SPECIFICATION Spec
CONSTANTS
    w1 = w1
    w2 = w2
    Windows <- TwoWindows
    Monitors <- TwoMonitors
    App <- AppOf
    MaxId = 3
    QuietWhileDown = FALSE
INVARIANTS
  OneGroupShown
  FlagsMatch
  OffShowsAll
