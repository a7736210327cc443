SPECIFICATION Spec
CONSTANTS
  Delays <- MCDelays
  Flags <- MCFlags
  Probing = TRUE
  Clients = {"player"}
  Outputs = {"eDP", "HDMI"}
  MaxCookies = 2
  MaxChanges = 3
INVARIANTS
  InhibitedIsLit
  HoldersWatched
  PresentIsLit
PROPERTIES
  AwayGoesDark
CHECK_DEADLOCK FALSE
