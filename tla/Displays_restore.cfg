SPECIFICATION Spec
CONSTANTS
  Heads = {"eDP", "HDMI"}
  Internal = {"eDP"}
  Modes = {"p60", "p50", "e60"}
  SizeOf <- MCSizeOf
  HeadModes <- MCHeadModes
  Configs = {1, 2}
  MaxChanges = 3
  Changes = {"plug", "other", "refuse", "user", "lid", "damage"}
  SavedAtStart <- MCSavedAtStart
  Plugged = {"eDP", "HDMI"}
  DockedSuspends = FALSE
INVARIANTS
  MonitorsMirrorHeads
  ConfigCoversHeads
PROPERTIES
  SavedIsRestored
  DockedPanelOff
CHECK_DEADLOCK FALSE
