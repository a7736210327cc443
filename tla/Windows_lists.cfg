SPECIFICATION WinSpec
CONSTANTS
  Handles = {"h1"}
  Outputs = {"A", "B"}
  Groups = {"gA", "gB"}
  OutsOf <- MCOutsOf
  SpacesOf <- MCSpacesOf
  MaxOpens = 2
  MaxQueue = 2
  MaxChanges = 3
  Changes = {"drag", "parent", "focus", "plug", "switch", "move", "query", "request", "unnamed"}
  StageOn = TRUE
INVARIANTS
  HandlesLive
  TileableFresh
  NoWindowLost
PROPERTIES
  NoDeadRequest
CHECK_DEADLOCK FALSE
