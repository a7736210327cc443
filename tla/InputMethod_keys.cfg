SPECIFICATION ImSpec
CONSTANTS
  Keys <- MCKeys
  Tracked <- MCTracked
  MaxEvents = 3
INVARIANTS
  HeldKeysRecorded
PROPERTIES
  KeysInOrder
  QueueDrains
CHECK_DEADLOCK FALSE
