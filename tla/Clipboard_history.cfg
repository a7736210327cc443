SPECIFICATION Spec
CONSTANTS
  Clips = {"note", "photo", "secret", "void"}
  MimesOf <- MCMimesOf
  Chunks <- MCChunks
  Nearby = {"note"}
  Blank = {"void"}
  TextLimit = 1
  ImageLimit = 2
  Limits = {1, 2}
  MaxCopies = 1
  MaxSets = 2
  MaxEdits = 3
  MaxCrashes = 1
  MaxQueue = 2
INVARIANTS
  SecretsNotKept
  SelectionServed
  ImagesOnDisk
PROPERTIES
  PinsSurvive
CHECK_DEADLOCK FALSE
