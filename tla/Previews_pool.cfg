SPECIFICATION Spec
CONSTANTS
  Geoms = {"small", "large"}
  PoolMax = 2
  MaxReqs = 3
  Keys = {"k1"}
  Waiters = {"overview", "dock"}
  KeyOf <- MCKeyOf
  Items = {"item"}
INVARIANTS
  PoolOwned
  TokensInFlight
PROPERTIES
  WaitersAnswered
