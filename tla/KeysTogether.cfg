SPECIFICATION Spec
CONSTANTS
  Keys = {k1, k2}
  MaxBounce = 2
  MaxQueue = 3
  KeysTakeTurns = FALSE
  Drivers = {"keys"}
INVARIANT KbufFollowsKeys
