SPECIFICATION FairSpec
CONSTANTS
  Keys = {k1, k2}
  MaxBounce = 2
  MaxQueue = 3
  KeysTakeTurns = TRUE
  Drivers = {"keys", "v1keys", "input", "v1input"}
INVARIANTS OneMoveInFlight ReaderMissesNothing
PROPERTIES MovesAreRecorded FlaggedNewsIsRead
