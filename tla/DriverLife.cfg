SPECIFICATION Spec
CONSTANTS
  Drivers <- AllDrivers
  Table <- DriverTable
CHECK_DEADLOCK FALSE
INVARIANTS
  NothingIsLeft NothingRunsAfterwards NobodyIsStranded
  ReleasesOnlyHeld EntryPointsAreBacked LoadsAllOrNothing KeepsTheRules
