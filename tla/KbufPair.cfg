SPECIFICATION FairSpec
CONSTANTS
  Readers = {r}
  Writers = {w}
  Cap = 3
  MaxCnt = 3
  Drivers = {"plain", "ioctl", "block", "poll", "server"}
INVARIANTS
  TransfersStayInside CountIsExact NobodySleepsThrough CheckedReadsHaveData ReadyReadsDoNotSleep
PROPERTIES TransferReleasesWaiter DataIsServed
