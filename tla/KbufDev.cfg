SPECIFICATION FairSpec
CONSTANTS
  Procs = {p1, p2}
  Byte = {0, 1}
  Zero = 0
  Cap = 3
  MaxCnt = 2
  NoProc = NoProc
INVARIANTS LockDiscipline TransferInBounds
PROPERTIES ImplementsFifo CallsReturn
