SPECIFICATION FairSpec
CONSTANTS
  Procs = {p1, p2, p3}
  Byte = {0, 1}
  Zero = 0
  Cap = 2
  MaxCnt = 1
  NoProc = NoProc
INVARIANTS OneToken NobodyForgotten
PROPERTIES ImplementsKbufDev CallsReturn
