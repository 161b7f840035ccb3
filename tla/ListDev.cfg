SPECIFICATION Spec
CONSTANTS
  Procs = {p1, p2, p3}
  Elems = {e1, e2, e3, e4, e5, e6}
  Sizes = {1, 2}
  Limit = 2
  NoElem = NoElem
  Kinds = {"stu", "procfs", "v1proc"}
SYMMETRY ProcsAndElems
CHECK_DEADLOCK FALSE
INVARIANTS
  FreedIsNotUsed LiveIsAccountedFor FirstInFirstOut LimitHolds
