SPECIFICATION TouchFairSpec
CONSTANTS
  Places = {p1, p2, p3}
  Kinds = {"laomits", "v1"}
INVARIANTS OffIsOwed QuietScreenIsCurrent
PROPERTIES LiftIsReported
