SPECIFICATION FairSpec
CONSTANTS
  Cpus = {c1, c2}
  Kinds = {"plain", "irqsave", "bh"}
  Lines = 2
  CountMod = 3
  MaxIrqs = 3
  NoOne = NoOne
INVARIANTS LinesTogether NobodySpinsOnItsCpu MasksAreRestored
PROPERTIES LockIsReleased
