SPECIFICATION Spec
CONSTANTS
  Tasks = {t1, t2}
  Nodes = {n1, n2}
  SentinelCount = 1
  RetryCount = 2
  Batch = 2
  Kinds = {"execute", "pipeline"}
  Faults = {"crash", "restart", "promote"}
  MaxFaults = 2
  MaxCalls = 1
INVARIANTS RepeatedOnlyIfBroken OwnReplies
SYMMETRY Symmetry
CHECK_DEADLOCK FALSE
