SPECIFICATION Spec
CONSTANTS
  Tasks = {t1, t2}
  Nodes = {n1, n2}
  SentinelCount = 1
  RetryCount = 2
  Batch = 2
  Kinds = {"execute"}
  Faults = {"promote"}
  MaxFaults = 2
  MaxCalls = 2
INVARIANT CalmCallsSucceed
SYMMETRY Symmetry
CHECK_DEADLOCK FALSE
