SPECIFICATION AnsweredSpec
CONSTANTS
  Tasks = {t1}
  Nodes = {n1, n2}
  SentinelCount = 2
  RetryCount = 2
  Batch = 2
  Kinds = {"execute", "pipeline"}
  Faults = {"crash", "restart", "promote", "timeout", "sentinel"}
  MaxFaults = 2
  MaxCalls = 3
PROPERTY CallEnds
INVARIANT CalmCallsSucceed
CHECK_DEADLOCK FALSE
