SPECIFICATION FairSpec
CONSTANTS
  n1 = n1
  n2 = n2
  n3 = n3
  Tasks = {t1}
  Nodes = {n1, n2, n3}
  NoNode = NoNode
  Slots <- TwoSlots
  Layouts <- Together
  NoSlot = 100
  Replicas <- OneReplica
  ReadFromReplicas = TRUE
  MAX_REDIRECTS = 2
  PoolSize = 2
  Commands <- EveryKind
  Kinds = {"execute", "pipeline"}
  Batch = 1
  Faults = {"connect", "down", "timeout", "tryagain"}
  MaxMoves = 1
  MaxCalls = 2
INVARIANTS CalmCallsSucceed
PROPERTY CallEnds
CHECK_DEADLOCK FALSE
