SPECIFICATION FairSpec
CONSTANTS
  n1 = n1
  n2 = n2
  n3 = n3
  Tasks = {t1}
  Nodes = {n1, n2}
  NoNode = NoNode
  Slots <- TwoSlots
  Layouts <- Together
  NoSlot = 100
  Replicas <- NoReplicas
  ReadFromReplicas = FALSE
  MAX_REDIRECTS = 5
  PoolSize = 1
  Commands <- Writes
  Kinds = {"pipeline"}
  Batch = 1
  Faults = {}
  MaxMoves = 2
  MaxCalls = 1
PROPERTY CallEnds
CHECK_DEADLOCK FALSE
