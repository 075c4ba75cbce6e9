SPECIFICATION Spec
CONSTANTS
  n1 = n1
  n2 = n2
  n3 = n3
  Tasks = {t1, t2}
  Nodes = {n1, n2}
  NoNode = NoNode
  Slots <- TwoSlots
  Layouts <- Together
  NoSlot = 100
  Replicas <- NoReplicas
  ReadFromReplicas = FALSE
  MAX_REDIRECTS = 5
  PoolSize = 2
  Commands <- Writes
  Kinds = {"execute", "pipeline"}
  Batch = 2
  Faults = {}
  MaxMoves = 1
  MaxCalls = 1
INVARIANTS AtMostOnce OwnReplies RangesDisjoint
SYMMETRY Symmetry
CHECK_DEADLOCK FALSE
