SPECIFICATION IntegersSpec
CONSTANTS
  DEFAULT_BUF_CAPACITY = 3
  MaxBufSize = 8
  MinRoom = 2
  Surplus = 1
  FrameSizes <- Sizes
  Threads = {t1, t2}
  Constructions <- Makers
  Password = TRUE
  Db = 1
  Dbs = {0, 1}
  Methods <- SomeMethods
  Errors <- ErrorMessages
  Replies <- PipelineReplies
  MaxCommands = 3
  Conns = {c1, c2}
  Rests = {"x", "y"}
  MaxRest = 2
  Numbers = {0, 12}
  IntBits = 8
  MAX_RESP_ELEMENTS = 2
  MAX_PARSE_DEPTH = 2
  MAX_BIGNUMBER_LEN = 3
INVARIANT OverflowRefused
