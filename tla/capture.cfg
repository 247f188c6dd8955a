SPECIFICATION FairSpec
CONSTANTS
  t1 = t1
  t2 = t2
  NULL = NULL
  Threads = {t1, t2}
  Traces <- SomeTraces
  RingBlocks = 2
  BlockSize = 2
  SocketSize = 1
INVARIANTS OnceInOrder StatsExact FlowPerConnection
PROPERTY Drained
