SPECIFICATION FairSpec
CONSTANTS
  NULL = NULL
  Digests = {d1}
  Flows = {f1}
  CaptureThreads = {c1}
  NumInterfaces = 1
  Sees <- SharedDigests
  NumDpi = 2
  NumBuckets = 1
  HashToBucket <- OneBucket
  MaxDetectionPkts = 2
  PktCounterSize = 256
  MaxFlows = 0
  AutoFlowExpiry = FALSE
  UseDhc = TRUE
  Signals = TRUE
  SourcesEnd = TRUE
  MaxQueue = 1
INVARIANT SingleDpiThread
PROPERTIES ShutdownCompletes ExpiryCompletes ImplementsFlowTable
