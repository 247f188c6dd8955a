SPECIFICATION Spec
CONSTANTS
  NULL = NULL
  Digests = {d1}
  Flows = {f1}
  CaptureThreads = {c1}
  NumInterfaces = 1
  Sees <- SharedDigests
  NumDpi = 1
  NumBuckets = 1
  HashToBucket <- OneBucket
  MaxDetectionPkts = 1
  PktCounterSize = 256
  MaxFlows = 0
  AutoFlowExpiry = TRUE
  UseDhc = FALSE
  Signals = FALSE
  SourcesEnd = FALSE
  MaxQueue = 1
INVARIANT NoNullDereference
