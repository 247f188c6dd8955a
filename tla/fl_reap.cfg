SPECIFICATION Spec
CONSTANTS
  NULL = NULL
  Digests = {d1}
  Flows = {f1}
  CaptureThreads = {c1, c2}
  NumInterfaces = 1
  Sees <- SharedDigests
  NumDpi = 1
  NumBuckets = 1
  HashToBucket <- OneBucket
  MaxDetectionPkts = 1
  PktCounterSize = 256
  MaxFlows = 1
  AutoFlowExpiry = TRUE
  UseDhc = TRUE
  Signals = FALSE
  SourcesEnd = TRUE
  MaxQueue = 1
PROPERTY ExitsWithoutSources
