SPECIFICATION Spec
CONSTANTS
  NULL = NULL
  Digests = {d1, d2}
  Flows = {f1, f2}
  CaptureThreads = {c1, c2}
  NumInterfaces = 1
  Sees <- SharedDigests
  NumDpi = 1
  NumBuckets = 2
  HashToBucket <- OneBucket
  MaxDetectionPkts = 1
  PktCounterSize = 256
  MaxFlows = 1
  AutoFlowExpiry = TRUE
  UseDhc = TRUE
  Signals = TRUE
  SourcesEnd = TRUE
  MaxQueue = 1
SYMMETRY FanoutSymmetry
INVARIANTS ReferencedIsMapped InsertNeverFails ExpiryPending FlowsCounted
