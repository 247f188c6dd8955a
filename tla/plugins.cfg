SPECIFICATION FairSpec
CONSTANTS
  NULL = NULL
  Processors = {p1}
  Sinks = {s1, s2}
  SizeMax = 1
  Lengths <- ShortOrLong
  MaxPayloads = 2
  MaxFailures = 1
CHECK_DEADLOCK FALSE
INVARIANTS QueueBounded InOrder OneOwner NoDeletedPlugin ProcessorsFirst
PROPERTIES PayloadsMove ExitCompletes
