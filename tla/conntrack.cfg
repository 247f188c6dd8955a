SPECIFICATION Spec
CONSTANTS
  NULL = NULL
  Ids = {i1, i2}
  Digests = {d1, d2}
  Portless = {d2}
  Natted = {d1}
  Ttl = 1
  Slack = 0
  MaxFaults = 1
  MaxEvents = 3
  MaxTime = 3
SYMMETRY ConnSymmetry
INVARIANTS Keyed NatJustified AgreesWithKernel StaleBounded
