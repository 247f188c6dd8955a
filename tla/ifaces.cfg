SPECIFICATION Spec
CONSTANTS
  NULL = NULL
  i1 = i1
  i2 = i2
  a6 = a6
  a4 = a4
  b4 = b4
  c4 = c4
  Interfaces = {i1, i2}
  CmdLine = {i2}
  Settings = {x, y}
  CmdSettings = x
  V4 <- MCV4
  V6 = {a6}
  BroadcastOf <- MCBroadcastOf
  Named <- MCNamed
  MaxEvents = 2
  Linked <- MCLinked
INVARIANTS  RecordedLocal KernelLocal
PROPERTY UnchangedKept
CHECK_DEADLOCK FALSE
