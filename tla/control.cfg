SPECIFICATION FairSpec
CONSTANTS
  Interfaces = {i1}
  DpiThreads = {d1}
  IpcSize = 2
  MaxSignals <- FewSignals
  Flows = {f1, f2}
CHECK_DEADLOCK FALSE
INVARIANTS ConntrackUnused NothingDropped
PROPERTIES ExitCompletes PacketsProcessed
