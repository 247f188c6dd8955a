SPECIFICATION FairSpec
CONSTANTS
  Config = Config
  Categories = Categories
  Ttl = 1
  MaxVersion = 1
  MaxToken = 2
  MaxFaults = 1
CHECK_DEADLOCK FALSE
INVARIANTS LoadPending RetrySoon
PROPERTIES OnlyNewer Converges
