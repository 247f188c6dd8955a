SPECIFICATION MCSpec
CONSTANTS
  NULL = NULL
  Threads = {t1, t2}
  Hashes = {h1, h2, h3, h4, h5}
  CacheSize = 4
  PurgeDivisor = 2
INVARIANTS Consistent Bounded
PROPERTY PurgesOldest
