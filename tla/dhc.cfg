SPECIFICATION AgedSpec
CONSTANTS
  NoHint = NoHint
  Addrs = {a1, a2}
  Hosts = {h1, h2}
  Ttl = 3
  Interval = 2
  MaxTime = 8
INVARIANTS KeptForTtl StaleBounded
