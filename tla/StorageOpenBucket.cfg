SPECIFICATION StorageSpec
CONSTANTS
  p1 = p1  p2 = p2  a = a  b = b  v = v
  t1 = t1  t2 = t2  u1 = u1  u2 = u2
  s1 = s1  s2 = s2  b1 = b1  w1 = w1  c1 = c1
  Subs = {"events"}
  Procs = {p1, p2}
  Paths = {a, b}
  Items = {v}
  Allowed <- AllowedMC
  NoItems = NoItems
  NoCas = NoCas
  MaxIndex = 0
  Threads = {t1, t2}
  Value <- Listings
  Mutators <- AddRemove
  NoWrite = NoWrite
  Retries = 2
  MaxWrites = 0
  Segs = {s1, s2}
  Spans = {b1}
  Movers = {w1}
  MaxDeaths = 0
  Servers = {1, 2}
  Buckets = {b1}
  Home <- HomeMC
  Copies = 1
  MaxEvents = 2
  MaxMishaps = 0
  Cams = {c1}
  StopWhenFull = TRUE
  MaxFiles = 2
  MaxOrders = 2
  MaxTrouble = 0
PROPERTY EveryEventIsIndexed
CHECK_DEADLOCK FALSE
