SPECIFICATION StorageSpec
CONSTANTS
  p1 = p1  p2 = p2  a = a  b = b  v = v
  t1 = t1  t2 = t2  u1 = u1  u2 = u2
  s1 = s1  s2 = s2  b1 = b1  w1 = w1  c1 = c1
  Subs = {"files", "rows", "archive", "events", "node"}
  Procs = {p1, p2}
  Paths = {a, b}
  Items = {v}
  Allowed <- AllowedMC
  NoItems = NoItems
  NoCas = NoCas
  MaxIndex = 3
  Threads = {t1, t2}
  Value <- Listings
  Mutators <- AddRemove
  NoWrite = NoWrite
  Retries = 2
  MaxWrites = 3
  Segs = {s1, s2}
  Spans = {b1}
  Movers = {w1}
  MaxDeaths = 2
  Servers = {1, 2}
  Buckets = {b1}
  Home <- HomeMC
  Copies = 1
  MaxEvents = 2
  MaxMishaps = 2
  Cams = {c1}
  StopWhenFull = TRUE
  MaxFiles = 2
  MaxOrders = 2
  MaxTrouble = 2
INVARIANTS  ConflictMeansAnotherWrote FootageIsKept  EachEventIndexedOnce PlayableIfOffered
PROPERTIES ImplementsPromise LockIsReleased ImplementsAtomicRow ManifestHeals AvailableIsIndexed NodeConverges
CHECK_DEADLOCK FALSE
