SPECIFICATION SitesSpec
CONSTANTS
  a1 = a1  a2 = a2
  Subs = {"spool", "recorder", "trust", "enroll", "identity", "placers", "view", "gateway"}
  Channels = {a1, a2}
  Budget = 2
  MaxSegments = 3
  MaxLaunches = 3
  MaxFaults = 2
  Handlers = {a1, a2}
  Loopers = {1, 2}
  MaxServers = 2
  Tokens = {a1, a2}
  Requests = {a1, a2}
  TokenLife = 1
  Skew = 1
  Overlap = 2
  Interrupted = FALSE
  MaxTime = 3
  MaxChanges = 2
  Pledges = {a1}
  LeafLife = 2
  LeafMargin = 1
  RootOverlap = 3
  ApprovalTTL = 1
  VoucherLife = 1
  MaxDays = 4
  MaxRoots = 3
  MaxHellos = 1
  MaxRestarts = 1
  Users = {a1, a2}
  MaxEdits = 3
  MaxPublications = 3
  MaxLives = 3
  NClusters = 2
  Cameras = {a1, a2}
  Placers = {a1, a2}
  Reaches <- ReachesMC
  Retries = 1
  MaxFlaps = 2
  MaxBeats = 2
  Nodes = {a1, a2}
  Viewers = {a1, a2}
  MaxLivesOfTees = 3
INVARIANTS SitesTypeOK ArchiveIsContiguous  RestoredSetIsFresh PlacedOnce ViewerIsFed
INVARIANTS ShutdownStopsChild
PROPERTIES RevocationArrives 
CHECK_DEADLOCK FALSE
