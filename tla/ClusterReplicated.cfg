SPECIFICATION ClusterSpec
CONSTANTS
  t1 = t1  t2 = t2  t3 = t3
  Subs = {"node"}
  Threads <- Two
  Loops <- One
  Workers <- Trio
  Capacity <- Uneven
  Labelled = FALSE
  Reach <- FirstElsewhere
  Calls <- Everything
  Serial = TRUE
  MaxUnits = 3
  MaxCalls = 5
  MaxEvents = 2
  MaxCrashes = 0
  Servers <- Two
  Feeds = {1, 2}
  MaxStarts = 1
  MaxTroubles = 1
INVARIANT ReplicatedIsRestorable
CHECK_DEADLOCK FALSE
