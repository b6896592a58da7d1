SPECIFICATION ClusterSpec
CONSTANTS
  t1 = t1  t2 = t2  t3 = t3
  Subs = {"controller", "node"}
  Threads <- Two
  Loops <- One
  Workers <- Trio
  Capacity <- Uneven
  Labelled = FALSE
  Reach <- FirstElsewhere
  Calls <- Everything
  Serial = TRUE
  MaxUnits = 3
  MaxCalls = 5
  MaxEvents = 2
  MaxCrashes = 0
  Servers <- Two
  Feeds = {1}
  MaxStarts = 2
  MaxTroubles = 1
INVARIANTS ClusterTypeOK    FencedStaysQuiet
PROPERTY OneInstanceRecords
CHECK_DEADLOCK FALSE
