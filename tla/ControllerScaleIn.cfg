SPECIFICATION ScaleInSpec
CONSTANTS
  Subs = {"controller"}
  Servers <- Two
  Feeds = {1}
  MaxStarts = 0
  MaxTroubles = 0
  t1 = t1  t2 = t2  t3 = t3
  Threads <- Two
  Loops <- One
  Workers <- Trio
  Capacity <- Uneven
  Labelled = TRUE
  Reach <- FirstElsewhere
  Calls <- ScalingIn
  Serial = FALSE
  MaxUnits = 2
  MaxCalls = 2
  MaxEvents = 2
  MaxCrashes = 1
INVARIANT PlacersAgree
PROPERTIES PlacedIsListedUnlessKilled NewCameraIsPlaced ReleasedSlotIsEmptied
CHECK_DEADLOCK FALSE
