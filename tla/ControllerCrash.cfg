SPECIFICATION FairSpec
CONSTANTS
  t1 = t1  t2 = t2  t3 = t3
  Threads <- Two
  Loops <- One
  Workers <- Pair
  Capacity <- Uneven
  Labelled = FALSE
  Reach <- FirstElsewhere
  Calls <- Placing
  Serial = FALSE
  MaxUnits = 1
  MaxCalls = 1
  MaxEvents = 0
  MaxCrashes = 1
PROPERTY PlacedIsListed
CHECK_DEADLOCK FALSE
