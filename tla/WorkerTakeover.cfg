SPECIFICATION FairSpec
CONSTANTS
  i1 = i1  i2 = i2  s1 = s1  s2 = s2  u1 = u1  u2 = u2
  Nobody = Nobody
  NoSlot = NoSlot
  Instances <- Two
  Slots = {s1, s2}
  Units = {u1}
  Prefer <- Mixed
  Overlap = TRUE
  MaxEpoch = 3
  MaxRev = 2
  MaxMoves = 1
  MaxFaults = 1
INVARIANTS IInv OneWriterPerEpoch
PROPERTIES FenceIsFinal OnlyClaimableIsTaken ImplementsArchiveWriters SupersededWriterStops LeasePassSettles
CHECK_DEADLOCK FALSE
