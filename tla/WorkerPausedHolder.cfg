SPECIFICATION FairSpec
CONSTANTS
  i1 = i1  i2 = i2  s1 = s1  s2 = s2  u1 = u1  u2 = u2
  Nobody = Nobody
  NoSlot = NoSlot
  Instances <- Two
  Slots = {s1}
  Units = {u1}
  Prefer <- SameName
  Overlap = TRUE
  MaxEpoch = 4
  MaxRev = 1
  MaxMoves = 0
  MaxFaults = 0
PROPERTY RecordingResumes
CHECK_DEADLOCK FALSE
