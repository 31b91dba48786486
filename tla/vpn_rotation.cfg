CONSTANTS
  Slice = {s1, s2}
  Pair = {p}
  NoSlice = none
  MaxEvents = 2
  MaxJobs = 2
SPECIFICATION FairSpec
INVARIANT TypeOK
PROPERTIES VerdictSound SliceRotated
CHECK_DEADLOCK FALSE
