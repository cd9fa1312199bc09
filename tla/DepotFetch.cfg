\* one URL, two versions, a canceller, faults, a replaced file and crashes; fairness
CONSTANTS
  Url = {u1}
  Dest = {d1}
  Version = {v1, v2}
  Size <- MCSize
  Canceller = {c1}
  NoSum = NoSum
  NoFile = NoFile
  MaxReplaced = 1
  MaxFaults = 1
SPECIFICATION DepotFairSpec
INVARIANTS BundlesAreSound QuietFailureIsExplained
PROPERTIES CancelEnds
