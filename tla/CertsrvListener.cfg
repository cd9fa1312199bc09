\* of two saves, three certificate requests and a restart, any four
SPECIFICATION FairSpec
CONSTANTS
  c1 = c1
  c2 = c2
  s1 = s1
  s2 = s2
  Client = {c1, c2}
  Saver = {s1, s2}
  Main = main
  None = none
  Retained = 2
  MaxSaves = 2
  MaxRequests = 3
  MaxRestarts = 1
  MaxAll = 4
CHECK_DEADLOCK FALSE
INVARIANTS AnsweredSaveIsInForce IssuedIsCollected
PROPERTIES SavedIsServed
