\* two rows at one per page, two savers and a deployment; of the disturbances any two, each once, or two saves
SPECIFICATION FairSpec
CONSTANTS
  Row = {1, 3}
  AddrOf <- MCAddrOf
  NameOf <- MCNameOf
  PageSize = 1
  Service = {1, 3}
  Core = {1}
  Scrap = 7
  Host = 1
  Saver = {s1, s2}
  Deployer = deployer
  MaxSaves = 2
  MaxSkips = 1
  MaxEdits = 1
  MaxFaults = 1
  MaxDeploys = 1
  MaxCrashes = 1
  MaxCpCrashes = 1
  MaxAll = 2
INVARIANTS
  TypeOK
  NeverRetiresCore
  DeletesWereGone
PROPERTIES
  Converges
