\* a removal takes unselected dependencies down
CONSTANTS
  ca = ca
  dns = dns
  app = app
  None = None
  Service = {ca, dns}
  Deps <- MCDeps
  Rank <- MCRank
  Foundation <- MCFoundation
  Version <- MCVersion
  Valid <- MCValid
  ComposeOf <- InCompose
  Configs <- TwoConfigs
  Request = {r1}
  Canceller = {c1}
  Selections <- PairSelections
  Faults = {}
  MaxRuns = 2
  MaxHistory = 1
SPECIFICATION Spec
INVARIANTS RemovesOnlySelected
