\* deployers that fail, cancels, the deadline, crashes and restarts at any point, state.json failing or lost
CONSTANTS
  ca = ca
  dns = dns
  app = app
  None = None
  Service = {ca, dns}
  Deps <- MCDeps
  Rank <- MCRank
  Foundation <- MCFoundation
  Version <- MCVersion
  Valid <- MCValid
  ComposeOf <- InMountedFiles
  Configs <- TwoConfigs
  Request = {r1}
  Canceller = {c1}
  Selections <- ChainSelections
  Faults = {"crash", "fail", "statefile", "upgrade"}
  MaxRuns = 1
  MaxHistory = 1
SPECIFICATION Spec
INVARIANTS TypeOK CancelStops SuccessIsComplete RecordMatchesHost
