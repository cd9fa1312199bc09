\* two requests race for the gate, the preparation lock and the single flight; containers die, Docker is silent, deployers hang; fairness
CONSTANTS
  ca = ca
  dns = dns
  app = app
  None = None
  Service = {ca, dns}
  Deps <- MCDeps
  Rank <- MCRank
  Foundation <- MCFoundation
  Version <- MCVersion
  Valid <- MCValid
  ComposeOf <- InCompose
  Configs <- ThreeConfigs
  Request = {r1, r2}
  Canceller = {}
  Selections <- ChainSelections
  Faults = {"dies", "docker"}
  MaxRuns = 2
  MaxHistory = 1
SPECIFICATION LiveSpec
INVARIANTS LiveRunIsFound DependenciesFirst
PROPERTIES RefinesRuns RefinesLiveRuns RequestsAreAnswered
