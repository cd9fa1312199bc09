\* six roots, two contents of resolv.conf, two disturbances of any kinds
CONSTANTS
  Roots = 6
  Disturbance <- MCDisturbance
  MaxOf <- MCMaxOf
  MaxAll = 2
  MaxData = 2
  Own = {"own", "edited"}
SPECIFICATION FairSpec
INVARIANTS StoreAndBundleMatch
PROPERTIES HostKeepsResolving SuccessIsUsable RetriesHeal
