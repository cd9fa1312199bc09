\* three requests race for one secret; writes fail, the control plane crashes
CONSTANTS
  DeployRequest = {r1, r2, r3}
  Chosen = {own}
  Nothing = Nothing
  MaxSecrets = 3
SYMMETRY RequestSymmetry
SPECIFICATION SecretSpec
INVARIANT DatabaseOpens
PROPERTY NeverRotated
