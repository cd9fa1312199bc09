CONSTANTS
  Simple <- MCSimple
  Nested <- MCNested
  Tenant = {"default", "Team A", "Team B", "team-a"}
  Default = "default"
  TenantLists <- MCTenantLists
  Label = {"default", "Team A", "Team B"}
  LabelOf <- MCLabelOf
  MaxOrg = 8
  Disturbance <- MCDisturbance
  MaxOf <- MCMaxOf
  MaxAll = 3
SPECIFICATION FairSpec
INVARIANTS SuccessIsWhole TenantsAreServed
PROPERTIES HostIsRespected RetriesHeal
