CONSTANTS
  Address = {1, 3, 4}
  Plain = {4}
  Names = 2
  SeedFiles <- MCSeedFiles
  MaxPepper = 3
  MaxToken = 9
  Disturbance <- MCDisturbance
  MaxOf <- MCMaxOf
  MaxAll = 2
SPECIFICATION FairSpec
INVARIANTS InventoryIsKept
PROPERTIES TokensAreSound RetriesHeal
