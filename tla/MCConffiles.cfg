CONSTANTS
  MaxPackage = 3
  Kills = TRUE
  Refusals = TRUE
SPECIFICATION FairSpec
INVARIANTS TypeOK RecordsHold
PROPERTIES BlockReturns LeftAlone
