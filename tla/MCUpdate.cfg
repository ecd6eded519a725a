CONSTANTS
  Procs = {timer, shell}
  Nobody = nobody
  Timer = timer
  Versions = {1, 2, 3}
  RenamedAt = 2
  MaxUpdates = 2
  MaxKills = 1
SPECIFICATION FairSpec
INVARIANTS TypeOK RollbackRestores
PROPERTIES RepairConverges
