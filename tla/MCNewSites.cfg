CONSTANTS
  Domains = {d1, d2}
  MaxIds = 2
  MaxMishaps = 1
SPECIFICATION FairSpec
INVARIANTS TypeOK CaughtUp SeenWasWorked
PROPERTY RowsWatchEnds
