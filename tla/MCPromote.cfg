CONSTANTS
  MaxJobs = 2
  MaxKills = 2
SPECIFICATION FairSpec
INVARIANTS TypeOK ServesOwnConfig RecordIsTrue RootsGoWithRecords
PROPERTIES LastRootKept NothingStranded
