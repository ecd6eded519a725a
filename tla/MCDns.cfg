SPECIFICATION Spec
CONSTANTS
  Parts = {"records", "review", "stand", "pass", "mail", "cloudflare", "watch"}
  MaxPublished = 3
  MaxRows = 2
  MaxFailures = 1
  ReviewSites = {d1}
  MaxId = 2
  MaxEdits = 1
  Kills = {"writing"}
  Specs = {"t1", "t2"}
  MaxPanelIds = 3
  MaxMoves = 4
  PassSites = {"d1", "d2"}
  Accounts = {"a1", "a2"}
  Connections = {"c1", "c2"}
  Reach <- TheReach
  MaxAttempts = 1
  MaxPasses = 2
  MaxFaults = 1
  MaxChanges = 1
  Order <- TheOrder
  Granted = {"x"}
  MaxSmtpOps = 1
  MaxSmtpFaults = 1
  MaxSiteIds = 2
  CfDomains = {"d1", "d2"}
  MaxCfIds = 3
  MaxCfRuns = 3
  MaxCfMoves = 1
  MaxCfFaults = 1
  MaxText = 1
  MaxQueue = 1
  MaxMishaps = 1
CHECK_DEADLOCK FALSE
INVARIANTS TypeOK PlansHold
PROPERTIES TakesItsOwn InItsTurn
