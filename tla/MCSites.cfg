SPECIFICATION Spec
CONSTANTS
  Parts = {"nginx", "git", "clone", "instance", "mainwp", "choose", "auto", "sign", "maintenance", "tweaks", "keys", "requests"}
  t1 = t1
  t2 = t2
  f1 = f1
  f2 = f2
  Txs = {t1, t2}
  Files = {f1, f2}
  Touches <- Both
  WithRow = {t1}
  AlwaysValidate = {t2}
  Broken = {}
  None = None
  Deployments = {d1, d2}
  Requests = {r1, r2}
  MaxSaves = 1
  MaxSites = 2
  Free = Free
  MaxClones = 2
  CloneMaxKills = 1
  MaxWrites = 2
  MaxTag = 2
  InstanceMaxKeys = 2
  InstanceMaxKills = 1
  MainwpMaxKeys = 3
  MaxEdits = 2
  MaxPasses = 3
  MaxFaults = 1
  WpKills = {"recover", "install", "prepare", "register", "confirm", "giveBack", "restore", "undo", "remove"}
  MaxChoices = 2
  MaxMade = 2
  Managers = {"alice"}
  Uploads = {u1}
  MaxIds = 2
  MaxHands = 2
  MaxPassesRun = 3
  WpSites = {"w1", "w2"}
  WpRoots = {"h1", "h2"}
  MaxMints = 2
  MaxGateEdits = 1
  Domains = {"d1", "d2"}
  Ips = {"i1", "i2"}
  Clients = {"c1", "c2"}
  Asks <- TheAsks
  MaxBypassIps = 2
  MaxAsked = 2
  MaxSiteMoves = 1
  MaxVisits = 1
  MaxMishaps = 1
  Admins = {"a1", "a2"}
  TweakKeys = {"table", "disk", "branding"}
  Slots = {"s1", "s2"}
  Images = {"i1", "i2"}
  MeasureJobs = {1, 2}
  MaxTweakAsks = 3
  MaxSweeps = 2
  MaxTweakMishaps = 1
  KeyUsers = {"u1"}
  Keys = {"hard", "soft"}
  SyncedKeys = {"soft"}
  KeyRequests = {"r1", "r2"}
  MaxAccountIds = 2
  MaxChallenges = 2
  MaxTouches = 1
  MaxKeyClock = 1
  MaxKeyRuns = 2
  MaxKeyMoves = 1
  MaxKeyKills = 1
  WebRequests = {"r1"}
  Accesses = {"pre-gate", "own-account", "admin", "root-only"}
  WebRoles = {"user", "admin"}
  MaxWebMoves = 2
CHECK_DEADLOCK FALSE
INVARIANTS TypeOK DoneTogether LeftIsKnown WorksOnItsOwn
PROPERTIES OneDeployment OthersKept
