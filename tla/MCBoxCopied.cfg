SPECIFICATION Spec
CONSTANTS
  Parts = {"backend"}
  MaxDatabaseOps = 3
  MaxUnitOps = 1
  MaxDatabaseFaults = 2
  PoolSites = {"s1", "s2"}
  Categories = {"c"}
  Limits = {1}
  MaxPoolIds = 2
  MaxPoolMoves = 2
  Timers = {"apt-daily"}
  MaxUnitEdits = 2
  MaxUpkeepRuns = 4
  Phps = {"8.4"}
  MaxReleases = 2
  MaxPhpOps = 4
  MaxPackageMoves = 2
  PortSites = {"s1", "s2"}
  PoolPortNumbers = {1, 2}
  MaxPoolEdits = 2
  MaxPageOps = 2
  MaxGuardOps = 2
  MaxRepairs = 1
  MaxPanelUpdates = 1
  Sites = {"s1", "s2"}
  FirstSites = {"s1"}
  BackendMaxSwitches = 2
  MaxPanelEdits = 1
  MaxLines = 1
  Ranges = {"53", "53-53", "443"}
  FirstRows = {"53"}
  UfwPort <- ThePort
  TcpOnlyRanges = {"443"}
  PanelUdp = {"443"}
  FirewallFaults = {"ufw", "kill", "busy"}
  MaxPasses = 2
  MaxRowChanges = 1
  FirewallMaxSwitches = 2
  MaxFirewallFaults = 1
  PagesAddons = {"a1", "a2"}
  Files = {"f1", "f2"}
  TargetsOf <- TheTargets
  LastVersion = 2
  NoAnchor = {2}
  OwnLocation = {2}
  MaxOps = 2
  MaxFaults = 1
  MaxPanelWrites = 1
  LifecycleAddons = {"dns", "smtp"}
  Watchers = {"sites", "firewall"}
  Watches <- TheWatches
  Names = {"p1", "p2"}
  Covers <- TheCovers
  MaxRuns = 4
  MaxStops = 1
  MaxRenames = 1
  FpmVersions = {"8.1", "8.4"}
  OwnIni <- TheIni
  Levels = {3}
  MaxPairs = 2
  MaxEditOps = 2
  MaxEditMoves = 1
CHECK_DEADLOCK FALSE
PROPERTIES CopiedBeforeItGoes
