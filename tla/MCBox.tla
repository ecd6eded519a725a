-------------------------------- MODULE MCBox --------------------------------
(***************************************************************************)
(* What the addons do to the machine and to the panel, one component at a  *)
(* time: PHP pools, upkeep, the panel's PHP, pool ports, the guards, the   *)
(* Varnish backend, the firewall, the database, the panel's templates, the *)
(* addons' units, and the smaller edits System Tweaks makes to the panel's *)
(* files. A behaviour is about one of them, and x1, x2, ... are that one's *)
(* variables; nothing is shared between two, so the run is the sum of      *)
(* theirs.                                                                 *)
(***************************************************************************)

CONSTANTS Parts,   \* the components this run is about
          MaxDatabaseOps, MaxUnitOps, MaxDatabaseFaults,
          PoolSites, Categories, Limits, MaxPoolIds, MaxPoolMoves,
          Timers, MaxUnitEdits, MaxUpkeepRuns,
          Phps, MaxReleases, MaxPhpOps, MaxPackageMoves,
          PortSites, PoolPortNumbers, MaxPoolEdits, MaxPageOps,
          MaxGuardOps, MaxRepairs, MaxPanelUpdates,
          Sites, FirstSites, BackendMaxSwitches, MaxPanelEdits, MaxLines,
          Ranges, FirstRows, UfwPort(_), TcpOnlyRanges, PanelUdp, FirewallFaults, MaxPasses,
          MaxRowChanges, FirewallMaxSwitches, MaxFirewallFaults,
          PagesAddons, Files, TargetsOf, LastVersion, NoAnchor, OwnLocation, MaxOps,
          MaxFaults, MaxPanelWrites,
          LifecycleAddons, Watchers, Watches, Names, Covers, MaxRuns, MaxStops, MaxRenames,
          FpmVersions, OwnIni, Levels, MaxPairs, MaxEditOps, MaxEditMoves

VARIABLES part,   \* the component a behaviour is about
          x1, x2, x3, x4, x5, x6, x7, x8, x9, x10, x11, x12, x13, x14, x15, x16, x17, x18,
          x19, x20   \* its variables, in the order it declares them

vars == <<part, x1, x2, x3, x4, x5, x6, x7, x8, x9, x10, x11, x12, x13, x14, x15, x16, x17, x18,
          x19, x20>>

Mysql == INSTANCE Database WITH optionFile <- x1, socketFile <- x2, loaded <- x3, units <- x4,
  overridden <- x5, setting <- x6, change <- x7, said <- x8, databaseOps <- x9, unitOps <- x10,
  databaseFaults <- x11, torn <- x12
Pools == INSTANCE PhpResources WITH prow <- x1, pool <- x2, runs <- x3, cats <- x4, default <- x5,
  assigned <- x6, known <- x7, pop <- x8, poolIds <- x9, poolMoves <- x10, cut <- x11, decided <-
  x12
Upkeep == INSTANCE Upkeep WITH tweaksOn <- x1, saved <- x2, dropIn <- x3, timers <- x4, packages <-
  x5, jailFiles <- x6, loginLog <- x7, fail2ban <- x8, sshJail <- x9, task <- x10, unitEdits <- x11,
  upkeepRuns <- x12, ours <- x13, found <- x14, spoiled <- x15
PanelPhp == INSTANCE PanelPhp WITH choice <- x1, unit <- x2, foreign <- x3, fpm <- x4, release <-
  x5, act <- x6, phpOps <- x7, packageMoves <- x8, torn <- x9, tried <- x10
Ports == INSTANCE PoolPorts WITH pools <- x1, bound <- x2, leaving <- x3, table <- x4, rules <- x5,
  isolate <- x6, dropIn <- x7, addonOn <- x8, run <- x9, poolEdits <- x10, pageOps <- x11, firm <-
  x12, torn <- x13
Guards == INSTANCE Guards WITH want <- x1, script <- x2, pool <- x3, prepended <- x4, includes <-
  x5, wrapper <- x6, saved <- x7, guardsOn <- x8, holder <- x9, op <- x10, guardOps <- x11, repairs
  <- x12, panelUpdates <- x13, cut <- x14
Backend == INSTANCE VarnishBackend WITH MaxSwitches <- BackendMaxSwitches, row <- x1, stored <- x2,
  rendered <- x3, include <- x4, logDir <- x5, homeEntry <- x6, dropIn <- x7, opened <- x8, homeLog
  <- x9, rootLog <- x10, putAside <- x11, lines <- x12, act <- x13, reloadWanted <- x14, switches <-
  x15, panelEdits <- x16, deleting <- x17, late <- x18
Firewall == INSTANCE Firewall WITH MaxSwitches <- FirewallMaxSwitches, rows <- x1, rebuild <- x2,
  ufw <- x3, woken <- x4, protocols <- x5, unmatched <- x6, aged <- x7, managed <- x8, withdrawn <-
  x9, form <- x10, sync <- x11, lock <- x12, addon <- x13, rowChanges <- x14, switches <- x15,
  faults <- x16, due <- x17, stray <- x18, mixed <- x19
Pages == INSTANCE Injection WITH Addons <- PagesAddons, shipped <- x1, tpl <- x2, pristine <- x3,
  hash <- x4, origin <- x5, compiled <- x6, enabled <- x7, vhost <- x8, vbase <- x9, loaded <- x10,
  op <- x11, pc <- x12, todo <- x13, file <- x14, held <- x15, changed <- x16, missed <- x17,
  overtaken <- x18, spent <- x19
Lifecycle == INSTANCE Lifecycle WITH Addons <- LifecycleAddons, enabled <- x1, holding <- x2,
  identity <- x3, panelName <- x4, unitFiles <- x5, unitText <- x6, active <- x7, boots <- x8,
  phpGuard <- x9, binary <- x10, act <- x11, step <- x12, struck <- x13, stale <- x14, used <- x15
Edits == INSTANCE PanelEdits WITH addonOn <- x1, chosen <- x2, trust <- x3, rules <- x4, anchored
  <- x5, pair <- x6, store <- x7, ageing <- x8, remote <- x9, tools <- x10, ini <- x11, runs <- x12,
  op <- x13, fixer <- x14, pairs <- x15, editOps <- x16, editMoves <- x17, loose <- x18, firm <-
  x19, behind <- x20

(* An operator keeps upload progress off for one PHP-FPM by itself.         *)
TheIni == [v \in FpmVersions |-> IF v = "8.1" THEN "none" ELSE "off"]

(* ufw takes a range of one port for that port. *)
ThePort(k) == IF k = "53-53" THEN "53" ELSE k
TheTargets == [a \in PagesAddons \cup {"manager"} |->
                 CASE a = "a1" -> {"f1"} [] a = "a2" -> {"f1", "f2"} [] OTHER -> {"f2"}]
TheWatches == [a \in LifecycleAddons |-> IF a = "dns" THEN {"sites"} ELSE {"sites", "firewall"}]
(* The names of the panel that each form of its vhost answers to. *)
TheCovers == [v \in {"unnamed", "named", "wildcard"} |->
                CASE v = "unnamed" -> {} [] v = "named" -> {"p1"} [] v = "wildcard" -> {"p1", "p2"}]

(* What the component does not use holds nothing.                          *)
Free20 == x20 = 0
Free19 == x19 = 0 /\ Free20
Free18 == x18 = 0 /\ Free19
Free17 == x17 = 0 /\ Free18
Free16 == x16 = 0 /\ Free17
Free15 == x15 = 0 /\ Free16
Free14 == x14 = 0 /\ Free15
Free13 == x13 = 0 /\ Free14
Free12 == x12 = 0 /\ Free13
Free11 == x11 = 0 /\ Free12

Init ==
  /\ part \in Parts
  /\ \/ part = "database" /\ Mysql!Init /\ Free13
     \/ part = "pools" /\ Pools!Init /\ Free13
     \/ part = "upkeep" /\ Upkeep!Init /\ Free16
     \/ part = "php" /\ PanelPhp!Init /\ Free11
     \/ part = "ports" /\ Ports!Init /\ Free14
     \/ part = "guards" /\ Guards!Init /\ Free15
     \/ part = "backend" /\ Backend!Init /\ Free19
     \/ part = "firewall" /\ Firewall!Init /\ Free20
     \/ part = "pages" /\ Pages!Init /\ Free20
     \/ part = "lifecycle" /\ Lifecycle!Init /\ Free16
     \/ part = "edits" /\ Edits!Init

Next ==
  /\ UNCHANGED part
  /\ \/ part = "database" /\ Mysql!Next /\ UNCHANGED <<x13, x14, x15, x16, x17, x18, x19, x20>>
     \/ part = "pools" /\ Pools!Next /\ UNCHANGED <<x13, x14, x15, x16, x17, x18, x19, x20>>
     \/ part = "upkeep" /\ Upkeep!Next /\ UNCHANGED <<x16, x17, x18, x19, x20>>
     \/ /\ part = "php" /\ PanelPhp!Next
        /\ UNCHANGED <<x11, x12, x13, x14, x15, x16, x17, x18, x19, x20>>
     \/ part = "ports" /\ Ports!Next /\ UNCHANGED <<x14, x15, x16, x17, x18, x19, x20>>
     \/ part = "guards" /\ Guards!Next /\ UNCHANGED <<x15, x16, x17, x18, x19, x20>>
     \/ part = "backend" /\ Backend!Next /\ UNCHANGED <<x19, x20>>
     \/ part = "firewall" /\ Firewall!Next /\ UNCHANGED <<x20>>
     \/ part = "pages" /\ Pages!Next /\ UNCHANGED <<x20>>
     \/ part = "lifecycle" /\ Lifecycle!Next /\ UNCHANGED <<x16, x17, x18, x19, x20>>
     \/ part = "edits" /\ Edits!Next

Spec == Init /\ [][Next]_vars

------------------------------------------------------------------------------
TypeOK == /\ part = "database" => Mysql!TypeOK
          /\ part = "pools" => Pools!TypeOK
          /\ part = "upkeep" => Upkeep!TypeOK
          /\ part = "php" => PanelPhp!TypeOK
          /\ part = "ports" => Ports!TypeOK
          /\ part = "guards" => Guards!TypeOK
          /\ part = "backend" => Backend!TypeOK
          /\ part = "firewall" => Firewall!TypeOK
          /\ part = "pages" => Pages!TypeOK
          /\ part = "lifecycle" => Lifecycle!TypeOK
          /\ part = "edits" => Edits!TypeOK

(* What runs is what was saved: php-fpm's limits, the firewall's rules,    *)
(* the database's listeners, the panel's own PHP, its templates and proxy, *)
(* the site Nginx's files, a guard only with its script, and each of the   *)
(* panel's edited files, whichever step failed and whoever else was at     *)
(* work; a repair that ended has every unit running and armed.             *)
RunsWhatIsSaved ==
  /\ part = "pools" => Pools!RunsWhatIsFiled /\ Pools!LimitsAreNamed
  /\ part = "php" => PanelPhp!UnitIsChosen
  /\ part = "firewall" => Firewall!Follows /\ Firewall!ChoiceWaits
  /\ part = "database" => Mysql!DoneIsLoopback /\ Mysql!PutBackIsAsBefore /\ Mysql!FilesFollowSetting
  /\ part = "pages" => Pages!UpstreamKept /\ Pages!PageIsCurrent /\ Pages!ProxyIsLoaded
  /\ part = "backend" => Backend!LoadsWhatIsThere
  /\ part = "guards" => Guards!PrependedIsThere
  /\ part = "lifecycle" => Lifecycle!RepairedIsWhole
  /\ part = "edits" => Edits!ChosenIsInPlace

(* A protection that is on holds at every step, as no port of a pool is    *)
(* open; one that is off has left nothing behind, and what it replaced can *)
(* be put back.  No action is let at the panel's own name, and a failed    *)
(* uninstall leaves the others running.                                    *)
OnHoldsOffLeaves ==
  /\ part = "ports" => Ports!PortsStayClosed /\ Ports!OffLeavesNone
  /\ part = "guards" => Guards!OffIsOff /\ Guards!WrapperRestorable
  /\ part = "upkeep" => Upkeep!TakenIsRecorded
  /\ part = "firewall" => Firewall!WithdrawnIsPanels
  /\ part = "pages" => Pages!WithdrawnLeavesPage
  /\ part = "lifecycle" => Lifecycle!PanelIsSpared /\ Lifecycle!StillWorks

(* No step undoes what the operator or CloudPanel has chosen, or another   *)
(* addon needs: a site's category, a protection taken away, a stopped      *)
(* server, a unit, a line of a log, another addon's block, a PHP release   *)
(* that has been seen to fail, a certificate or a package source of the    *)
(* operator's own.                                                         *)
ChoicesKept == [][
  /\ part = "pools" => Pools!DefaultTakesNewOnlyStep
  /\ part = "upkeep" => Upkeep!TakesItsOwnStep /\ Upkeep!FoundAgainStep
  /\ part = "php" => PanelPhp!WithdrawnStaysOffStep /\ PanelPhp!FailedOnceStep
  /\ part = "guards" => Guards!OffStaysOffStep /\ Guards!KeptGuardedStep
  /\ part = "backend" => Backend!RemoveLosesNothingStep
  /\ part = "database" => Mysql!StoppedStaysStep
  /\ part = "pages" => Pages!OthersBlocksStep
  /\ part = "lifecycle" => Lifecycle!OthersWatchedStep
  /\ part = "edits" => Edits!SamePairAgainStep /\ Edits!ForeignIsLeftStep]_vars

(* firewall.ts, synchronize: "Additions first, so a port moving from TCP   *)
(* to UDP is never closed to both."                                        *)
NeverShut == [][part = "firewall" => Firewall!NeverShutStep]_vars

(* docs/decisions/system-tweaks.md: the sync removes a log from a home     *)
(* "once it has copied all of it".                                         *)
CopiedBeforeItGoes == [][part = "backend" => Backend!CopiedBeforeItGoesStep]_vars
==============================================================================
