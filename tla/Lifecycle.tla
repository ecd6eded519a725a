---------------------------- MODULE Lifecycle ----------------------------
(***************************************************************************)
(* What enabling, disabling, repairing and uninstalling addons does to the *)
(* box (cli/toggle.ts, cli/repair.ts, cli/uninstall.ts, cli/provision.ts): *)
(* the addons' config files, the recorded panel identity, the unit files   *)
(* and what systemd runs of them, the platform's PHP guard, and the        *)
(* effects an addon has outside its own state.  An operation holds the     *)
(* operation lock; it may fail where a command of it can, and be killed    *)
(* between any two steps, with or without the box going down.              *)
(***************************************************************************)
EXTENDS Naturals, FiniteSets

CONSTANTS Addons, Watchers,
          Watches,      \* [Addons -> SUBSET Watchers]: the path units an addon wants
          Names,        \* host names a site action may be asked for
          Covers,       \* [what the panel's vhost may say -> the names that covers]
          MaxRuns, MaxStops, MaxRenames

VARIABLES enabled,      \* addons with a config file
          holding,      \* addons whose effects outside their state are in place
          identity,     \* the recorded panel identity, or NoName
          panelName,    \* what the panel's vhost says now
          unitFiles,    \* managed unit files that exist
          unitText,     \* the addons the manager's unit file was written for
          active,       \* units systemd runs
          boots,        \* units enabled for the next boot
          phpGuard,     \* whether the platform's PHP drop-in is in place
          binary,       \* whether clp-addons is on the box
          act,          \* the operation: [kind, addon, specs, boot, started, refused, ended]
          step,
          struck,       \* history: a site action was let at a name of the panel's
          stale,        \* history: the panel was named anew while an addon was, or was being, enabled, or an operation
                        \* ended early with the record there and no addon enabled; no record since
          used          \* [runs, stops, renames]

unitVars == <<unitFiles, unitText, active, boots>>
lifecycleVars == <<enabled, holding, identity, panelName, unitVars, phpGuard, binary, act, step, struck, stale, used>>

NoName == "no name"
AuthUnits == {"auth"}
TimerUnits == {"timer", "anchor"}       \* "anchor": the path unit over the panel's files
Shared == {"manager"} \cup AuthUnits \cup TimerUnits
Units == Shared \cup Watchers
Wanted(specs) == UNION {Watches[a] : a \in specs}
ManagerText(specs) == specs             \* the manager's unit names the addons' services and state

NoAct(how, kind) == [kind |-> kind, addon |-> "none", specs |-> {}, boot |-> FALSE, started |-> {}, refused |-> {}, ended |-> how]
Kinds == {"none", "enable", "disable", "repair", "uninstall"}
Steps == {"idle", "identity", "config", "units", "watchers", "panel", "toggle", "start", "guard", "activate",
          "deactivate", "withdraw", "stop", "files", "remains", "last", "binary", "return"}

TypeOK ==
    /\ enabled \subseteq Addons /\ holding \subseteq Addons
    /\ identity \in DOMAIN Covers \cup {NoName} /\ panelName \in DOMAIN Covers
    /\ unitFiles \subseteq Units /\ active \subseteq unitFiles /\ boots \subseteq unitFiles
    /\ unitText \subseteq Addons
    /\ {phpGuard, binary, struck, stale} \subseteq BOOLEAN
    /\ act \in [kind : Kinds, addon : Addons \cup {"none"}, specs : SUBSET Addons, boot : BOOLEAN,
                started : SUBSET Watchers, refused : SUBSET Units, ended : {"no", "well", "failed", "warned", "killed"}]
    /\ step \in Steps
    /\ used \in [runs : 0..MaxRuns, stops : 0..MaxStops, renames : 0..MaxRenames]

Init ==
    /\ enabled = {} /\ holding = {} /\ identity = NoName /\ panelName \in DOMAIN Covers
    /\ unitFiles = {} /\ unitText = {} /\ active = {} /\ boots = {}
    /\ phpGuard = FALSE /\ binary = TRUE
    /\ act = NoAct("well", "none") /\ step = "idle" /\ struck = FALSE /\ stale = FALSE
    /\ used = [runs |-> 0, stops |-> 0, renames |-> 0]

At(s) == step = s /\ act.ended = "no"
Goto(s) == step' = s /\ UNCHANGED <<act, stale>>
Ends(how) == step' = "idle" /\ act' = [act EXCEPT !.ended = how]
Finish == Ends("well") /\ UNCHANGED stale
Stop == used.stops < MaxStops /\ used' = [used EXCEPT !.stops = @ + 1]
LeftRecord == stale' = (stale \/ (enabled = {} /\ identity # NoName))
Fails == Stop /\ Ends("failed") /\ LeftRecord

(* systemctl enables and restarts units one after another.  One it refuses *)
(* ends what was being done: not enabled, or enabled and not running.      *)
Restarted(up) == active' = active \cup up /\ boots' = boots \cup up
Refuses(up, unit) == \/ Restarted(up)
                     \/ active' = (active \cup up) \ {unit} /\ boots' = boots \cup up \cup {unit}
Prefixes == {{}, {"auth"}, {"auth", "manager"}, {"auth", "manager", "timer"}} \cup {Shared \cup s : s \in SUBSET Watchers}
RefusedAmong(all, how) == \E up \in Prefixes, unit \in all :     \* startUnits()
    /\ unit \notin up /\ up \cup {unit} \in Prefixes /\ up \subseteq all /\ Refuses(up, unit)
    /\ step' = "idle" /\ act' = [act EXCEPT !.refused = {unit}, !.ended = how]

-----------------------------------------------------------------------------
(* platformProvisioned(): the files, the service user, a running manager    *)
(* and an armed timer.                                                      *)
Provisioned == {"manager", "auth"} \subseteq unitFiles /\ {"manager", "timer"} \subseteq active

Run(kind, a, first, specs, boot) ==
    /\ step = "idle" /\ binary /\ used.runs < MaxRuns
    /\ used' = [used EXCEPT !.runs = @ + 1]
    /\ act' = [kind |-> kind, addon |-> a, specs |-> specs, boot |-> boot, started |-> {}, refused |-> {}, ended |-> "no"]
    /\ step' = first
    /\ UNCHANGED <<enabled, holding, identity, panelName, unitVars, phpGuard, binary, struck, stale>>

(* A toggle applies a delta; an enable on a box that was never set up runs  *)
(* the whole of bootstrapProvision(), config files first.  The identity is  *)
(* written before the config file when no addon was enabled before.         *)
Enable(a) == LET before == enabled \ {a} IN
    Run("enable", a, IF Provisioned /\ before = {} THEN "identity" ELSE "config", before \cup {a}, ~Provisioned)
Disable(a) == a \in enabled /\ Run("disable", a, "deactivate", enabled \ {a}, FALSE)
Repair == (enabled # {} \/ "manager" \in unitFiles) /\ Run("repair", "none", "config", enabled, FALSE)
Uninstall(a) == a \in enabled /\ Run("uninstall", a, "deactivate", enabled \ {a}, ~Provisioned)

(* writeConfig() for one addon; bootstrap and repair write it for each.     *)
WriteConfig ==
    /\ At("config")
    /\ enabled' = IF act.kind = "enable" THEN enabled \cup {act.addon} ELSE enabled
    /\ Goto(IF act.boot \/ act.kind = "repair" THEN "identity" ELSE "units")
    /\ UNCHANGED <<holding, identity, panelName, unitVars, phpGuard, binary, struck, used>>

(* reconcilePanelIdentity(): read off the vhost while an addon is enabled,  *)
(* removed with the last; without a vhost to read it the operation ends.    *)
RecordIdentity ==
    /\ At("identity")
    /\ \/ /\ identity' = (IF act.specs = {} THEN NoName ELSE panelName)
          /\ step' = (CASE act.kind = "enable" /\ ~act.boot -> "config"
                        [] act.kind = "uninstall" /\ act.specs = {} -> "last"
                        [] OTHER -> "units")
          /\ stale' = FALSE /\ UNCHANGED <<act, used>>
       \/ act.specs # {} /\ Fails /\ UNCHANGED identity
    /\ UNCHANGED <<enabled, holding, panelName, unitVars, phpGuard, binary, struck>>

(* installUnits(): the shared definitions, then each addon-wanted watcher,  *)
(* written while wanted and stopped, disabled and removed once not.         *)
InstallShared ==
    /\ At("units")
    /\ unitFiles' = unitFiles \cup Shared /\ unitText' = ManagerText(act.specs)
    /\ step' = "watchers"
    /\ act' = [act EXCEPT !.started = IF unitFiles' # unitFiles \/ unitText' # unitText THEN Watchers ELSE {}]
    /\ UNCHANGED <<enabled, holding, identity, panelName, active, boots, phpGuard, binary, struck, stale, used>>

UnwantedOfOne ==        \* whatever the withdrawn addon had wanted
    IF act.kind \in {"disable", "uninstall"} THEN Watches[act.addon] ELSE Watchers \ Wanted(act.specs)
Unwanted == Watchers \ Wanted(act.specs)

SyncWatchers ==
    /\ At("watchers")
    /\ unitFiles' = (unitFiles \cup Wanted(act.specs)) \ Unwanted
    /\ active' = active \ Unwanted /\ boots' = boots \ Unwanted
    /\ act' = [act EXCEPT !.started = IF act.kind \in {"enable", "disable"} /\ ~act.boot
                                        THEN unitFiles' \ unitFiles ELSE @ \cup (unitFiles' \ unitFiles)]
    /\ step' = CASE act.kind = "enable" -> "panel"
                 [] act.kind = "disable" -> "toggle"
                 [] act.kind = "uninstall" -> "start"
                 [] OTHER -> IF unitFiles' # unitFiles \/ act.started # {} \/ "manager" \notin active
                               THEN "start" ELSE "toggle"
    /\ UNCHANGED <<enabled, holding, identity, panelName, unitText, phpGuard, binary, struck, stale, used>>

(* The templates, the maintenance check and the proxy.  An enable that      *)
(* could not patch them is fatal, and the addon stays enabled.              *)
PatchPanel ==
    /\ At("panel")
    /\ \/ Goto(IF act.kind = "repair" THEN "guard" ELSE IF act.boot THEN "guard" ELSE "toggle") /\ UNCHANGED used
       \/ act.kind = "enable" /\ Fails
    /\ UNCHANGED <<enabled, holding, identity, panelName, unitVars, phpGuard, binary, struck>>

(* applyToggleUnits() starts only what the toggle created; a repair that    *)
(* found the definitions as they should be rearms what stopped, and only    *)
(* logs it when one does not start.                                         *)
RearmedTimer == {"timer"}
Rearmed == {"timer"} \cup Wanted(act.specs)
AfterToggle == CASE act.kind = "enable" -> Goto("activate")
                 [] act.kind = "disable" -> Finish
                 [] OTHER -> Goto("panel")
ToggleUnits ==
    /\ At("toggle")
    /\ LET up == (IF act.kind = "repair" THEN Rearmed ELSE act.started) \cap unitFiles IN
       \/ Restarted(up) /\ AfterToggle /\ UNCHANGED used
       \/ /\ \E done \in SUBSET up : \E unit \in up \ done :
                Refuses(done, unit) /\ step' = "idle" /\ act' = [act EXCEPT !.refused = {unit}, !.ended = "failed"]
          /\ act.kind # "repair" /\ Stop /\ LeftRecord
       \/ /\ \E down \in SUBSET (up \ active) \ {{}} :
                active' = active \cup (up \ down) /\ act' = [act EXCEPT !.refused = down]
          /\ act.kind = "repair" /\ Stop /\ boots' = boots \cup up /\ step' = "panel" /\ UNCHANGED stale
       \/ act.kind = "repair" /\ Fails /\ UNCHANGED <<active, boots>>
    /\ UNCHANGED <<enabled, holding, identity, panelName, unitFiles, unitText, phpGuard, binary, struck>>

(* startUnits(): everything is enabled and restarted, one after another:    *)
(* the auth units, the manager, the timer, the anchor watcher, then what    *)
(* addons want.                                                             *)
StartUnits ==
    /\ At("start")
    /\ \/ /\ Restarted(unitFiles) /\ UNCHANGED used
          /\ CASE act.kind = "repair" -> Goto("panel")
               [] act.kind = "enable" -> Goto("activate")
               [] OTHER -> Goto("guard")
       \/ RefusedAmong(unitFiles, "failed") /\ Stop /\ LeftRecord
    /\ UNCHANGED <<enabled, holding, identity, panelName, unitFiles, unitText, phpGuard, binary, struck>>

(* The platform's PHP guard stays while the binary does.                    *)
KeepGuard ==
    /\ At("guard")
    /\ phpGuard' = TRUE
    /\ IF act.kind = "enable" THEN Goto("start") ELSE Finish
    /\ UNCHANGED <<enabled, holding, identity, panelName, unitVars, binary, struck, used>>

Activate ==
    /\ At("activate")
    /\ holding' = holding \cup {act.addon} /\ Finish
    /\ UNCHANGED <<enabled, identity, panelName, unitVars, phpGuard, binary, struck, used>>

-----------------------------------------------------------------------------
(* spec.deactivate() comes first; when it refuses, nothing else was done.   *)
Deactivate ==
    /\ At("deactivate")
    /\ \/ holding' = holding \ {act.addon} /\ Goto(IF act.kind = "disable" THEN "withdraw" ELSE "stop") /\ UNCHANGED used
       \/ Fails /\ UNCHANGED holding
    /\ UNCHANGED <<enabled, identity, panelName, unitVars, phpGuard, binary, struck>>

(* A disable removes the config file and keeps the addon's data.  A lock of *)
(* the sign-in's that stays busy ends it before, the maintenance check that *)
(* cannot be taken out of Nginx after.                                      *)
Withdraw ==
    /\ At("withdraw")
    /\ \/ /\ enabled' = enabled \ {act.addon} /\ phpGuard' = TRUE
          /\ \/ Goto(IF act.specs = {} THEN "identity" ELSE "units") /\ UNCHANGED used
             \/ Stop /\ Ends("failed") /\ stale' = (stale \/ (enabled' = {} /\ identity # NoName))
       \/ Fails /\ UNCHANGED <<enabled, phpGuard>>
    /\ UNCHANGED <<holding, identity, panelName, unitVars, binary, struck>>

(* stopUnits(): only the last addon's uninstall stops what addons share,    *)
(* once Nginx has taken the maintenance check back.                         *)
StopUnits ==
    /\ At("stop")
    /\ \/ /\ IF act.specs # {} THEN UNCHANGED unitVars
               ELSE active' = {} /\ boots' = {} /\ unitFiles' = {} /\ UNCHANGED unitText
          /\ Goto("files") /\ UNCHANGED used
       \/ Stop /\ Goto("return") /\ UNCHANGED unitVars
    /\ UNCHANGED <<enabled, holding, identity, panelName, phpGuard, binary, struck>>

(* removeAddonFiles(): purging instances may fail; the config goes last.    *)
RemoveFiles ==
    /\ At("files")
    /\ \/ enabled' = enabled \ {act.addon} /\ Goto("identity") /\ UNCHANGED used
       \/ Stop /\ Goto("return") /\ UNCHANGED enabled
    /\ UNCHANGED <<holding, identity, panelName, unitVars, phpGuard, binary, struck>>

(* "Still installed, so what deactivating withdrew goes back, and the       *)
(* shared units the last addon's uninstall had already stopped start again." *)
(* What of that fails is only warned of.                                    *)
StartedNever == FALSE      \* Mutant: the addon's own effects are put back alone.
StartedAgain == act.specs = {}
ReturnAddon ==
    /\ At("return")
    /\ \/ /\ holding' = holding \cup {act.addon} /\ UNCHANGED used
          /\ IF ~StartedAgain THEN UNCHANGED unitVars
               ELSE /\ unitFiles' = Shared \cup Watches[act.addon] /\ unitText' = {act.addon}
                    /\ active' = unitFiles' /\ boots' = unitFiles'
          /\ Ends("failed")
       \/ Stop /\ UNCHANGED <<holding, unitVars>> /\ Ends("warned")
       \/ /\ StartedAgain /\ Stop /\ holding' = holding \cup {act.addon}
          /\ unitFiles' = Shared \cup Watches[act.addon] /\ unitText' = {act.addon}
          /\ RefusedAmong(unitFiles', "warned")
    /\ UNCHANGED <<enabled, identity, panelName, phpGuard, binary, struck, stale>>

(* The last addon takes the guard, the units that are left and the binary.  *)
RemoveLast ==
    /\ At("last")
    /\ phpGuard' = FALSE /\ active' = {} /\ boots' = {} /\ unitFiles' = {} /\ UNCHANGED unitText
    /\ Goto("binary")
    /\ UNCHANGED <<enabled, holding, identity, panelName, binary, struck, used>>
RemoveBinary ==
    /\ At("binary")
    /\ binary' = FALSE /\ Finish
    /\ UNCHANGED <<enabled, holding, identity, panelName, unitVars, phpGuard, struck, used>>

-----------------------------------------------------------------------------
Killed ==
    /\ act.ended = "no" /\ Stop /\ Ends("killed") /\ LeftRecord
    /\ active' \in {active, boots}          \* the box stays up, or comes back with what boots
    /\ UNCHANGED <<enabled, holding, identity, panelName, unitFiles, unitText, boots, phpGuard, binary, struck>>

(* An operator gives the panel another name, or none at all.                *)
Rename(v) ==
    /\ used.renames < MaxRenames /\ used' = [used EXCEPT !.renames = @ + 1]
    /\ panelName' = v /\ stale' = (stale \/ enabled # {} \/ step = "config")
    /\ UNCHANGED <<enabled, holding, identity, unitVars, phpGuard, binary, act, step, struck>>

(* A root action on a site, at any time: dispatched for an enabled addon,   *)
(* refused for every name the record covers, and while there is no record.  *)
GuardRefusesKnown(n) == identity # NoName /\ n \in Covers[identity]
GuardRefuses(n) == IF identity = NoName THEN TRUE ELSE n \in Covers[identity]
SiteAction(n) ==
    /\ enabled # {} /\ binary /\ ~GuardRefuses(n)
    /\ struck' = (struck \/ (n \in Covers[panelName] /\ ~stale))
    /\ UNCHANGED <<enabled, holding, identity, panelName, unitVars, phpGuard, binary, act, step, stale, used>>

(* install.sh puts the binary back.                                         *)
Reinstall ==
    /\ ~binary /\ step = "idle" /\ binary' = TRUE
    /\ UNCHANGED <<enabled, holding, identity, panelName, unitVars, phpGuard, act, step, struck, stale, used>>

Next ==
    \/ \E a \in Addons : Enable(a) \/ Disable(a) \/ Uninstall(a)
    \/ Repair \/ WriteConfig \/ RecordIdentity \/ InstallShared \/ SyncWatchers \/ PatchPanel \/ ToggleUnits
    \/ StartUnits \/ KeepGuard \/ Activate \/ Deactivate \/ Withdraw \/ StopUnits \/ RemoveFiles \/ ReturnAddon
    \/ RemoveLast \/ RemoveBinary \/ Killed \/ Reinstall
    \/ (\E v \in DOMAIN Covers : Rename(v)) \/ (\E n \in Names : SiteAction(n))
Spec == Init /\ [][Next]_lifecycleVars

-----------------------------------------------------------------------------
(* A repair that ended has the manager, the timer and every watcher an      *)
(* enabled addon needs running and armed for the next boot, no watcher      *)
(* nobody wants, and the panel's name recorded exactly while an addon is    *)
(* enabled, whatever it started from.  One that systemctl would not start   *)
(* again is excepted: repair logs it and ends well (provision.ts:1102).     *)
RepairedIsWhole == act.kind = "repair" /\ act.ended = "well" =>
    /\ {"manager", "timer"} \cup Wanted(act.specs) \subseteq boots \cap (active \cup act.refused)
    /\ active \subseteq Wanted(act.specs) \cup Shared
    /\ (identity = NoName) = (act.specs = {}) /\ phpGuard

(* Withdrawing one addon stops no watcher another enabled addon wants,      *)
(* except one whose restart systemctl refused.                              *)
OthersWatchedStep == \A w \in active \ active' :
    act'.ended # "killed" => w \in act'.refused \/ \A a \in enabled : w \in Watches[a] => a = act.addon

(* An uninstall that failed before the addon's config was removed, on a box *)
(* that was set up, left it set up: the manager and the timer run and their *)
(* files are there, whether it had stopped them meanwhile or not, unless    *)
(* putting them back failed as well, which it warns of (uninstall.ts:76).   *)
StillWorks == (act.kind = "uninstall" /\ act.ended = "failed" /\ act.addon \in enabled /\ ~act.boot) =>
    Provisioned

(* No site action is let at a name the panel has, however the panel was     *)
(* named while no addon was enabled and whichever operation was ended where *)
(* it was: not while one has the config file but not yet the record, nor    *)
(* after it ended there.  Excepted: the time until the next repair after    *)
(* the panel is named anew with an addon enabled or its enabling past the   *)
(* record, and a record that a last disable or uninstall ended before       *)
(* removing (toggle.ts:170, uninstall.ts:95).                               *)
PanelIsSpared == ~struck
=============================================================================
