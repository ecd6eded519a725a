--------------------------- MODULE VarnishBackend ---------------------------
(***************************************************************************)
(* Sites' Varnish includes and nginx logs under root's control             *)
(* (varnish-backend.ts).  A switch on the page, repair or the new-site     *)
(* watcher installs or removes them; every nginx start and reload runs the *)
(* sync first, without a lock, while nginx goes on writing its logs and    *)
(* CloudPanel adds, saves and deletes sites.                               *)
(***************************************************************************)
EXTENDS FiniteSets, Naturals

CONSTANTS Sites, FirstSites, MaxSwitches, MaxPanelEdits, MaxLines

VARIABLES row, stored, rendered,     \* CloudPanel's: the site, its stored and its rendered vhost
          include, logDir,           \* the site's include and root's log directory are there
          homeEntry,                 \* what ~/logs/nginx is
          dropIn,                    \* nginx's unit runs the sync before it loads
          opened,                    \* which log nginx has open for the site
          homeLog, rootLog, putAside, \* the lines in the home, in root's directory, and kept elsewhere
          lines,                     \* how many lines nginx has written
          act, reloadWanted, switches, panelEdits,
          deleting,                  \* sites whose vhost CloudPanel has removed, before the home and the row
          late                       \* ghost: sites made while a sync without them was under way

varnishVars == <<row, stored, rendered, include, logDir, homeEntry, dropIn, opened, homeLog, rootLog, putAside, lines,
                 act, reloadWanted, switches, panelEdits, deleting, late>>
panel == <<row, stored, rendered, deleting, late>>
logs == <<homeLog, rootLog, putAside>>
bounds == <<lines, switches, panelEdits>>

Actors == {"unit", "page"}    \* nginx's unit, and whoever holds the settings lock
Resting == [at |-> "idle", verb |-> "none", rows |-> {}, kept |-> {}, todo |-> {}, named |-> {}, took |-> [s \in Sites |-> {}]]
Doing(a, step) == act[a].at = step
Goes(a, step) == act' = [act EXCEPT ![a].at = step]
ByName(s, v) == [x \in Sites |-> IF x \in s THEN v ELSE {}]

Init == /\ row = FirstSites /\ stored = [s \in Sites |-> "placeholders"] /\ deleting = {}
        /\ rendered = [s \in Sites |-> IF s \in FirstSites THEN "home" ELSE "none"]
        /\ include = {} /\ logDir = {} /\ homeEntry = [s \in Sites |-> IF s \in FirstSites THEN "dir" ELSE "new"]
        /\ dropIn = FALSE /\ opened = rendered
        /\ homeLog = ByName({}, {}) /\ rootLog = ByName({}, {}) /\ putAside = ByName({}, {})
        /\ lines = 0 /\ act = [a \in Actors |-> Resting] /\ reloadWanted = FALSE /\ switches = 0 /\ panelEdits = 0 /\ late = {}

(* What a site's rendered vhost names.                                     *)
NamesInclude(s) == rendered[s] = "ours"
(* Mutant: only a stored vhost that CloudPanel wrote needs the include.    *)
UsesIncludeFirst(s) == stored[s] = "placeholders"
UsesInclude(s) == stored[s] \in {"placeholders", "ours"} \/ NamesInclude(s)
NamesRootLogs(s) == rendered[s] \in {"ours", "logs"}

-----------------------------------------------------------------------------
(* nginx writes a line to the log it has open; what it has open was chosen *)
(* when it last loaded.                                                    *)
Request(s) ==
  /\ lines < MaxLines /\ opened[s] # "none" /\ lines' = lines + 1
  /\ homeLog' = (IF opened[s] = "home" THEN [homeLog EXCEPT ![s] = @ \cup {lines'}] ELSE homeLog)
  /\ rootLog' = (IF opened[s] = "root" THEN [rootLog EXCEPT ![s] = @ \cup {lines'}] ELSE rootLog)
  /\ putAside' = (IF opened[s] = "aside" THEN [putAside EXCEPT ![s] = @ \cup {lines'}] ELSE putAside)
  /\ UNCHANGED <<panel, include, logDir, homeEntry, dropIn, opened, act, reloadWanted, switches, panelEdits>>
LoadsOf(s) == CASE rendered[s] = "none" -> "none"
                [] rendered[s] = "home" /\ homeEntry[s] # "link" -> "home"
                [] OTHER -> "root"
(* nginx refuses what names a missing include or a missing directory.      *)
LoadableOf(some, vhosts) == \A s \in some : (vhosts[s] = "ours" => s \in include) /\ (vhosts[s] \in {"ours", "logs"} => s \in logDir)
CanLoad == LoadableOf(Sites, rendered)
Load(a) == /\ Doing(a, "load") /\ act' = [act EXCEPT ![a] = Resting]
           /\ opened' = (IF CanLoad THEN [s \in Sites |-> LoadsOf(s)] ELSE opened)
           /\ UNCHANGED <<panel, include, logDir, homeEntry, dropIn, logs, reloadWanted, bounds>>

-----------------------------------------------------------------------------
(* syncVarnishBackends: the rows are read once, then site after site, then *)
(* what no row and no vhost needs goes.                                    *)
SyncOf(verb) == [Resting EXCEPT !.at = "site", !.verb = verb, !.rows = row, !.todo = row]
UnitReload ==
  /\ Doing("unit", "idle") /\ reloadWanted /\ reloadWanted' = FALSE
  /\ act' = [act EXCEPT !["unit"] = IF dropIn THEN SyncOf("reload") ELSE [Resting EXCEPT !.at = "load", !.verb = "reload"]]
  /\ UNCHANGED <<panel, include, logDir, homeEntry, dropIn, opened, logs, bounds>>
(* linkHomeLogs: a log is copied when root's directory has none of its     *)
(* name, and removed from the home once copied; the rest moves aside.      *)
CopyLogs(a, s) ==
  LET copies == homeEntry[s] = "dir" /\ s \notin logDir
  IN  /\ Doing(a, "site") /\ s \in act[a].todo /\ logDir' = logDir \cup {s}
      /\ act' = [act EXCEPT ![a].at = IF copies THEN "link" ELSE "set aside", ![a].named = {s}]
      /\ rootLog' = (IF copies THEN [rootLog EXCEPT ![s] = homeLog[s]] ELSE rootLog)
      /\ UNCHANGED <<panel, include, homeEntry, dropIn, opened, homeLog, putAside, reloadWanted, bounds>>
(* The home's entry becomes a link, the rendered vhost names root's logs,  *)
(* and the include is written when the site's vhosts name one.             *)
linkHomeLogs(a, s) ==
  IF homeEntry[s] # "dir" THEN UNCHANGED <<homeEntry, homeLog, putAside, opened>>
  ELSE /\ homeEntry' = [homeEntry EXCEPT ![s] = "link"] /\ homeLog' = [homeLog EXCEPT ![s] = {}]
       /\ putAside' = (IF Doing(a, "set aside") THEN [putAside EXCEPT ![s] = @ \cup homeLog[s]] ELSE putAside)
       /\ opened' = [opened EXCEPT ![s] = IF @ # "home" THEN @ ELSE IF Doing(a, "link") THEN "gone" ELSE "aside"]
pointLogsAtRoot(s) == rendered' = [rendered EXCEPT ![s] = IF @ = "home" THEN "logs" ELSE @]
LinkSite(a, s) ==
  /\ act[a].at \in {"link", "set aside"} /\ act[a].named = {s}
  /\ act' = [act EXCEPT ![a].at = "site", ![a].todo = @ \ {s}, ![a].named = {}, ![a].kept = IF UsesInclude(s) THEN @ \cup {s} ELSE @]
  /\ linkHomeLogs(a, s) /\ pointLogsAtRoot(s)
  /\ include' = (IF UsesInclude(s) THEN include \cup {s} ELSE include)
  /\ UNCHANGED <<row, stored, deleting, late, logDir, dropIn, rootLog, reloadWanted, bounds>>
PruneIncludes(a) == /\ Doing(a, "site") /\ act[a].todo = {} /\ Goes(a, "named")
                    /\ include' = {s \in include : s \in act[a].kept \/ NamesInclude(s)}
                    /\ UNCHANGED <<panel, logDir, homeEntry, dropIn, opened, logs, reloadWanted, bounds>>
ReadVhosts(a) == /\ Doing(a, "named") /\ act' = [act EXCEPT ![a].at = "prune", ![a].named = {s \in Sites : NamesRootLogs(s)}]
                 /\ UNCHANGED <<panel, include, logDir, homeEntry, dropIn, opened, logs, reloadWanted, bounds>>
AfterSync(verb) == CASE verb = "reload" -> "load" [] verb = "install" -> "drop-in" [] OTHER -> "failed"
PruneLogDirs(a) ==
  LET gone == {s \in logDir : s \notin act[a].rows /\ s \notin act[a].named}
  IN  /\ Doing(a, "prune") /\ act[a].verb # "remove" /\ Goes(a, AfterSync(act[a].verb))
      /\ logDir' = logDir \ gone /\ rootLog' = [s \in Sites |-> IF s \in gone THEN {} ELSE rootLog[s]]
      /\ opened' = [s \in Sites |-> IF s \in gone /\ opened[s] = "root" THEN "gone" ELSE opened[s]]
      /\ UNCHANGED <<panel, include, homeEntry, dropIn, homeLog, putAside, reloadWanted, bounds>>

-----------------------------------------------------------------------------
(* installVarnishBackends: the sync, the drop-in, the vhosts.              *)
installVarnishBackends ==
  /\ Doing("page", "idle") /\ switches < MaxSwitches /\ switches' = switches + 1 /\ act' = [act EXCEPT !["page"] = SyncOf("install")]
  /\ UNCHANGED <<panel, include, logDir, homeEntry, dropIn, opened, logs, reloadWanted, lines, panelEdits>>
PutDropIn == /\ Doing("page", "drop-in") /\ dropIn' = TRUE /\ Goes("page", "stage")
             /\ UNCHANGED <<panel, include, logDir, homeEntry, opened, logs, reloadWanted, bounds>>
(* One transaction: the stored vhosts, the rendered ones that can follow,  *)
(* nginx's test of them and its reload.                                    *)
StageOn == /\ Doing("page", "stage") /\ act' = [act EXCEPT !["page"] = Resting]
           /\ \/ /\ stored' = [s \in Sites |-> IF s \in row THEN "ours" ELSE stored[s]] /\ reloadWanted' = TRUE
                 /\ \E read \in SUBSET row : rendered' = [s \in Sites |-> IF s \notin row \/ rendered[s] \notin {"home", "logs"} THEN rendered[s]
                                                                          ELSE IF s \in read THEN "ours" ELSE "logs"]
                 /\ LoadableOf(Sites, rendered')
              \/ UNCHANGED <<stored, rendered, reloadWanted>>
           /\ UNCHANGED <<row, deleting, late, include, logDir, homeEntry, dropIn, opened, logs, bounds>>

(* removeVarnishBackends: the drop-in goes first, then each site's logs    *)
(* are copied home, the vhosts go back, and what nothing names is kept.    *)
removeVarnishBackends ==
  /\ Doing("page", "idle") /\ switches < MaxSwitches /\ switches' = switches + 1
  /\ dropIn \/ include # {} \/ logDir # {}
  /\ dropIn' = FALSE /\ act' = [act EXCEPT !["page"] = [SyncOf("remove") EXCEPT !.at = "unstage", !.named = IF dropIn THEN {"drop-in"} ELSE {}]]
  /\ UNCHANGED <<panel, include, logDir, homeEntry, opened, logs, reloadWanted, lines, panelEdits>>
(* A copy is made only where the home has no log of that name.  A sync     *)
(* that is still at the directory before removes nothing of the new one:   *)
(* it moves it aside.                                                      *)
UnstageSite(s) ==
  /\ Doing("page", "unstage") /\ s \in act["page"].todo
  /\ LET copy == homeEntry[s] = "link" /\ s \in logDir
     IN  /\ act' = [act EXCEPT !["page"].todo = @ \ {s}, !["page"].took[s] = IF copy THEN rootLog[s] ELSE {},
                                !["unit"].at = IF @ = "link" /\ act["unit"].named = {s} /\ homeEntry[s] = "link" THEN "set aside" ELSE @]
         /\ homeLog' = (IF copy THEN [homeLog EXCEPT ![s] = rootLog[s]] ELSE homeLog)
  /\ homeEntry' = [homeEntry EXCEPT ![s] = IF @ = "link" THEN "dir" ELSE @]
  /\ UNCHANGED <<panel, include, logDir, dropIn, opened, rootLog, putAside, reloadWanted, bounds>>
StageOff == /\ Doing("page", "unstage") /\ act["page"].todo = {} /\ Goes("page", "removing")
            /\ stored' = [s \in Sites |-> IF s \in row THEN "placeholders" ELSE stored[s]]
            /\ rendered' = [s \in Sites |-> IF s \in row /\ NamesRootLogs(s) THEN "home" ELSE rendered[s]]
            /\ opened' = [s \in Sites |-> IF s \in row /\ rendered[s] # "none" THEN (IF homeEntry[s] = "link" THEN "root" ELSE "home") ELSE opened[s]]
            /\ UNCHANGED <<row, deleting, late, include, logDir, homeEntry, dropIn, logs, reloadWanted, bounds>>
(* Refused or failed: the drop-in and the links come back.                 *)
NotStaged == /\ Doing("page", "unstage") /\ dropIn' = ("drop-in" \in act["page"].named) /\ act' = [act EXCEPT !["page"] = SyncOf("undo")]
             /\ UNCHANGED <<panel, include, logDir, homeEntry, opened, logs, reloadWanted, bounds>>
RemoveIncludes == /\ Doing("page", "removing") /\ include' = {s \in include : NamesInclude(s)} /\ Goes("page", "named")
                  /\ UNCHANGED <<panel, logDir, homeEntry, dropIn, opened, logs, reloadWanted, bounds>>
(* Mutant: what was copied is deleted, whatever came since.                *)
KeepUncopiedNone ==
  LET moved == logDir \ act["page"].named
  IN  /\ Doing("page", "prune") /\ act["page"].verb = "remove" /\ Goes("page", "failed") /\ logDir' = logDir \ moved
      /\ rootLog' = [s \in Sites |-> IF s \in moved THEN {} ELSE rootLog[s]]
      /\ opened' = [s \in Sites |-> IF s \in moved /\ opened[s] = "root" THEN "gone" ELSE opened[s]]
      /\ UNCHANGED <<panel, include, homeEntry, dropIn, homeLog, putAside, reloadWanted, bounds>>
keepUncopiedLogs ==
  LET moved == logDir \ act["page"].named
      left(s) == s \in moved /\ rootLog[s] # act["page"].took[s]
  IN  /\ Doing("page", "prune") /\ act["page"].verb = "remove" /\ Goes("page", "failed") /\ logDir' = logDir \ moved
      /\ putAside' = [s \in Sites |-> IF left(s) THEN putAside[s] \cup rootLog[s] ELSE putAside[s]]
      /\ rootLog' = [s \in Sites |-> IF s \in moved THEN {} ELSE rootLog[s]]
      /\ opened' = [s \in Sites |-> IF s \in moved /\ opened[s] = "root" THEN (IF left(s) THEN "aside" ELSE "gone") ELSE opened[s]]
      /\ UNCHANGED <<panel, include, homeEntry, dropIn, homeLog, reloadWanted, bounds>>
PageEnds == /\ act["page"].at \in {"failed", "drop-in", "stage", "unstage"} /\ act' = [act EXCEPT !["page"] = Resting]
            /\ UNCHANGED <<panel, include, logDir, homeEntry, dropIn, opened, logs, reloadWanted, bounds>>

-----------------------------------------------------------------------------
(* CloudPanel renders a vhost from the stored one and reloads nginx; it    *)
(* deletes a site's vhost, reloads, then its home, and last its row.       *)
Edits == panelEdits < MaxPanelEdits /\ panelEdits' = panelEdits + 1 /\ reloadWanted' = TRUE
           /\ UNCHANGED <<include, logDir, dropIn, act, lines, switches>>
CreateSite(s) == /\ Edits /\ homeEntry[s] = "new" /\ row' = row \cup {s} /\ stored' = [stored EXCEPT ![s] = "placeholders"]
                 /\ rendered' = [rendered EXCEPT ![s] = "home"] /\ homeEntry' = [homeEntry EXCEPT ![s] = "dir"]
                 /\ late' = (IF \E a \in Actors : ~Doing(a, "idle") THEN late \cup {s} ELSE late)
                 /\ UNCHANGED <<opened, logs, deleting>>
SaveSite(s) == /\ Edits /\ s \in row \ deleting /\ rendered' = [rendered EXCEPT ![s] = IF stored[s] = "ours" THEN "ours" ELSE "home"]
               /\ UNCHANGED <<row, stored, deleting, late, homeEntry, opened, logs>>
DeleteVhost(s) == /\ Edits /\ s \in row \ deleting /\ rendered' = [rendered EXCEPT ![s] = "none"] /\ deleting' = deleting \cup {s}
                  /\ UNCHANGED <<row, stored, late, homeEntry, opened, logs>>
DeleteSite(s) == /\ s \in deleting /\ row' = row \ {s} /\ deleting' = deleting \ {s} /\ homeEntry' = [homeEntry EXCEPT ![s] = "gone"]
                 /\ opened' = [opened EXCEPT ![s] = IF @ = "home" THEN "gone" ELSE @] /\ homeLog' = [homeLog EXCEPT ![s] = {}]
                 /\ UNCHANGED <<stored, rendered, late, include, logDir, dropIn, rootLog, putAside, act, reloadWanted, bounds>>

SyncSteps(a) == PruneIncludes(a) \/ ReadVhosts(a) \/ PruneLogDirs(a) \/ \E s \in Sites : CopyLogs(a, s) \/ LinkSite(a, s)
Next == \/ UnitReload \/ Load("unit") \/ \E a \in Actors : SyncSteps(a)
        \/ installVarnishBackends \/ PutDropIn \/ StageOn \/ removeVarnishBackends \/ StageOff \/ NotStaged \/ RemoveIncludes
        \/ keepUncopiedLogs \/ PageEnds
        \/ \E s \in Sites : UnstageSite(s) \/ Request(s) \/ CreateSite(s) \/ SaveSite(s) \/ DeleteVhost(s) \/ DeleteSite(s)
Spec == Init /\ [][Next]_varnishVars

-----------------------------------------------------------------------------
TypeOK == /\ {row, include, logDir, deleting} \subseteq SUBSET Sites /\ stored \in [Sites -> {"placeholders", "ours"}]
          /\ rendered \in [Sites -> {"none", "home", "logs", "ours"}] /\ opened \in [Sites -> {"none", "home", "root", "aside", "gone"}]
          /\ homeEntry \in [Sites -> {"dir", "link", "new", "gone"}] /\ {homeLog, rootLog, putAside} \subseteq [Sites -> SUBSET (1..MaxLines)]

Everything(s) == homeLog[s] \cup rootLog[s] \cup putAside[s]
(* A switch-off loses no line of a site that is there: what is not in the  *)
(* home stays in root's directory or is kept beside it.                    *)
RemoveLosesNothingStep ==
  act["page"].verb = "remove" /\ act'["page"] # act["page"] => \A s \in row \cap row' : Everything(s) \subseteq Everything(s)'
(* nginx's last load, after its sync, finds all that the vhosts name,      *)
(* unless another sync is at work beside it, or was when CloudPanel made   *)
(* the site.                                                               *)
LoadsWhatIsThere == (Doing("unit", "load") /\ dropIn /\ ~reloadWanted /\ Doing("page", "idle")) => LoadableOf(Sites \ late, rendered)
(* A home's log goes once all of it is copied.                             *)
CopiedBeforeItGoesStep == \A s \in row \cap row' : homeLog[s] \subseteq Everything(s)'
=============================================================================
