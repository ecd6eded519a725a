---------------------------- MODULE Injection ----------------------------
(***************************************************************************)
(* What the project writes into files that belong to CloudPanel: blocks    *)
(* in the panel's Twig templates, shared by all addons (cli/inject.ts      *)
(* `reconcile`, cli/reconcile.ts), and the /addons/ proxy in the panel's   *)
(* vhost (`reconcileNginxProxy`).  Both are regenerated from a recorded    *)
(* pristine copy and stop when the text around the blocks is not the one   *)
(* recorded.  One operation runs at a time, under the operation lock;      *)
(* CloudPanel's upgrades, its rewrites of the vhost and requests to the    *)
(* panel take no lock, and an operation may die at any step.               *)
(***************************************************************************)
EXTENDS Naturals, FiniteSets

CONSTANTS Addons,       \* the addons that patch templates; the manager patches too
          Files,        \* the templates
          TargetsOf,    \* [Addons \cup {"manager"} -> SUBSET Files]
          LastVersion,  \* CloudPanel's texts of a template or the vhost are 1..LastVersion
          NoAnchor,     \* versions whose template text lacks the anchor lines
          OwnLocation,  \* versions of the vhost with an /addons/ location of its own
          MaxOps, MaxFaults, MaxPanelWrites

None == 0
Gone == [up |-> 0, blocks |-> {}]
Cut == [up |-> LastVersion + 1, blocks |-> {}]      \* a write that was cut off

VARIABLES shipped,      \* the version CloudPanel last wrote of each template and of the vhost
          tpl,          \* [Files -> text on disk]
          pristine, hash, origin,   \* the three state files of a template
          compiled,     \* [Files -> the text the panel serves, None until it compiles one]
          enabled,      \* the addons with a config file
          vhost,        \* the panel's vhost: [up, proxy]; up is None without one server on 8443
          vbase,        \* its baseline: [pristine, hash, path]
          loaded,       \* the vhost its Nginx runs
          op,           \* the operation: [kind, addon, failed]
          pc, todo, file, held, changed, \* where reconcile() is
          missed,       \* history: what an operation that ended early left undone (below)
          overtaken,    \* history: what was replaced between an operation's look at it and its write
          spent         \* [ops, faults, panel] used up, the last by CloudPanel's upgrades and rewrites

templateVars == <<shipped, tpl, pristine, hash, origin, compiled>>
vhostVars == <<vhost, vbase, loaded>>
opVars == <<op, pc, todo, file, held, changed>>
history == <<missed, overtaken>>
injectionVars == <<templateVars, vhostVars, opVars, enabled, history, spent>>

(* The purge after a changed template, the reload after a changed vhost,   *)
(* and the path (.path) of a template that has its other two records.      *)
Nothing == [purge |-> FALSE, reload |-> FALSE, path |-> {}]

Idle == [kind |-> "none", addon |-> "manager", failed |-> FALSE]
Broken == [Idle EXCEPT !.failed = TRUE]
NoBase == [pristine |-> None, hash |-> None, path |-> None]
Versions == 1..LastVersion
Owners == Addons \cup {"manager"}

SomeFile == CHOOSE f \in Files : TRUE
Texts == [up : 0..(LastVersion + 1), blocks : SUBSET Owners]
Places == {"idle", "config", "list", "look", "pristine", "hash", "origin", "gate", "write", "forget", "purge",
           "withdraw", "proxy", "baseline", "insert", "test", "reload", "restore", "unbase"}

TypeOK ==
    /\ shipped \in [Files \cup {"vhost"} -> 0..LastVersion] /\ tpl \in [Files -> Texts]
    /\ {pristine, hash, origin} \subseteq [Files -> 0..LastVersion + 1]
    /\ compiled \in [Files -> Texts] /\ enabled \subseteq Addons
    /\ {vhost, loaded} \subseteq [up : 0..LastVersion, proxy : BOOLEAN]
    /\ vbase \in [pristine : 0..LastVersion, hash : 0..LastVersion, path : 0..LastVersion]
    /\ op \in [kind : {"none", "enable", "disable", "repair", "uninstall"}, addon : Owners, failed : BOOLEAN]
    /\ pc \in Places /\ todo \subseteq Files /\ file \in Files /\ changed \in BOOLEAN
    /\ missed \in [purge : BOOLEAN, reload : BOOLEAN, path : SUBSET Files] /\ overtaken \subseteq Files \cup {"vhost"}
    /\ spent \in [ops : 0..MaxOps, faults : 0..MaxFaults, panel : 0..MaxPanelWrites]

Init ==
    /\ shipped = [f \in Files \cup {"vhost"} |-> 1] /\ tpl = [f \in Files |-> [up |-> 1, blocks |-> {}]]
    /\ pristine = [f \in Files |-> None] /\ hash = pristine /\ origin = pristine
    /\ compiled = [f \in Files |-> Gone] /\ enabled = {}
    /\ vhost = [up |-> 1, proxy |-> FALSE] /\ vbase = NoBase /\ loaded = vhost
    /\ op = Idle /\ pc = "idle" /\ todo = {} /\ file = SomeFile /\ held = Gone /\ changed = FALSE
    /\ missed = Nothing /\ overtaken = {} /\ spent = [ops |-> 0, faults |-> 0, panel |-> 0]

Drop == held' = Gone /\ file' = SomeFile            \* what an operation read, once it is done with it
EndOp == op' = [Idle EXCEPT !.failed = op.failed] /\ pc' = "idle" /\ Drop
FailOp == op' = Broken /\ pc' = "idle" /\ Drop
(* What CloudPanel wrote, without anything between the project's markers.   *)
Stripped(text) == text.up
Fault == spent.faults < MaxFaults /\ spent' = [spent EXCEPT !.faults = @ + 1]
At(p) == pc = p /\ op.kind # "none"

-----------------------------------------------------------------------------
(* installedInjections(): whose blocks the templates should carry.  The     *)
(* manager's own stay until the last addon is uninstalled; an uninstall     *)
(* leaves its addon out while its config file is still there.               *)
LastGoes == op.kind = "uninstall" /\ enabled \subseteq {op.addon}
WantedOf(installed, nav) == [f \in Files |->
    {a \in installed \cup (IF nav THEN {"manager"} ELSE {}) : f \in TargetsOf[a]}]
Wanted == WantedOf(enabled \ (IF op.kind = "uninstall" THEN {op.addon} ELSE {}), ~LastGoes)

PatchedNone == {}
(* patchedFiles(): templates with a recorded path that are there.           *)
PatchedFiles == {f \in Files : origin[f] # None /\ tpl[f] # Gone}

Begin(kind, a) ==
    /\ pc = "idle" /\ spent.ops < MaxOps
    /\ spent' = [spent EXCEPT !.ops = @ + 1]
    /\ kind \in {"disable", "uninstall"} => a \in enabled
    /\ kind = "enable" => a \notin enabled
    /\ kind = "repair" => a = "manager" /\ spent.ops > 0
    /\ op' = [kind |-> kind, addon |-> a, failed |-> FALSE]
    /\ pc' = IF kind \in {"enable", "disable"} THEN "config" ELSE "list"
    /\ UNCHANGED <<templateVars, vhostVars, enabled, todo, file, held, changed, history>>

(* writeConfig() before the templates, the config's removal before them:    *)
(* the set is read from the state that now exists.                          *)
Config ==
    /\ At("config")
    /\ enabled' = IF op.kind = "enable" THEN enabled \cup {op.addon} ELSE enabled \ {op.addon}
    /\ pc' = "list"
    /\ UNCHANGED <<templateVars, vhostVars, op, todo, file, held, changed, history, spent>>

List ==
    /\ At("list")
    /\ todo' = {f \in Files : Wanted[f] # {}} \cup PatchedFiles
    /\ changed' = FALSE /\ pc' = "look"
    /\ UNCHANGED <<templateVars, vhostVars, op, file, held, enabled, history, spent>>

-----------------------------------------------------------------------------
(* renderFile()                                                             *)
Missing(f) ==
    /\ At("look") /\ f \in todo /\ tpl[f] = Gone
    /\ todo' = todo \ {f}
    /\ op' = [op EXCEPT !.failed = @ \/ Wanted[f] # {}]
    /\ UNCHANGED <<templateVars, vhostVars, pc, file, held, changed, enabled, history, spent>>

ReadTemplate(f) ==
    /\ At("look") /\ f \in todo /\ tpl[f] # Gone
    /\ file' = f /\ held' = tpl[f] /\ todo' = todo \ {f}
    /\ pc' = IF pristine[f] = None THEN "pristine" ELSE "gate"
    /\ UNCHANGED <<templateVars, vhostVars, op, changed, enabled, history, spent>>

WritePristine ==
    /\ At("pristine") /\ pc' = "hash"
    /\ pristine' = [pristine EXCEPT ![file] = Stripped(held)]
    /\ UNCHANGED <<shipped, tpl, hash, origin, compiled, vhostVars, op, todo, file, held, changed, enabled, history, spent>>

WriteHash ==
    /\ At("hash") /\ pc' = "origin"
    /\ hash' = [hash EXCEPT ![file] = Stripped(held)]
    /\ UNCHANGED <<shipped, tpl, pristine, origin, compiled, vhostVars, op, todo, file, held, changed, enabled, history, spent>>

WriteOrigin ==
    /\ At("origin") /\ pc' = "gate"
    /\ origin' = [origin EXCEPT ![file] = 1]
    /\ UNCHANGED <<shipped, tpl, pristine, hash, compiled, vhostVars, op, todo, file, held, changed, enabled, history, spent>>

(* A hash that cannot be read throws out of the whole operation.            *)
Throws ==
    /\ At("gate") /\ hash[file] = None
    /\ FailOp /\ todo' = {} /\ changed' = FALSE
    /\ missed' = [missed EXCEPT !.purge = @ \/ changed]
    /\ UNCHANGED <<templateVars, vhostVars, enabled, overtaken, spent>>

RefusedNever == FALSE
Refused == hash[file] # Stripped(held)

(* "Refuse to write markup built for markup that no longer exists."         *)
StopsAtGate ==
    /\ At("gate") /\ hash[file] # None /\ Refused
    /\ op' = [op EXCEPT !.failed = @ \/ Wanted[file] # {}] /\ pc' = "look" /\ Drop
    /\ UNCHANGED <<templateVars, vhostVars, todo, changed, enabled, history, spent>>

RenderedMine == [up |-> pristine[file],     \* one snapshot per addon, not per template
                 blocks |-> IF op.addon \in Addons THEN Wanted[file] \cap {op.addon, "manager"} ELSE Wanted[file]]
(* Every addon's snippet is applied again, to the pristine copy.            *)
Rendered == [up |-> pristine[file], blocks |-> IF pristine[file] \in NoAnchor THEN {} ELSE Wanted[file]]

PassesGate ==
    /\ At("gate") /\ hash[file] # None /\ ~Refused
    /\ op' = [op EXCEPT !.failed = @ \/ Rendered.blocks # Wanted[file]]
    /\ pc' = IF Rendered # held THEN "write" ELSE "forget"
    /\ UNCHANGED <<templateVars, vhostVars, todo, file, held, changed, enabled, history, spent>>

WriteTemplate ==
    /\ At("write") /\ tpl[file] # Gone
    /\ tpl' = [tpl EXCEPT ![file] = Rendered] /\ changed' = TRUE /\ pc' = "forget"
    /\ overtaken' = IF tpl[file] = held THEN overtaken ELSE overtaken \cup {file}
    /\ UNCHANGED <<shipped, pristine, hash, origin, compiled, vhostVars, op, todo, file, held, enabled, missed, spent>>

(* The panel's directory was moved aside meanwhile: the write throws.       *)
WriteThrows ==
    /\ At("write") /\ tpl[file] = Gone
    /\ FailOp /\ todo' = {} /\ changed' = FALSE
    /\ missed' = [missed EXCEPT !.purge = @ \/ changed]
    /\ UNCHANGED <<templateVars, vhostVars, enabled, overtaken, spent>>

(* Nothing of ours left in the file: its three state files go.              *)
Forget ==
    /\ At("forget") /\ pc' = "look" /\ Drop
    /\ LET gone == Wanted[file] = {} IN
       /\ pristine' = IF gone THEN [pristine EXCEPT ![file] = None] ELSE pristine
       /\ hash' = IF gone THEN [hash EXCEPT ![file] = None] ELSE hash
       /\ origin' = IF gone THEN [origin EXCEPT ![file] = None] ELSE origin
       /\ missed' = IF gone THEN [missed EXCEPT !.path = @ \ {file}] ELSE missed
    /\ UNCHANGED <<shipped, tpl, compiled, vhostVars, op, todo, changed, enabled, overtaken, spent>>

(* reconcileAnchors() purges the compiled templates when the markup changed; *)
(* an uninstall purges them whatever it changed.                            *)
Listed ==
    /\ At("look") /\ todo = {}
    /\ pc' = IF changed \/ op.kind = "uninstall" THEN "purge" ELSE "withdraw"
    /\ UNCHANGED <<templateVars, vhostVars, op, todo, file, held, changed, enabled, history, spent>>
Purge ==
    /\ At("purge") /\ pc' = "withdraw"
    /\ compiled' = [f \in Files |-> Gone]
    /\ changed' = FALSE /\ missed' = [missed EXCEPT !.purge = FALSE]
    /\ UNCHANGED <<shipped, tpl, pristine, hash, origin, vhostVars, op, todo, file, held, enabled, overtaken, spent>>

(* After the templates: an enable that could not patch is fatal, an         *)
(* uninstall removes the config last, and the vhost is reconciled by a      *)
(* repair and by the last addon's uninstall.                                *)
AfterTemplates ==
    /\ At("withdraw")
    /\ enabled' = IF op.kind = "uninstall" THEN enabled \ {op.addon} ELSE enabled
    /\ IF op.kind = "repair" \/ LastGoes
         THEN pc' = "proxy" /\ UNCHANGED <<op, file, held>>
         ELSE EndOp
    /\ UNCHANGED <<templateVars, vhostVars, todo, changed, history, spent>>

-----------------------------------------------------------------------------
(* reconcileNginxProxy()                                                    *)
ProxyWanted == op.kind # "uninstall"
Baseline == IF vbase.pristine # None /\ vbase.hash = vbase.pristine THEN vbase.hash ELSE None
HasState == vbase # NoBase

OneServer(text) == text.up # None
Resolved == OneServer(vhost)

LookVhost ==
    /\ At("proxy")
    /\ IF ~Resolved \/ (HasState /\ Baseline = None) \/ (Baseline # None /\ Baseline # Stripped(vhost))
         THEN FailOp                                    \* "ambiguous", "upstream-changed"
         ELSE held' = vhost /\ pc' = (IF HasState THEN "insert" ELSE "baseline") /\ UNCHANGED <<op, file>>
    /\ UNCHANGED <<templateVars, vhostVars, todo, changed, enabled, history, spent>>

WriteBaseline ==
    /\ At("baseline")
    /\ \/ vbase.pristine = None /\ vbase' = [vbase EXCEPT !.pristine = Stripped(held)] /\ UNCHANGED pc
       \/ vbase.pristine # None /\ vbase.hash = None /\ vbase' = [vbase EXCEPT !.hash = Stripped(held)] /\ UNCHANGED pc
       \/ vbase.hash # None /\ vbase' = [vbase EXCEPT !.path = 1] /\ pc' = "insert"
    /\ UNCHANGED <<templateVars, vhost, loaded, op, todo, file, held, changed, enabled, history, spent>>

RenderedVhost == [held EXCEPT !.proxy = ProxyWanted]

(* A location of the same name refuses; a vhost that already reads as it    *)
(* should is not written, tested or loaded again.                           *)
InsertProxy ==
    /\ At("insert")
    /\ CASE ProxyWanted /\ held.up \in OwnLocation -> FailOp /\ UNCHANGED vhost
         [] RenderedVhost = held /\ ProxyWanted -> EndOp /\ UNCHANGED vhost
         [] RenderedVhost = held /\ ~ProxyWanted -> pc' = "unbase" /\ UNCHANGED <<op, vhost, file, held>>
         [] OTHER -> pc' = "test" /\ vhost' = RenderedVhost /\ UNCHANGED <<op, file, held>>
    /\ overtaken' = IF vhost' = vhost \/ vhost = held THEN overtaken ELSE overtaken \cup {"vhost"}
    /\ UNCHANGED <<templateVars, vbase, loaded, todo, changed, enabled, missed, spent>>

TestProxy ==
    /\ At("test")
    /\ \/ pc' = "reload" /\ UNCHANGED spent
       \/ Fault /\ pc' = "restore"
    /\ UNCHANGED <<templateVars, vhostVars, op, todo, file, held, changed, enabled, history>>

ReloadProxy ==
    /\ At("reload")
    /\ \/ /\ loaded' = vhost /\ missed' = [missed EXCEPT !.reload = FALSE] /\ UNCHANGED spent
          /\ IF ProxyWanted THEN EndOp ELSE pc' = "unbase" /\ UNCHANGED <<op, file, held>>
       \/ Fault /\ pc' = "restore" /\ UNCHANGED <<loaded, op, file, held, missed>>
    /\ UNCHANGED <<templateVars, vhost, vbase, todo, changed, enabled, overtaken>>

RestoreVhost ==
    /\ At("restore")
    /\ vhost' = held /\ FailOp
    /\ overtaken' = IF vhost = RenderedVhost THEN overtaken ELSE overtaken \cup {"vhost"}
    /\ UNCHANGED <<templateVars, vbase, loaded, todo, changed, enabled, missed, spent>>

RemoveBaseline ==
    /\ At("unbase")
    /\ vbase' = NoBase /\ EndOp
    /\ UNCHANGED <<templateVars, vhost, loaded, todo, changed, enabled, history, spent>>

-----------------------------------------------------------------------------
(* Killed: a template being written in place is left cut off.               *)
Die ==
    /\ pc # "idle" /\ Fault
    /\ tpl' = IF pc = "write" THEN [tpl EXCEPT ![file] = Cut] ELSE tpl
    /\ FailOp /\ todo' = {} /\ changed' = FALSE
    /\ missed' = [purge |-> missed.purge \/ changed, reload |-> missed.reload \/ pc \in {"test", "reload", "restore"},
                  path |-> IF pc = "origin" THEN missed.path \cup {file} ELSE missed.path]
    /\ overtaken' = IF pc = "write" THEN overtaken \ {file} ELSE overtaken
    /\ UNCHANGED <<shipped, pristine, hash, origin, compiled, vhostVars, enabled>>

(* CloudPanel: a request compiles a template once, an upgrade moves the     *)
(* whole directory aside and extracts its own, the panel rewrites its vhost *)
(* and loads what it wrote.                                                 *)
Compile(f) ==
    /\ compiled[f] = Gone /\ tpl[f] # Gone
    /\ compiled' = [compiled EXCEPT ![f] = tpl[f]]
    /\ UNCHANGED <<shipped, tpl, pristine, hash, origin, vhostVars, opVars, enabled, history, spent>>

PanelAtWork == spent.panel < MaxPanelWrites /\ spent' = [spent EXCEPT !.panel = @ + 1]
MoveAside ==
    /\ \E f \in Files : shipped[f] < LastVersion
    /\ \A f \in Files : tpl[f] # Gone
    /\ tpl' = [f \in Files |-> Gone] /\ compiled' = [f \in Files |-> Gone]
    /\ missed' = [missed EXCEPT !.purge = FALSE] /\ PanelAtWork
    /\ UNCHANGED <<shipped, pristine, hash, origin, vhostVars, opVars, enabled, overtaken>>
Extract(changes) ==
    /\ \A f \in Files : tpl[f] = Gone
    /\ changes # {} /\ \A f \in changes : shipped[f] < LastVersion
    /\ shipped' = [f \in DOMAIN shipped |-> IF f \in changes THEN shipped[f] + 1 ELSE shipped[f]]
    /\ tpl' = [f \in Files |-> [up |-> shipped'[f], blocks |-> {}]]
    /\ overtaken' = overtaken \ Files
    /\ UNCHANGED <<pristine, hash, origin, compiled, vhostVars, opVars, enabled, missed, spent>>

PanelRewrites(v) ==
    /\ vhost # [up |-> v, proxy |-> FALSE]
    /\ vhost' = [up |-> v, proxy |-> FALSE] /\ loaded' = vhost' /\ shipped' = [shipped EXCEPT !["vhost"] = v]
    /\ missed' = [missed EXCEPT !.reload = FALSE] /\ overtaken' = overtaken \ {"vhost"}
    /\ PanelAtWork
    /\ UNCHANGED <<tpl, pristine, hash, origin, compiled, vbase, opVars, enabled>>

Next ==
    \/ \E kind \in {"enable", "disable", "repair", "uninstall"}, a \in Owners :
         (kind = "repair" <=> a = "manager") /\ Begin(kind, a)
    \/ Config \/ List \/ WritePristine \/ WriteHash \/ WriteOrigin \/ Throws \/ StopsAtGate \/ PassesGate
    \/ WriteTemplate \/ WriteThrows \/ Forget \/ Listed \/ Purge \/ AfterTemplates
    \/ \E f \in Files : Missing(f) \/ ReadTemplate(f) \/ Compile(f)
    \/ LookVhost \/ WriteBaseline \/ InsertProxy \/ TestProxy \/ ReloadProxy \/ RestoreVhost \/ RemoveBaseline
    \/ Die \/ MoveAside \/ \E changes \in SUBSET Files : Extract(changes)
    \/ \E v \in 0..LastVersion : PanelRewrites(v)
Spec == Init /\ [][Next]_injectionVars

-----------------------------------------------------------------------------
(* An operation on one addon, or a repair, takes no block of another addon  *)
(* that is enabled out of a template, whatever it found there.              *)
OthersBlocksStep == \A f \in Files, a \in Owners :
    (a \in tpl[f].blocks /\ a \notin tpl'[f].blocks /\ pc = "write" /\ pc' = "forget") => a \notin Wanted[f]

(* Once an operation ended well, a template carries no block of an addon    *)
(* that is not enabled (the manager's own apart).  A template whose path a  *)
(* kill kept from being recorded (inject.ts:231) is excepted: no later run  *)
(* without a block for it looks at it, so what was put there since stays.   *)
Settled == pc = "idle" /\ ~op.failed
WithdrawnLeavesPage == \A f \in Files \ missed.path :
    Settled => tpl[f].blocks \subseteq enabled \cup {"manager"}

(* A template, and the vhost, has the text CloudPanel wrote there last      *)
(* around the blocks, whatever stale record or upgrade an operation meets.  *)
(* Excepted: a template whose write was cut off, and a text CloudPanel put  *)
(* there between an operation's look and its write, which takes no second   *)
(* look (inject.ts:233 and 288, 674 and 728).                               *)
UpstreamKept ==
    /\ \A f \in Files \ overtaken : tpl[f].up \in {0, shipped[f], Cut.up}
    /\ "vhost" \notin overtaken => vhost.up = shipped["vhost"]

(* Once an operation ended well, the panel serves the template that is on   *)
(* disk, one whose write was cut off apart, unless an operation had ended   *)
(* between changing a template and the purge.                               *)
PageFollows == \A f \in Files :
    Settled => compiled[f] \in {Gone, tpl[f]} \/ tpl[f] = Cut
PageIsCurrent == missed.purge \/ PageFollows

(* Once an operation ended well, the panel's Nginx runs the vhost on disk.  *)
(* Excepted: one was killed between the vhost's write and the reload        *)
(* (inject.ts:728 and 745), as a later run finds the text right and loads   *)
(* nothing (724), or had written over CloudPanel's new vhost.               *)
ProxyIsLoaded == Settled => loaded = vhost \/ missed.reload \/ "vhost" \in overtaken
=============================================================================
