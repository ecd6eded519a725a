----------------------------- MODULE PoolPorts -----------------------------
(***************************************************************************)
(* Which accounts reach each PHP-FPM pool's port (pool-isolation.ts): an   *)
(* nftables table closes the ports the pool files name to all but their    *)
(* own user.  PHP-FPM's unit synchronises it before it starts and before   *)
(* and after it reloads, without a lock; the page's switch, repair, and    *)
(* the addon's disabling and enabling hold the settings lock meanwhile.    *)
(* One PHP version.  nft and a reload may fail; everything may be killed.  *)
(***************************************************************************)
EXTENDS Naturals, FiniteSets

CONSTANTS PortSites, PoolPortNumbers, MaxPoolEdits, MaxPageOps

VARIABLES pools,            \* the pool files: the port each site's names, or NoPort
          bound, leaving,   \* who answers: pairs of a port and the site whose pool took it; those PHP-FPM lets go
          table, rules,     \* the loaded table, and the ruleset file last written
          isolate, dropIn,  \* isolatePhpPools, and the drop-in on PHP-FPM's unit
          addonOn,          \* System Tweaks is enabled
          run,              \* the two who change the table: PHP-FPM's unit and the page
          poolEdits, pageOps,
          firm, torn        \* ghosts: an install closed every port and nothing loosened it; a step failed or was killed

poolPortVars == <<pools, bound, leaving, table, rules, isolate, dropIn, addonOn, run, poolEdits, pageOps, firm, torn>>

NoPort == 0
None == [ports |-> {}, owners |-> {}, there |-> FALSE]
Named == {pools[s] : s \in PortSites} \ {NoPort}
Serving == {<<pools[s], s>> : s \in {t \in PortSites : pools[t] # NoPort}}
Listening == {b[1] : b \in bound}
Resting == [verb |-> "none", at |-> "idle", snap |-> None, was |-> FALSE]
Doing(p, step) == run[p].at = step
Goes(p, step) == run' = [run EXCEPT ![p].at = step]

Init == /\ pools = [s \in PortSites |-> NoPort] /\ bound = {} /\ leaving = {} /\ table = None /\ rules = None
        /\ isolate = TRUE /\ dropIn = FALSE /\ addonOn = FALSE
        /\ run = [p \in {"fpm", "page"} |-> Resting] /\ poolEdits = 0 /\ pageOps = 0 /\ firm = FALSE /\ torn = FALSE

fpm == <<bound, leaving>>
files == <<pools, fpm, poolEdits>>
counts == <<pageOps, addonOn>>
ghosts == <<firm, torn>>
Loosened(now) == firm' = (firm /\ ~now) /\ torn' = torn
Torn == firm' = FALSE /\ torn' = TRUE

-----------------------------------------------------------------------------
(* syncPoolIsolation: the ruleset from the pool files and the ports kept   *)
(* closed, written and loaded.                                             *)
poolRuleset(also) == [ports |-> Named \cup also.ports,
                      owners |-> Serving \cup {o \in also.owners : o[1] \notin Named}, there |-> TRUE]
StillListening(loaded) == [loaded EXCEPT !.ports = @ \cap Listening, !.owners = {o \in @ : o[1] \in Listening}]
(* Mutant: the ports of the pool files alone.                              *)
ClosedNone(before) == None
Closed(before) == IF ~table.there \/ ~rules.there THEN None ELSE IF before THEN rules ELSE StillListening(rules)
Sync(p, before, next) ==
  LET wanted == poolRuleset(Closed(before)) IN
  /\ Doing(p, "sync")
  /\ run' = [run EXCEPT ![p].snap = wanted, ![p].at = IF wanted = rules /\ table.there THEN next ELSE "write"]
  /\ Loosened(\E q \in {"fpm", "page"} \ {p} : run[q].at \in {"write", "load"})
  /\ UNCHANGED <<files, table, rules, isolate, dropIn, counts>>
Write(p) == Doing(p, "write") /\ rules' = run[p].snap /\ Goes(p, "load") /\ UNCHANGED <<files, table, isolate, dropIn, counts, ghosts>>
Load(p, next) == /\ Doing(p, "load") /\ rules.there /\ table' = rules /\ Goes(p, next)
                 /\ UNCHANGED <<files, rules, isolate, dropIn, counts, ghosts>>
Refused(p, next) == /\ Doing(p, "load") /\ rules' = None /\ Goes(p, next) /\ IF rules.there THEN Torn ELSE Loosened(TRUE)
                    /\ UNCHANGED <<files, table, isolate, dropIn, counts>>
(* removePoolIsolation                                                     *)
RemoveDropIn(p) == Doing(p, "remove") /\ dropIn' = FALSE /\ Goes(p, "delete") /\ Loosened(TRUE) /\ UNCHANGED <<files, table, rules, isolate, counts>>
DeleteTable(p) == Doing(p, "delete") /\ table' = None /\ Goes(p, "forget") /\ UNCHANGED <<files, rules, isolate, dropIn, counts, ghosts>>
NotDeleted(p, next) == /\ Doing(p, "delete") /\ table.there /\ Goes(p, next) /\ Torn
                       /\ UNCHANGED <<files, table, rules, isolate, dropIn, counts>>
Forget(p, next) == Doing(p, "forget") /\ rules' = None /\ Goes(p, next) /\ UNCHANGED <<files, table, isolate, dropIn, counts, ghosts>>

-----------------------------------------------------------------------------
(* PHP-FPM's unit.  CloudPanel reloads it after it wrote the pool files.   *)
Unit(verb) == run["fpm"].verb = verb
Reloading(verb) == run' = [run EXCEPT !["fpm"] = [Resting EXCEPT !.verb = verb, !.at = IF dropIn THEN "read" ELSE "bind"]]
StartFpm == /\ Doing("fpm", "idle") /\ Reloading("before start") /\ bound' = {} /\ leaving' = {}
            /\ UNCHANGED <<pools, poolEdits, table, rules, isolate, dropIn, counts, ghosts>>
ReloadFpm == /\ Doing("fpm", "due") /\ Reloading(IF bound = {} THEN "before start" ELSE "before reload")
             /\ UNCHANGED <<files, table, rules, isolate, dropIn, counts, ghosts>>
NextStep == IF Unit("after reload") THEN "idle" ELSE "bind"
(* systemTweaksPhpPools: the setting is read without the lock, and again   *)
(* when the sync is over.                                                  *)
systemTweaksPhpPools == /\ Doing("fpm", "read") /\ Goes("fpm", IF isolate THEN "sync" ELSE NextStep)
                        /\ UNCHANGED <<files, table, rules, isolate, dropIn, counts, ghosts>>
Reread == /\ Doing("fpm", "reread") /\ Goes("fpm", IF isolate THEN NextStep ELSE "remove")
          /\ UNCHANGED <<files, table, rules, isolate, dropIn, counts, ghosts>>
(* The unit's own lines: the new ports are bound; the old ones let go by   *)
(* and by.                                                                 *)
Bind == /\ Doing("fpm", "bind")
        /\ leaving' = {b \in bound : b[1] \notin Named} /\ bound' = Serving \cup leaving'
        /\ run' = [run EXCEPT !["fpm"] = IF Unit("before reload") /\ dropIn THEN [@ EXCEPT !.verb = "after reload", !.at = "read"] ELSE Resting]
        /\ UNCHANGED <<pools, poolEdits, table, rules, isolate, dropIn, counts, ghosts>>
LetGo == /\ leaving # {} /\ leaving' = {} /\ bound' = bound \ leaving
         /\ UNCHANGED <<pools, poolEdits, table, rules, isolate, dropIn, run, counts, ghosts>>
FpmSync == \/ systemTweaksPhpPools \/ Sync("fpm", Unit("before reload"), "reread") \/ Write("fpm") \/ Load("fpm", "reread")
           \/ Refused("fpm", NextStep) \/ Reread
           \/ RemoveDropIn("fpm") \/ DeleteTable("fpm") \/ NotDeleted("fpm", NextStep) \/ Forget("fpm", NextStep)

(* CloudPanel writes the pool files; a reload follows.                     *)
EditPools(new) == /\ poolEdits < MaxPoolEdits /\ poolEdits' = poolEdits + 1 /\ new # pools /\ pools' = new
                  /\ \A s, t \in PortSites : (new[s] = new[t] /\ new[s] # NoPort) => s = t
                  /\ Doing("fpm", "idle") /\ Goes("fpm", "due") /\ UNCHANGED <<fpm, table, rules, isolate, dropIn, counts, ghosts>>

-----------------------------------------------------------------------------
(* Under the settings lock: the switch, repair, disabling, enabling.       *)
Page(verb) == run["page"].verb = verb
Starts(verb, step) == /\ Doing("page", "idle") /\ pageOps < MaxPageOps /\ pageOps' = pageOps + 1
                      /\ run' = [run EXCEPT !["page"] = [Resting EXCEPT !.verb = verb, !.at = step, !.was = isolate]]
                      /\ UNCHANGED <<files, table, rules, torn>>
setPhpPools(on) == /\ addonOn /\ Starts("set", IF on THEN "install" ELSE "remove") /\ isolate' = on /\ firm' = FALSE /\ UNCHANGED <<dropIn, addonOn>>
systemTweaksMaintenance == addonOn /\ isolate /\ Starts("repair", "install") /\ UNCHANGED <<isolate, dropIn, addonOn, firm>>
withdrawSystemTweaks == addonOn /\ Starts("withdraw", "remove") /\ firm' = FALSE /\ UNCHANGED <<isolate, dropIn, addonOn>>
restoreSystemTweaks == ~addonOn /\ Starts("restore", IF isolate THEN "install" ELSE "done") /\ addonOn' = TRUE /\ UNCHANGED <<isolate, dropIn, firm>>
Install == Doing("page", "install") /\ dropIn' = TRUE /\ Goes("page", "sync") /\ UNCHANGED <<files, table, rules, isolate, counts, ghosts>>
Covered == /\ Listening \subseteq table.ports
           /\ \A o \in table.owners : o[1] \in Listening => o \in bound \cup Serving
Finished == /\ Doing("page", "done") /\ run' = [run EXCEPT !["page"] = Resting]
            /\ addonOn' = (addonOn /\ ~Page("withdraw"))
            /\ firm' = (isolate /\ ~Page("withdraw") /\ dropIn /\ table = rules /\ Covered /\ run["fpm"].at \in {"idle", "due"}) /\ torn' = torn
            /\ UNCHANGED <<files, table, rules, isolate, dropIn, pageOps>>
Failed == /\ Doing("page", "failed") /\ run' = [run EXCEPT !["page"] = Resting]
          /\ isolate' = (IF Page("set") THEN run["page"].was ELSE isolate) /\ Torn /\ UNCHANGED <<files, table, rules, dropIn, counts>>
PageSync == \/ Install \/ Sync("page", FALSE, "done") \/ Write("page") \/ Load("page", "done") \/ Refused("page", "failed")
            \/ RemoveDropIn("page") \/ DeleteTable("page") \/ NotDeleted("page", "failed") \/ Forget("page", "done") \/ Finished \/ Failed

Killed(p) == /\ ~Doing(p, "idle") /\ ~Doing(p, "due") /\ Torn /\ ~torn
             /\ run' = [run EXCEPT ![p] = IF p = "fpm" THEN [@ EXCEPT !.at = NextStep] ELSE Resting]
             /\ run[p].at # NextStep /\ UNCHANGED <<files, table, rules, isolate, dropIn, counts>>

Next == \/ StartFpm \/ ReloadFpm \/ FpmSync \/ Bind \/ LetGo
        \/ \E new \in [PortSites -> PoolPortNumbers \cup {NoPort}] : EditPools(new)
        \/ \E on \in BOOLEAN : setPhpPools(on)
        \/ systemTweaksMaintenance \/ withdrawSystemTweaks \/ restoreSystemTweaks \/ PageSync
        \/ \E p \in {"fpm", "page"} : Killed(p)
Spec == Init /\ [][Next]_poolPortVars

-----------------------------------------------------------------------------
TypeOK == /\ pools \in [PortSites -> PoolPortNumbers \cup {NoPort}] /\ leaving \subseteq bound
          /\ bound \subseteq PoolPortNumbers \X PortSites /\ {table.there, rules.there, isolate, dropIn, addonOn} \subseteq BOOLEAN
          /\ table.ports \subseteq PoolPortNumbers /\ table.owners \subseteq PoolPortNumbers \X PortSites

(* Once an install has closed every port, they stay closed through every   *)
(* change of the pools, reload and restart: no port PHP-FPM answers on is  *)
(* open, and each admits only the user of the pool that answers there or   *)
(* the one the pool files give it to next.                                 *)
PortsStayClosed == firm => Covered
(* Switched off, the table is gone, also when PHP-FPM was synchronising.   *)
Quiet == Doing("page", "idle") /\ run["fpm"].at \in {"idle", "due"}
OffLeavesNone == (Quiet /\ addonOn /\ ~isolate /\ ~torn) => ~table.there
=============================================================================
