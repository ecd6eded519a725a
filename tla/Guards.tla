------------------------------- MODULE Guards -------------------------------
(***************************************************************************)
(* System Tweaks' guards: the scripts PHP-FPM prepends to two of the       *)
(* panel's pools (pool-guard.ts), the Varnish includes that go with the    *)
(* vhost guard, and the wrapper around CloudPanel's clpctl                 *)
(* (clpctl-guard.ts).  A switch on the page, a disabling or an enabling    *)
(* takes the settings lock, and so does each step of a repair; any step    *)
(* may fail or be killed, and CloudPanel may bring its own wrapper back.   *)
(***************************************************************************)
EXTENDS Naturals

CONSTANTS MaxGuardOps, MaxRepairs, MaxPanelUpdates

VARIABLES want,             \* the settings: which protections are asked for
          script, pool,     \* each guard's two files are in place
          prepended,        \* the running PHP-FPM prepends the guard's script
          includes,         \* the Varnish backends come from checked includes
          wrapper, saved,   \* whose clpctlWrapper is installed; the original is saved
          guardsOn,         \* System Tweaks is enabled
          holder, op,       \* who holds the settings lock; what each of the two does
          guardOps, repairs, panelUpdates,
          cut               \* ghost: an operation was killed, or could not be undone

guardVars == <<want, script, pool, prepended, includes, wrapper, saved, guardsOn, holder, op, guardOps, repairs, panelUpdates, cut>>

PoolGuards == {"vhost", "files"}
Protections == PoolGuards \cup {"clpctl"}
Actors == {"page", "repair"}
Resting == [verb |-> "none", on |-> FALSE, at |-> "idle", guard |-> "none", before |-> FALSE, then |-> "none", had |-> FALSE]
Doing(a, step) == op[a].at = step
Goes(a, step) == op' = [op EXCEPT ![a].at = step]

Init == /\ want = [p \in Protections |-> TRUE] /\ includes = FALSE
        /\ script = [g \in PoolGuards |-> FALSE] /\ pool = script /\ prepended = script
        /\ wrapper = "original" /\ saved = FALSE /\ guardsOn = TRUE /\ holder = "none"
        /\ op = [a \in Actors |-> Resting] /\ guardOps = 0 /\ repairs = 0 /\ panelUpdates = 0 /\ cut = FALSE

guardFiles == <<script, pool, prepended>>
clpctl == <<wrapper, saved>>
counters == <<guardOps, repairs, panelUpdates>>

-----------------------------------------------------------------------------
(* The lock, and what each operation does under it.                        *)
Asks(a, verb, guard, on) ==
  /\ Doing(a, "idle") /\ op' = [op EXCEPT ![a] = [Resting EXCEPT !.verb = verb, !.guard = guard, !.on = on, !.at = "wait"]]
  /\ UNCHANGED <<want, guardFiles, includes, clpctl, holder, panelUpdates, cut>>
Switch(p, on) == /\ guardsOn /\ guardOps < MaxGuardOps /\ guardOps' = guardOps + 1
                 /\ Asks("page", "set", p, on) /\ UNCHANGED <<guardsOn, repairs>>
withdrawSystemTweaks == /\ guardsOn /\ Doing("repair", "idle") /\ guardOps < MaxGuardOps /\ guardOps' = guardOps + 1
                        /\ Asks("page", "withdraw", "clpctl", FALSE) /\ UNCHANGED <<guardsOn, repairs>>
restoreSystemTweaks == /\ ~guardsOn /\ guardOps < MaxGuardOps /\ guardOps' = guardOps + 1 /\ guardsOn' = TRUE
                       /\ Asks("page", "restore", "clpctl", TRUE) /\ UNCHANGED repairs
(* Repair asks for the lock once for each guard.                           *)
systemTweaksMaintenance(p) == /\ guardsOn /\ ~(op["page"].verb = "withdraw") /\ repairs < MaxRepairs /\ repairs' = repairs + 1
                              /\ Asks("repair", "repair", p, TRUE) /\ UNCHANGED <<guardsOn, guardOps>>

(* The first step once the lock is held, from the settings as they are.    *)
First(o, wanted) ==
  CASE o.verb \in {"repair", "restore"} -> IF ~wanted[o.guard] THEN "done" ELSE IF o.guard = "clpctl" THEN "wrap" ELSE "install"
    [] o.verb = "withdraw" -> "unwrap"
    [] o.on -> IF o.guard = "clpctl" THEN "wrap" ELSE "install"
    [] OTHER -> IF o.guard = "clpctl" THEN "unwrap" ELSE "remove"
(* A switch that records its setting before it acts.                       *)
SavedFirst(o) == o.verb = "set" /\ (o.guard = "clpctl" \/ (o.guard = "files" /\ ~o.on))
(* Mutant: repair looks at the settings before it waits for the lock.      *)
TakeLockAnyway(a) == /\ Doing(a, "wait") /\ holder = "none" /\ holder' = a
                     /\ op' = [op EXCEPT ![a].at = First(op[a], [p \in Protections |-> TRUE]), ![a].before = want[op[a].guard], ![a].had = (wrapper = "ours")]
                     /\ want' = (IF SavedFirst(op[a]) THEN [want EXCEPT ![op[a].guard] = op[a].on] ELSE want)
                     /\ UNCHANGED <<guardFiles, includes, clpctl, guardsOn, counters, cut>>
TakeLock(a) == /\ Doing(a, "wait") /\ holder = "none" /\ holder' = a
               /\ op' = [op EXCEPT ![a].at = First(op[a], want), ![a].before = want[op[a].guard], ![a].had = (wrapper = "ours")]
               /\ want' = (IF SavedFirst(op[a]) THEN [want EXCEPT ![op[a].guard] = op[a].on] ELSE want)
               /\ UNCHANGED <<guardFiles, includes, clpctl, guardsOn, counters, cut>>
TimeOut(a) == /\ Doing(a, "wait") /\ holder \notin {"none", a} /\ op' = [op EXCEPT ![a] = Resting]
              /\ UNCHANGED <<want, guardFiles, includes, clpctl, guardsOn, holder, counters, cut>>
Holds(a, step) == Doing(a, step) /\ holder = a /\ UNCHANGED <<guardsOn, counters, holder>>
Ends(a) == /\ op' = [op EXCEPT ![a] = Resting] /\ holder' = "none"
G(a) == op[a].guard

-----------------------------------------------------------------------------
(* poolGuard.install and remove: both files, a reload, a proof.  A reload  *)
(* takes every pool file as it is by then.                                 *)
inPlace(g) == script[g] /\ pool[g]
enforced(g) == inPlace(g) /\ prepended[g]
AfterInstall(o) == IF o.verb = "set" /\ o.guard = "vhost" THEN (IF o.on THEN "save" ELSE "failed") ELSE IF o.verb = "set" THEN "save" ELSE "done"
InstallFiles(a) ==
  /\ Holds(a, "install") /\ UNCHANGED <<want, prepended, includes, clpctl, cut>>
  /\ \/ enforced(G(a)) /\ Goes(a, AfterInstall(op[a])) /\ UNCHANGED <<script, pool>>
     \/ /\ script' = [script EXCEPT ![G(a)] = TRUE] /\ pool' = [pool EXCEPT ![G(a)] = TRUE]
        /\ op' = [op EXCEPT ![a].at = "reload", ![a].then = IF pool[G(a)] THEN "kept" ELSE "new"]
     \/ Goes(a, "failed") /\ UNCHANGED <<script, pool>>
ReloadInstalled(a) == /\ Holds(a, "reload") /\ prepended' = pool /\ Goes(a, "prove")
                      /\ UNCHANGED <<want, script, pool, includes, clpctl, cut>>
Proven(a) == /\ Holds(a, "prove") /\ Goes(a, AfterInstall(op[a])) /\ UNCHANGED <<want, guardFiles, includes, clpctl, cut>>
InstallFails(a) == /\ op[a].at \in {"reload", "prove"} /\ Holds(a, op[a].at) /\ Goes(a, "reload back")
                   /\ pool' = [pool EXCEPT ![G(a)] = op[a].then = "kept"] /\ script' = [script EXCEPT ![G(a)] = op[a].then = "kept"]
                   /\ UNCHANGED <<want, prepended, includes, clpctl, cut>>
ReloadBack(a) == /\ Holds(a, "reload back") /\ Goes(a, "failed") /\ UNCHANGED <<want, script, pool, includes, clpctl>>
                 /\ \/ prepended' = pool /\ UNCHANGED cut
                    \/ cut' = TRUE /\ UNCHANGED prepended

AfterRemove(o) == IF o.verb = "withdraw" /\ o.guard = "files" THEN "next" ELSE IF o.guard = "vhost" THEN "includes" ELSE "done"
RemovePool(a) == /\ Holds(a, "remove") /\ op[a].before \in BOOLEAN /\ pool' = [pool EXCEPT ![G(a)] = FALSE]
                 /\ op' = [op EXCEPT ![a].at = IF pool[G(a)] \/ script[G(a)] THEN "reload without" ELSE AfterRemove(op[a]), ![a].then = IF pool[G(a)] THEN "kept" ELSE "new"]
                 /\ UNCHANGED <<want, script, prepended, includes, clpctl, cut>>
ReloadWithout(a) == /\ Holds(a, "reload without") /\ prepended' = pool /\ Goes(a, "remove script")
                    /\ UNCHANGED <<want, script, pool, includes, clpctl, cut>>
ReloadRefused(a) == /\ Holds(a, "reload without") /\ pool' = [pool EXCEPT ![G(a)] = op[a].then = "kept"] /\ Goes(a, "failed")
                    /\ UNCHANGED <<want, script, prepended, includes, clpctl, cut>>
RemoveScript(a) == /\ Holds(a, "remove script") /\ script' = [script EXCEPT ![G(a)] = FALSE] /\ Goes(a, AfterRemove(op[a]))
                   /\ UNCHANGED <<want, pool, prepended, includes, clpctl, cut>>

(* The Varnish includes that go with the vhost guard.                      *)
RemoveIncludes(a) == /\ Holds(a, "includes") /\ UNCHANGED <<want, guardFiles, clpctl, cut>>
                     /\ \/ includes' = FALSE /\ Goes(a, IF op[a].verb = "set" THEN "save" ELSE "done")
                        \/ includes /\ UNCHANGED includes /\ Goes(a, IF op[a].verb = "set" THEN "install" ELSE "failed")
InstallIncludes(a) == /\ Holds(a, "put includes") /\ UNCHANGED <<want, guardFiles, clpctl, cut>> /\ Goes(a, "done")
                      /\ includes' \in {TRUE, includes}

-----------------------------------------------------------------------------
(* The clpctl wrapper: the original is saved before ours takes its place,  *)
(* and forgotten after it is back.                                         *)
AfterWrap(o) == IF o.verb = "withdraw" THEN "failed" ELSE "done"
SaveOriginal(a) == /\ Holds(a, "wrap") /\ UNCHANGED <<want, guardFiles, includes, wrapper, cut>>
                   /\ \/ wrapper = "original" /\ saved' = TRUE /\ Goes(a, "wrap over")
                      \/ wrapper # "original" /\ UNCHANGED saved /\ Goes(a, AfterWrap(op[a]))
WriteOurs(a) == /\ Holds(a, "wrap over") /\ wrapper' = "ours" /\ Goes(a, AfterWrap(op[a]))
                /\ UNCHANGED <<want, guardFiles, includes, saved, cut>>
AfterUnwrap(o) == IF o.verb = "withdraw" THEN "others" ELSE "done"
(* Mutant: the saved original goes first.                                  *)
PutOriginalLast(a) == /\ Holds(a, "unwrap") /\ saved' = FALSE /\ Goes(a, AfterUnwrap(op[a]))
                      /\ UNCHANGED <<want, guardFiles, includes, wrapper, cut>>
PutOriginal(a) == /\ Holds(a, "unwrap") /\ UNCHANGED <<want, guardFiles, includes, saved, cut>>
                  /\ \/ wrapper = "ours" /\ saved /\ wrapper' = "original" /\ Goes(a, "forget")
                     \/ wrapper = "ours" /\ ~saved /\ UNCHANGED wrapper /\ Goes(a, "failed")
                     \/ wrapper \in {"original", "later"} /\ UNCHANGED wrapper /\ Goes(a, "forget")
                     \/ wrapper = "unknown" /\ UNCHANGED wrapper /\ Goes(a, AfterUnwrap(op[a]))
ForgetOriginal(a) == /\ Holds(a, "forget") /\ saved' = FALSE /\ Goes(a, AfterUnwrap(op[a]))
                     /\ UNCHANGED <<want, guardFiles, includes, wrapper, cut>>
(* The withdrawal's other steps, before the guards and after them.         *)
Others(a) == /\ Holds(a, "others") /\ UNCHANGED <<want, guardFiles, includes, clpctl, cut>>
             /\ \/ op' = [op EXCEPT ![a].at = "remove", ![a].guard = "files"]
                \/ Goes(a, "failed")
NextGuard(a) == /\ Holds(a, "next") /\ op' = [op EXCEPT ![a].at = "remove", ![a].guard = "vhost"]
                /\ UNCHANGED <<want, guardFiles, includes, clpctl, cut>>

-----------------------------------------------------------------------------
(* The end of an operation: the setting saved, put back, or as it was.     *)
SaveWanted(a) == /\ Holds(a, "save") /\ want' = [want EXCEPT ![G(a)] = op[a].on]
                 /\ Goes(a, IF G(a) = "vhost" /\ op[a].on THEN "put includes" ELSE "done")
                 /\ UNCHANGED <<guardFiles, includes, clpctl, cut>>
Done(a) == /\ Doing(a, "done") /\ holder = a /\ Ends(a) /\ guardsOn' = (guardsOn /\ op[a].verb # "withdraw")
           /\ UNCHANGED <<want, guardFiles, includes, clpctl, counters, cut>>
Unwrapped(a) == op[a].verb = "withdraw" /\ wrapper = "original" /\ want["clpctl"]
(* Mutant: a switch that failed leaves the setting it had already saved.   *)
FailedForgot(a) == /\ Doing(a, "failed") /\ holder = a /\ UNCHANGED <<want, guardFiles, includes, clpctl, guardsOn, counters, cut>>
                   /\ IF Unwrapped(a) THEN Goes(a, "wrap") /\ UNCHANGED holder ELSE Ends(a)
Failed(a) == /\ Doing(a, "failed") /\ holder = a /\ UNCHANGED <<guardFiles, includes, clpctl, guardsOn, counters, cut>>
             /\ want' = (IF SavedFirst(op[a]) THEN [want EXCEPT ![G(a)] = op[a].before] ELSE want)
             /\ IF Unwrapped(a) THEN Goes(a, "wrap") /\ UNCHANGED holder ELSE Ends(a)
Killed(a) == /\ holder = a /\ Ends(a) /\ cut' = TRUE /\ UNCHANGED <<want, guardFiles, includes, clpctl, guardsOn, counters>>

(* CloudPanel's update brings its wrapper back, or a later one.            *)
PanelUpdate == /\ panelUpdates < MaxPanelUpdates /\ panelUpdates' = panelUpdates + 1 /\ holder = "none"
               /\ wrapper' \in {"original", "later", "unknown"}
               /\ UNCHANGED <<want, guardFiles, includes, saved, guardsOn, holder, op, guardOps, repairs, cut>>

Steps(a) == \/ TakeLock(a) \/ TimeOut(a) \/ InstallFiles(a) \/ ReloadInstalled(a) \/ Proven(a) \/ InstallFails(a) \/ ReloadBack(a)
            \/ RemovePool(a) \/ ReloadWithout(a) \/ ReloadRefused(a) \/ RemoveScript(a) \/ RemoveIncludes(a) \/ InstallIncludes(a)
            \/ SaveOriginal(a) \/ WriteOurs(a) \/ PutOriginal(a) \/ ForgetOriginal(a) \/ Others(a) \/ NextGuard(a)
            \/ SaveWanted(a) \/ Done(a) \/ Failed(a) \/ Killed(a)
Next == \/ \E p \in Protections : systemTweaksMaintenance(p) \/ \E on \in BOOLEAN : Switch(p, on)
        \/ withdrawSystemTweaks \/ restoreSystemTweaks \/ PanelUpdate \/ \E a \in Actors : Steps(a)
Spec == Init /\ [][Next]_guardVars

-----------------------------------------------------------------------------
TypeOK == /\ want \in [Protections -> BOOLEAN] /\ {script, pool, prepended} \subseteq [PoolGuards -> BOOLEAN]
          /\ wrapper \in {"ours", "original", "later", "unknown"} /\ holder \in Actors \cup {"none"}

(* Nothing puts back a protection that the operator took away: only its    *)
(* own switch does, or a removal that takes back its own step.             *)
OffStaysOffStep ==
  /\ \A g \in PoolGuards : (pool'[g] /\ ~pool[g] /\ ~want[g]) =>
       (holder = "page" /\ op["page"].guard = g /\ (op["page"].verb = "set" \/ op["page"].at = "reload without"))
  /\ (wrapper' = "ours" /\ wrapper # "ours") => want["clpctl"]
(* A guard that is recorded as off is not prepended any more.              *)
OffIsOff == (holder = "none" /\ ~cut /\ guardsOn) => \A g \in PoolGuards : prepended[g] => want[g]
(* CloudPanel's own wrapper can be put back as long as ours is there.      *)
WrapperRestorable == wrapper = "ours" => saved
(* A withdrawal that fails does not leave the addon on and clpctl open.    *)
KeptGuardedStep == (op["page"].verb = "withdraw" /\ Doing("page", "failed") /\ holder' = "none" /\ ~cut' /\ op["page"].had /\ want["clpctl"])
                   => wrapper = "ours"
(* The script PHP-FPM prepends is there, but for an install's undoing.     *)
Undoing == \E a \in Actors : Doing(a, "reload back")
PrependedIsThere == (~cut /\ ~Undoing) => \A g \in PoolGuards : prepended[g] => script[g]
=============================================================================
