------------------------------- MODULE Upkeep -------------------------------
(***************************************************************************)
(* System Tweaks' automatic updates (system-tweaks/updates.ts) and login   *)
(* jails (login-jails.ts): what they change of the server, what they       *)
(* record in settings.json to put back, and the operations of action.ts    *)
(* that apply, restore and withdraw them.                                  *)
(*                                                                         *)
(* Each operation holds the settings lock and is the list of the steps it  *)
(* has left; apt, Nginx, fail2ban and systemd may refuse any, the process  *)
(* may be killed between two, and the operator changes units meanwhile.    *)
(***************************************************************************)
EXTENDS Naturals, Sequences, FiniteSets

CONSTANTS Timers, MaxUnitEdits, MaxUpkeepRuns

VARIABLES tweaksOn,                     \* the addon is enabled
          saved,                        \* settings.json
          dropIn, timers,               \* apt's drop-in; the units that run it
          packages, jailFiles, loginLog, fail2ban,  \* fail2ban's packages, its jails, its unit
          sshJail,                      \* the operator's own jail for SSH
          task, unitEdits, upkeepRuns,
          ours, found, spoiled          \* ghosts, see below

upkeepVars == <<tweaksOn, saved, dropIn, timers, packages, jailFiles, loginLog, fail2ban, sshJail, task, unitEdits, upkeepRuns,
                ours, found, spoiled>>
updatesSide == <<dropIn, timers, ours>>
jailsSide == <<jailFiles, loginLog, fail2ban, found>>
world == <<tweaksOn, packages, sshJail, unitEdits, upkeepRuns>>

NoRecord == <<>>                        \* fail2banBefore is null
Units == [enabled : BOOLEAN, active : BOOLEAN]
NoJails == [panel |-> FALSE, ssh |-> FALSE]
NoTask == [todo |-> <<>>, verb |-> "none", snap |-> <<>>, jails |-> NoJails, off |-> {}, now |-> {}, kept |-> {},
           before |-> NoRecord, changed |-> FALSE, touched |-> FALSE]
Free == task = NoTask
Next1(step) == ~Free /\ Head(task.todo) = step
Left == Tail(task.todo)

(* ours: the timers this addon enabled and has not disabled since.  found: *)
(* fail2ban before it first started it.  spoiled: an operation that had    *)
(* started or enabled a unit ended before it recorded that.                *)
Init == /\ tweaksOn = TRUE /\ saved = [upd |-> FALSE, timers |-> {}, jails |-> [panel |-> TRUE, ssh |-> FALSE], before |-> NoRecord]
        /\ dropIn = FALSE /\ timers = [t \in Timers |-> "off"] /\ packages = FALSE /\ jailFiles = NoJails /\ loginLog = FALSE
        /\ fail2ban = [enabled |-> FALSE, active |-> FALSE] /\ sshJail = FALSE
        /\ task = NoTask /\ unitEdits = 0 /\ upkeepRuns = 0 /\ ours = {} /\ found = NoRecord /\ spoiled = FALSE

-----------------------------------------------------------------------------
(* The operations: their steps, and the settings each has read.            *)
ApplyUpdates == <<"dropin", "timers">>
DropUpdates == <<"undrop">>
ApplyJails(jails) == IF jails = NoJails THEN <<"unlog", "unfile", "unserve", "undisable">>
                                        ELSE <<"look", "log", "file", "serve", "enable">>
Start(verb, todo, snap, jails) ==
  /\ Free /\ upkeepRuns < MaxUpkeepRuns /\ upkeepRuns' = upkeepRuns + 1
  /\ task' = [NoTask EXCEPT !.todo = todo, !.verb = verb, !.snap = snap, !.jails = jails, !.kept = snap.timers,
                            !.before = snap.before]
  /\ UNCHANGED <<tweaksOn, packages, sshJail, unitEdits, saved, updatesSide, jailsSide, spoiled>>
setUpdates(on) == tweaksOn /\ Start(IF on THEN "updates on" ELSE "updates off",
                                    (IF on THEN ApplyUpdates ELSE DropUpdates) \o <<"saveUpdates">>, saved, saved.jails)
setLoginJails(jails) == tweaksOn /\ Start("jails", ApplyJails(jails) \o <<"saveJails">>, saved, jails)
systemTweaksUpkeep ==
  tweaksOn /\ Start("upkeep", (IF saved.upd THEN ApplyUpdates \o <<"saveTimers">> ELSE <<>>)
                              \o ApplyJails(saved.jails) \o <<"saveJails">>, saved, saved.jails)
installFail2ban == tweaksOn /\ Start("jails", <<"install">> \o ApplyJails(saved.jails) \o <<"saveJails">>, saved, saved.jails)
withdrawSystemTweaks ==
  tweaksOn /\ Start("withdraw", DropUpdates \o <<"saveTimers">> \o ApplyJails(NoJails) \o <<"forgetBefore", "off">>, saved, NoJails)
restoreSystemTweaks ==
  ~tweaksOn /\ Start("restore", (IF saved.upd THEN ApplyUpdates \o <<"saveTimers">> ELSE <<>>) \o <<"reread">>
                                \o ApplyJails(saved.jails) \o <<"saveJails", "on">>, saved, saved.jails)

Going(t) == task' = IF Left = <<>> THEN NoTask ELSE [t EXCEPT !.todo = Left]
(* A refusal or a kill: the operation is over, and what it did stays.      *)
Ends == task' = NoTask /\ spoiled' = (spoiled \/ task.touched)
Fails == /\ ~Free /\ Ends /\ found' = (IF ~task.touched /\ saved.before = NoRecord THEN NoRecord ELSE found)
         /\ UNCHANGED <<world, saved, updatesSide, jailFiles, loginLog, fail2ban>>

-----------------------------------------------------------------------------
(* applyUpdates.                                                           *)
Off == {t \in Timers : timers[t] = "off"}
WriteDropIn == /\ Next1("dropin") /\ dropIn' = TRUE /\ Going([task EXCEPT !.changed = ~dropIn, !.off = Off])
               /\ UNCHANGED <<world, saved, timers, ours, jailsSide, spoiled>>
EnableTimer == /\ Next1("timers") /\ \E t \in task.off : /\ timers' = [timers EXCEPT ![t] = "on"] /\ ours' = ours \cup {t}
                                                    /\ task' = [task EXCEPT !.off = @ \ {t}, !.now = @ \cup {t}, !.touched = TRUE]
               /\ UNCHANGED <<world, saved, dropIn, jailsSide, spoiled>>
TimersEnabled == /\ Next1("timers") /\ task.off = {} /\ Going([task EXCEPT !.kept = @ \cup task.now])
                 /\ UNCHANGED <<world, saved, updatesSide, jailsSide, spoiled>>
TimerRefused == /\ Next1("timers") /\ task.off # {} /\ task' = NoTask
                /\ timers' = [t \in Timers |-> IF t \in task.now THEN "off" ELSE timers[t]] /\ ours' = ours \ task.now
                /\ dropIn' = (dropIn /\ ~task.changed)
                /\ UNCHANGED <<world, saved, jailsSide, spoiled>>
(* Mutant: every timer goes with the switch.                               *)
RemoveDropInAndTimers ==
  /\ Next1("undrop") /\ dropIn' = FALSE /\ timers' = [t \in Timers |-> "off"] /\ ours' = {}
  /\ Going([task EXCEPT !.kept = {}]) /\ UNCHANGED <<world, saved, jailsSide, spoiled>>
RemoveDropIn ==
  /\ Next1("undrop") /\ dropIn' = FALSE
  /\ timers' = [t \in Timers |-> IF t \in task.snap.timers THEN "off" ELSE timers[t]] /\ ours' = ours \ task.snap.timers
  /\ Going([task EXCEPT !.kept = {}]) /\ UNCHANGED <<world, saved, jailsSide, spoiled>>

Saves(settings) == saved' = settings /\ Going([task EXCEPT !.touched = FALSE]) /\ UNCHANGED <<world, updatesSide, jailsSide, spoiled>>
SaveUpdates == Next1("saveUpdates") /\ Saves([task.snap EXCEPT !.upd = (task.verb = "updates on"), !.timers = task.kept])
SaveTimers == Next1("saveTimers") /\ Saves(IF task.kept = task.snap.timers /\ task.verb # "restore" THEN saved
                                           ELSE [task.snap EXCEPT !.timers = task.kept])
Reread == Next1("reread") /\ Going([task EXCEPT !.snap = saved, !.before = saved.before]) /\ UNCHANGED <<world, saved, updatesSide, jailsSide, spoiled>>

-----------------------------------------------------------------------------
(* applyLoginJails.  The first time, what fail2ban was is recorded, and an *)
(* SSH jail it ran stays on.                                               *)
JailRunsSsh == fail2ban.active /\ (sshJail \/ jailFiles.ssh)
(* Mutant: the record is made anew each time.                              *)
LookAnew == /\ Next1("look") /\ packages /\ Going([task EXCEPT !.before = fail2ban, !.jails.ssh = @ \/ JailRunsSsh])
            /\ UNCHANGED <<world, saved, updatesSide, jailsSide, spoiled>>
Look == /\ Next1("look") /\ packages
        /\ Going([task EXCEPT !.before = IF @ = NoRecord THEN fail2ban ELSE @,
                              !.jails.ssh = @ \/ (task.before = NoRecord /\ JailRunsSsh)])
        /\ UNCHANGED <<world, saved, updatesSide, jailsSide, spoiled>>
LookMissing == /\ Next1("look") /\ ~packages /\ loginLog' = FALSE /\ task' = [task EXCEPT !.todo = SubSeq(Left, 5, Len(Left))]
               /\ UNCHANGED <<world, saved, updatesSide, jailFiles, fail2ban, found, spoiled>>
(* apt installs fail2ban running and enabled.                              *)
Install == /\ Next1("install") /\ packages' = TRUE
           /\ IF packages THEN Going(task) /\ UNCHANGED <<fail2ban, found>>
              ELSE /\ Going([task EXCEPT !.before = IF @ = NoRecord THEN fail2ban ELSE @, !.touched = TRUE])
                   /\ fail2ban' = [enabled |-> TRUE, active |-> TRUE] /\ found' = fail2ban
           /\ UNCHANGED <<tweaksOn, sshJail, unitEdits, upkeepRuns, saved, updatesSide, jailFiles, loginLog, spoiled>>
Logs(on) == loginLog' = on /\ Going([task EXCEPT !.changed = loginLog # on])
            /\ UNCHANGED <<world, saved, updatesSide, jailFiles, fail2ban, found, spoiled>>
applyLoginLog == (Next1("log") /\ Logs(task.jails.panel)) \/ (Next1("unlog") /\ Logs(FALSE))
WritesJails(jails) == jailFiles' = jails /\ Going([task EXCEPT !.changed = @ \/ jailFiles # jails])
                /\ UNCHANGED <<world, saved, updatesSide, loginLog, fail2ban, found, spoiled>>
writeJailFiles == (Next1("file") /\ WritesJails(task.jails)) \/ (Next1("unfile") /\ WritesJails(NoJails))
(* The units; found is set when the addon first takes fail2ban over.       *)
Unit(u) == fail2ban' = u /\ UNCHANGED <<world, saved, updatesSide, jailFiles, loginLog, spoiled>>
Takes(u) == /\ found' = (IF found = NoRecord THEN fail2ban ELSE found)
            /\ Going([task EXCEPT !.touched = @ \/ u # fail2ban]) /\ Unit(u)
Serve == Next1("serve") /\ Takes([fail2ban EXCEPT !.active = TRUE])
Enable == Next1("enable") /\ Takes([fail2ban EXCEPT !.enabled = TRUE])
Recorded == task.before # NoRecord
Unserve == /\ Next1("unserve") /\ Going(task) /\ UNCHANGED found
           /\ Unit(IF Recorded THEN [fail2ban EXCEPT !.active = task.before.active] ELSE fail2ban)
Undisable == /\ Next1("undisable") /\ Going(task) /\ found' = NoRecord
             /\ Unit(IF Recorded /\ ~task.before.enabled THEN [fail2ban EXCEPT !.enabled = FALSE] ELSE fail2ban)
(* Mutant: the jails are saved and the record with them is not.            *)
SaveJailsOnly == Next1("saveJails") /\ Saves([task.snap EXCEPT !.jails = task.jails])
SaveJails == Next1("saveJails") /\ Saves([task.snap EXCEPT !.jails = task.jails,
                                            !.before = IF task.jails = NoJails THEN NoRecord ELSE task.before])
ForgetBefore == Next1("forgetBefore") /\ Saves([saved EXCEPT !.before = NoRecord])
Switched == /\ ~Free /\ Head(task.todo) \in {"on", "off"} /\ tweaksOn' = (Head(task.todo) = "on") /\ task' = NoTask
            /\ UNCHANGED <<packages, sshJail, unitEdits, upkeepRuns, saved, updatesSide, jailsSide, spoiled>>

-----------------------------------------------------------------------------
(* The operator's own units: a timer disabled or enabled, fail2ban started *)
(* or stopped while System Tweaks has none of it, an own SSH jail.         *)
Edits == unitEdits < MaxUnitEdits /\ unitEdits' = unitEdits + 1 /\ UNCHANGED <<tweaksOn, packages, saved, dropIn, jailFiles, loginLog, task, upkeepRuns, found, spoiled>>
OperatorSetsTimer(t) == /\ Edits /\ timers' = [timers EXCEPT ![t] = IF @ = "on" THEN "off" ELSE "on"] /\ ours' = ours \ {t}
                        /\ UNCHANGED <<fail2ban, sshJail>>
OperatorSetsFail2ban == /\ Edits /\ Free /\ packages /\ saved.before = NoRecord /\ jailFiles = NoJails
                        /\ fail2ban' = [enabled |-> ~fail2ban.active, active |-> ~fail2ban.active]
                        /\ sshJail' \in BOOLEAN /\ UNCHANGED <<timers, ours>>

Next == \/ \E on \in BOOLEAN : setUpdates(on)
        \/ \E jails \in [panel : BOOLEAN, ssh : BOOLEAN] : setLoginJails(jails)
        \/ systemTweaksUpkeep \/ installFail2ban \/ withdrawSystemTweaks \/ restoreSystemTweaks
        \/ WriteDropIn \/ EnableTimer \/ TimersEnabled \/ TimerRefused \/ RemoveDropIn
        \/ SaveUpdates \/ SaveTimers \/ Reread
        \/ Install \/ Look \/ LookMissing \/ applyLoginLog \/ writeJailFiles \/ Serve \/ Enable \/ Unserve \/ Undisable \/ SaveJails
        \/ ForgetBefore \/ Switched \/ Fails
        \/ OperatorSetsFail2ban \/ \E t \in Timers : OperatorSetsTimer(t)
Spec == Init /\ [][Next]_upkeepVars

-----------------------------------------------------------------------------
TypeOK == /\ saved.timers \subseteq Timers /\ saved.before \in Units \cup {NoRecord} /\ saved.jails \in [panel : BOOLEAN, ssh : BOOLEAN]
          /\ {dropIn, loginLog, tweaksOn, saved.upd, sshJail} \subseteq BOOLEAN /\ timers \in [Timers -> {"on", "off"}]
          /\ fail2ban \in Units /\ ours \subseteq Timers /\ found \in Units \cup {NoRecord}

(* No unit is turned off that System Tweaks did not turn on: its switch    *)
(* and its withdrawal stop only timers it enabled, and fail2ban is left    *)
(* running where it was found so.                                          *)
TakesItsOwnStep ==
  task # NoTask =>
    /\ \A t \in Timers : (timers[t] = "on" /\ timers'[t] = "off" /\ unitEdits' = unitEdits) => t \in ours \cup task.snap.timers
    /\ (fail2ban.active /\ ~fail2ban'.active /\ ~spoiled) => (found # NoRecord /\ ~found.active)

(* A fail2ban it has taken over is in the record, and given up it is as    *)
(* it was found.                                                           *)
TakenIsRecorded == (Free /\ ~spoiled /\ saved.before = NoRecord) => found = NoRecord
FoundAgainStep == (found # NoRecord /\ found' = NoRecord /\ ~spoiled) =>
                     fail2ban'.active = found.active /\ (fail2ban'.enabled => found.enabled)
=============================================================================
