------------------------------ MODULE Database ------------------------------
(***************************************************************************)
(* "MySQL on this server only" (database.ts, database-socket.ts): the      *)
(* option file, the drop-in on mariadb.socket where that unit passes the   *)
(* server its listeners, the daemon-reload, the restart onto them, and     *)
(* what a failed step puts back.  A page's change holds the settings lock, *)
(* and so do repair, disabling and enabling, which change files alone.     *)
(* systemctl may fail, the server may not come back, the change may be     *)
(* killed, and the operator starts and stops the units between changes.    *)
(***************************************************************************)
EXTENDS Naturals

CONSTANTS MaxDatabaseOps, MaxUnitOps, MaxDatabaseFaults

VARIABLES optionFile, socketFile,  \* "none", "ours", or for the option file "other"
          loaded,                  \* mariadb.socket as the last daemon-reload took it: "all" or "loopback"
          units,                   \* what each unit is bound to while active, "down", or "absent"
          overridden,              \* what wins over the option file: "nothing", an "option" file, the "startup" line
          setting,                 \* databaseLoopback
          change,                  \* the page's change, and what it read at its start
          said,                    \* what the last change answered
          databaseOps, unitOps, databaseFaults,
          torn                     \* ghost, what was left by a change that was killed or could not be undone, and
                                   \* mended by no repair: "files", and "unchecked" for an option file of ours

databaseVars == <<optionFile, socketFile, loaded, units, overridden, setting, change, said,
                  databaseOps, unitOps, databaseFaults, torn>>

Up(u) == units[u] \notin {"down", "absent"}
FileOf(on) == IF on THEN "ours" ELSE "none"
Bound(file) == IF file = "ours" /\ overridden = "nothing" THEN "loopback" ELSE "all"
Now == [option |-> optionFile, socketFile |-> socketFile, loaded |-> loaded, units |-> units]
Rest == [at |-> "rest", on |-> FALSE, had |-> Now, socket |-> FALSE, reloaded |-> FALSE, restarted |-> FALSE]

Init == /\ optionFile \in {"none", "other"} /\ socketFile = "none" /\ loaded = "all" /\ overridden \in {"nothing", "option", "startup"}
        /\ units \in {[service |-> s, socket |-> k] : s \in {"down", "all"}, k \in {"absent", "down", "all"}}
        /\ setting = FALSE /\ change = Rest /\ said = "nothing"
        /\ databaseOps = 0 /\ unitOps = 0 /\ databaseFaults = 0 /\ torn = {}

files == <<optionFile, socketFile>>
box == <<overridden, unitOps>>
Goes(step) == change' = [change EXCEPT !.at = step]
Fault == databaseFaults < MaxDatabaseFaults /\ databaseFaults' = databaseFaults + 1
Well == databaseFaults' = databaseFaults

-----------------------------------------------------------------------------
(* Starting the units: the socket takes the listeners systemd last loaded, *)
(* and a server it activates takes the socket's; else the option file's.   *)
Started(which) ==
  LET socket == IF "socket" \in which THEN loaded ELSE units.socket IN
  [socket |-> socket,
   service |-> IF "service" \in which THEN (IF socket \in {"down", "absent"} THEN Bound(optionFile) ELSE socket)
               ELSE units.service]
Stopped == [u \in DOMAIN units |-> IF Up(u) THEN "down" ELSE units[u]]
OperatorStarts == /\ change.at = "rest" /\ unitOps < MaxUnitOps /\ unitOps' = unitOps + 1
                  /\ \E which \in {{"service"}, {"socket", "service"}} :
                        /\ \A u \in which : units[u] # "absent"
                        /\ units' = Started({u \in which : ~Up(u)})
                  /\ UNCHANGED <<files, loaded, overridden, setting, change, said, databaseOps, databaseFaults, torn>>
OperatorStops == /\ change.at = "rest" /\ unitOps < MaxUnitOps /\ unitOps' = unitOps + 1 /\ units' = Stopped
                 /\ UNCHANGED <<files, loaded, overridden, setting, change, said, databaseOps, databaseFaults, torn>>

-----------------------------------------------------------------------------
(* setDatabaseLoopback: what it reads, and what it refuses or leaves.  A   *)
(* socket that is neither active nor held by a drop-in is not in use.      *)
Exposed == \E u \in DOMAIN units : units[u] = "all"
(* Mutant: a server without the socket unit is taken to have it.           *)
SocketAssumed == units.socket # "down" \/ socketFile = "ours"
SocketUsed == units.socket # "absent" /\ (Up("socket") \/ socketFile = "ours")
SocketAfter(on) == FileOf(on /\ SocketUsed)
AsItIs(on) == IF on THEN optionFile = "ours" /\ socketFile = SocketAfter(on) /\ ~Exposed
              ELSE optionFile = "none" /\ socketFile = "none"
serverPrograms(on) == ~(on /\ Up("service") /\ overridden = "startup")
Refused(on) == optionFile = "other" \/ (~serverPrograms(on) /\ ~AsItIs(on))
setDatabaseLoopback(on) ==
  /\ change.at = "rest" /\ databaseOps < MaxDatabaseOps /\ databaseOps' = databaseOps + 1
  /\ IF Refused(on) THEN said' = "refused" /\ UNCHANGED change
     ELSE /\ said' = "nothing"
          /\ change' = [at |-> IF AsItIs(on) THEN "save" ELSE "files", on |-> on, had |-> Now, socket |-> SocketUsed,
                        reloaded |-> FALSE, restarted |-> FALSE]
  /\ UNCHANGED <<files, loaded, units, box, setting, databaseFaults, torn>>

HadSocket == change.had.units.socket \notin {"down", "absent"}
HadService == change.had.units.service # "down"
(* Mutant: the server's own listeners alone.                               *)
HadExposedServer == change.had.units.service = "all"
HadExposed == \E u \in DOMAIN units : change.had.units[u] = "all"
SocketWanted == FileOf(change.on /\ change.socket)
Write == /\ change.at = "files" /\ Well /\ optionFile' = FileOf(change.on) /\ socketFile' = SocketWanted
         /\ Goes(IF change.on THEN "check" ELSE "reload")
         /\ UNCHANGED <<loaded, units, box, setting, said, databaseOps, torn>>
checkBindAddresses == /\ change.at = "check" /\ Well /\ Goes(IF overridden # "nothing" THEN "undo" ELSE "reload")
                      /\ torn' = (IF overridden = "nothing" THEN torn \ {"unchecked"} ELSE torn)
                      /\ UNCHANGED <<files, loaded, units, box, setting, said, databaseOps>>

(* reloadSocket.  A reload that fails leaves what systemd had.             *)
NeedsReload == change.socket /\ (change.had.socketFile # SocketWanted \/ HadExposed \/ ~change.on)
Reload == /\ change.at = "reload" /\ UNCHANGED <<files, units, box, setting, said, databaseOps, torn>>
          /\ \/ ~NeedsReload /\ Well /\ Goes("settle") /\ UNCHANGED loaded
             \/ /\ NeedsReload /\ Well /\ loaded' = (IF socketFile = "ours" THEN "loopback" ELSE "all")
                /\ change' = [change EXCEPT !.at = "settle", !.reloaded = TRUE]
             \/ /\ NeedsReload /\ Fault /\ UNCHANGED loaded
                /\ change' = [change EXCEPT !.at = "undo", !.reloaded = TRUE]

(* A server already on loopback, and a stopped one, are not restarted.     *)
LeftAlone == (change.on /\ ~HadExposed) \/ (~HadService /\ ~HadSocket)
Settle == /\ change.at = "settle" /\ Well
          /\ change' = (IF LeftAlone THEN [change EXCEPT !.at = "save"] ELSE [change EXCEPT !.at = "stop", !.restarted = TRUE])
          /\ UNCHANGED <<files, loaded, units, box, setting, said, databaseOps, torn>>

(* stopSocketAndService and startPreviousUnits, or one restart.            *)
Previous == {u \in DOMAIN units : change.had.units[u] \notin {"down", "absent"}}
Stop(at, next, failed) ==
  /\ change.at = at /\ UNCHANGED <<files, loaded, box, setting, said, databaseOps, torn>>
  /\ \/ Well /\ units' = Stopped /\ Goes(next)
     \/ Fault /\ units' \in {units, Stopped} /\ Goes(failed)
(* Mutant: both units are started.                                         *)
StartedAll == {u \in DOMAIN units : units[u] # "absent"}
ToStart == IF change.socket THEN Previous ELSE {"service"}
Start(at, next, failed) ==
  /\ change.at = at /\ UNCHANGED <<files, loaded, box, setting, said, databaseOps, torn>>
  /\ \/ Well /\ units' = Started(ToStart) /\ Goes(next)
     \/ Fault /\ units' = units /\ Goes(failed)

(* waitHealthy: up again, answering, and on loopback alone where asked.    *)
Healthy(loopbackOnly) == (\A u \in Previous : Up(u)) /\ ~(loopbackOnly /\ Exposed)
Health == /\ change.at = "health"
          /\ \/ Well /\ Goes(IF Healthy(change.on) THEN "save" ELSE "undo")
             \/ Fault /\ Goes("undo")
          /\ UNCHANGED <<files, loaded, units, box, setting, said, databaseOps, torn>>

(* The catch: files and loaded listeners back, then another restart if     *)
(* there was one.                                                          *)
(* Mutant: the socket is not reloaded again.                               *)
UndoReloadedNot(ok) == loaded
UndoReloaded(ok) == IF ~change.reloaded \/ ~ok THEN loaded ELSE IF change.had.socketFile = "ours" THEN "loopback" ELSE "all"
Undo == /\ change.at = "undo" /\ optionFile' = change.had.option /\ socketFile' = change.had.socketFile
        /\ \/ Well /\ loaded' = UndoReloaded(TRUE) /\ Goes(IF change.restarted THEN "undo-stop" ELSE "put-back")
           \/ change.reloaded /\ Fault /\ loaded' = UndoReloaded(FALSE) /\ Goes("not-back")
        /\ UNCHANGED <<units, box, setting, said, databaseOps, torn>>
HealthBack == /\ change.at = "undo-health"
              /\ \/ Well /\ Goes(IF Healthy(FALSE) THEN "put-back" ELSE "not-back")
                 \/ Fault /\ Goes("not-back")
              /\ UNCHANGED <<files, loaded, units, box, setting, said, databaseOps, torn>>
Answer == /\ change.at \in {"put-back", "not-back"} /\ said' = change.at /\ Goes("rest") /\ torn' = torn \cup (IF change.at = "not-back" THEN {"files"} ELSE {})
          /\ UNCHANGED <<files, loaded, units, box, setting, databaseOps, databaseFaults>>
Save == /\ change.at = "save" /\ setting' = change.on /\ said' = "done" /\ Goes("rest")
        /\ UNCHANGED <<files, loaded, units, box, databaseOps, databaseFaults, torn>>
Killed == /\ change.at # "rest" /\ Fault /\ Goes("rest") /\ said' = "nothing"
          /\ torn' = torn \cup {"files"} \cup (IF change.at \in {"check", "undo"} THEN {"unchecked"} ELSE {})
          /\ UNCHANGED <<files, loaded, units, box, setting, databaseOps>>

(* reconcileDatabaseFile: repair, and disabling, which leaves the setting. *)
(* Files alone; a reload that fails puts them back.                        *)
(* Mutant: the drop-in stays while the socket is down.                     *)
DropInUnlessDown(on) == IF ~Up("socket") THEN socketFile ELSE SocketAfter(on)
DropIn(on) == SocketAfter(on)
reconcileDatabaseFile(on) ==
  /\ change.at = "rest" /\ optionFile # "other" /\ databaseOps < MaxDatabaseOps /\ databaseOps' = databaseOps + 1
  /\ \/ /\ optionFile' = FileOf(on) /\ socketFile' = DropIn(on) /\ Well
        /\ loaded' = (IF socketFile' = socketFile THEN loaded ELSE IF socketFile' = "ours" THEN "loopback" ELSE "all")
        /\ torn' = (IF loaded' = "loopback" <=> socketFile' = "ours" THEN torn \ {"files"} ELSE torn)
                   \cup (IF optionFile # "ours" /\ optionFile' = "ours" THEN {"unchecked"} ELSE {})
     \/ DropIn(on) # socketFile /\ Fault /\ UNCHANGED <<files, loaded, torn>>
  /\ said' = "nothing" /\ UNCHANGED <<units, box, setting, change>>

Next == \/ OperatorStarts \/ OperatorStops \/ \E on \in BOOLEAN : setDatabaseLoopback(on)
        \/ Write \/ checkBindAddresses \/ Reload \/ Settle
        \/ Stop("stop", "start", "undo") \/ Start("start", "health", "undo") \/ Health
        \/ Undo \/ Stop("undo-stop", "undo-start", "not-back") \/ Start("undo-start", "undo-health", "not-back")
        \/ HealthBack \/ Answer \/ Save \/ Killed \/ reconcileDatabaseFile(setting)
Spec == Init /\ [][Next]_databaseVars

-----------------------------------------------------------------------------
TypeOK == /\ optionFile \in {"none", "ours", "other"} /\ socketFile \in {"none", "ours"} /\ loaded \in {"all", "loopback"}
          /\ units \in [{"service", "socket"} -> {"absent", "down", "all", "loopback"}] /\ units.service # "absent"
          /\ (socketFile = "ours" => units.socket # "absent") /\ setting \in BOOLEAN
          /\ torn \subseteq {"files", "unchecked"}

(* A change that answers "done" left the server on loopback, and the files *)
(* and loaded listeners it will have at its next start are so too.  That   *)
(* nothing wins over the option file is what a change that writes it looks *)
(* at: one that finds it there answers without looking, with the server    *)
(* down, though a change killed before its look wrote it, or repair did.   *)
DoneIsLoopback == (said = "done" /\ setting /\ "files" \notin torn) =>
  /\ optionFile = "ours" /\ (overridden = "nothing" \/ "unchecked" \in torn)
  /\ change.socket => socketFile = "ours" /\ loaded = "loopback"
  /\ unitOps = 0 => ~Exposed

(* A change that answers that the previous settings are back, or that      *)
(* restarted nothing, left files, loaded listeners and both units as they  *)
(* were, whatever step failed.                                             *)
PutBackIsAsBefore == (said = "put-back" /\ "files" \notin torn /\ unitOps = 0) => Now = change.had

(* A server that was stopped, and its socket, stay stopped through a       *)
(* change of the switch.                                                   *)
StoppedStaysStep == \A u \in DOMAIN units : (change.at # "rest" /\ change.had.units[u] = "down") => units'[u] \in {"down"}

(* Between changes the files are those of the saved setting, once repair   *)
(* has run after a change that was killed.                                 *)
FilesFollowSetting == (change.at = "rest" /\ "files" \notin torn /\ optionFile # "other") =>
  /\ optionFile = FileOf(setting) /\ (socketFile = "ours" => setting)
=============================================================================
