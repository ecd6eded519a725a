------------------------------- MODULE MainWP -------------------------------
(***************************************************************************)
(* WordPress Tools (addons/wp-tools/mainwp.ts, mainwp.php): keeping a      *)
(* WordPress site connected to the MainWP Dashboard on this server, and    *)
(* withdrawing only what that added.                                       *)
(*                                                                         *)
(* The site has a MainWP Child plugin, the key of a connection, a Security *)
(* ID and an administrator's password setting, which a connection needs    *)
(* turned off for a moment; the Dashboard has at most one record of the    *)
(* site.  A pass reads both, then acts on what it read, with its record of *)
(* the site in memory between the points where it is saved; operators of   *)
(* either WordPress change things meanwhile, any call may fail, and the    *)
(* pass may be killed.  The guard file and a Dashboard elsewhere, which    *)
(* changes no authentication, are left out.                                *)
(***************************************************************************)
EXTENDS Naturals

CONSTANTS MaxKeys, MaxEdits, MaxPasses, MaxFaults,
          WpKills    \* the steps at which a pass may be killed

(* Bounds on the connections, the edits by hand, the passes and the faults. *)
ConstantsOK == {MaxKeys, MaxEdits, MaxPasses, MaxFaults} \subseteq Nat

VARIABLES child,     \* the WordPress site
          dash,      \* the Dashboard's record of it
          enabled, cleaning, record, retired,   \* the addon's state file
          pass,      \* the pass under way
          keys, wpEdits, passes, faults

wpVars == <<child, dash, enabled, cleaning, record, retired, pass, keys, wpEdits, passes, faults>>
saved == <<enabled, cleaning, record, retired>>
wpCounts == <<keys, wpEdits, passes, faults>>

NoConnection == [id |-> 0, key |-> 0]
NoSnapshot == [whole |-> FALSE, plugin |-> "none", key |-> 0, sec |-> 0, auth |-> TRUE]
NoRecord == [seen |-> FALSE, ownedPlugin |-> FALSE, ownedConnection |-> FALSE, snapshot |-> NoSnapshot,
             token |-> 0, connection |-> NoConnection, phase |-> "none", reconnect |-> 0]
NoChild == [plugin |-> "absent", key |-> 0, sec |-> 0, auth |-> TRUE]
NoPass == [at |-> "none", asked |-> FALSE, conn |-> NoConnection, seenAs |-> NoChild, record |-> NoRecord,
           before |-> NoRecord, released |-> 0, ok |-> FALSE]
Idle == pass.at = "none"
Installed(c) == c.plugin \in {"inactive", "active"}
(* What a Dashboard record is known by: its id and key, not who made it.   *)
Shown(d) == [id |-> d.id, key |-> d.key]
needsAuthRecovery(r) == r.phase \in {"install", "connect"}
forget(r) == [r EXCEPT !.snapshot = NoSnapshot, !.token = 0, !.connection = NoConnection, !.phase = "none",
                       !.reconnect = 0, !.ownedPlugin = FALSE, !.ownedConnection = FALSE]

Init == /\ child \in [plugin : {"absent", "active"}, key : {0}, sec : {0}, auth : {TRUE}]
        /\ dash = [id |-> 0, key |-> 0, by |-> "none"] /\ enabled \in BOOLEAN /\ cleaning = FALSE
        /\ record = NoRecord /\ retired = {} /\ pass = NoPass
        /\ keys = 0 /\ wpEdits = 0 /\ passes = 0 /\ faults = 0

-----------------------------------------------------------------------------
(* The operators of the two WordPress sites.                               *)
Edited == wpEdits < MaxEdits /\ wpEdits' = wpEdits + 1 /\ UNCHANGED <<saved, pass, passes, faults>>
OperatorConnects == /\ Edited /\ child.plugin = "active" /\ child.key = 0 /\ dash.id = 0 /\ keys < MaxKeys
                    /\ child' = [child EXCEPT !.key = keys + 1] /\ keys' = keys + 1
                    /\ dash' = [id |-> keys + 1, key |-> keys + 1, by |-> "operator"]
OtherDashboard == /\ Edited /\ child.plugin = "active" /\ keys < MaxKeys
                  /\ child' = [child EXCEPT !.key = keys + 1] /\ keys' = keys + 1 /\ UNCHANGED dash
Disconnects == Edited /\ child.key # 0 /\ child' = [child EXCEPT !.key = 0] /\ UNCHANGED <<dash, keys>>
DropsDashboardRecord == Edited /\ dash.id # 0 /\ dash' = [id |-> 0, key |-> 0, by |-> "none"] /\ UNCHANGED <<child, keys>>
DeletesPlugin == Edited /\ Installed(child) /\ child' = [child EXCEPT !.plugin = "absent"] /\ UNCHANGED <<dash, keys>>

-----------------------------------------------------------------------------
(* A pass: the page's Connect, the repair timer, or a cleanup.             *)
configureMainwp == /\ Idle /\ passes < MaxPasses /\ ~cleaning /\ enabled' = ~enabled /\ passes' = passes + 1
                   /\ UNCHANGED <<child, dash, cleaning, record, retired, pass, keys, wpEdits, faults>>
Due(asked) == IF cleaning' THEN record.snapshot # NoSnapshot ELSE record.phase # "none" \/ enabled \/ asked
syncMainwp == /\ Idle /\ passes < MaxPasses /\ passes' = passes + 1
              /\ \E verb \in {"sync", "connect", "cleanup"} :
                   /\ verb = "connect" => ~cleaning
                   /\ cleaning' = (cleaning \/ verb = "cleanup") /\ enabled' = (enabled /\ ~cleaning')
                   /\ Due(verb = "connect")
                   /\ pass' = [NoPass EXCEPT !.at = "recover", !.asked = (verb = "connect"), !.record = record]
              /\ UNCHANGED <<child, dash, record, retired, keys, wpEdits, faults>>

To(at, r) == pass' = [pass EXCEPT !.at = at, !.record = r]
(* A call may fail, at most MaxFaults times in all.                        *)
Fault == faults < MaxFaults /\ faults' = faults + 1
NoFault == UNCHANGED faults
(* Every visit ends by saving the record.                                  *)
EndWith(r) == pass' = NoPass /\ record' = r /\ cleaning' = (cleaning /\ (r.snapshot # NoSnapshot \/ retired' # {}))
End(r) == EndWith(r) /\ UNCHANGED <<enabled, retired>>

(* The setting of an interrupted connection comes first.                   *)
AuthRestored(c, s) == [c EXCEPT !.auth = s.auth,
                                !.plugin = IF s.plugin # "active" /\ c.key = 0 /\ @ = "active" THEN "inactive" ELSE @]
restoreAuthFirst ==
  /\ pass.at = "recover"
  /\ IF needsAuthRecovery(pass.record)
     THEN \/ /\ child' = AuthRestored(child, pass.record.snapshot) /\ NoFault
             /\ record' = [pass.record EXCEPT !.phase = "restored"] /\ To("read", record') /\ UNCHANGED <<enabled, cleaning, retired>>
          \/ Fault /\ End(pass.record) /\ UNCHANGED child
     ELSE To("read", pass.record) /\ NoFault /\ UNCHANGED <<child, saved>>
  /\ UNCHANGED <<dash, keys, wpEdits, passes>>
readDashboard == /\ pass.at = "read" /\ \/ /\ pass' = [pass EXCEPT !.at = "visit", !.conn = Shown(dash), !.ok = TRUE]
                                           /\ NoFault /\ UNCHANGED saved
                                        \/ /\ Fault /\ IF cleaning
                                                       THEN pass' = [pass EXCEPT !.at = "visit", !.ok = FALSE] /\ UNCHANGED saved
                                                       ELSE End(pass.record)
                 /\ UNCHANGED <<child, dash, keys, wpEdits, passes>>
(* A cleanup cut short restores the setting again; then the site is read.  *)
Restoring == pass.record.snapshot # NoSnapshot /\ pass.record.phase = "cleanup"
visit == /\ pass.at = "visit"
         /\ \/ /\ child' = IF Restoring THEN AuthRestored(child, pass.record.snapshot) ELSE child
               /\ pass' = [pass EXCEPT !.at = IF cleaning THEN "clean" ELSE "check", !.seenAs = child']
               /\ NoFault /\ UNCHANGED saved
            \/ Fault /\ End(pass.record) /\ UNCHANGED child
         /\ UNCHANGED <<dash, keys, wpEdits, passes>>

paired(c, conn) == c.plugin = "active" /\ c.key # 0 /\ conn.key = c.key
enrolledBy(r, c, conn) == r.snapshot # NoSnapshot /\ r.token # 0 /\ r.token = c.sec /\ paired(c, conn)
(* What was registered is the addon's; what was reconnected stays the      *)
(* operator's.                                                             *)
adopt(r, conn) ==
  LET operators == r.reconnect = conn.id /\ ~(r.ownedConnection /\ r.connection.id = conn.id)
      settled == [r EXCEPT !.reconnect = 0]
  IN CASE ~operators -> [settled EXCEPT !.ownedConnection = TRUE, !.connection = conn]
       [] operators /\ r.ownedPlugin -> [settled EXCEPT !.ownedConnection = FALSE, !.connection = conn]
       [] OTHER -> forget(settled)

checkSite ==
  /\ pass.at = "check"
  /\ LET r == IF enrolledBy(pass.record, pass.seenAs, pass.conn) THEN adopt(pass.record, pass.conn) ELSE pass.record
         seen == [r EXCEPT !.seen = @ \/ Installed(pass.seenAs)]
     IN CASE paired(pass.seenAs, pass.conn) -> End([r EXCEPT !.seen = TRUE, !.token = 0, !.phase = "none"])
          [] ~paired(pass.seenAs, pass.conn) /\ ~pass.asked /\ ~enabled -> End([seen EXCEPT !.phase = "none"])
          [] OTHER -> To("enroll", seen) /\ UNCHANGED saved
  /\ UNCHANGED <<child, dash, wpCounts>>

-----------------------------------------------------------------------------
(* Its own registration that the Dashboard never recorded is undone first. *)
CleanedUp(c, s, remove) ==
  IF remove THEN [plugin |-> "absent", key |-> s.key, sec |-> s.sec, auth |-> s.auth]
  ELSE [plugin |-> IF s.plugin # "active" /\ c.plugin = "active" THEN "inactive" ELSE c.plugin,
        key |-> s.key, sec |-> s.sec, auth |-> s.auth]
Unrecorded == pass.seenAs.key # 0 /\ pass.conn.id = 0 /\ pass.record.token # 0 /\ pass.record.token = pass.seenAs.sec
undoFirst == /\ pass.at = "enroll" /\ Unrecorded
             /\ \/ /\ child.key = pass.seenAs.key /\ NoFault /\ UNCHANGED saved
                   /\ child' = CleanedUp(child, pass.record.snapshot, FALSE) /\ pass' = [pass EXCEPT !.seenAs = child']
                \/ child.key # pass.seenAs.key /\ NoFault /\ End(pass.record) /\ UNCHANGED child
                \/ Fault /\ End(pass.record) /\ UNCHANGED child
             /\ UNCHANGED <<dash, keys, wpEdits, passes>>
waitForHttps == /\ pass.at = "enroll" /\ ~Unrecorded /\ Fault /\ End(pass.record) /\ UNCHANGED <<child, dash, keys, wpEdits, passes>>
takeSnapshot(r) ==
  IF r.snapshot # NoSnapshot THEN r
  ELSE [r EXCEPT !.snapshot = [whole |-> ~Installed(pass.seenAs), plugin |-> child.plugin, sec |-> child.sec, auth |-> child.auth,
                               key |-> IF pass.seenAs.key # 0 THEN 0 ELSE child.key],
                 !.ownedPlugin = ~Installed(pass.seenAs)]
enroll == /\ pass.at = "enroll" /\ ~Unrecorded /\ keys < MaxKeys
          /\ LET r == takeSnapshot(pass.record)
             IN record' = [r EXCEPT !.token = IF @ = 0 THEN keys + 1 ELSE @, !.seen = TRUE, !.reconnect = pass.conn.id,
                                    !.phase = IF Installed(pass.seenAs) THEN "connect" ELSE "install"]
          /\ pass' = [pass EXCEPT !.at = "install", !.record = record', !.before = pass.record]
          /\ UNCHANGED <<child, dash, enabled, cleaning, retired, wpCounts>>
downloadChild == /\ pass.at = "install"
                 /\ \/ /\ child' = IF ~Installed(pass.seenAs) /\ ~Installed(child) THEN [child EXCEPT !.plugin = "inactive"] ELSE child
                       /\ record' = [pass.record EXCEPT !.phase = "connect"] /\ To("prepare", record') /\ NoFault
                    \/ Fault /\ pass' = [pass EXCEPT !.at = "restore", !.ok = FALSE] /\ UNCHANGED <<child, record>>
                 /\ UNCHANGED <<dash, enabled, cleaning, retired, keys, wpEdits, passes>>
(* The child is prepared, the other connection it had released; its        *)
(* activation may fail once the setting is changed.                        *)
prepare == /\ pass.at = "prepare"
           /\ \/ /\ Installed(child) /\ NoFault
                 /\ child' = [plugin |-> "active", key |-> 0, sec |-> pass.record.token, auth |-> FALSE]
                 /\ pass' = [pass EXCEPT !.at = "register", !.released = child.key]
              \/ /\ (Fault \/ (~Installed(child) /\ NoFault))
                 /\ child' \in {child, [child EXCEPT !.key = 0, !.sec = pass.record.token, !.auth = FALSE]}
                 /\ pass' = [pass EXCEPT !.at = "restore", !.ok = FALSE]
           /\ UNCHANGED <<dash, saved, keys, wpEdits, passes>>
(* The Dashboard registers with the child: a new record, or the one it has.*)
(* A failure may come before anything, or after the child's half.          *)
Registered == [child EXCEPT !.key = keys + 1]
register == /\ pass.at = "register" /\ keys < MaxKeys
            /\ LET recon == pass.record.reconnect
                   takes == /\ child.plugin = "active" /\ child.key = 0 /\ child.sec = pass.record.token
                            /\ IF recon # 0 THEN dash.id = recon ELSE dash.id = 0
               IN \/ /\ takes /\ child' = Registered /\ keys' = keys + 1
                     /\ dash' = [id |-> IF recon # 0 THEN recon ELSE keys + 1, key |-> keys + 1, by |-> IF recon # 0 THEN dash.by ELSE "addon"]
                     /\ To("confirm", pass.record) /\ NoFault
                  \/ takes /\ child' = Registered /\ keys' = keys + 1 /\ To("giveBack", pass.record) /\ Fault /\ UNCHANGED dash
                  \/ /\ ((~takes /\ NoFault) \/ Fault)
                     /\ To("giveBack", pass.record) /\ UNCHANGED <<child, dash, keys>>
            /\ UNCHANGED <<saved, wpEdits, passes>>
confirm == /\ pass.at = "confirm"
           /\ LET fresh == Shown(dash) IN
              \/ /\ enrolledBy(pass.record, child, fresh) /\ NoFault
                 /\ pass' = [pass EXCEPT !.at = "restore", !.conn = fresh, !.ok = TRUE, !.released = 0,
                               !.record = IF @.reconnect # fresh.id THEN [@ EXCEPT !.ownedConnection = TRUE, !.connection = fresh] ELSE @]
              \/ /\ ((~enrolledBy(pass.record, child, fresh) /\ NoFault) \/ Fault)
                 /\ pass' = [pass EXCEPT !.at = "giveBack", !.ok = FALSE]
           /\ UNCHANGED <<child, dash, saved, keys, wpEdits, passes>>
giveBack == /\ pass.at = "giveBack"
            /\ child' = IF pass.released # 0 /\ child.key = 0 THEN [child EXCEPT !.key = pass.released] ELSE child
            /\ pass' = [pass EXCEPT !.at = "restore", !.ok = FALSE]
            /\ UNCHANGED <<dash, saved, wpCounts>>
(* Only an attempt that verifiably changed nothing gives up its claim.     *)
(* Changed form: a failed attempt gives up its claim whatever is left.     *)
untouchedAlways(r) == {pass.before}
untouched(r) == {r} \cup (IF child' = pass.seenAs /\ dash.id = 0 THEN {pass.before} ELSE {})
(* The setting is put back in any case; the phase stays until it is.       *)
restoreAuth ==
  /\ pass.at = "restore"
  /\ LET settled == [pass.record EXCEPT !.phase = "none"]
     IN \/ /\ child' = AuthRestored(child, pass.record.snapshot) /\ NoFault
           /\ \E r \in IF pass.ok THEN {adopt([settled EXCEPT !.token = 0], pass.conn)} ELSE untouched(settled) : End(r)
        \/ /\ Fault /\ UNCHANGED child
           /\ \E r \in IF pass.ok THEN {pass.record} ELSE untouched(pass.record) : End(r)
  /\ UNCHANGED <<dash, keys, wpEdits, passes>>

-----------------------------------------------------------------------------
(* Withdrawing: what the addon enrolled without knowing is owned now; the  *)
(* child is restored unless someone has connected it since; then the       *)
(* Dashboard's record goes, now or once the Dashboard can be reached.      *)
Ours(r) == pass.seenAs.key = 0 \/ pass.seenAs.key = r.connection.key \/ (r.token # 0 /\ r.token = pass.seenAs.sec)
cleanupSite ==
  /\ pass.at = "clean"
  /\ LET r == IF enrolledBy(pass.record, pass.seenAs, pass.conn)
              THEN [pass.record EXCEPT !.ownedConnection = TRUE, !.connection = pass.conn] ELSE pass.record
     IN IF r.snapshot = NoSnapshot \/ (~pass.ok /\ r.token # 0 /\ ~r.ownedConnection)
        THEN End(r)
        ELSE /\ record' = [r EXCEPT !.phase = "cleanup", !.seen = @ /\ ~(Ours(r) /\ r.ownedPlugin /\ Installed(pass.seenAs))]
             /\ To(IF Ours(r) THEN "undo" ELSE "remove", record') /\ UNCHANGED <<enabled, cleaning, retired>>
  /\ UNCHANGED <<child, dash, wpCounts>>
(* Changed form: the child is restored whatever its key is by now.         *)
undoAnyChild == /\ pass.at = "undo"
                /\ child' = CleanedUp(child, pass.record.snapshot, pass.record.ownedPlugin)
                /\ To("remove", pass.record) /\ NoFault /\ UNCHANGED <<saved, dash, keys, wpEdits, passes>>
undoChild == /\ pass.at = "undo"
             /\ \/ /\ child.key = pass.seenAs.key /\ NoFault /\ UNCHANGED saved
                   /\ child' = CleanedUp(child, pass.record.snapshot, pass.record.ownedPlugin)
                   /\ To("remove", pass.record)
                \/ child.key # pass.seenAs.key /\ NoFault /\ End(pass.record) /\ UNCHANGED child
                \/ Fault /\ End(pass.record) /\ UNCHANGED child
             /\ UNCHANGED <<dash, keys, wpEdits, passes>>
RemovedFrom(d, conn) == IF d.id = conn.id /\ d.key = conn.key THEN [id |-> 0, key |-> 0, by |-> "none"] ELSE d
removeRecord == /\ pass.at = "remove"
                /\ LET owned == pass.record.ownedConnection IN
                   \/ /\ owned => pass.ok
                      /\ dash' = IF owned THEN RemovedFrom(dash, pass.record.connection) ELSE dash
                      /\ UNCHANGED <<enabled, retired>> /\ EndWith(forget(pass.record)) /\ NoFault
                   \/ /\ owned /\ ~pass.ok /\ retired' = retired \cup {pass.record.connection}
                      /\ EndWith(forget(pass.record)) /\ NoFault /\ UNCHANGED <<enabled, dash>>
                   \/ owned /\ pass.ok /\ Fault /\ End(pass.record) /\ UNCHANGED dash
                /\ UNCHANGED <<child, keys, wpEdits, passes>>
retire == /\ Idle /\ passes < MaxPasses /\ passes' = passes + 1
          /\ \E conn \in retired : dash' = RemovedFrom(dash, conn) /\ retired' = retired \ {conn}
          /\ cleaning' = (cleaning /\ (record.snapshot # NoSnapshot \/ retired' # {}))
          /\ UNCHANGED <<child, enabled, record, pass, keys, wpEdits, faults>>
Killed == /\ pass.at \in WpKills /\ pass' = NoPass /\ UNCHANGED <<child, dash, saved, wpCounts>>

Next == \/ OperatorConnects \/ OtherDashboard \/ Disconnects \/ DropsDashboardRecord \/ DeletesPlugin
        \/ configureMainwp \/ syncMainwp \/ restoreAuthFirst \/ readDashboard \/ visit \/ checkSite
        \/ undoFirst \/ waitForHttps \/ enroll \/ downloadChild \/ prepare \/ register \/ confirm \/ giveBack \/ restoreAuth
        \/ cleanupSite \/ undoChild \/ removeRecord \/ retire \/ Killed
Spec == Init /\ [][Next]_wpVars

-----------------------------------------------------------------------------
Children == [plugin : {"absent", "inactive", "active"}, key : 0..MaxKeys, sec : 0..MaxKeys, auth : BOOLEAN]
Connections == [id : 0..MaxKeys, key : 0..MaxKeys]
Snapshots == [whole : BOOLEAN, plugin : {"none", "absent", "inactive", "active"}, key : 0..MaxKeys,
              sec : 0..MaxKeys, auth : BOOLEAN]
Records == [seen : BOOLEAN, ownedPlugin : BOOLEAN, ownedConnection : BOOLEAN, snapshot : Snapshots,
            token : 0..MaxKeys, connection : Connections,
            phase : {"none", "install", "connect", "restored", "cleanup"}, reconnect : 0..MaxKeys]
Enrolling == {"install", "prepare", "register", "confirm", "giveBack", "restore"}
Withdrawing == {"clean", "undo", "remove"}
PassesOf == [at : {"none", "recover", "read", "visit", "check", "enroll"} \cup Enrolling \cup Withdrawing,
             asked : BOOLEAN, conn : Connections, seenAs : Children, record : Records, before : Records,
             released : 0..MaxKeys, ok : BOOLEAN]
TypeOK == /\ child \in Children
          /\ dash \in [id : 0..MaxKeys, key : 0..MaxKeys, by : {"none", "operator", "addon"}]
          /\ enabled \in BOOLEAN /\ cleaning \in BOOLEAN /\ record \in Records
          /\ retired \subseteq Connections /\ pass \in PassesOf
          /\ keys \in 0..MaxKeys /\ wpEdits \in 0..MaxEdits /\ passes \in 0..MaxPasses
          /\ faults \in 0..MaxFaults

(* While no pass runs, the administrator's password setting is the         *)
(* operator's own, unless the record still says that a connection was      *)
(* interrupted, which is what the repair timer and uninstalling look at.   *)
(* (restoreAuth, requireMainwpSettled)                                     *)
SettingIsAccounted == Idle /\ ~needsAuthRecovery(record) => child.auth

(* A record that the addon made in the Dashboard can still be withdrawn:   *)
(* the addon's own record names it, by its id or by the Security ID of an  *)
(* enrollment it never confirmed, or it is to be retired; while the        *)
(* operators change nothing, who may disconnect the child in the middle.   *)
(* (untouched)                                                             *)
MadeIsKnown == Idle /\ dash.by = "addon" /\ wpEdits = 0 =>
                 \/ record.ownedConnection /\ record.connection.id = dash.id
                 \/ record.token # 0 /\ record.snapshot # NoSnapshot
                 \/ \E conn \in retired : conn.id = dash.id

(* A cleanup undoes no connection but its own: a key it takes from the     *)
(* child is the addon's.  (cleanupSite, clp_mainwp_cleanup)              *)
LeavesOthersStep ==
  pass.at = "undo" /\ pass' # pass /\ child.key # 0 /\ child'.key # child.key
    => child.key = pass.record.connection.key \/ child.sec = pass.record.token
=============================================================================
