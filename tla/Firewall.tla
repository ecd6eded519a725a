------------------------------ MODULE Firewall ------------------------------
(***************************************************************************)
(* A protocol for each rule on CloudPanel's Firewall page (firewall.ts):   *)
(* the forms send a choice before CloudPanel saves its row, CloudPanel     *)
(* rebuilds ufw from its table one command at a time, and the watcher of   *)
(* ufw's files, the repair and the addon's disabling and enabling bring    *)
(* ufw in line with the choices, in passes under the firewall's own lock.  *)
(* One source, so a rule is a port range; two ranges may be one ufw port.  *)
(* "tcp" for a range is no entry in the file.                              *)
(***************************************************************************)
EXTENDS Naturals, FiniteSets

CONSTANTS Ranges, FirstRows,      \* the rows' port ranges, and those of the table at first
          UfwPort(_),             \* the port ufw has for each
          TcpOnlyRanges,          \* the ranges UDP alone is refused for: CloudPanel's own port
          PanelUdp,               \* the ports CloudPanel's rebuild opens to UDP itself
          FirewallFaults,         \* what may go wrong: "ufw", "kill", "busy"
          MaxPasses, MaxRowChanges, MaxSwitches, MaxFirewallFaults

VARIABLES rows, rebuild,          \* CloudPanel's table, and what its rebuild has still to open
          ufw, woken,             \* the rules in ufw's files, and their having changed since the watcher started
          protocols, unmatched, aged, managed, withdrawn,  \* firewall.json; aged: waited an hour
          form,                   \* the page's form between its choice and CloudPanel's save
          sync, lock,             \* those who synchronise, and who holds the firewall's lock
          addon,                  \* System Tweaks: "on", "leaving" until its withdrawal is through, or "off"
          rowChanges, switches, faults,
          due, stray, mixed       \* ghosts: something no pass has seen to; the rules changed though no record
                                  \* tells of it; CloudPanel's table or its rebuild at work since the last plan

firewallVars == <<rows, rebuild, ufw, woken, protocols, unmatched, aged, managed, withdrawn, form, sync, lock,
                  addon, rowChanges, switches, faults, due, stray, mixed>>

Ports == {UfwPort(k) : k \in Ranges} \cup PanelUdp
Rules == {"tcp", "udp"} \X Ports
Actors == {"watcher", "page"}
NoForm == [row |-> "none", range |-> "none", protocol |-> "tcp", late |-> FALSE]
Resting == [mode |-> "apply", at |-> "idle", pass |-> 0, adds |-> {}, dels |-> {}, keeps |-> {},
            plan |-> {}, last |-> {}, failed |-> FALSE]
PortsOf(table) == {UfwPort(k) : k \in table}
PanelRules == ({"tcp"} \X PortsOf(rows)) \cup ({"udp"} \X PanelUdp)
Rebuilding == rebuild # "none"

Init == /\ rows = FirstRows /\ rebuild = "none" /\ ufw = PanelRules /\ woken = FALSE
        /\ protocols = [k \in Ranges |-> "tcp"] /\ unmatched = {} /\ aged = {} /\ managed = {} /\ withdrawn = FALSE
        /\ form = NoForm /\ sync = [p \in Actors |-> Resting] /\ lock = "free"
        /\ addon = "on" /\ rowChanges = 0 /\ switches = 0 /\ faults = 0
        /\ due = FALSE /\ stray = {} /\ mixed = FALSE

stored == <<protocols, unmatched, aged, managed, withdrawn>>
panel == <<rows, rebuild, form, rowChanges>>
counts == <<addon, switches, faults>>
ghosts == <<due, stray, mixed>>
Fault(kind) == kind \in FirewallFaults /\ faults < MaxFirewallFaults /\ faults' = faults + 1

-----------------------------------------------------------------------------
(* setRuleProtocol: the form's choice, before CloudPanel saves the row.    *)
(* row is the edit form's row, or "none" on the add form.                  *)
Taken(range, row) == range \in rows /\ range # row
setRuleProtocol(range, protocol, row) ==
  /\ protocols' = [protocols EXCEPT ![range] = protocol]
  /\ unmatched' = IF protocol # "tcp" /\ range \notin rows THEN unmatched \cup {range} ELSE unmatched \ {range}
  /\ aged' = aged \ {range} /\ UNCHANGED <<managed, withdrawn>>
LeftBehind(range) == range \notin rows \cup unmatched    \* its row has left it, and the next pass forgets it
Choose(range, protocol, row) ==
  /\ addon = "on" /\ lock = "free" /\ form = NoForm /\ rowChanges < MaxRowChanges
  /\ ~(protocol = "udp" /\ range \in TcpOnlyRanges)
  /\ IF protocols[range] = protocol THEN UNCHANGED stored /\ due' = due
     ELSE ~Taken(range, row) /\ setRuleProtocol(range, protocol, row) /\ due' = TRUE
  /\ form' = [row |-> row, range |-> range, protocol |-> protocol,
              late |-> range \in aged \/ Taken(range, row) \/ (protocols[range] = protocol /\ LeftBehind(range))]
  /\ UNCHANGED <<rows, rebuild, rowChanges, ufw, woken, sync, lock, counts, stray, mixed>>

(* An hour passes without a row for the choice.                            *)
Ages(range) == /\ range \in unmatched \ aged /\ aged' = aged \cup {range}
               /\ form' = [form EXCEPT !.late = @ \/ form.range = range]
               /\ UNCHANGED <<rows, rebuild, rowChanges, ufw, woken, protocols, unmatched, managed, withdrawn, sync, lock, counts, ghosts>>

(* CloudPanel: the form saved or refused, a row deleted; each change then  *)
(* resets ufw and opens the table's rows and its own ports one by one.  A   *)
(* file that changes while the watcher's service runs starts nothing.      *)
Seen == woken' = (woken \/ sync["watcher"].at = "idle")
Save(form_) == /\ ~Taken(form_.range, form_.row) /\ form_.row \in rows \cup {"none"} /\ ~Rebuilding
               /\ rows' = (rows \ {form_.row}) \cup {form_.range} /\ rebuild' = "reset"
Submit == /\ form # NoForm /\ Save(form) /\ form' = NoForm /\ rowChanges' = rowChanges + 1 /\ mixed' = TRUE
          /\ UNCHANGED <<ufw, woken, stored, sync, lock, counts, due, stray>>
Refuse == /\ form # NoForm /\ form' = NoForm /\ rowChanges' = rowChanges + 1
          /\ UNCHANGED <<rows, rebuild, ufw, woken, stored, sync, lock, counts, ghosts>>
DeleteRow(k) == /\ k \in rows /\ ~Rebuilding /\ rowChanges < MaxRowChanges
                /\ rows' = rows \ {k} /\ rebuild' = "reset" /\ rowChanges' = rowChanges + 1 /\ mixed' = TRUE
                /\ UNCHANGED <<form, ufw, woken, stored, sync, lock, counts, due, stray>>
Reset == /\ rebuild = "reset" /\ ufw' = {} /\ rebuild' = "open" /\ Seen /\ stray' = {} /\ mixed' = TRUE
         /\ UNCHANGED <<rows, form, rowChanges, stored, sync, lock, counts, due>>
OpenRule(r) == /\ rebuild = "open" /\ r \in PanelRules \ ufw /\ ufw' = ufw \cup {r} /\ Seen
               /\ UNCHANGED <<panel, stored, sync, lock, counts, ghosts>>
Rebuilt == /\ rebuild = "open" /\ PanelRules \subseteq ufw /\ rebuild' = "none"
           /\ UNCHANGED <<rows, form, rowChanges, ufw, woken, stored, sync, lock, counts, ghosts>>

-----------------------------------------------------------------------------
(* settleState: forgets a choice its row has left, and one that waited an  *)
(* hour for a row.                                                         *)
(* Mutant: a choice no row has matched yet is forgotten at once.           *)
KeptAtOnce(k) == k \in rows
Kept(k) == k \in rows \/ k \in unmatched \ aged
Settled == [k \in Ranges |-> IF Kept(k) THEN protocols[k] ELSE "tcp"]

(* planFirewall.  A port's rows are one ufw rule each way, open if any     *)
(* asks.                                                                   *)
Asks(choice, port, protocol) ==
  \E k \in rows : UfwPort(k) = port /\ (choice[k] = protocol \/ choice[k] = "both")
ToOpen(choice) == {r \in Rules : r[1] = "udp" /\ Asks(choice, r[2], "udp")}
(* Mutant: a row for UDP closes its port's TCP whatever another row asks.  *)
ToCloseAnyway(choice) == {r \in Rules : r[1] = "tcp" /\ \E k \in rows : UfwPort(k) = r[2] /\ choice[k] = "udp"}
ToClose(choice) == {r \in Rules : r[1] = "tcp" /\ Asks(choice, r[2], "udp") /\ ~Asks(choice, r[2], "tcp")}
Wanted(choice) == ToOpen(choice) \cup ToClose(choice)
PutBack(choice) == (managed \ Wanted(choice)) \cap PanelRules
Removed(choice) == (managed \ Wanted(choice)) \ PanelRules

(* syncFirewall: what lets it return at once, and a pass under the lock.   *)
(* It waits for two quiet seconds first, a minute at most, so a pass may   *)
(* still begin between two commands of a rebuild.                          *)
Idle == (\A k \in Ranges : protocols[k] = "tcp") /\ managed = {}
Nothing(mode) == (Idle /\ withdrawn = (mode = "withdraw")) \/ (mode = "apply" /\ withdrawn)
Begins(p, mode) == sync' = [sync EXCEPT ![p] = IF Nothing(mode) THEN Resting ELSE [Resting EXCEPT !.mode = mode, !.at = "pass"]]
Watch == /\ woken /\ sync["watcher"].at = "idle" /\ Begins("watcher", "apply") /\ woken' = FALSE
         /\ UNCHANGED <<panel, ufw, stored, lock, counts, ghosts>>
Repair == /\ addon = "on" /\ sync["page"].at = "idle" /\ switches < MaxSwitches /\ switches' = switches + 1
          /\ Begins("page", "apply")
          /\ UNCHANGED <<panel, ufw, woken, stored, lock, addon, faults, ghosts>>
Switch == /\ sync["page"].at = "idle" /\ switches < MaxSwitches /\ switches' = switches + 1
          /\ IF addon = "on" THEN Begins("page", "withdraw") /\ addon' = (IF Nothing("withdraw") THEN "off" ELSE "leaving")
             ELSE Begins("page", "restore") /\ addon' = "on"
          /\ UNCHANGED <<panel, ufw, woken, stored, lock, faults, ghosts>>

(* Mutant: the mark is looked at before the lock alone.                    *)
HeldBackEarly(mode) == FALSE
HeldBack(mode) == mode = "apply" /\ withdrawn
Pass(p) ==
  LET s == sync[p]  choice == IF s.mode = "withdraw" THEN [k \in Ranges |-> "tcp"] ELSE Settled
      adds == (ToOpen(choice) \cup PutBack(choice)) \ ufw
      dels == (ToClose(choice) \cup Removed(choice)) \cap ufw IN
  /\ s.at = "pass" /\ lock = "free" /\ mixed' = Rebuilding
  /\ IF HeldBack(s.mode) THEN sync' = [sync EXCEPT ![p] = Resting] /\ UNCHANGED <<lock, protocols, unmatched, aged>>
     ELSE /\ sync' = [sync EXCEPT ![p] = [@ EXCEPT !.at = "run", !.adds = adds, !.dels = dels, !.keeps = Wanted(choice),
                                                   !.plan = ({"allow"} \X adds) \cup ({"delete"} \X dels)]]
          /\ lock' = p /\ protocols' = Settled
          /\ unmatched' = {k \in unmatched : k \notin rows /\ Kept(k)} /\ aged' = {k \in aged : k \notin rows /\ Kept(k)}
  /\ UNCHANGED <<panel, ufw, woken, managed, withdrawn, counts, due, stray>>

(* One ufw command: additions before removals; one that fails is noted and *)
(* the next is run.  What a pass releases it no longer has on record.      *)
NextRules(s) == IF s.adds # {} THEN s.adds ELSE s.dels
Command(p, r) ==
  LET s == sync[p] IN
  /\ s.at = "run" /\ r \in NextRules(s)
  /\ \/ /\ ufw' = (IF r \in s.adds THEN ufw \cup {r} ELSE ufw \ {r}) /\ IF ufw' # ufw THEN Seen ELSE woken' = woken
        /\ stray' = (IF mixed /\ r \notin s.keeps THEN stray \cup {r} ELSE stray)
        /\ sync' = [sync EXCEPT ![p].adds = @ \ {r}, ![p].dels = @ \ {r}]
        /\ UNCHANGED faults
     \/ /\ Fault("ufw") /\ stray' = (IF s.mode = "withdraw" THEN stray \cup {r} ELSE stray)
        /\ sync' = [sync EXCEPT ![p].adds = @ \ {r}, ![p].dels = @ \ {r}, ![p].failed = TRUE]
        /\ UNCHANGED <<ufw, woken>>
  /\ UNCHANGED <<panel, stored, lock, addon, switches, due, mixed>>

(* The record is saved; a failed command's rule stays managed.  With       *)
(* something done another pass follows, up to MaxPasses, unless it would   *)
(* be the same commands again: ufw did not take them.                      *)
Managed(s) == IF s.failed THEN s.keeps \cup managed ELSE s.keeps
Record(p) ==
  LET s == sync[p]  refused == s.plan # {} /\ s.plan = s.last
      again == s.plan # {} /\ ~s.failed /\ ~refused /\ s.pass + 1 < MaxPasses IN
  /\ s.at = "run" /\ s.adds = {} /\ s.dels = {} /\ lock' = "free"
  /\ managed' = Managed(s) /\ withdrawn' = (s.mode = "withdraw")
  /\ sync' = [sync EXCEPT ![p] = IF again THEN [Resting EXCEPT !.mode = s.mode, !.at = "pass", !.pass = s.pass + 1, !.last = s.plan]
                                      ELSE Resting]
  /\ due' = ((due /\ (mixed \/ s.mode = "withdraw")) \/ s.failed \/ refused \/ (mixed /\ p = "watcher" /\ ~again) \/ (mixed /\ s.mode = "restore"))
  /\ UNCHANGED <<panel, ufw, woken, protocols, unmatched, aged, switches, faults, stray, mixed>>
  /\ addon' = IF s.mode = "withdraw" /\ ~again THEN "off" ELSE addon

(* Killed, or the lock not had within thirty seconds.                      *)
Killed(p) == /\ sync[p].at \in {"pass", "run"} /\ Fault("kill") /\ sync' = [sync EXCEPT ![p] = Resting]
             /\ lock' = (IF lock = p THEN "free" ELSE lock) /\ due' = TRUE /\ stray' = (IF sync[p].at = "run" THEN stray \cup {c[2] : c \in sync[p].plan} ELSE stray)
             /\ addon' = (IF sync[p].mode = "withdraw" THEN "on" ELSE addon)
             /\ UNCHANGED <<panel, ufw, woken, stored, switches, mixed>>
GivesUp(p) == /\ sync[p].at = "pass" /\ lock # "free" /\ Fault("busy") /\ sync' = [sync EXCEPT ![p] = Resting]
              /\ due' = TRUE /\ UNCHANGED <<panel, ufw, woken, stored, lock, addon, switches, stray, mixed>>

Next == \/ \E k \in Ranges, t \in {"tcp", "udp", "both"}, row \in Ranges \cup {"none"} : row \in rows \cup {"none"} /\ Choose(k, t, row)
        \/ \E k \in Ranges : Ages(k) \/ DeleteRow(k)
        \/ Submit \/ Refuse \/ Reset \/ Rebuilt \/ \E r \in Rules : OpenRule(r)
        \/ Watch \/ Repair \/ Switch
        \/ \E p \in Actors : Pass(p) \/ Record(p) \/ Killed(p) \/ GivesUp(p) \/ \E r \in Rules : Command(p, r)
Spec == Init /\ [][Next]_firewallVars

-----------------------------------------------------------------------------
TypeOK == /\ stray \subseteq Rules /\ rows \subseteq Ranges /\ rebuild \in {"none", "reset", "open"} /\ ufw \subseteq Rules /\ managed \subseteq Rules
          /\ protocols \in [Ranges -> {"tcp", "udp", "both"}] /\ aged \subseteq unmatched
          /\ unmatched \subseteq {k \in Ranges : protocols[k] # "tcp"}
          /\ lock \in Actors \cup {"free"} /\ (lock # "free" => sync[lock].at = "run")

AllIdle == ~Rebuilding /\ lock = "free" /\ \A p \in Actors : sync[p].at = "idle"

(* Once CloudPanel's rebuilds, the passes and the watcher have come to     *)
(* rest, ufw's rules are those of the table with the chosen protocols,     *)
(* whichever pass met which half of a rebuild, unless a choice, a failure  *)
(* or a rebuild that ended while the watcher's last pass was at work waits *)
(* for the next pass.  A rule of which no record tells is excepted: one of *)
(* a pass that was killed, or one a pass released (firewall.ts:351) while  *)
(* CloudPanel rebuilt; CloudPanel's next rebuild takes it.                 *)
Follows == (AllIdle /\ ~woken /\ ~due /\ ~withdrawn) =>
             \A p \in Ports : LET asked == {protocols[k] : k \in {r \in rows : UfwPort(r) = p}} IN
               /\ <<"tcp", p>> \in stray \/ (<<"tcp", p>> \in ufw <=> asked \cap {"tcp", "both"} # {})
               /\ <<"udp", p>> \in stray \/ (<<"udp", p>> \in ufw <=> p \in PanelUdp \/ asked \cap {"udp", "both"} # {})

(* Once a withdrawal is through ufw is CloudPanel's alone, and no pass     *)
(* that was waiting meanwhile puts the protocols back; a rule of which no  *)
(* record tells, or that ufw refused to put back, is excepted.             *)
WithdrawnIsPanels == (addon = "off" /\ ~Rebuilding /\ lock = "free") => ufw \ stray = PanelRules \ stray

(* A choice the form has sent is still there when CloudPanel saves its     *)
(* row, whatever passes ran in between, for an hour.  (Not one that is     *)
(* already on record for a row that has just left the range: nothing is    *)
(* written for it, and the next pass forgets it with that row.)            *)
ChoiceWaits == (form # NoForm /\ ~form.late /\ form.row \in rows \cup {"none"}) =>
                 protocols[form.range] = form.protocol \/ form.range \in rows \ {form.row}

(* A port moving from TCP to UDP is never closed to both by a pass no      *)
(* rebuild ran into, unless a kill kept a change from the record.          *)
NeverShutStep == \A r \in ufw \ ufw' : (~Rebuilding /\ ~mixed /\ stray = {} /\ r[2] \in PortsOf(rows)) =>
                   \E s \in ufw' : s[2] = r[2]
=============================================================================
