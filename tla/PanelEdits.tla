----------------------------- MODULE PanelEdits -----------------------------
(***************************************************************************)
(* The files of others that System Tweaks edits in place: the trust in     *)
(* visitor addresses of the two nginx.conf (real-ip.ts), the phpMyAdmin    *)
(* rules of the panel's vhost (phpmyadmin.ts), the panel's certificate     *)
(* (panel-cert.ts), the compression of remote backups                      *)
(* (backup-compression.ts), and PHP's upload progress in every PHP-FPM     *)
(* (php-guard.ts, upload-progress.ts), with the verbs of action.ts, the    *)
(* repair's passes, the withdrawal and the return of the addon.            *)
(*                                                                         *)
(* An operation holds the settings lock and is the list of the steps it    *)
(* has left.  CloudPanel's packages, the operator and the platform's own   *)
(* repair do not take that lock.  One of Nginx's transactions is a step    *)
(* here, done or refused; what is inside is NginxTransaction.              *)
(***************************************************************************)
EXTENDS Naturals, Sequences, FiniteSets

CONSTANTS FpmVersions,      \* of PHP-FPM
          OwnIni,          \* what an operator's ini after ours says of upload progress, of each
          Levels,            \* of compression
          MaxPairs, MaxEditOps, MaxEditMoves

VARIABLES addonOn, chosen,              \* the addon is enabled; settings.json
          trust, rules, anchored,        \* the two nginx.conf; the vhost's block, and its anchor
          pair, store, ageing,           \* the panel's certificate and key; the pair kept; what nears its end
          remote, tools,                 \* the backup command's source; zstd and the tar command are as known
          ini, runs,                     \* our drop-in; upload progress in the running FPM
          op, fixer,                     \* the operation underway; what the platform's repair has read
          pairs, editOps, editMoves,
          loose, firm, behind            \* ghosts, see below

editsVars == <<addonOn, chosen, trust, rules, anchored, pair, store, ageing, remote, tools, ini, runs, op, fixer,
               pairs, editOps, editMoves, loose, firm, behind>>
nginx == <<trust, rules>>
cert == <<pair, store, pairs, firm>>
fpm == <<ini, runs, behind>>
world == <<anchored, ageing, tools, fixer, editMoves>>

Features == {"trust", "rules", "cert", "zip", "upload"}
Settings == [trust : BOOLEAN, rules : BOOLEAN, cert : BOOLEAN, upload : BOOLEAN, zip : {0} \cup Levels]
AllOff == [trust |-> FALSE, rules |-> FALSE, cert |-> FALSE, upload |-> TRUE, zip |-> 0]
Ids == 1..MaxPairs
SharedId == 0
OwnId == MaxPairs + 1
NoId == MaxPairs + 2
Pair(id) == [cert |-> id, key |-> id]
Shared == Pair(SharedId)
Own == Pair(OwnId)
NoStore == Pair(NoId)
Cut == 13                               \* no level is past twelve: a block that is not ours
Plain == [src |-> "known", block |-> 0]
Idle == [verb |-> "none", todo |-> <<>>, want |-> AllOff, snap |-> AllOff, about |-> {}, settles |-> {}, was |-> FALSE, changed |-> FALSE,
         seen |-> Plain, next |-> 0, doomed |-> FALSE, late |-> FALSE, new |-> 0, reuse |-> FALSE, files |-> [v \in FpmVersions |-> FALSE]]
Busy == op # Idle
At(step) == Busy /\ Head(op.todo) = step
Left == Tail(op.todo)
Without(steps) == SelectSeq(Left, LAMBDA s : s \notin steps)

(* loose: what somebody else, a kill or a failed step has moved since an   *)
(* operation last went over it.  firm: the pair served is the operator's,  *)
(* put there while nothing looked.  behind: a kill, or a reload refused    *)
(* twice, left a PHP-FPM that has not read its files, or one was started   *)
(* beside a change; a later operation that finds the files right reloads   *)
(* nothing.                                                                *)
Init == /\ \/ addonOn = TRUE /\ chosen = AllOff
           \/ addonOn = FALSE /\ chosen = [trust |-> TRUE, rules |-> TRUE, cert |-> TRUE, upload |-> TRUE, zip |-> 0]
        /\ trust = [sites |-> "any", panel |-> "any"] /\ rules = "none" /\ anchored = TRUE
        /\ pair = Shared /\ store = NoStore /\ ageing = {} /\ remote = Plain /\ tools = TRUE
        /\ ini = [v \in FpmVersions |-> TRUE] /\ runs = [v \in FpmVersions |-> OwnIni[v] = "on"]
        /\ op = Idle /\ fixer = "none" /\ pairs = 0 /\ editOps = 0 /\ editMoves = 0 /\ loose = {} /\ firm = FALSE /\ behind = {}

-----------------------------------------------------------------------------
(* What the page is told, read back from the files.                        *)
realIpStatus == trust.sites = "any" \/ trust.panel = "any"
phpMyAdminStatus == anchored /\ rules = "current"
storedPair == store.cert = store.key /\ store.cert # NoId
panelCertStatus == IF pair = Shared THEN "shared"
                   ELSE IF storedPair /\ store.cert = pair.cert THEN "generated" ELSE "own"
backupCompressionStatus(level) == remote.src = "known" /\ tools /\ remote.block = level
(* The last assignment wins, and ours is before the operator's.            *)
decide(v, ours) == IF OwnIni[v] = "none" THEN ~ours ELSE OwnIni[v] = "on"
uploadProgressStatus(v) == [enabled |-> decide(v, ini[v]), offWithoutGuard |-> OwnIni[v] = "off"]
phpGuardOptedOut == addonOn /\ ~chosen.upload

-----------------------------------------------------------------------------
(* The operations, each with its steps.                                    *)
Start(verb, about, todo, want) ==
  /\ ~Busy /\ editOps < MaxEditOps /\ editOps' = editOps + 1
  /\ op' = [Idle EXCEPT !.verb = verb, !.about = about, !.settles = about, !.todo = todo, !.want = want, !.snap = chosen]
  /\ UNCHANGED <<addonOn, chosen, nginx, cert, remote, fpm, loose, world>>
Trusts == <<"sites", "panel">>
Certs == <<"look", "swap", "storeKey", "storeCert">>
Zips == <<"zip", "put", "write">>
Guards == <<"ini", "reload">>

setRealIp(on) == addonOn /\ Start("set", {"trust"}, Trusts \o <<"save">>, [chosen EXCEPT !.trust = on])
setPhpMyAdmin(on) == addonOn /\ Start("set", {"rules"}, <<"rules", "save">>, [chosen EXCEPT !.rules = on])
setPanelCert(on) == addonOn /\ Start("set", {"cert"}, (IF on THEN Certs ELSE <<>>) \o <<"save">>, [chosen EXCEPT !.cert = on])
setBackupCompression(level) == addonOn /\ Start("set", {"zip"}, <<"save">> \o Zips, [chosen EXCEPT !.zip = level])
setUploadGuard(on) == addonOn /\ Start("set", {"upload"}, <<"save">> \o Guards, [chosen EXCEPT !.upload = on])
(* The repair's pieces, each under the lock by itself.                     *)
systemTweaksMaintenance ==
  /\ addonOn
  /\ \/ chosen.trust /\ Start("pass", {"trust"}, Trusts, chosen)
     \/ chosen.rules /\ Start("pass", {"rules"}, <<"rules">>, chosen)
     \/ chosen.cert /\ Start("pass", {"cert"}, Certs, chosen)
     \/ Start("pass", {"zip"}, Zips, chosen)
withdrawSystemTweaks ==
  addonOn /\ Start("withdraw", {"zip", "trust", "rules"}, Zips \o Trusts \o <<"rules", "off">> \o Guards, AllOff)
restoreSystemTweaks ==
  /\ ~addonOn /\ ~Busy /\ editOps < MaxEditOps /\ editOps' = editOps + 1 /\ addonOn' = TRUE
  /\ op' = [Idle EXCEPT !.verb = "restore", !.about = Features, !.settles = {f \in Features : (f = "zip") \/ (IF f = "upload" THEN ~chosen.upload ELSE f # "zip" /\ chosen[f])},
                        !.want = chosen, !.snap = chosen,
                        !.todo = (IF chosen.upload THEN <<>> ELSE Guards) \o (IF chosen.trust THEN Trusts ELSE <<>>)
                                 \o (IF chosen.rules THEN <<"rules">> ELSE <<>>) \o Zips \o (IF chosen.cert THEN Certs ELSE <<>>)]
  /\ UNCHANGED <<chosen, nginx, cert, remote, fpm, loose, world>>

(* On to the next step, over the steps named; the last one settles.        *)
Onward(o, over) == IF Without(over) = <<>> THEN op' = Idle /\ loose' = loose \ op.settles
                   ELSE op' = [o EXCEPT !.todo = Without(over)] /\ UNCHANGED loose
(* A step fails, with these moved.  A verb that saved first puts its       *)
(* setting back; the return goes on without compression or a certificate.  *)
ZipSteps == {"zip", "put", "write"}
CertSteps == {"look", "swap", "storeKey", "storeCert"}
Throws(moved) ==
  LET step == Head(op.todo)
      spares == op.verb = "restore" /\ step \in ZipSteps
      rest == Without(ZipSteps)
  IN /\ op' = CASE op.verb = "set" /\ op.about \subseteq {"zip", "upload"} -> [op EXCEPT !.todo = <<"unsave">>]
                [] spares /\ rest # <<>> -> [op EXCEPT !.todo = rest, !.settles = @ \ {"zip"}]
                [] OTHER -> Idle
     /\ loose' = loose \cup moved \cup CASE op.verb = "withdraw" -> Features
                                         [] op.verb = "restore" -> IF spares THEN {"zip"} ELSE IF step \in CertSteps THEN {"cert"} ELSE Features
                                         [] OTHER -> {}
  /\ UNCHANGED <<addonOn, editOps>>
Same == UNCHANGED <<addonOn, chosen, editOps, world>>

Saves == /\ At("save") /\ chosen' = op.want /\ Onward(op, {})
         /\ UNCHANGED <<addonOn, editOps, world, nginx, cert, remote, fpm>>
Unsaves == /\ At("unsave") /\ chosen' = op.snap /\ op' = Idle
           /\ UNCHANGED <<addonOn, editOps, world, nginx, cert, remote, fpm, loose>>
(* The config file is gone: an opt-out of the PHP guard no longer counts.  *)
Off == /\ At("off") /\ addonOn' = FALSE /\ op' = [op EXCEPT !.todo = Left, !.about = @ \cup {"upload"}, !.settles = @ \cup {"upload"}]
       /\ UNCHANGED <<chosen, editOps, world, nginx, cert, remote, fpm, loose>>

-----------------------------------------------------------------------------
(* applyRealIp: the sites' file, then the panel's, which also trusts       *)
(* CloudPanel's list of proxies; the panel's refusal puts the first back.  *)
Narrowed == IF op.want.trust THEN "narrow" ELSE "any"
applyToSites == /\ At("sites") /\ trust' = [trust EXCEPT !.sites = Narrowed]
                /\ Onward([op EXCEPT !.was = trust.sites = "any", !.changed = trust.sites # Narrowed], {})
                /\ Same /\ UNCHANGED <<rules, cert, remote, fpm>>
applyToPanel == /\ At("panel") /\ trust' = [trust EXCEPT !.panel = Narrowed] /\ Onward(op, {})
                /\ Same /\ UNCHANGED <<rules, cert, remote, fpm>>
sitesRefused == /\ At("sites") /\ trust.sites # Narrowed /\ Throws({}) /\ UNCHANGED <<chosen, world, nginx, cert, remote, fpm>>
(* Mutant: the first file stays as it is.                                  *)
panelRefusedAlone == /\ At("panel") /\ trust.panel # Narrowed /\ Throws({}) /\ UNCHANGED <<chosen, world, nginx, cert, remote, fpm>>
panelRefused ==
  /\ At("panel") /\ trust.panel # Narrowed
  /\ \/ trust' = (IF op.changed THEN [trust EXCEPT !.sites = IF op.was THEN "any" ELSE "narrow"] ELSE trust) /\ Throws({})
     \/ op.changed /\ trust' = trust /\ Throws({"trust"})
  /\ UNCHANGED <<chosen, world, rules, cert, remote, fpm>>

(* applyPhpMyAdmin.                                                        *)
Ruled == IF op.want.rules THEN "current" ELSE "none"
applyPhpMyAdmin == /\ At("rules") /\ (op.want.rules => anchored) /\ rules' = Ruled /\ Onward(op, {})
                   /\ Same /\ UNCHANGED <<trust, cert, remote, fpm>>
rulesRefused == /\ At("rules") /\ (rules # Ruled \/ (op.want.rules /\ ~anchored))
                /\ Throws({}) /\ UNCHANGED <<chosen, world, nginx, cert, remote, fpm>>

-----------------------------------------------------------------------------
(* replacePanelCert: CloudPanel's shared pair, or one of ours that nears   *)
(* its end, gives way to the pair kept or to a new one.                    *)
Stale == panelCertStatus = "generated" /\ pair.cert \in ageing
(* Mutants: a new pair each time; and any pair but a fresh one of ours.    *)
looksAnew == /\ At("look") /\ (panelCertStatus = "shared" \/ Stale) /\ pairs < MaxPairs
             /\ pairs' = pairs + 1 /\ Onward([op EXCEPT !.new = pairs + 1, !.reuse = FALSE], {})
             /\ Same /\ UNCHANGED <<nginx, pair, store, firm, remote, fpm>>
looksAtAny == /\ At("look") /\ pairs < MaxPairs /\ pairs' = pairs + 1 /\ Onward([op EXCEPT !.new = pairs + 1, !.reuse = FALSE], {})
              /\ Same /\ UNCHANGED <<nginx, pair, store, firm, remote, fpm>>
generates ==
  /\ At("look") /\ (panelCertStatus = "shared" \/ Stale) /\ pairs < MaxPairs
  /\ Stale \/ ~storedPair \/ store.cert \in ageing
  /\ pairs' = pairs + 1 /\ Onward([op EXCEPT !.new = pairs + 1, !.reuse = FALSE], {})
  /\ Same /\ UNCHANGED <<nginx, pair, store, firm, remote, fpm>>
reuses == /\ At("look") /\ panelCertStatus = "shared" /\ storedPair /\ store.cert \notin ageing
          /\ Onward([op EXCEPT !.new = store.cert, !.reuse = TRUE], {}) /\ Same /\ UNCHANGED <<nginx, cert, remote, fpm>>
leavesPair == /\ At("look") /\ panelCertStatus # "shared" /\ ~Stale /\ Onward(op, CertSteps)
              /\ Same /\ UNCHANGED <<nginx, cert, remote, fpm>>
(* openssl, an untrusted file or the panel's Nginx.                        *)
pairRefused == /\ (At("look") \/ At("swap")) /\ Throws(IF chosen.cert THEN {} ELSE op.about \cap {"cert"})
               /\ UNCHANGED <<chosen, world, nginx, cert, remote, fpm>>
swapsPair == /\ At("swap") /\ pair' = Pair(op.new) /\ firm' = FALSE /\ Onward(op, IF op.reuse THEN CertSteps ELSE {})
             /\ Same /\ UNCHANGED <<nginx, store, pairs, remote, fpm>>
storesKey == /\ At("storeKey") /\ store' = [store EXCEPT !.key = op.new] /\ Onward(op, {})
             /\ Same /\ UNCHANGED <<nginx, pair, pairs, firm, remote, fpm>>
storesCert == /\ At("storeCert") /\ store' = [store EXCEPT !.cert = op.new] /\ Onward(op, {})
              /\ Same /\ UNCHANGED <<nginx, pair, pairs, firm, remote, fpm>>

-----------------------------------------------------------------------------
(* reconcileBackupCompression: inspect, the support it needs, and the      *)
(* replacement, which looks at the source once more.                       *)
Foreign == remote.src = "new" \/ remote.block = Cut
nothingToUndo == /\ At("zip") /\ op.want.zip = 0 /\ remote.block = 0 /\ Onward(op, ZipSteps)
                 /\ Same /\ UNCHANGED <<nginx, cert, remote, fpm>>
inspects ==
  /\ At("zip") /\ ~(op.want.zip = 0 /\ remote.block = 0) /\ ~Foreign
  /\ LET missing == op.want.zip # 0 /\ ~tools
     IN IF missing /\ remote.block = 0 THEN Throws({}) /\ UNCHANGED <<chosen, world>>
        ELSE /\ Onward([op EXCEPT !.seen = remote, !.next = IF missing THEN 0 ELSE op.want.zip, !.doomed = missing],
                       IF ~missing /\ remote.block = op.want.zip THEN ZipSteps ELSE {})
             /\ Same
  /\ UNCHANGED <<nginx, cert, remote, fpm>>
(* An edited block, another version, or PHP's syntax check.                *)
inspectRefused == /\ At("zip") /\ (IF Foreign THEN ~(op.want.zip = 0 /\ remote.block = 0) ELSE op.want.zip # 0 /\ tools)
                  /\ Throws({}) /\ UNCHANGED <<chosen, world, nginx, cert, remote, fpm>>
(* Mutant: the source is not looked at again.                              *)
replaceUnseen == /\ At("put") /\ Onward(op, {}) /\ Same /\ UNCHANGED <<nginx, cert, remote, fpm>>
replaceSource == /\ At("put") /\ UNCHANGED <<nginx, cert, remote, fpm>>
                 /\ IF remote # op.seen THEN Throws({}) /\ UNCHANGED <<chosen, world>> ELSE Onward(op, {}) /\ Same
(* The text made of what was read first, over whatever is there by now.    *)
writesSource == /\ At("write") /\ remote' = [op.seen EXCEPT !.block = op.next]
                /\ (IF op.doomed THEN Throws({}) /\ UNCHANGED <<chosen, world>> ELSE Onward(op, {}) /\ Same)
                /\ UNCHANGED <<nginx, cert, fpm>>

-----------------------------------------------------------------------------
(* reconcilePhpSessionGuard: the drop-ins, then every FPM that changed is  *)
(* tested and reloaded; one refusal puts all of them back.                 *)
Loaded == [v \in FpmVersions |-> uploadProgressStatus(v).enabled]
Edited == {v \in FpmVersions : op.files[v] = phpGuardOptedOut}
PutBack == [v \in FpmVersions |-> IF v \in Edited THEN op.files[v] ELSE ini[v]]
writesGuard == /\ At("ini") /\ ini' = [v \in FpmVersions |-> ~phpGuardOptedOut]
               /\ Onward([op EXCEPT !.files = ini], IF ini' = ini THEN {"ini", "reload"} ELSE {})
               /\ Same /\ UNCHANGED <<nginx, cert, remote, runs, behind>>
reloadsFpm == /\ At("reload") /\ runs' = [v \in FpmVersions |-> IF v \in Edited THEN Loaded[v] ELSE runs[v]] /\ Onward(op, {})
              /\ behind' = behind \ Edited /\ Same /\ UNCHANGED <<nginx, cert, remote, ini>>
(* Mutant: the files are put back and no FPM reads them again.             *)
fpmRefusedUnread == /\ At("reload") /\ ini' = PutBack
                    /\ \E some \in SUBSET Edited :
                         runs' = [v \in FpmVersions |-> IF v \in some THEN Loaded[v] ELSE runs[v]]
                    /\ Throws({}) /\ UNCHANGED <<chosen, world, nginx, cert, remote, behind>>
(* stuck: the FPMs that had read the change and do not reload again.       *)
fpmRefused == /\ At("reload") /\ ini' = PutBack
              /\ \E stuck \in SUBSET Edited :
                   /\ runs' = [v \in FpmVersions |-> IF v \in stuck THEN Loaded[v] ELSE runs[v]]
                   /\ behind' = behind \cup stuck
              /\ Throws({}) /\ UNCHANGED <<chosen, world, nginx, cert, remote>>

-----------------------------------------------------------------------------
(* A kill, and those who do not take the lock.                             *)
Killed == /\ Busy /\ op' = Idle /\ loose' = loose \cup op.about
          /\ behind' = (IF At("reload") THEN behind \cup Edited ELSE behind)
          /\ UNCHANGED <<addonOn, editOps, chosen, world, nginx, cert, remote, ini, runs>>
Moves(touched) == /\ editMoves < MaxEditMoves /\ editMoves' = editMoves + 1 /\ loose' = loose \cup touched
                  /\ op' = [op EXCEPT !.settles = @ \ touched, !.late = @ \/ (At("write") /\ "zip" \in touched)] /\ UNCHANGED <<addonOn, chosen, editOps, fixer>>
(* repair.ts: reconcilePhpGuard reads the opt-out, then writes.            *)
repairReads == /\ editMoves < MaxEditMoves /\ editMoves' = editMoves + 1 /\ fixer = "none"
               /\ fixer' = (IF phpGuardOptedOut THEN "out" ELSE "in")
               /\ UNCHANGED <<addonOn, chosen, op, editOps, loose, nginx, anchored, cert, ageing, remote, tools, fpm>>
repairWrites == /\ fixer # "none" /\ fixer' = "none" /\ op' = [op EXCEPT !.settles = @ \ {"upload"}]
                /\ ini' = [v \in FpmVersions |-> fixer = "in"]
                /\ runs' = [v \in FpmVersions |-> IF ini[v] # ini'[v] THEN decide(v, ini'[v]) ELSE runs[v]]
                /\ behind' = (IF At("reload") THEN FpmVersions ELSE {v \in behind : ini[v] = ini'[v]})
                /\ loose' = (IF (fixer = "in") = ~phpGuardOptedOut /\ "upload" \notin op.about THEN loose ELSE loose \cup {"upload"})
                /\ UNCHANGED <<addonOn, chosen, editOps, editMoves, nginx, anchored, cert, ageing, remote, tools>>
panelUpdates == /\ Moves({"rules", "cert", "zip"}) /\ pair' = Shared /\ firm' = FALSE /\ rules' = "none" /\ anchored' \in BOOLEAN
                /\ \E src \in {"known", "new"} : remote' = [src |-> src, block |-> 0]
                /\ UNCHANGED <<trust, store, pairs, ageing, tools, fpm>>
nginxUpdates == /\ Moves({"trust"}) /\ \E f \in {"sites", "panel"} : trust' = [trust EXCEPT ![f] = "any"]
                /\ UNCHANGED <<rules, anchored, cert, ageing, remote, tools, fpm>>
proxiesChange == /\ trust.panel = "narrow" /\ Moves({"trust"}) /\ trust' = [trust EXCEPT !.panel = "stale"]
                 /\ UNCHANGED <<rules, anchored, cert, ageing, remote, tools, fpm>>
ownPair == /\ Moves({"cert"}) /\ pair' = Own /\ firm' = ~Busy
           /\ UNCHANGED <<nginx, anchored, store, pairs, ageing, remote, tools, fpm>>
timePasses == /\ pairs # 0 /\ ~Busy /\ Moves({"cert"}) /\ ageing' = 1..pairs /\ UNCHANGED <<nginx, anchored, cert, remote, tools, fpm>>
sourceIsEdited == /\ Moves({"zip"}) /\ remote.block \in Levels /\ remote' = [remote EXCEPT !.block = Cut]
                  /\ UNCHANGED <<nginx, anchored, cert, ageing, tools, fpm>>
toolsChange == /\ Moves({"zip"}) /\ tools' = ~tools /\ UNCHANGED <<nginx, anchored, cert, ageing, remote, fpm>>
phpIsInstalled(v) == /\ Moves({"upload"}) /\ ini' = [ini EXCEPT ![v] = FALSE] /\ runs' = [runs EXCEPT ![v] = decide(v, FALSE)] /\ behind' = (IF At("reload") THEN behind \cup {v} ELSE behind \ {v})
                     /\ UNCHANGED <<nginx, anchored, cert, ageing, remote, tools>>

Next == \/ \E on \in BOOLEAN : setRealIp(on) \/ setPhpMyAdmin(on) \/ setPanelCert(on) \/ setUploadGuard(on)
        \/ \E level \in {0} \cup Levels : setBackupCompression(level)
        \/ systemTweaksMaintenance \/ withdrawSystemTweaks \/ restoreSystemTweaks
        \/ Saves \/ Unsaves \/ Off
        \/ applyToSites \/ applyToPanel \/ sitesRefused \/ panelRefused \/ applyPhpMyAdmin \/ rulesRefused
        \/ generates \/ reuses \/ leavesPair \/ pairRefused \/ swapsPair \/ storesKey \/ storesCert
        \/ nothingToUndo \/ inspects \/ inspectRefused \/ replaceSource \/ writesSource
        \/ writesGuard \/ reloadsFpm \/ fpmRefused
        \/ Killed \/ repairReads \/ repairWrites \/ panelUpdates \/ nginxUpdates \/ proxiesChange \/ ownPair \/ timePasses
        \/ sourceIsEdited \/ toolsChange \/ \E v \in FpmVersions : phpIsInstalled(v)
Spec == Init /\ [][Next]_editsVars

-----------------------------------------------------------------------------
TypeOK == /\ chosen \in Settings /\ trust.sites \in {"any", "narrow"} /\ trust.panel \in {"any", "stale", "narrow"}
          /\ rules \in {"none", "current"} /\ pair \in {Shared, Own} \cup {Pair(i) : i \in Ids}
          /\ {store.cert, store.key} \subseteq {NoId} \cup Ids /\ ageing \subseteq Ids
          /\ remote \in [src : {"known", "new"}, block : {0, Cut} \cup Levels]
          /\ ini \in [FpmVersions -> BOOLEAN] /\ runs \in [FpmVersions -> BOOLEAN] /\ loose \subseteq Features

(* What the page is told of each protection is what was chosen, after any  *)
(* failure of a step that was put back, unless somebody else has moved it  *)
(* since: both nginx.conf or neither, the rules, no shared certificate and *)
(* none of ours near its end, the level of compression; and every PHP-FPM  *)
(* runs what it says.  Off, nothing of it is left but the certificate.     *)
InPlace(f) ==
  CASE f = "trust" -> IF addonOn /\ chosen.trust THEN ~realIpStatus /\ trust.panel = "narrow" ELSE trust.sites = "any" /\ trust.panel = "any"
    [] f = "rules" -> IF addonOn /\ chosen.rules THEN phpMyAdminStatus ELSE rules = "none"
    [] f = "cert" -> (addonOn /\ chosen.cert) => panelCertStatus # "shared" /\ ~Stale
    [] f = "zip" -> IF addonOn /\ chosen.zip # 0 THEN backupCompressionStatus(chosen.zip) ELSE remote.block = 0
    [] f = "upload" -> \A v \in FpmVersions : ini[v] = ~phpGuardOptedOut /\ (v \notin behind => runs[v] = uploadProgressStatus(v).enabled)
ChosenIsInPlace == ~Busy => \A f \in Features \ loose : InPlace(f)

(* CloudPanel's update gives the panel its shared certificate back; the    *)
(* next repair puts back the pair visitors have already met, and a pair of *)
(* the operator's own, there before the repair looked, is never replaced.  *)
SamePairAgainStep ==
  (pair' # pair /\ editMoves' = editMoves) =>
    ~firm /\ ((pair = Shared /\ storedPair /\ store.cert \notin ageing) => pair' = store)

(* A backup command that CloudPanel has changed or an operator has edited  *)
(* is left as it is, also when that happens while it is being checked, but *)
(* for one that comes between the last look and the write (op.late).       *)
ForeignIsLeftStep == (remote' # remote /\ editMoves' = editMoves) => ~Foreign \/ op.late
=============================================================================
