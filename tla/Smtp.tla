-------------------------------- MODULE Smtp --------------------------------
(***************************************************************************)
(* SMTP Relay (addons/smtp): a policy of profiles, sites and granted       *)
(* domains, and what makes a site send through its own profile alone:      *)
(* Postfix's maps, the rule the mail wrapper reads, PHP's sendmail_path.   *)
(* Actions run one at a time under the addon's lock, may fail at any       *)
(* command, and may be killed; CloudPanel's sites come and go meanwhile.   *)
(***************************************************************************)
EXTENDS Naturals, Sequences, FiniteSets, SequencesExt

CONSTANTS Order,      \* the sites' domains in the panel's order
          Granted,    \* domains an administrator may let a site send as
          MaxSmtpOps, MaxSmtpFaults, MaxSiteIds

VARIABLES siteId, lastId,     \* each domain's site id, 0 for none
          on,                 \* the addon is enabled
          policyFile,         \* config.json
          setting, record,    \* Postfix's settings; postfix-original.json
          maps, loaded,       \* the map files; what Postfix runs with
          rules, ini,         \* the wrapper's rule files; sendmail_path is set
          pc, job, undo,      \* the running action, and whether it puts the policy back
          wanted,             \* ghost: the operator's own Postfix settings
          chosen,             \* ghost: the ids of sites an administrator has chosen for
          broken,             \* ghost: a kill or a failed restore is not yet repaired
          ops, failures, kills

smtpVars == <<siteId, lastId, on, policyFile, setting, record, maps, loaded, rules, ini, pc, job, undo, wanted, chosen, broken, ops, failures, kills>>
box == <<setting, record, maps, loaded, rules, ini>>
counters == <<ops, failures, kills>>
panel == <<siteId, lastId>>

MailSites == {Order[i] : i \in 1..Len(Order)}
Domains == MailSites \cup Granted
Senders == {"own", "fixed", "from"}   \* noreply@{site}; mail@ the first granted domain; {from.local}@{from.domain}
Fixed == <<"mail", CHOOSE d \in Granted : TRUE>>
None == "none"
Discard == "dont-send"
Custom == {"p"}
NoRoutes == <<>>
NoJob == [next |-> None, to |-> NoRoutes, back |-> NoRoutes, kind |-> None, of |-> 0]

-----------------------------------------------------------------------------
(* Reading the policy: Discard is dont-send and nothing else, whatever an  *)
(* older file holds.                                                       *)
movedTo(p, id) == IF id = Discard /\ p.profiles[id].relay THEN "moved"
                  ELSE IF id # Discard /\ ~p.profiles[id].relay THEN Discard ELSE id
stablePolicy(p) == [p EXCEPT !.default = IF @ \in DOMAIN p.profiles THEN @ ELSE None,
                             !.assigned = [s \in MailSites |-> IF @[s] \in DOMAIN p.profiles THEN @[s] ELSE None]]
(* Mutant: a relay that holds the discard's id becomes the discard.        *)
withDontSendAsIs(p) == stablePolicy([p EXCEPT !.profiles = [id \in {Discard} \cup {i \in DOMAIN p.profiles : p.profiles[i].relay} |->
                                       IF id = Discard THEN [relay |-> FALSE, sender |-> "own"] ELSE p.profiles[id]]])
withDontSend(p) ==
  LET relays == {id \in DOMAIN p.profiles : p.profiles[id].relay}
      to(id) == IF id \in DOMAIN p.profiles THEN movedTo(p, id) ELSE id
      from(id) == CHOOSE i \in relays : movedTo(p, i) = id
  IN stablePolicy([profiles |-> [id \in {Discard} \cup {movedTo(p, i) : i \in relays} |->
                                   IF id = Discard THEN [relay |-> FALSE, sender |-> "own"] ELSE p.profiles[from(id)]],
                   default |-> to(p.default), assigned |-> [s \in MailSites |-> to(p.assigned[s])], grants |-> p.grants, known |-> p.known])
readPolicy == withDontSend(policyFile)

-----------------------------------------------------------------------------
(* Routing.  A pattern is a whole domain or one address.  Sites in a       *)
(* profile claim first; one that could send as what another profile's      *)
(* site claimed is blocked.                                                *)
allowed(p, s) == {s} \cup p.grants[s]
senderOf(p, s) == IF p.assigned[s] = None THEN "own" ELSE p.profiles[p.assigned[s]].sender
envelopeGrants(p, s) == {<<d>> : d \in allowed(p, s)} \cup (CASE senderOf(p, s) = "own" -> {<<"noreply", s>>}
                                                              [] senderOf(p, s) = "fixed" -> {Fixed} [] OTHER -> {})
(* Mutant: only equal patterns clash.                                      *)
OverlapEqual(a, b) == a = b
Overlap(a, b) == Last(a) = Last(b) /\ (a = b \/ Len(a) = 1 \/ Len(b) = 1)
claimOrder(p, S) == SelectSeq(Order, LAMBDA s : s \in S /\ p.assigned[s] # None) \o SelectSeq(Order, LAMBDA s : s \in S /\ p.assigned[s] = None)
Claim(p, got, s) ==
  LET mine == p.assigned[s] env == envelopeGrants(p, s)
  IN IF \E c \in got.claims, e \in env : c[2] # mine /\ Overlap(c[1], e) THEN [got EXCEPT !.blocked = @ \cup {s}]
     ELSE IF mine = None THEN got ELSE [got EXCEPT !.claims = @ \cup {<<e, mine>> : e \in env}]
claimed(p, S) == FoldLeft(LAMBDA got, s : Claim(p, got, s), [claims |-> {}, blocked |-> {}], claimOrder(p, S))
routesFor(p, S) == LET b == claimed(p, S).blocked
                   IN [s \in S |-> [profile |-> IF s \in b THEN None ELSE p.assigned[s], blocked |-> s \in b, sender |-> senderOf(p, s),
                                    allowed |-> allowed(p, s), envelopes |-> IF s \in b THEN {} ELSE envelopeGrants(p, s)]]
blocks(p, S) == {<<s, p.assigned[s]>> : s \in claimed(p, S).blocked}
newBlock(before, next, S) == ~(blocks(next, S) \subseteq blocks(before, S))
Routed(r) == \E s \in DOMAIN r : r[s].profile # None

(* What the wrapper makes of a message whose From is at domain d: the      *)
(* envelope sender it passes on, or none.                                  *)
ruleOf(r, s) == [sender |-> IF r[s].profile = None THEN None ELSE r[s].sender, allowed |-> IF r[s].blocked THEN {} ELSE r[s].allowed]
prepareSubmission(rule, s, d) == CASE rule.sender = "own" -> <<"noreply", s>> [] rule.sender = "fixed" -> Fixed
                                   [] OTHER -> <<"noreply", IF d \in rule.allowed THEN d ELSE s>>
envelopeWithin(rule, d) == IF d \in rule.allowed THEN <<"noreply", d>> ELSE <<>>
smtpSubmit(rule, s, d) == IF rule.sender = None THEN envelopeWithin(rule, d) ELSE prepareSubmission(rule, s, d)

-----------------------------------------------------------------------------
Seeded == [profiles |-> [id \in {Discard} |-> [relay |-> FALSE, sender |-> "own"]], default |-> None,
           assigned |-> [s \in MailSites |-> None], grants |-> [s \in MailSites |-> {}], known |-> {}]
(* A file of 1.5: its dont-send relays, and another profile discards.      *)
Old(id) == [Seeded EXCEPT !.profiles = [i \in {Discard, "old"} |-> [relay |-> i = Discard, sender |-> "own"]],
                          !.assigned[Order[1]] = id, !.default = Discard]
Current(t) == [Seeded EXCEPT !.profiles = [i \in {Discard, "p", "q"} |-> [relay |-> i # Discard, sender |-> IF i = "q" THEN t ELSE "own"]],
                             !.assigned[Order[1]] = "p", !.default = "q", !.known = {1}]
(* The addon is off, and keeps the policy it had.                          *)
Init == /\ siteId = [s \in MailSites |-> IF s = Order[1] THEN 1 ELSE 0] /\ lastId = 1 /\ on = FALSE
        /\ policyFile \in {Seeded} \cup {Old(i) : i \in {Discard, "old"}} \cup {Current(t) : t \in {"own", "fixed"}}
        /\ setting = "operator" /\ record = None /\ maps = NoRoutes /\ loaded = NoRoutes /\ rules = NoRoutes /\ ini = FALSE
        /\ pc = "idle" /\ job = NoJob /\ undo = FALSE /\ wanted = "operator" /\ chosen = {} /\ broken = FALSE
        /\ ops = 0 /\ failures = 0 /\ kills = 0

(* An action reads the sites once, so nothing is lost by letting them and  *)
(* the operator move between actions only.                                 *)
CreateSite == \E s \in MailSites : /\ pc = "idle" /\ siteId[s] = 0 /\ lastId < MaxSiteIds /\ lastId' = lastId + 1 /\ siteId' = [siteId EXCEPT ![s] = lastId']
                               /\ UNCHANGED <<on, policyFile, box, pc, job, undo, wanted, chosen, broken, counters>>
DeleteSite == \E s \in MailSites : /\ pc = "idle" /\ siteId[s] # 0 /\ siteId' = [siteId EXCEPT ![s] = 0]
                               /\ UNCHANGED <<lastId, on, policyFile, box, pc, job, undo, wanted, chosen, broken, counters>>
OperatorEdits == /\ pc = "idle" /\ setting = "operator" /\ record = None /\ setting' = "edited" /\ wanted' = "edited"
                 /\ UNCHANGED <<panel, on, policyFile, record, maps, loaded, rules, ini, pc, job, undo, chosen, broken, counters>>
(* Postfix's processes end by themselves and start with what is filed.     *)
Recycle == /\ loaded # (IF setting = "ours" THEN maps ELSE NoRoutes) /\ pc = "idle" /\ loaded' = (IF setting = "ours" THEN maps ELSE NoRoutes)
           /\ UNCHANGED <<panel, on, policyFile, setting, record, maps, rules, ini, pc, job, undo, wanted, chosen, broken, counters>>

-----------------------------------------------------------------------------
(* The verbs, each from the policy and the sites as they are under the     *)
(* lock.                                                                   *)
Present == {s \in MailSites : siteId[s] # 0}
FirstStep(r) == IF Routed(r) THEN "postfix" ELSE "phpOff"
Start(kind, of, next) ==
  LET to == routesFor(next, Present)
  IN /\ job' = [next |-> next, to |-> to, back |-> routesFor(readPolicy, Present), kind |-> kind, of |-> of]
     /\ pc' = FirstStep(to) /\ undo' = FALSE
     /\ UNCHANGED <<panel, on, policyFile, box, wanted, chosen, broken, failures, kills>>
commitFor(kind, of, next) == ~newBlock(readPolicy, next, Present) /\ Start(kind, of, next)
commit(next) == commitFor("commit", 0, next)
Asked == pc = "idle" /\ on /\ ops < MaxSmtpOps /\ ops' = ops + 1
saveProfile == \E id \in Custom, t \in Senders : /\ Asked
  /\ LET old == readPolicy.profiles
     IN commit([readPolicy EXCEPT !.profiles = [i \in DOMAIN old \cup {id} |-> IF i = id THEN [relay |-> TRUE, sender |-> t] ELSE old[i]]])
deleteProfile == \E id \in DOMAIN readPolicy.profiles \ {Discard} : /\ Asked
  /\ LET old == readPolicy.profiles IN commit(stablePolicy([readPolicy EXCEPT !.profiles = [i \in DOMAIN old \ {id} |-> old[i]]]))
(* Mutant: choosing for a site does not make it known.                     *)
assignUnmarked == \E s \in Present, id \in DOMAIN readPolicy.profiles \cup {None} : Asked /\ commitFor("commit", siteId[s], [readPolicy EXCEPT !.assigned[s] = id])
assign == \E s \in Present, id \in DOMAIN readPolicy.profiles \cup {None} :
            Asked /\ commitFor("commit", siteId[s], [readPolicy EXCEPT !.assigned[s] = id, !.known = @ \cup {siteId[s]}])
setDefault == \E id \in DOMAIN readPolicy.profiles \cup {None} :
                Asked /\ commit([readPolicy EXCEPT !.default = id, !.known = IF id = None THEN @ ELSE {siteId[s] : s \in Present}])
saveGrants == \E s \in Present : \E D \in {{}} \cup {{d} : d \in Domains \ {s}} : Asked /\ commit([readPolicy EXCEPT !.grants[s] = D])

(* Deleted sites leave, new ones join the default where that blocks none.  *)
Joins(p, s) == /\ siteId[s] \notin readPolicy.known /\ p.default # None /\ p.assigned[s] = None
               /\ ~newBlock(p, [p EXCEPT !.assigned[s] = p.default], Present)
joined(p) == FoldLeft(LAMBDA q, s : IF s \in Present /\ Joins(q, s) THEN [q EXCEPT !.assigned[s] = q.default] ELSE q, p, Order)
reconciled == [joined([readPolicy EXCEPT !.assigned = [s \in MailSites |-> IF s \in Present THEN @[s] ELSE None],
                                         !.grants = [s \in MailSites |-> IF s \in Present THEN @[s] ELSE {}]])
               EXCEPT !.known = {siteId[s] : s \in Present}]
reconcile == /\ pc = "idle" /\ on /\ UNCHANGED ops
             /\ IF reconciled # policyFile THEN commitFor("pass", 0, reconciled) ELSE broken /\ Start("repair", 0, reconciled)
syncSites == /\ pc = "idle" /\ on /\ UNCHANGED ops /\ reconciled # policyFile /\ commitFor("pass", 0, reconciled)
deactivateSmtp == /\ Asked /\ on' = FALSE /\ pc' = "phpOff" /\ job' = [NoJob EXCEPT !.kind = "withdraw"] /\ undo' = FALSE
                  /\ UNCHANGED <<panel, policyFile, box, wanted, chosen, broken, failures, kills>>
(* Enabling runs a reconcile, which the repair timer retries.              *)
activateSmtp == /\ pc = "idle" /\ ~on /\ on' = TRUE /\ broken' = TRUE
                /\ UNCHANGED <<panel, policyFile, box, pc, job, undo, wanted, chosen, counters>>

-----------------------------------------------------------------------------
(* Applying: Postfix, then the rules, then PHP; withdrawing: the reverse.  *)
Saves == job.kind \in {"commit", "pass"}
target == IF undo THEN job.back ELSE job.to
Keep == UNCHANGED <<panel, on, wanted, chosen, kills, ops>>
Done == /\ pc' = "idle" /\ job' = NoJob /\ undo' = FALSE
(* Mutant: a failed save is only reported.                                 *)
FailsOnly == /\ failures + kills < MaxSmtpFaults /\ failures' = failures + 1 /\ Keep /\ UNCHANGED policyFile
             /\ Done /\ broken' = (broken \/ undo \/ ~Saves)
(* A failed step: a save puts the policy it replaces back, once.           *)
Fails == /\ failures + kills < MaxSmtpFaults /\ failures' = failures + 1 /\ Keep /\ UNCHANGED policyFile
         /\ IF Saves /\ ~undo THEN /\ undo' = TRUE /\ pc' = FirstStep(job.back) /\ UNCHANGED <<job, broken>>
            ELSE Done /\ broken' = TRUE
originalPostfix == IF record = None THEN setting ELSE record
applyPostfix == /\ pc = "postfix"
                /\ record' = originalPostfix /\ maps' = target /\ setting' = "ours"
                /\ pc' = (IF maps = target /\ setting = "ours" THEN "rules" ELSE "reload")
                /\ Keep /\ UNCHANGED <<policyFile, loaded, rules, ini, job, undo, broken, failures>>
PostfixFails == pc = "postfix" /\ Fails /\ UNCHANGED box
reload == /\ pc = "reload" /\ loaded' = maps /\ pc' = "rules"
          /\ Keep /\ UNCHANGED <<policyFile, setting, record, maps, rules, ini, job, undo, broken, failures>>
(* The files and settings are put back as they were.                       *)
ReloadFails == /\ pc = "reload" /\ Fails /\ maps' = loaded /\ setting' = (IF loaded = NoRoutes THEN record ELSE "ours")
               /\ UNCHANGED <<record, loaded, rules, ini>>
syncRuleFiles == /\ pc = "rules" /\ rules' = [s \in DOMAIN target |-> ruleOf(target, s)] /\ pc' = "php"
                 /\ Keep /\ UNCHANGED <<policyFile, setting, record, maps, loaded, ini, job, undo, broken, failures>>
syncPhpIni == /\ pc = "php" /\ ini' = TRUE /\ pc' = "save"
              /\ Keep /\ UNCHANGED <<policyFile, setting, record, maps, loaded, rules, job, undo, broken, failures>>
PhpFails == pc \in {"php", "phpOff"} /\ Fails /\ UNCHANGED box
writePolicy == /\ pc = "save" /\ policyFile' = (IF Saves /\ ~undo THEN stablePolicy(job.next) ELSE policyFile)
               /\ chosen' = (IF job.of # 0 /\ ~undo THEN chosen \cup {job.of} ELSE chosen)
               /\ Done /\ broken' = FALSE
               /\ UNCHANGED <<panel, on, wanted, kills, ops, box, failures>>

withdrawPhp == /\ pc = "phpOff" /\ ini' = FALSE /\ rules' = NoRoutes /\ pc' = "postfixOff"
               /\ Keep /\ UNCHANGED <<policyFile, setting, record, maps, loaded, job, undo, broken, failures>>
withdrawPostfix == /\ pc = "postfixOff" /\ setting' = (IF record = None THEN setting ELSE record)
                   /\ loaded' = (IF record = None THEN loaded ELSE NoRoutes) /\ pc' = "forget"
                   /\ Keep /\ UNCHANGED <<policyFile, record, maps, rules, ini, job, undo, broken, failures>>
WithdrawFails == /\ pc = "postfixOff" /\ record # None /\ setting' = record /\ Fails /\ UNCHANGED <<record, maps, loaded, rules, ini>>
ForgetOriginal == /\ pc = "forget" /\ record' = None /\ maps' = NoRoutes /\ pc' = "save"
                  /\ Keep /\ UNCHANGED <<policyFile, setting, loaded, rules, ini, job, undo, broken, failures>>
Killed == /\ pc # "idle" /\ failures + kills < MaxSmtpFaults /\ kills' = kills + 1 /\ Done /\ broken' = TRUE
          /\ UNCHANGED <<panel, on, policyFile, box, wanted, chosen, ops, failures>>

Next == \/ CreateSite \/ DeleteSite \/ OperatorEdits \/ Recycle
        \/ saveProfile \/ deleteProfile \/ assign \/ setDefault \/ saveGrants \/ reconcile \/ syncSites \/ deactivateSmtp \/ activateSmtp
        \/ applyPostfix \/ PostfixFails \/ reload \/ ReloadFails \/ syncRuleFiles \/ syncPhpIni \/ PhpFails \/ writePolicy
        \/ withdrawPhp \/ withdrawPostfix \/ WithdrawFails \/ ForgetOriginal \/ Killed
Spec == Init /\ [][Next]_smtpVars

-----------------------------------------------------------------------------
TypeOK == /\ siteId \in [MailSites -> 0..MaxSiteIds] /\ on \in BOOLEAN /\ ini \in BOOLEAN /\ undo \in BOOLEAN /\ broken \in BOOLEAN
          /\ setting \in {"operator", "edited", "ours"} /\ record \in {"operator", "edited", None}
          /\ DOMAIN maps \subseteq MailSites /\ DOMAIN loaded \subseteq MailSites /\ DOMAIN rules \subseteq MailSites
          /\ pc \in {"idle", "postfix", "reload", "rules", "php", "save", "phpOff", "postfixOff", "forget"}

(* Whatever address Postfix lets a site's login send as leaves through     *)
(* that site's own profile, or through none: a site can only ever send     *)
(* through its own.                                                        *)
Addresses == {"noreply", "mail", "any"} \X Domains
MaySend(s, a) == \E e \in loaded[s].envelopes : e = a \/ e = <<a[2]>>
Claims(e) == {loaded[t].profile : t \in {u \in DOMAIN loaded : loaded[u].profile # None /\ e \in loaded[u].envelopes}}
Transport(a) == IF Claims(a) # {} THEN Claims(a) ELSE Claims(<<a[2]>>)
OwnProfileOnly == \A s \in DOMAIN loaded, a \in Addresses : MaySend(s, a) => Transport(a) \subseteq {loaded[s].profile}

(* Reading a file of 1.5 neither discards mail that was relayed nor relays *)
(* mail that was discarded.                                                *)
Relays(p, s) == p.assigned[s] # None /\ p.profiles[p.assigned[s]].relay
ReadKeepsRelays == LET now == readPolicy IN \A s \in MailSites : Relays(now, s) = Relays(policyFile, s)

(* Between actions the box runs a policy it saved: a save that failed put  *)
(* the old one back.  Sites CloudPanel has made or removed since are for   *)
(* the next pass.                                                          *)
Settled == pc = "idle" /\ on /\ ~broken
SavedIsRun == Settled =>
  /\ \A s \in DOMAIN maps \cap Present : maps[s].profile \in {readPolicy.assigned[s], None}
  /\ (setting = "ours") = ini /\ ini = (maps # NoRoutes) /\ (kills = 0 => maps = loaded)

(* What the wrapper passes on as a site's sender, Postfix lets it use.     *)
SubmitIsAccepted == (Settled /\ maps = loaded) => \A s \in DOMAIN rules, d \in Domains :
  LET a == smtpSubmit(rules[s], s, d) IN a = <<>> \/ MaySend(s, a)

(* Once nothing is routed the operator's own Postfix settings are back.    *)
OperatorsBack == (pc = "idle" /\ record = None) => setting = wanted

(* No pass undoes a choice made for a site: what puts a site in the        *)
(* default profile takes only sites it has not seen.                       *)
ChoiceKeptStep == (job.kind = "pass" /\ policyFile' # policyFile) =>
  \A t \in MailSites : siteId[t] \in chosen => policyFile'.assigned[t] = readPolicy.assigned[t]
=============================================================================
