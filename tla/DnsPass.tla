------------------------------ MODULE DnsPass ------------------------------
(***************************************************************************)
(* One pass of DNS over Cloudflare and Mailcow (addons/dns/engine.ts): find *)
(* what every connection reaches, resolve the sites' zone, read it, hold    *)
(* new sites, then create the zone, write its settings and rules, set up    *)
(* Mailcow and write the sites' records, and afterwards ask for             *)
(* certificates.  Any request may fail, and the pass may be killed between  *)
(* two steps.  The sites share one registrable name, so each account holds  *)
(* at most one zone for them.  Somebody changes Cloudflare and the policy   *)
(* between two passes, and the shared mailbox's sender list at any time.    *)
(***************************************************************************)
EXTENDS Naturals, FiniteSets

CONSTANTS Sites, Accounts,
          Connections, Reach,       \* [Connections -> SUBSET Accounts]
          MaxAttempts, MaxPasses, MaxFaults, MaxChanges

VARIABLES cf,        \* [Accounts -> the zone there, as Cloudflare has it]
          mailcow,   \* [Sites -> "none", "domain" or "dkim"]
          acl,       \* who the shared mailbox may send as
          policy,    \* [profile, held, choice, createIn], as saved
          pass,      \* the pass: what it read and what failed
          certs,     \* [Sites -> the request for a certificate, as saved; every site has one]
          issued,    \* [Sites -> certificates asked for under that request]
          bounds     \* [passes, faults, changes]

passVars == <<cf, mailcow, acl, policy, pass, certs, issued, bounds>>

Nobody == "none"
ProfileNames == {"full", "flex", Nobody}
Ssl(p) == IF p = "full" THEN "full" ELSE "flexible"
Acme(p) == p = "full"               \* proxied, with the rule its certificate needs
Mails(p) == p = "full"

Statuses == {Nobody, "pending", "active", "moved"}
Zone == [status : Statuses, ssl : {"off", "full", "flexible"}, rule : BOOLEAN,
         addr : [Sites -> {Nobody, "other", "ours"}], extra : [Sites -> {Nobody, "other", "ours"}]]
NoZone == [status |-> Nobody, ssl |-> "off", rule |-> FALSE,
           addr |-> [s \in Sites |-> Nobody], extra |-> [s \in Sites |-> Nobody]]
Foreign == [NoZone EXCEPT !.status = "active", !.ssl = "flexible",
                          !.addr = [s \in Sites |-> "other"], !.extra = [s \in Sites |-> "other"]]
NoPass == [step |-> "idle", scope |-> {}, fresh |-> {}, active |-> {}, unread |-> FALSE, mailErr |-> {},
           failed |-> {}, targets |-> {}, todo |-> {}, aclRead |-> {}, late |-> {}, ready |-> {}, attempt |-> 0]
NoCert == [attempts |-> 0, done |-> FALSE]

TypeOK ==
    /\ cf \in [Accounts -> Zone] /\ mailcow \in [Sites -> {Nobody, "domain", "dkim"}]
    /\ acl \subseteq Sites \cup {"operator"}
    /\ policy \in [profile : [Sites -> ProfileNames], held : SUBSET Sites,
                   choice : Accounts \cup {Nobody}, createIn : Accounts \cup {Nobody}]
    /\ pass.step \in {"idle", "discover", "load", "hold", "create", "zone", "rules", "mail", "acl", "replace", "plan", "records", "end", "issue", "asking"}
    /\ pass.scope \cup pass.fresh \cup pass.mailErr \cup pass.failed \cup pass.targets \cup pass.todo \cup pass.ready \subseteq Sites
    /\ pass.active \subseteq Connections /\ pass.aclRead \cup pass.late \subseteq Sites \cup {"operator"} /\ pass.unread \in BOOLEAN
    /\ certs \in [Sites -> [attempts : 0..MaxAttempts, done : BOOLEAN]]
    /\ issued \in [Sites -> 0..(MaxAttempts + 1)]
    /\ bounds \in [passes : 0..MaxPasses, faults : 0..MaxFaults, changes : 0..MaxChanges]

Init ==
    /\ cf \in [Accounts -> {NoZone, Foreign}] /\ mailcow = [s \in Sites |-> Nobody] /\ acl = {}
    /\ policy = [profile |-> [s \in Sites |-> Nobody], held |-> {}, choice |-> Nobody, createIn |-> CHOOSE a \in Accounts : TRUE]
    /\ pass = NoPass /\ certs = [s \in Sites |-> NoCert] /\ issued = [s \in Sites |-> 0]
    /\ bounds = [passes |-> 0, faults |-> 0, changes |-> 0]

At(step) == pass.step = step
Fault == bounds.faults < MaxFaults /\ bounds' = [bounds EXCEPT !.faults = @ + 1]
Unhurt == UNCHANGED bounds
-----------------------------------------------------------------------------
(* What the pass knows: a connection whose read failed lists nothing, and   *)
(* zones that moved away do not count.                                      *)
Live == {a \in Accounts : cf[a].status \in {"pending", "active"}}
Listed == {a \in Live : \E c \in pass.active : a \in Reach[c]}
Assigned == {s \in Sites : policy.profile[s] # Nobody}

resolveBlind ==         \* a connection that failed counts as one that has no zone
    CASE policy.choice \in Listed -> [kind |-> "zone", at |-> policy.choice]
      [] Listed = {} -> [kind |-> "missing", at |-> policy.createIn]
      [] OTHER -> IF policy.choice = Nobody /\ Cardinality(Listed) = 1
                    THEN [kind |-> "zone", at |-> CHOOSE a \in Listed : TRUE] ELSE [kind |-> "choose", at |-> Nobody]
resolveAny ==           \* whatever zone is left is used when the chosen one is out of reach
    CASE policy.choice \in Listed -> [kind |-> "zone", at |-> policy.choice]
      [] Listed = {} -> [kind |-> IF pass.active # Connections THEN "unreachable" ELSE "missing", at |-> policy.createIn]
      [] OTHER -> IF Cardinality(Listed) = 1
                    THEN [kind |-> "zone", at |-> CHOOSE a \in Listed : TRUE] ELSE [kind |-> "choose", at |-> Nobody]
resolve ==
    CASE policy.choice \in Listed -> [kind |-> "zone", at |-> policy.choice]
      [] Listed = {} -> [kind |-> IF pass.active # Connections THEN "unreachable" ELSE "missing", at |-> policy.createIn]
      [] OTHER -> IF policy.choice = Nobody /\ Cardinality(Listed) = 1
                    THEN [kind |-> "zone", at |-> CHOOSE a \in Listed : TRUE] ELSE [kind |-> "choose", at |-> Nobody]

(* Settings are decided for the whole zone: its profiles either agree, or   *)
(* nothing is written for any of its sites.                                 *)
zoneWants(sites) == {Ssl(policy.profile[s]) : s \in sites \cap Assigned}
Disagree == resolve.kind = "zone" /\ Cardinality(zoneWants(Assigned)) > 1
AccountReached == \E c \in pass.active : resolve.at \in Reach[c]

Problems(s) ==
    \/ s \in pass.failed
    \/ resolve.kind \in {"unreachable", "choose"}
    \/ resolve.kind = "missing" /\ ~AccountReached
    \/ resolve.kind = "zone" /\ (pass.unread \/ Disagree)
    \/ Mails(policy.profile[s]) /\ s \in pass.mailErr
Ready == {s \in pass.scope \cap Assigned : ~Problems(s)}
Z == cf[resolve.at]

(* The DKIM record is wanted once Mailcow holds the key.                    *)
ExtraWanted(s) == Mails(policy.profile[s]) /\ mailcow[s] = "dkim"
Waits(s) == resolve.kind = "zone" /\ ~pass.unread /\
               (Z.ssl # Ssl(policy.profile[s]) \/ (ExtraWanted(s) /\ Z.extra[s] = "other"))
AllowedOps(s) ==
    {k \in {"addr", "extra"} :
       /\ Z[k][s] # "ours" /\ (k = "extra" => ExtraWanted(s))
       /\ s \in policy.held => k = "addr" \/ Z[k][s] = Nobody}
Changes(s) == {k \in {"addr", "extra"} : Z[k][s] # "ours" /\ (k = "extra" => ExtraWanted(s))}
              \cup {k \in {"ssl"} : Z.ssl # Ssl(policy.profile[s])}
              \cup {k \in {"rule"} : Acme(policy.profile[s]) /\ ~Z.rule}
              \cup {k \in {"mail"} : Mails(policy.profile[s]) /\ mailcow[s] # "dkim"}
Waiting(s) == IF s \notin policy.held THEN {} ELSE {"ssl"} \cup {k \in {"extra"} : Z.extra[s] = "other"}

(* A certificate is asked for once everything that does not wait is made    *)
(* and the zone is active.                                                  *)
readinessPending(s) == s \in Assigned /\ ~Problems(s) /\ resolve.kind = "zone" /\ Changes(s) \subseteq Waiting(s)
readiness(s) ==
    /\ s \in Assigned /\ ~Problems(s)
    /\ resolve.kind = "zone" /\ Z.status = "active"
    /\ Changes(s) \subseteq Waiting(s)
-----------------------------------------------------------------------------
(* A check covers every assigned site; sync-sites only those that joined.   *)
Begin(scope, fresh) ==
    /\ At("idle") /\ bounds.passes < MaxPasses /\ bounds' = [bounds EXCEPT !.passes = @ + 1]
    /\ pass' = [NoPass EXCEPT !.step = "discover", !.scope = scope, !.fresh = fresh]
    /\ UNCHANGED <<cf, mailcow, acl, certs, issued>>
check == Assigned # {} /\ Begin(Assigned, {}) /\ UNCHANGED policy
syncSites(s) ==
    /\ policy.profile[s] = Nobody
    /\ policy' = [policy EXCEPT !.profile[s] = "full"]
    /\ Begin({s}, {s})

Verified(c) == [pass EXCEPT !.step = "load", !.active = Connections \ {c}]     \* but for the token of c
discover ==
    /\ At("discover")
    /\ \/ pass' = [pass EXCEPT !.step = "load", !.active = Connections] /\ Unhurt
       \/ (\E c \in Connections : pass' = Verified(c)) /\ Fault
    /\ UNCHANGED <<cf, mailcow, acl, policy, certs, issued>>

loadMailFails == pass' = [pass EXCEPT !.step = "hold", !.aclRead = acl, !.mailErr = Assigned]
loadZone ==
    /\ At("load")
    /\ \/ pass' = [pass EXCEPT !.step = "hold", !.aclRead = acl] /\ Unhurt
       \/ pass' = [pass EXCEPT !.step = "hold", !.aclRead = acl, !.unread = TRUE] /\ resolve.kind = "zone" /\ Fault
       \/ loadMailFails /\ Fault
    /\ UNCHANGED <<cf, mailcow, acl, policy, certs, issued>>

(* holdForReview(), and in a check releaseHeld().                           *)
Held == {s \in policy.held \cup pass.fresh : (pass.fresh # {} /\ s \notin pass.fresh) \/ Problems(s) \/ Waits(s)}
hold ==
    /\ At("hold")
    /\ policy' = [policy EXCEPT !.held = Held]
    /\ pass' = [pass EXCEPT !.step = "create"]
    /\ UNCHANGED <<cf, mailcow, acl, certs, issued, bounds>>

(* Planned again in the new zone: a choice of another zone is then lost.     *)
ReadyThere == IF Cardinality(zoneWants(Assigned)) > 1 \/ policy.choice \notin {Nobody, resolve.at} THEN {} ELSE Ready
Made(a) == [cf EXCEPT ![a] = [NoZone EXCEPT !.status = "pending"]]
createZones ==
    /\ At("create")
    /\ IF resolve.kind # "missing" \/ Ready = {} THEN UNCHANGED cf /\ pass' = [pass EXCEPT !.step = "zone", !.targets = Ready] /\ Unhurt
       ELSE \/ /\ cf[resolve.at].status = Nobody
               /\ cf' = Made(resolve.at)
               /\ \/ pass' = [pass EXCEPT !.step = "zone", !.targets = ReadyThere] /\ Unhurt
                  \/ pass' = [pass EXCEPT !.step = "end", !.unread = TRUE] /\ Fault
            \/ cf[resolve.at].status # Nobody /\ UNCHANGED cf
               /\ pass' = [pass EXCEPT !.step = "end", !.failed = @ \cup Ready] /\ Unhurt
            \/ UNCHANGED cf /\ pass' = [pass EXCEPT !.step = "end", !.failed = @ \cup Ready] /\ Fault
    /\ UNCHANGED <<mailcow, acl, policy, certs, issued>>

(* Zone settings: only what the reviewed sites' profiles ask.               *)
ReviewedAll == Assigned      \* held or not
Reviewed == Assigned \ policy.held
SettingSet(v) == [cf EXCEPT ![resolve.at].ssl = v]
enforceSettings ==
    /\ At("zone") /\ pass.targets # {}
    /\ LET wanted == zoneWants(Reviewed) IN
       \/ /\ pass' = [pass EXCEPT !.step = "rules"] /\ Unhurt
          /\ cf' = IF wanted = {} THEN cf ELSE SettingSet(CHOOSE v \in wanted : TRUE)
       \/ /\ wanted \ {Z.ssl} # {} /\ Fault /\ UNCHANGED cf
          /\ pass' = [pass EXCEPT !.step = "mail", !.failed = @ \cup pass.targets]
    /\ UNCHANGED <<mailcow, acl, policy, certs, issued>>
NothingReady ==
    /\ At("zone") /\ pass.targets = {} /\ pass' = [pass EXCEPT !.step = "end"]
    /\ UNCHANGED <<cf, mailcow, acl, policy, certs, issued, bounds>>

(* Rules before records; one that cannot be written stops the zone's sites. *)
RulesFailQuietly == {}
RulesFail == pass.targets
RuleSet == [cf EXCEPT ![resolve.at].rule = TRUE]
enforceRules ==
    /\ At("rules")
    /\ LET needed == (\E s \in Assigned : Acme(policy.profile[s])) /\ ~Z.rule IN
       \/ /\ cf' = (IF needed THEN RuleSet ELSE cf)
          /\ pass' = [pass EXCEPT !.step = "mail"] /\ Unhurt
       \/ /\ needed /\ Fault /\ UNCHANGED cf
          /\ pass' = [pass EXCEPT !.step = "mail", !.failed = @ \cup RulesFail]
    /\ UNCHANGED <<mailcow, acl, policy, certs, issued>>

(* Mailcow's domain and key, whatever became of the zone's rules.           *)
MailSites == {s \in pass.targets : Mails(policy.profile[s]) /\ s \notin pass.mailErr}
SetUp(sites) == [s \in Sites |-> IF s \in sites THEN "dkim" ELSE mailcow[s]]
enforceMail ==
    /\ At("mail")
    /\ \/ /\ mailcow' = SetUp(MailSites) /\ Unhurt
          /\ pass' = [pass EXCEPT !.step = "acl", !.todo = MailSites]
       \/ \E s \in MailSites :
            /\ mailcow[s] # "dkim" /\ Fault
            /\ \E got \in {mailcow[s], "domain"} : mailcow' = [SetUp(MailSites) EXCEPT ![s] = got]
            /\ pass' = [pass EXCEPT !.step = "acl", !.todo = MailSites \ {s}, !.failed = @ \cup {s}]
    /\ UNCHANGED <<cf, acl, policy, certs, issued>>

(* Mailcow replaces the whole list: the one read a moment ago plus what is  *)
(* new.  What is added between the two calls is lost.                       *)
AclAsLoaded == pass.aclRead
AclNow == acl
senderAcl ==
    /\ At("acl")
    /\ \/ /\ Unhurt
          /\ pass' = IF pass.todo \subseteq AclNow THEN [pass EXCEPT !.step = "plan", !.todo = {}]
                     ELSE [pass EXCEPT !.step = "replace", !.aclRead = AclNow]
       \/ pass.todo # {} /\ Fault /\ pass' = [pass EXCEPT !.step = "plan", !.todo = {}, !.failed = @ \cup pass.todo]
    /\ UNCHANGED <<cf, mailcow, acl, policy, certs, issued>>
setSenderAcl ==
    /\ At("replace")
    /\ LET replaced == pass.aclRead \cup pass.todo
           over == [pass EXCEPT !.step = "plan", !.todo = {}, !.late = {}]
       IN \/ acl' = replaced /\ pass' = over /\ Unhurt
          \/ acl' \in {acl, replaced} /\ Fault /\ pass' = [over EXCEPT !.failed = @ \cup pass.todo]
    /\ UNCHANGED <<cf, mailcow, policy, certs, issued>>

planAgain ==
    /\ At("plan") /\ pass' = [pass EXCEPT !.step = "records", !.todo = Ready]
    /\ UNCHANGED <<cf, mailcow, acl, policy, certs, issued, bounds>>

(* A site's records, in turn; one that fails leaves the rest of its site.   *)
enforceRecord(s) ==
    /\ At("records") /\ s \in pass.todo
    /\ IF AllowedOps(s) = {} THEN UNCHANGED cf /\ pass' = [pass EXCEPT !.todo = @ \ {s}] /\ Unhurt
       ELSE \E k \in AllowedOps(s) :
              \/ cf' = [cf EXCEPT ![resolve.at][k][s] = "ours"] /\ UNCHANGED pass /\ Unhurt
              \/ UNCHANGED cf /\ pass' = [pass EXCEPT !.todo = @ \ {s}, !.failed = @ \cup {s}] /\ Fault
    /\ UNCHANGED <<mailcow, acl, policy, certs, issued>>
recordsDone ==
    /\ At("records") /\ pass.todo = {} /\ pass' = [pass EXCEPT !.step = "end"]
    /\ UNCHANGED <<cf, mailcow, acl, policy, certs, issued, bounds>>

-----------------------------------------------------------------------------
(* The plans as recorded; a check then retries certificates, a site's       *)
(* attempt counted and saved before clpctl runs.                            *)
Recorded ==
    /\ At("end")
    /\ pass' = [pass EXCEPT !.step = IF pass.fresh = {} THEN "issue" ELSE "idle", !.ready = {s \in Sites : readiness(s)},
                            !.todo = {s \in pass.scope : ~certs[s].done}]
    /\ UNCHANGED <<cf, mailcow, acl, policy, certs, issued, bounds>>
CountedLater(s) == certs        \* in memory only, until clpctl has answered
Counted(s) == [certs EXCEPT ![s].attempts = @ + 1]
(* Mutant: one attempt more than a request has.                            *)
SpentAfter(s) == certs[s].attempts > MaxAttempts
Spent(s) == certs[s].attempts >= MaxAttempts
retryCertificate(s) ==
    /\ At("issue") /\ s \in pass.todo
    /\ IF s \notin pass.ready \/ Spent(s)
         THEN /\ pass' = [pass EXCEPT !.todo = @ \ {s}] /\ UNCHANGED issued
              /\ certs' = [certs EXCEPT ![s].done = s \in pass.ready]
         ELSE /\ certs' = Counted(s) /\ issued' = [issued EXCEPT ![s] = @ + 1]
              /\ pass' = [pass EXCEPT !.step = "asking", !.todo = @ \ {s}, !.targets = {s}, !.attempt = certs[s].attempts + 1]
    /\ UNCHANGED <<cf, mailcow, acl, policy, bounds>>
Answered ==
    /\ At("asking") /\ pass' = [pass EXCEPT !.step = "issue", !.targets = {}]
    /\ \E s \in pass.targets, installed \in BOOLEAN :
         certs' = [certs EXCEPT ![s].attempts = pass.attempt, ![s].done = installed \/ pass.attempt >= MaxAttempts]
    /\ UNCHANGED <<cf, mailcow, acl, policy, issued, bounds>>
Finish ==
    /\ At("issue") /\ pass.todo = {} /\ pass' = NoPass
    /\ UNCHANGED <<cf, mailcow, acl, policy, certs, issued, bounds>>

Killed ==
    /\ ~At("idle") /\ Fault /\ pass' = NoPass
    /\ UNCHANGED <<cf, mailcow, acl, policy, certs, issued>>
-----------------------------------------------------------------------------
(* Between passes: a zone appears, becomes active, moves away, is changed;  *)
(* profiles, choices and reviews.                                           *)
Change == At("idle") /\ bounds.changes < MaxChanges /\ bounds' = [bounds EXCEPT !.changes = @ + 1] /\ pass' = NoPass
ChangeZone(a) ==
    /\ Change
    /\ \/ cf[a].status = Nobody /\ cf' = [cf EXCEPT ![a] = Foreign]
       \/ cf[a].status # Nobody /\ \E to \in Statuses \ {cf[a].status, "pending"} :
            cf' = [cf EXCEPT ![a] = IF to = Nobody THEN NoZone ELSE [@ EXCEPT !.status = to]]
       \/ cf[a].rule /\ cf' = [cf EXCEPT ![a].rule = FALSE]
    /\ UNCHANGED <<mailcow, acl, policy, certs, issued>>
ChangePolicy ==
    /\ Change
    /\ \/ \E s \in Sites, p \in ProfileNames \ {Nobody} : policy' = [policy EXCEPT !.profile[s] = p, !.held = @ \ {s}]
       \/ \E a \in Accounts : policy' = [policy EXCEPT !.createIn = a]
       \/ \E a \in Live \cup {Nobody} : policy' = [policy EXCEPT !.choice = a]
    /\ UNCHANGED <<cf, mailcow, acl, certs, issued>>
OperatorAcl ==
    /\ "operator" \notin acl /\ acl' = acl \cup {"operator"}
    /\ bounds.changes < MaxChanges /\ bounds' = [bounds EXCEPT !.changes = @ + 1]
    /\ pass' = IF At("replace") THEN [pass EXCEPT !.late = {"operator"}] ELSE pass
    /\ UNCHANGED <<cf, mailcow, policy, certs, issued>>

Next ==
    \/ check \/ discover \/ loadZone \/ hold \/ createZones \/ enforceSettings \/ NothingReady \/ enforceRules
    \/ enforceMail \/ senderAcl \/ setSenderAcl \/ planAgain \/ recordsDone \/ Recorded \/ Answered \/ Finish \/ Killed \/ ChangePolicy \/ OperatorAcl
    \/ \E s \in Sites : syncSites(s) \/ enforceRecord(s) \/ retryCertificate(s)
    \/ \E a \in Accounts : ChangeZone(a)
Spec == Init /\ [][Next]_passVars

-----------------------------------------------------------------------------
(* A zone is created only where no connection reaches one already: what a   *)
(* connection that could not be read holds is not missing.                  *)
NoSecondZoneStep == \A a \in Accounts : pass.step = "create" /\ cf'[a] # cf[a] =>
    ~\E b \in Live, c \in Connections : b \in Reach[c]

(* While the zone somebody chose is there, no other zone is written.        *)
ChosenOnlyStep == \A a \in Accounts : ~At("idle") /\ cf'[a] # cf[a] => policy.choice \notin Live \ {a}

(* A proxied record never exists without the rule its certificate needs,    *)
(* and a DKIM record never without the key in Mailcow.                      *)
RuleBeforeRecordStep == \A a \in Accounts, s \in Sites :
    /\ cf[a].addr[s] # "ours" /\ cf'[a].addr[s] = "ours" /\ Acme(policy.profile[s]) => cf[a].rule
    /\ cf[a].extra[s] # "ours" /\ cf'[a].extra[s] = "ours" => mailcow[s] = "dkim"

(* A site that waits for its review changes nothing of the zone beyond its  *)
(* own names: no setting only it asks for, no record that was there.        *)
HeldWaitsStep == ~At("idle") => \A a \in Accounts :
    /\ cf'[a].ssl # cf[a].ssl /\ cf[a].status # Nobody => \E s \in Assigned \ policy.held : Ssl(policy.profile[s]) = cf'[a].ssl
    /\ \A s \in policy.held : cf[a].extra[s] = "other" => cf'[a].extra[s] # "ours"

(* Whoever else may send as the shared mailbox still may, but who was added *)
(* between the pass's read of the list and its replacement (pass.late).     *)
OthersSendStep == acl \subseteq acl' \cup pass.late

(* No more certificates are asked for than the attempts a request has,      *)
(* however often a pass dies while it asks ...                              *)
AttemptsBounded == \A s \in Sites : issued[s] <= MaxAttempts
(* ... and only for a site whose zone is active and points here, with the   *)
(* rule its validation needs.                                               *)
AskedWhenServedStep == \A s \in Sites : issued'[s] # issued[s] => \E a \in Accounts :
    cf[a].status = "active" /\ cf[a].addr[s] = "ours" /\ (Acme(policy.profile[s]) => cf[a].rule)
=============================================================================
