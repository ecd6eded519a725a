---------------------------- MODULE CloudflareIps ----------------------------
(***************************************************************************)
(* Cloudflare IP Access (addons/cloudflare-ips/action.ts): which sites take *)
(* traffic from Cloudflare alone.  The switch of a site is a panel row and  *)
(* two lines of its vhost, changed together by one Nginx transaction; the   *)
(* policy says whether new sites are switched on, which ids have been seen  *)
(* and which domains an operator switched off.  The addon's actions run one *)
(* at a time under its lock and may be killed; CloudPanel creates, deletes  *)
(* and switches sites beside them.                                          *)
(***************************************************************************)
EXTENDS Naturals, FiniteSets

CONSTANTS CfDomains, MaxCfIds, MaxCfRuns, MaxCfMoves, MaxCfFaults

VARIABLES cfSite,    \* [CfDomains -> [id, row, vhost]]: the panel's row and the vhost's lines
          cfPolicy,  \* policy.json
          cfRun,     \* the action that holds the lock
          cfCount,   \* [ids, runs, moves, faults] used up
          byHand,    \* ghost: the ids an operator has switched, here or in CloudPanel
          since,     \* ghost: the ids of sites made while new sites are switched on
          refused    \* ghost: the domains an operator last switched off here

cloudflareVars == <<cfSite, cfPolicy, cfRun, cfCount, byHand, since, refused>>

NoSite == [id |-> 0, row |-> FALSE, vhost |-> "open"]
Vhosts == {"open", "only", "edited"}   \* "edited": without one generated access-log line
Ids == 1..MaxCfIds
Policies == [there : BOOLEAN, auto : BOOLEAN, known : SUBSET Ids, excluded : SUBSET CfDomains]
NoPolicy == [there |-> FALSE, auto |-> FALSE, known |-> {}, excluded |-> {}]
Free == [kind |-> "none", on |-> FALSE, todo |-> {}, sites |-> {}, failed |-> {}, before |-> NoPolicy]

TypeOK ==
    /\ cfSite \in [CfDomains -> [id : 0..MaxCfIds, row : BOOLEAN, vhost : Vhosts]]
    /\ cfPolicy \in Policies
    /\ cfRun.kind \in {"none", "set", "reconcile", "record"} /\ cfRun.todo \subseteq CfDomains
    /\ cfRun.sites \subseteq Ids /\ cfRun.failed \subseteq Ids /\ cfRun.before \in Policies
    /\ byHand \subseteq Ids /\ since \subseteq Ids /\ refused \subseteq CfDomains

Init ==
    /\ cfSite = [d \in CfDomains |-> NoSite] /\ cfPolicy = NoPolicy /\ cfRun = Free
    /\ cfCount = [ids |-> 0, runs |-> 0, moves |-> 0, faults |-> 0]
    /\ byHand = {} /\ since = {} /\ refused = {}

Spend(what, max) == cfCount[what] < max /\ cfCount' = [cfCount EXCEPT ![what] = @ + 1]
Fault == Spend("faults", MaxCfFaults)
Here == {d \in CfDomains : cfSite[d].id # 0}
IdsOf(ds) == {cfSite[d].id : d \in ds}

-----------------------------------------------------------------------------
(* setPolicy(): switching new sites on takes every site there is as seen.   *)
setPolicyOnly(on) == [cfPolicy EXCEPT !.there = TRUE, !.auto = on]
policyWith(on) == [cfPolicy EXCEPT !.there = TRUE, !.auto = on, !.known = IF on THEN IdsOf(Here) ELSE @]
setPolicy(on) ==
    /\ cfRun = Free /\ Spend("runs", MaxCfRuns)
    /\ cfPolicy' = policyWith(on)
    /\ since' = IF on THEN {} ELSE since
    /\ UNCHANGED <<cfSite, cfRun, byHand, refused>>

(* setSelected() writes the policy before it touches the sites ...          *)
ChosenUnlisted(ds, on) ==   \* the domains are not kept
    [cfPolicy EXCEPT !.there = TRUE, !.known = @ \cup IdsOf(ds \cap Here)]
Chosen(ds, on) == [cfPolicy EXCEPT !.there = TRUE,
                     !.excluded = IF on THEN @ \ ds ELSE @ \cup ds,
                     !.known = @ \cup IdsOf(ds \cap Here)]
setSelected(ds, on) ==
    /\ cfRun = Free /\ ds # {} /\ Spend("runs", MaxCfRuns)
    /\ cfRun' = [Free EXCEPT !.kind = "set", !.on = on, !.todo = ds, !.before = cfPolicy]
    /\ cfPolicy' = Chosen(ds, on)
    /\ UNCHANGED <<cfSite, byHand, since, refused>>

(* updateSites(): all of them or, when one is missing, was edited by hand   *)
(* or Nginx refuses, none; a kill between files and COMMIT leaves vhosts.   *)
Switchable(ds) == ds \subseteq Here /\ \A d \in ds : cfSite[d].vhost # "edited"
Switched(ds, on) == [d \in CfDomains |-> IF d \in ds THEN [cfSite[d] EXCEPT !.row = on, !.vhost = IF on THEN "only" ELSE "open"]
                                         ELSE cfSite[d]]
Half(ds, on) == [d \in CfDomains |-> IF d \in ds THEN [cfSite[d] EXCEPT !.vhost = IF on THEN "only" ELSE "open"] ELSE cfSite[d]]

SetDone ==
    /\ cfRun.kind = "set" /\ Switchable(cfRun.todo)
    /\ cfSite' = Switched(cfRun.todo, cfRun.on) /\ cfRun' = Free
    /\ byHand' = byHand \cup IdsOf(cfRun.todo)
    /\ refused' = IF cfRun.on THEN refused \ cfRun.todo ELSE refused \cup cfRun.todo
    /\ UNCHANGED <<cfPolicy, cfCount, since>>

(* ... and puts it back as it was when they cannot be changed.              *)
SetFailsKept ==   \* the choice stays in the policy
    /\ cfRun.kind = "set" /\ IF Switchable(cfRun.todo) THEN Fault ELSE UNCHANGED cfCount
    /\ cfRun' = Free
    /\ UNCHANGED <<cfSite, cfPolicy, byHand, since, refused>>
SetFails ==
    /\ cfRun.kind = "set" /\ IF Switchable(cfRun.todo) THEN Fault ELSE UNCHANGED cfCount
    /\ cfPolicy' = cfRun.before /\ cfRun' = Free
    /\ UNCHANGED <<cfSite, byHand, since, refused>>

-----------------------------------------------------------------------------
(* reconcileNewSites(), after CloudPanel created a site and at every repair *)
ToEnable == {d \in Here : cfSite[d].id \notin cfPolicy.known /\ d \notin cfPolicy.excluded /\ ~cfSite[d].row}
Reconcile ==
    /\ cfRun = Free /\ cfPolicy.auto /\ Spend("runs", MaxCfRuns)
    /\ cfRun' = [Free EXCEPT !.kind = "reconcile", !.on = TRUE, !.todo = ToEnable, !.sites = IdsOf(Here)]
    /\ UNCHANGED <<cfSite, cfPolicy, byHand, since, refused>>

(* One site at a time: one that fails is left unseen and tried again.       *)
Enable(d) ==
    /\ cfRun.kind = "reconcile" /\ d \in cfRun.todo /\ Switchable({d})
    /\ cfSite' = Switched({d}, TRUE) /\ cfRun' = [cfRun EXCEPT !.todo = @ \ {d}]
    /\ UNCHANGED <<cfPolicy, cfCount, byHand, since, refused>>
Unseen(d) == cfRun.failed \cup ({cfSite[d].id} \cap cfRun.sites)
EnableFails(d) ==
    /\ cfRun.kind = "reconcile" /\ d \in cfRun.todo
    /\ IF Switchable({d}) THEN Fault ELSE UNCHANGED cfCount
    /\ cfRun' = [cfRun EXCEPT !.todo = @ \ {d}, !.failed = Unseen(d)]
    /\ UNCHANGED <<cfSite, cfPolicy, byHand, since, refused>>

SeenAll == cfRun.sites    \* a site that failed is seen all the same
Seen == cfRun.sites \ cfRun.failed
Record ==
    /\ cfRun.kind = "reconcile" /\ cfRun.todo = {}
    /\ cfPolicy' = [cfPolicy EXCEPT !.known = Seen] /\ cfRun' = Free
    /\ UNCHANGED <<cfSite, cfCount, byHand, since, refused>>

Killed ==
    /\ cfRun # Free /\ Fault /\ cfRun' = Free
    /\ \/ UNCHANGED cfSite
       \/ cfRun.kind = "set" /\ Switchable(cfRun.todo) /\ cfSite' = Half(cfRun.todo, cfRun.on)
       \/ cfRun.kind = "reconcile" /\ \E d \in cfRun.todo : Switchable({d}) /\ cfSite' = Half({d}, TRUE)
    /\ byHand' = IF cfRun.kind = "set" THEN byHand \cup IdsOf(cfRun.todo \cap Here) ELSE byHand
    /\ refused' = CASE cfRun.kind # "set" -> refused
                    [] cfRun.on -> refused \ cfRun.todo
                    [] OTHER -> refused \cup cfRun.todo
    /\ UNCHANGED <<cfPolicy, since>>

(* CloudPanel and the operator, who does not ask the addon's lock.          *)
CreateSite(d) ==
    /\ cfSite[d].id = 0 /\ Spend("ids", MaxCfIds)
    /\ cfSite' = [cfSite EXCEPT ![d] = [NoSite EXCEPT !.id = cfCount.ids + 1]]
    /\ since' = IF cfPolicy.auto THEN since \cup {cfCount.ids + 1} ELSE since
    /\ UNCHANGED <<cfPolicy, cfRun, byHand, refused>>
PanelMoves(d) ==
    /\ cfSite[d].id # 0 /\ Spend("moves", MaxCfMoves)
    /\ \/ cfSite' = [cfSite EXCEPT ![d] = NoSite] /\ UNCHANGED byHand
       \/ /\ cfSite[d].vhost # "edited"      \* CloudPanel's own form
          /\ \E on \in BOOLEAN : cfSite' = Switched({d}, on)
          /\ byHand' = byHand \cup {cfSite[d].id}
       \/ cfSite' = [cfSite EXCEPT ![d].vhost = IF @ = "edited" THEN IF cfSite[d].row THEN "only" ELSE "open" ELSE "edited"] /\ UNCHANGED byHand
    /\ UNCHANGED <<cfPolicy, cfRun, since, refused>>

Next ==
    \/ \E on \in BOOLEAN : setPolicy(on) \/ \E ds \in SUBSET CfDomains : setSelected(ds, on)
    \/ SetDone \/ SetFails \/ Reconcile \/ Record \/ Killed
    \/ \E d \in CfDomains : Enable(d) \/ EnableFails(d) \/ CreateSite(d) \/ PanelMoves(d)
Spec == Init /\ [][Next]_cloudflareVars

-----------------------------------------------------------------------------
(* reconcileNewSites() switches on a site made since the operator asked for *)
(* new sites, and none of a domain that an operator switched off here, also *)
(* when the site itself has been deleted and created again.                 *)
TakesNewOnlyStep == \A d \in CfDomains :
    cfRun.kind = "reconcile" /\ cfRun'.todo # cfRun.todo /\ ~cfSite[d].row /\ cfSite'[d].row
        => d \notin refused /\ cfSite[d].id \in since

(* While new sites are switched on, a site made since then and taken as     *)
(* seen takes Cloudflare's traffic alone, unless an operator has chosen for *)
(* it or for its domain: one that could not be switched is tried again.     *)
SeenIsProtected == \A d \in Here :
    cfPolicy.auto /\ cfSite[d].id \in (cfPolicy.known \cap since) \ byHand /\ d \notin refused
        => cfSite[d].row \/ (cfRun.kind = "set" /\ d \in cfRun.todo)
=============================================================================
