----------------------------- MODULE DnsReview -----------------------------
(***************************************************************************)
(* DNS (addons/dns): which records in Cloudflare it writes, and when.      *)
(* A change that alters what it writes is shown as a plan first, and only  *)
(* a confirmation of that same plan saves and applies it; sites created    *)
(* since join the default profile, with everything but their own address   *)
(* held for a review; the records of a deleted site are tracked so that    *)
(* they can be removed.                                                    *)
(*                                                                         *)
(* Verbs run one at a time under the addon's lock, but the zone and the    *)
(* panel change meanwhile: a verb reads both, then writes one record at a  *)
(* time.  A site has an address ("web") and one other name ("mail");       *)
(* profile "p" has a row for each, profile "q" for the address only.       *)
(***************************************************************************)
EXTENDS Naturals, FiniteSets

CONSTANTS Sites, MaxId, MaxEdits,
          Kills      \* where a verb may be killed: "adopted", "writing"

VARIABLES zone,     \* the published value at each name, 0 for none
          panel,    \* the panel's id of each site, 0 for none
          policy, managed, pending,   \* the addon's files
          run,      \* the verb that holds the lock
          cleared,  \* sites whose plan was confirmed, or was found to touch nothing foreign
          edits, ids

vars == <<zone, panel, policy, managed, pending, run, cleared, edits, ids>>

Names == Sites \X {"web", "mail"}
Profiles == {"p", "q", "none"}
Rows(p, d) == CASE p = "p" -> {<<d, "web">>, <<d, "mail">>} [] p = "q" -> {<<d, "web">>} [] p = "none" -> {}
Value(p) == IF p = "p" THEN 1 ELSE 2
NoPending == [base |-> {}]
Idle == [verb |-> "none", sites |-> {}, todo |-> {}, seen |-> <<>>, shown |-> {}]
Adopted == run.verb \in {"check-adopted", "sync-adopted"}
Unlocked == run.verb = "none"

Current == {d \in Sites : panel[d] # 0}
Enforced(pol, d) == pol.auto /\ pol.assign[d] # "none"

(* The plan of a site from what was read: changes [n, was, to].            *)
Plan(pol, d, z) == {[n |-> n, was |-> z[n], to |-> Value(pol.assign[d])] :
                      n \in {m \in Rows(pol.assign[d], d) : z[m] # Value(pol.assign[d])}}
pointsOwnName(c) == c.was = 0 \/ c.n[2] = "web"
Waits(pol, d, z) == \E c \in Plan(pol, d, z) : ~pointsOwnName(c)
Planned(pol) == {d \in Current : pol.assign[d] # "none"}

(* The sites whose records would change if `after` replaced `before`.      *)
affected(before, after) ==
  {d \in Planned(after) : after.auto /\ \/ ~before.auto
                                        \/ d \in before.held \ after.held
                                        \/ before.assign[d] # after.assign[d]}
Plans(pol, ds, z) == UNION {Plan(pol, d, z) : d \in ds}

(* Changed form: tracked records stay tracked.                             *)
ForgottenNever(next, m) == m
(* What was written for a current site that is no longer enforced is the   *)
(* site's own again.                                                       *)
Forgotten(next, m) == [d \in Sites |-> IF d \in Current /\ ~Enforced(next, d) THEN {} ELSE m[d]]
savePolicy(next) == policy' = next /\ managed' = Forgotten(next, managed)

Init == /\ zone \in [Names -> 0..2] /\ \A d \in Sites : zone[<<d, "web">>] = 0
        /\ panel = [d \in Sites |-> 0] /\ ids = 0 /\ edits = 0 /\ cleared = {}
        /\ policy \in [auto : {FALSE}, assign : {[d \in Sites |-> "none"]}, held : {{}}, known : {{}}, deflt : {"p", "none"}]
        /\ managed = [d \in Sites |-> {}] /\ pending = NoPending /\ run = Idle

-----------------------------------------------------------------------------
(* Meanwhile: someone edits the zone, or adds or deletes a site.           *)
Edit == /\ edits < MaxEdits /\ edits' = edits + 1
        /\ \E n \in Names, v \in 0..2 : zone' = [zone EXCEPT ![n] = v]
        /\ UNCHANGED <<panel, policy, managed, pending, run, cleared, ids>>
PanelChanges == /\ \E d \in Sites : \/ panel[d] = 0 /\ ids < MaxId /\ ids' = ids + 1
                                       /\ panel' = [panel EXCEPT ![d] = ids + 1]
                                    \/ panel[d] # 0 /\ panel' = [panel EXCEPT ![d] = 0] /\ UNCHANGED ids
                /\ UNCHANGED <<zone, policy, managed, pending, run, cleared, edits>>

-----------------------------------------------------------------------------
(* The settings a page sends.                                              *)
Settings ==
  {[policy EXCEPT !.auto = ~policy.auto]}
  \cup {[policy EXCEPT !.assign[d] = p, !.held = @ \ {d}, !.known = @ \cup {panel[d]}] : d \in Current, p \in Profiles}
  \cup {[policy EXCEPT !.deflt = p, !.known = {panel[d] : d \in Current}] : p \in {"p", "none"}}
review(base, next, ds) ==
  pending' = [base |-> {base}, next |-> next, domains |-> ds, removal |-> {},
              sites |-> ds \cap Current, plan |-> Plans(next, ds \cap Current, zone)]
ByHand(next) == {d \in Sites : next.assign[d] # policy.assign[d] \/ d \in policy.held \ next.held}
change == /\ Unlocked
          /\ \E next \in Settings :
               IF affected(policy, next) = {} THEN savePolicy(next) /\ pending' = NoPending
                                                /\ cleared' = cleared \cup ByHand(next)
               ELSE review(policy, next, affected(policy, next)) /\ UNCHANGED <<policy, managed, cleared>>
          /\ UNCHANGED <<zone, panel, run, edits, ids>>
(* A review expires after a quarter of an hour.                            *)
Expire == /\ pending # NoPending /\ pending' = NoPending
          /\ UNCHANGED <<zone, panel, policy, managed, run, cleared, edits, ids>>

(* The ops on the records of ds, with only their own names while held.     *)
Ops(pol, ds, z) == {c \in Plans(pol, ds, z) : c.n[1] \in pol.held => pointsOwnName(c)}
Start(verb, pol, ds, shown) ==
  run' = [verb |-> verb, sites |-> ds, shown |-> shown, seen |-> zone,
          todo |-> IF pol.auto THEN Ops(pol, ds, zone) ELSE {}]
Apply == /\ savePolicy(pending.next) /\ pending' = NoPending
         /\ Start("confirm", pending.next, pending.sites, pending.plan)
         /\ cleared' = cleared \cup pending.domains

Confirmable(removal) == Unlocked /\ pending # NoPending /\ (pending.removal # {}) = removal /\ pending.base = {policy}
AsShown == LET now == pending.domains \cap Current
           IN now = pending.sites /\ Plans(pending.next, now, zone) = pending.plan
(* Changed form: the plan is not compared with the one that was shown.     *)
confirmUnseen == Confirmable(FALSE) /\ Apply /\ UNCHANGED <<zone, panel, edits, ids>>
(* The same settings and the same plan as were shown; another plan is      *)
(* shown in its turn.                                                      *)
confirm == /\ Confirmable(FALSE)
           /\ IF AsShown THEN Apply
              ELSE review(policy, pending.next, pending.domains) /\ UNCHANGED <<policy, managed, run, cleared>>
           /\ UNCHANGED <<zone, panel, edits, ids>>

-----------------------------------------------------------------------------
(* The periodic check and sync-sites: new sites join the default profile,  *)
(* and an empty list of sites is a database being restored: `others` says  *)
(* that the panel has further sites, in no profile.                        *)
adoptNewSites(pol, others) ==
  IF Current = {} /\ ~others THEN pol
  ELSE LET new == {d \in Current : panel[d] \notin pol.known}
           assign == [d \in Sites |-> IF d \notin Current THEN "none"
                                      ELSE IF d \in new /\ pol.assign[d] = "none" THEN pol.deflt ELSE pol.assign[d]]
       IN [pol EXCEPT !.assign = assign, !.known = {panel[d] : d \in Current},
                      !.held = {d \in @ : assign[d] # "none"}]
joined(pol) == {d \in Current : panel[d] \notin pol.known /\ pol.assign[d] = "none" /\ pol.deflt # "none"}

(* The policy is saved before the zone is read.                            *)
Begin(verb) == /\ \E others \in BOOLEAN : savePolicy(adoptNewSites(policy, others))
               /\ run' = [Idle EXCEPT !.verb = verb, !.sites = joined(policy), !.shown = Current]
               /\ cleared' = {d \in cleared : policy'.assign[d] # "none"}
               /\ UNCHANGED <<zone, panel, pending, edits, ids>>
check == Unlocked /\ Begin("check-adopted")
syncSites == Unlocked /\ adoptNewSites(policy, TRUE).known # policy.known /\ Begin("sync-adopted")

(* Changed form: a site that joins is enforced at once.                    *)
HeldNone(pol, new, readable) == pol.held
(* A joined site is held if its plan does more than point its own name, or *)
(* cannot be told; a check releases the held sites whose plan is clean.    *)
(* Then what is planned, or what joined, is written.                       *)
Held(pol, new, readable) ==
  LET held == pol.held \cup {d \in new : ~readable \/ Waits(pol, d, zone)}
  IN IF run.verb = "check-adopted" /\ readable THEN {d \in held : d \in run.shown => Waits(pol, d, zone)} ELSE held
HoldAndEnforce ==
  /\ Adopted
  /\ \E readable \in BOOLEAN :
       LET next == [policy EXCEPT !.held = Held(policy, run.sites, readable)]
           planned == {d \in run.shown : next.assign[d] # "none"}
           ds == IF ~readable THEN {} ELSE IF run.verb = "check-adopted" THEN planned ELSE run.sites
       IN /\ policy' = next /\ Start("check", next, ds, {})
          /\ cleared' = cleared \cup {d \in ds \ next.held : d \in run.sites \cup policy.held}
  /\ UNCHANGED <<zone, panel, managed, pending, edits, ids>>

(* A new site's DNS on request, once sync-sites has nothing more to adopt. *)
provision == /\ Unlocked /\ policy.auto /\ adoptNewSites(policy, TRUE).known = policy.known
             /\ \E d \in Planned(policy) : Start("check", policy, {d}, {})
             /\ UNCHANGED <<zone, panel, policy, managed, pending, cleared, edits, ids>>

-----------------------------------------------------------------------------
(* The records of a site that is gone: those unchanged since, as shown.    *)
Removable(d) == {[n |-> r.n, was |-> r.to, to |-> 0] : r \in {m \in managed[d] : zone[m.n] = m.to}}
reviewRemoval ==
  /\ Unlocked
  /\ \E d \in Sites \ Current : /\ managed[d] # {}
                                /\ pending' = [base |-> {policy}, next |-> policy, domains |-> {}, removal |-> {d},
                                               sites |-> {}, plan |-> Removable(d)]
  /\ UNCHANGED <<zone, panel, policy, managed, run, cleared, edits, ids>>
confirmRemoval ==
  /\ Confirmable(TRUE)
  /\ \E d \in pending.removal \ Current :
        /\ managed[d] # {}
        /\ IF Removable(d) # pending.plan
           THEN pending' = [pending EXCEPT !.plan = Removable(d)] /\ UNCHANGED run
           ELSE /\ pending' = NoPending
                /\ run' = [verb |-> "removal", sites |-> {d}, shown |-> pending.plan, seen |-> zone, todo |-> pending.plan]
  /\ UNCHANGED <<zone, panel, policy, managed, cleared, edits, ids>>
forgetRecords == /\ Unlocked
                 /\ \E d \in Sites \ Current : managed[d] # {} /\ managed' = [managed EXCEPT ![d] = {}]
                 /\ UNCHANGED <<zone, panel, policy, pending, run, cleared, edits, ids>>

-----------------------------------------------------------------------------
(* One record at a time; a write that fails leaves the rest of its site,   *)
(* and of a removal, undone.                                               *)
(* A record deleted or made meanwhile has another id: the write is refused. *)
WriteRecord == \E c \in run.todo :
                 /\ (c.was = 0) = (zone[c.n] = 0)
                 /\ zone' = [zone EXCEPT ![c.n] = c.to]
                 /\ run' = [run EXCEPT !.todo = @ \ {c}, !.seen[c.n] = c.to]
                 /\ UNCHANGED <<panel, policy, managed, pending, cleared, edits, ids>>
WriteFails == \E c \in run.todo :
                /\ run' = IF run.verb = "removal" THEN Idle
                          ELSE [run EXCEPT !.todo = {o \in @ : o.n[1] # c.n[1]}]
                /\ UNCHANGED <<zone, panel, policy, managed, pending, cleared, edits, ids>>
(* What a site has as wanted, by what the run read and wrote, is tracked.  *)
AsWanted(d) == {[n |-> n, to |-> run.seen[n]] :
                  n \in {m \in Rows(policy.assign[d], d) : run.seen[m] = Value(policy.assign[d])}}
Finish == /\ ~Unlocked /\ ~Adopted /\ run.todo = {} /\ run' = Idle
          /\ managed' = [d \in Sites |-> IF d \notin run.sites THEN managed[d]
                                         ELSE IF run.verb = "removal" THEN {}
                                         ELSE IF policy.auto /\ AsWanted(d) # {} THEN AsWanted(d) ELSE managed[d]]
          /\ UNCHANGED <<zone, panel, policy, pending, cleared, edits, ids>>
Killed == /\ ~Unlocked /\ (IF Adopted THEN "adopted" ELSE "writing") \in Kills /\ run' = Idle
          /\ UNCHANGED <<zone, panel, policy, managed, pending, cleared, edits, ids>>

Next == \/ Edit \/ PanelChanges \/ change \/ Expire \/ confirm \/ check \/ syncSites \/ HoldAndEnforce \/ provision
        \/ reviewRemoval \/ confirmRemoval \/ forgetRecords
        \/ WriteRecord \/ WriteFails \/ Finish \/ Killed
Spec == Init /\ [][Next]_vars

-----------------------------------------------------------------------------
TypeOK == /\ zone \in [Names -> 0..2] /\ panel \in [Sites -> 0..MaxId]
          /\ policy.held \cup cleared \subseteq Sites /\ policy.known \subseteq 0..MaxId
          /\ run.verb \in {"none", "confirm", "check-adopted", "sync-adopted", "check", "removal"}

(* DNS never changes or deletes a record that was there, other than the    *)
(* address of a site it points here, unless the change was in a plan the   *)
(* operator confirmed, or keeps up a site whose plan was confirmed or had  *)
(* nothing of the kind in it when the site joined.  (confirm, hold)        *)
NoSurpriseStep ==
  \A c \in run.todo : c \notin run'.todo /\ zone' # zone /\ ~pointsOwnName(c)
    => IF run.verb \in {"confirm", "removal"} THEN c \in run.shown ELSE c.n[1] \in cleared

(* No site the panel has and DNS knows of, and that its policy no longer   *)
(* enforces, has records tracked: taken out of a profile they are its own, *)
(* and are never offered for removal when it is deleted.  (savePolicy)     *)
TrackedAreEnforced == \A d \in Current : Unlocked /\ panel[d] \in policy.known /\ managed[d] # {} => Enforced(policy, d)
=============================================================================
