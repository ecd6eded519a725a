---------------------------- MODULE DnsRedirects ----------------------------
(***************************************************************************)
(* DNS (addons/dns): a redirect domain.  Without a Cloudflare connection   *)
(* it is a stand-in, a static CloudPanel site that DNS creates, recorded   *)
(* before it is made; with one it is a redirect rule and a placeholder     *)
(* record, and the stand-in is deleted once Cloudflare answers.            *)
(*                                                                         *)
(* Verbs run one at a time under the addon's lock; the panel's operator    *)
(* adds and deletes sites at the domain meanwhile.  A stand-in is known by *)
(* a site user of its own (a number here, 0 for an operator's site) and,   *)
(* once that is recorded, by the panel's id of the site.  A fresh user is   *)
(* numbered one past the panel's last id, so that no site has it yet.      *)
(***************************************************************************)
EXTENDS Naturals

CONSTANTS Specs,      \* what a redirect may be
          MaxPanelIds, MaxMoves

VARIABLES site, body,            \* the panel's site at the domain, and what its vhost does
          mark,                  \* DNS's record of its stand-in
          redirect, onHold, connected, \* the policy
          rule, placeholder, zoneActive, \* what is in Cloudflare
          doing,                 \* the verb under way
          cutOff,                \* ghost: what a rewrite wrote that ended before it was recorded
          panelIds, moves

vars == <<site, body, mark, redirect, onHold, connected, rule, placeholder, zoneActive, doing, cutOff, panelIds, moves>>
ofCloud == <<rule, placeholder, zoneActive>>
ofPolicy == <<redirect, onHold, connected>>
counts == <<panelIds, moves, cutOff>>

NoSite == [id |-> 0, user |-> 0]
NoMark == [user |-> 0, id |-> 0, spec |-> "none", incomplete |-> FALSE]
ownsStandInSite == mark # NoMark /\ site # NoSite /\ mark.id = site.id /\ mark.user = site.user
Idle == doing = "none"

Init == /\ site = NoSite /\ body = "panel" /\ mark = NoMark
        /\ redirect = "none" /\ onHold = FALSE /\ connected = FALSE
        /\ rule = "none" /\ placeholder = FALSE /\ zoneActive \in BOOLEAN
        /\ doing = "none" /\ cutOff = "none" /\ panelIds = 0 /\ moves = 0

-----------------------------------------------------------------------------
(* The operator, in CloudPanel; and the zone becoming active.              *)
OperatorAdds == /\ site = NoSite /\ panelIds < MaxPanelIds
                /\ site' = [id |-> panelIds + 1, user |-> 0] /\ body' = "panel" /\ panelIds' = panelIds + 1
                /\ UNCHANGED <<mark, ofPolicy, ofCloud, doing, cutOff, moves>>
OperatorDeletes == /\ site # NoSite /\ site' = NoSite /\ body' = "panel"
                   /\ UNCHANGED <<mark, ofPolicy, ofCloud, doing, counts>>
ZoneActivates == /\ ~zoneActive /\ zoneActive' = TRUE
                 /\ UNCHANGED <<site, body, mark, ofPolicy, rule, placeholder, doing, counts>>

-----------------------------------------------------------------------------
(* Every verb first takes on a site whose creation was cut short before    *)
(* its id was recorded.                                                    *)
Found == IF mark # NoMark /\ mark.id = 0 /\ site # NoSite /\ site.user = mark.user THEN [mark EXCEPT !.id = site.id] ELSE mark
OwnsFound == Found # NoMark /\ site # NoSite /\ Found.id = site.id /\ Found.user = site.user

Moved == Idle /\ moves < MaxMoves /\ moves' = moves + 1 /\ mark' = Found
saveRedirect == /\ Moved
                /\ \E s \in Specs \ {redirect} : redirect' = s /\ (redirect = "none" => site = NoSite \/ OwnsFound)
                /\ onHold' = FALSE
                /\ UNCHANGED <<site, body, connected, ofCloud, doing, cutOff, panelIds>>
(* A redirect moves to Cloudflare, or from it, after a review.             *)
saveConnection == /\ Moved /\ ~connected /\ connected' = TRUE
                  /\ onHold' = (onHold \/ (redirect # "none" /\ OwnsFound))
                  /\ UNCHANGED <<site, body, redirect, ofCloud, doing, cutOff, panelIds>>
removeConnection == /\ Moved /\ connected /\ connected' = FALSE /\ onHold' = (redirect # "none")
                    /\ UNCHANGED <<site, body, redirect, ofCloud, doing, cutOff, panelIds>>
confirmReview == /\ Idle /\ onHold /\ onHold' = FALSE /\ mark' = Found
                 /\ UNCHANGED <<site, body, redirect, connected, ofCloud, doing, counts>>
(* The rule first, then the stand-in, then the policy.                     *)
deleteRedirect == /\ Moved /\ redirect # "none"
                  /\ doing' = IF connected /\ rule # "none" THEN "unrule" ELSE "unstand"
                  /\ UNCHANGED <<site, body, ofPolicy, ofCloud, cutOff, panelIds>>
deleteRule == /\ doing = "unrule" /\ \/ rule' = "none" /\ doing' = "unstand"
                                     \/ UNCHANGED rule /\ doing' = "none"
             
              /\ UNCHANGED <<site, body, mark, ofPolicy, placeholder, zoneActive, counts>>
(* Deleting a stand-in: only the site with its user and its id.            *)
Remove == IF ownsStandInSite THEN site' = NoSite /\ body' = "panel" /\ mark' = NoMark
          ELSE mark' = NoMark /\ UNCHANGED <<site, body>>
dropRedirect == /\ doing = "unstand" /\ doing' = "none"
                /\ \/ /\ IF ownsStandInSite THEN Remove ELSE UNCHANGED <<site, body, mark>>
                      /\ redirect' = "none" /\ onHold' = FALSE
                   \/ ownsStandInSite /\ UNCHANGED <<site, body, mark, redirect, onHold>>
                /\ UNCHANGED <<connected, ofCloud, counts>>

-----------------------------------------------------------------------------
(* A check, for a redirect that is not held.                               *)
check == /\ Idle /\ redirect # "none" /\ ~onHold /\ mark' = Found
         /\ doing' = CASE connected -> "rule"
                       [] ~connected /\ ~OwnsFound -> "create"
                       [] ~connected /\ OwnsFound /\ (Found.incomplete \/ Found.spec # redirect) -> "rewrite"
                       [] OTHER -> "none"
         /\ UNCHANGED <<site, body, ofPolicy, ofCloud, counts>>

(* Creating: the mark, the site, its id, its vhost, done.                  *)
markFirst == /\ doing = "create" /\ site = NoSite /\ panelIds < MaxPanelIds
             /\ mark' = [user |-> panelIds + 1, id |-> 0, spec |-> redirect, incomplete |-> TRUE] /\ doing' = "add"
             /\ UNCHANGED <<site, body, ofPolicy, ofCloud, counts>>
siteTaken == /\ doing = "create" /\ site # NoSite /\ doing' = "none"
             /\ UNCHANGED <<site, body, mark, ofPolicy, ofCloud, counts>>
addSite == /\ doing = "add"
           /\ IF site = NoSite /\ panelIds < MaxPanelIds
              THEN /\ site' = [id |-> panelIds + 1, user |-> mark.user] /\ panelIds' = panelIds + 1 /\ body' = "panel"
                   /\ doing' \in {"list", "clean"}
              ELSE doing' = "clean" /\ UNCHANGED <<site, body, panelIds>>
           /\ UNCHANGED <<mark, ofPolicy, ofCloud, cutOff, moves>>
listSite == /\ doing = "list"
            /\ IF site # NoSite /\ site.user = mark.user THEN mark' = [mark EXCEPT !.id = site.id] /\ doing' = "vhost"
               ELSE doing' = "clean" /\ UNCHANGED mark
            /\ UNCHANGED <<site, body, ofPolicy, ofCloud, counts>>
(* The vhost of the domain, whoever's site it is by now; none, no vhost.   *)
Rewritten == site # NoSite /\ body' = mark.spec
writeVhost == /\ doing = "vhost" /\ \/ Rewritten /\ doing' = "done"
                                    \/ doing' = "clean" /\ UNCHANGED body
              /\ UNCHANGED <<site, mark, ofPolicy, ofCloud, counts>>
markDone == /\ doing = "done" /\ mark' = [mark EXCEPT !.incomplete = FALSE] /\ doing' = "none"
           
            /\ UNCHANGED <<site, body, ofPolicy, ofCloud, counts>>
(* Changed form: the site at the domain is deleted, whoever made it.       *)
cleanUpDomain == /\ doing = "clean" /\ doing' = "none" /\ mark' = NoMark /\ site' = NoSite /\ body' = "panel"
                 /\ UNCHANGED <<ofPolicy, ofCloud, counts>>
(* Changed form: the mark goes whether or not the site could be deleted.   *)
cleanUpUnmarked == /\ doing = "clean" /\ doing' = "none" /\ mark' = NoMark
                   /\ \/ site # NoSite /\ site.user = mark.user /\ site' = NoSite /\ body' = "panel"
                      \/ UNCHANGED <<site, body>>
                   /\ UNCHANGED <<ofPolicy, ofCloud, counts>>
(* A site with the stand-in's user is deleted again; if that fails the     *)
(* mark stays, incomplete, for a later check to finish.                    *)
cleanUp == /\ doing = "clean" /\ doing' = "none"
           /\ IF site # NoSite /\ site.user = mark.user
              THEN \/ site' = NoSite /\ body' = "panel" /\ mark' = NoMark
                   \/ UNCHANGED <<site, body, mark>>
              ELSE mark' = NoMark /\ UNCHANGED <<site, body>>
           /\ UNCHANGED <<ofPolicy, ofCloud, counts>>
(* Writing a stand-in's vhost again.                                       *)
rewriteVhost == /\ doing = "rewrite"
                /\ IF ownsStandInSite THEN body' = redirect /\ doing' = "rewritten" ELSE doing' = "none" /\ UNCHANGED body
                /\ UNCHANGED <<site, mark, ofPolicy, ofCloud, counts>>
markRewritten == /\ doing = "rewritten" /\ doing' = "none"
                 /\ mark' = [mark EXCEPT !.spec = redirect, !.incomplete = FALSE] /\ cutOff' = "none"
                 /\ UNCHANGED <<site, body, ofPolicy, ofCloud, panelIds, moves>>

-----------------------------------------------------------------------------
(* In Cloudflare: the rule before the placeholder, and both before the     *)
(* stand-in goes; a call that fails ends the run.                          *)
enforceRedirectRule == /\ doing = "rule" /\ \/ rule' = redirect /\ doing' = "records"
                                            \/ doing' = "none" /\ UNCHANGED rule
                       /\ UNCHANGED <<site, body, mark, ofPolicy, placeholder, zoneActive, counts>>
applyPlaceholder == /\ doing = "records" /\ \/ placeholder' = TRUE /\ doing' = "retire"
                                            \/ doing' = "none" /\ UNCHANGED placeholder
                    /\ UNCHANGED <<site, body, mark, ofPolicy, rule, zoneActive, counts>>
retireStandIn == /\ doing = "retire" /\ doing' = "none"
                 /\ IF zoneActive /\ ownsStandInSite THEN Remove ELSE UNCHANGED <<site, body, mark>>
                 /\ UNCHANGED <<ofPolicy, ofCloud, counts>>
(* Between any two steps; a rewritten vhost may then be unrecorded, as when*)
(* the record cannot be written.                                           *)
Killed == /\ doing # "none" /\ doing' = "none" /\ cutOff' = IF doing = "rewritten" THEN body ELSE cutOff
          /\ UNCHANGED <<site, body, mark, ofPolicy, ofCloud, panelIds, moves>>

Next == \/ OperatorAdds \/ OperatorDeletes \/ ZoneActivates
        \/ saveRedirect \/ saveConnection \/ removeConnection \/ confirmReview
        \/ deleteRedirect \/ deleteRule \/ dropRedirect \/ check
        \/ markFirst \/ siteTaken \/ addSite \/ listSite \/ writeVhost \/ markDone \/ cleanUp
        \/ rewriteVhost \/ markRewritten
        \/ enforceRedirectRule \/ applyPlaceholder \/ retireStandIn \/ Killed
Spec == Init /\ [][Next]_vars

-----------------------------------------------------------------------------
TypeOK == /\ site \in [id : 0..MaxPanelIds, user : 0..MaxPanelIds] /\ body \in Specs \cup {"panel"}
          /\ mark \in [user : 0..MaxPanelIds, id : 0..MaxPanelIds, spec : Specs \cup {"none"}, incomplete : BOOLEAN]
          /\ redirect \in Specs \cup {"none"} /\ {rule, cutOff} \subseteq Specs \cup {"none", "panel"}
          /\ {onHold, connected, placeholder, zoneActive} \subseteq BOOLEAN

(* DNS deletes no site but a stand-in it made, and a stand-in whose        *)
(* redirect is still wanted only once Cloudflare answers for it.           *)
(* (create's cleanup, retireStandIn)                                       *)
RemovesOwnStandInsStep ==
  doing # "none" /\ site # NoSite /\ site' = NoSite /\ doing' # doing
    => site.user # 0 /\ (doing = "retire" => rule = redirect /\ placeholder /\ zoneActive)

(* A stand-in that DNS left behind is known to it, and one that is not     *)
(* marked incomplete serves the redirect it is recorded with: a creation   *)
(* cut short at any step is found and finished.  The exception is a vhost  *)
(* that a rewrite wrote before it died: a later check writes it again, but *)
(* not if the redirect was changed back meanwhile.  (clpctlStandIns)       *)
StandInIsKnown == Idle => /\ site.user # 0 => mark.user = site.user
                          /\ ownsStandInSite /\ ~mark.incomplete => body \in {mark.spec, cutOff}
=============================================================================
