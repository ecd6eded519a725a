---------------------------- MODULE WpAutomation ----------------------------
(***************************************************************************)
(* WordPress Tools (addons/wp-tools/varnish.ts, new-sites.ts, action.ts):  *)
(* putting the CLP Varnish Cache plugin into WordPress sites, by the       *)
(* 15-minute pass, by a page's check, and by the check queued for a site   *)
(* CloudPanel has just made.                                               *)
(*                                                                         *)
(* One domain beside others, so that no list of sites is empty.  A pass    *)
(* holds the policy's lock and its copy of the state file; operators of    *)
(* the panel and of WordPress go on.  A command that fails put nothing     *)
(* there, as the code takes it to.                                         *)
(***************************************************************************)
EXTENDS Naturals

CONSTANTS MaxIds, MaxHands, MaxPassesRun

VARIABLES wsite, ids,   \* the domain's site; ids used
          varnish,      \* varnish.json: the switch, the site's record
          news,         \* new-sites.json: known, pending, the readiness tried
          wjob,         \* the policy's job for it
          wpass,        \* the pass under way
          hands, passesRun

autoVars == <<wsite, ids, varnish, news, wjob, wpass, hands, passesRun>>

(* A bound on the sites.                                                   *)
ConstantsOK == MaxIds \in Nat

Kinds == {"timer", "check", "install"}
Plugins == {"missing", "inactive", "active"}
SiteRecords == [id : 0..MaxIds, wp : BOOLEAN, plugin : Plugins, had : BOOLEAN, gone : BOOLEAN]
PolicyRecords == [status : Plugins \cup {"none", "error"}, seen : BOOLEAN]
Policies == [enabled : BOOLEAN, rec : PolicyRecords]
Passes == [at : {"idle", "look", "act", "recheck"}, kind : Kinds, job : BOOLEAN, state : Policies, was : BOOLEAN]
NoSite == [id |-> 0, wp |-> FALSE, plugin |-> "missing", had |-> FALSE, gone |-> FALSE]
NoRec == [status |-> "none", seen |-> FALSE]
NoNews == [known |-> FALSE, pending |-> FALSE, wp |-> FALSE, tried |-> FALSE]
NotPassing == [at |-> "idle", kind |-> "timer", job |-> FALSE, state |-> [enabled |-> FALSE, rec |-> NoRec], was |-> FALSE]
Unlocked == wpass.at = "idle"
Here == wsite.id # 0

Init == /\ wsite = NoSite /\ ids = 0 /\ varnish \in [enabled : BOOLEAN, rec : {NoRec}]
        /\ news = NoNews /\ wjob = "none" /\ wpass = NotPassing /\ hands = 0 /\ passesRun = 0

-----------------------------------------------------------------------------
(* CloudPanel and the site's administrator.                                *)
Panel == UNCHANGED <<varnish, news, wjob, wpass, passesRun>>
SiteComes == /\ ~Here /\ ids < MaxIds /\ ids' = ids + 1 /\ wsite' = [NoSite EXCEPT !.id = ids + 1] /\ UNCHANGED hands /\ Panel
WpComes == Here /\ ~wsite.wp /\ wsite' = [wsite EXCEPT !.wp = TRUE] /\ UNCHANGED <<ids, hands>> /\ Panel
SiteGoes == Here /\ wsite' = NoSite /\ UNCHANGED <<ids, hands>> /\ Panel
(* The ghosts: the plugin was seen or put there; it was taken out since.   *)
ByHand == /\ wsite.wp /\ hands < MaxHands /\ hands' = hands + 1 /\ UNCHANGED ids /\ Panel
          /\ \E p \in Plugins \ {wsite.plugin} :
               wsite' = [wsite EXCEPT !.plugin = p, !.gone = p = "missing" /\ wsite.had]
-----------------------------------------------------------------------------
(* syncVarnish.  It starts by forgetting a site the panel no longer has;   *)
(* automation leaves alone what it has seen, one install may be asked for. *)
Pruned(v) == IF Here THEN v ELSE [v EXCEPT !.rec = NoRec]
(* `varnish-settings` waits for the policy's lock, as a pass does.         *)
configureBeside == /\ hands < MaxHands /\ hands' = hands + 1
                   /\ varnish' = [Pruned(varnish) EXCEPT !.enabled = ~@]
                   /\ UNCHANGED <<wsite, ids, news, wjob, wpass, passesRun>>
configureVarnish == Unlocked /\ configureBeside
Due(kind, v) == /\ wsite.wp /\ kind = "timer" => v.enabled /\ ~v.rec.seen
Start(kind, job) ==
  /\ Unlocked /\ passesRun < MaxPassesRun /\ passesRun' = passesRun + 1
  /\ varnish' = Pruned(varnish)
  /\ wpass' = IF Due(kind, varnish') THEN [NotPassing EXCEPT !.at = "look", !.kind = kind, !.job = job, !.state = varnish'] ELSE NotPassing
  /\ wjob' = IF job THEN (IF Due(kind, varnish') THEN "running" ELSE "ended") ELSE wjob
  /\ UNCHANGED <<wsite, ids, news, hands>>
Pass == UNCHANGED <<ids, news, hands, passesRun>>
Finish(rec) == /\ varnish' = [wpass.state EXCEPT !.rec = rec] /\ wpass' = NotPassing
               /\ wjob' = IF wpass.job THEN "ended" ELSE wjob
Failed == /\ Finish([status |-> "error", seen |-> wpass.state.rec.seen]) /\ UNCHANGED wsite /\ Pass
Intends(seen) == CASE wsite.plugin = "missing" -> wpass.kind = "install" \/ (wpass.state.enabled /\ ~seen)
                   [] wsite.plugin = "inactive" -> wpass.kind = "install"
                   [] wsite.plugin = "active" -> FALSE
(* With what it is about to do told only by what it then finds.            *)
LookUnmarked == /\ wpass.at = "look" /\ wsite.wp /\ Pass
                /\ LET seen == wpass.state.rec.seen \/ wsite.plugin # "missing"
                   IN /\ wsite' = [wsite EXCEPT !.had = @ \/ wsite.plugin # "missing"]
                      /\ IF Intends(seen) THEN wpass' = [wpass EXCEPT !.at = "act", !.was = seen] /\ UNCHANGED <<varnish, wjob>>
                         ELSE Finish([status |-> wsite.plugin, seen |-> seen])
Look == /\ wpass.at = "look" /\ wsite.wp /\ Pass
        /\ LET seen == wpass.state.rec.seen \/ wsite.plugin # "missing"
           IN /\ wsite' = [wsite EXCEPT !.had = @ \/ wsite.plugin # "missing"]
              /\ IF Intends(seen)
                 THEN \* what it is about to do is saved before it is done
                      /\ varnish' = [wpass.state EXCEPT !.rec = [status |-> wsite.plugin, seen |-> TRUE]]
                      /\ wpass' = [wpass EXCEPT !.at = "act", !.was = seen, !.state = varnish'] /\ UNCHANGED wjob
                 ELSE Finish([status |-> wsite.plugin, seen |-> seen])
LookFails == wpass.at = "look" /\ Failed
Act == /\ wpass.at = "act" /\ wsite.wp /\ wsite' = [wsite EXCEPT !.plugin = "active", !.had = TRUE, !.gone = FALSE]
       /\ wpass' = [wpass EXCEPT !.at = "recheck"] /\ UNCHANGED <<varnish, wjob>> /\ Pass
ActFails == /\ wpass.at = "act" /\ Finish([status |-> "error", seen |-> wpass.was]) /\ UNCHANGED wsite /\ Pass
Recheck == /\ wpass.at = "recheck" /\ wsite.wp /\ UNCHANGED wsite /\ Pass
           /\ Finish([status |-> IF wsite.plugin = "active" THEN "active" ELSE "error", seen |-> TRUE])
RecheckFails == wpass.at = "recheck" /\ Failed
PassKilled == /\ ~Unlocked /\ wpass' = NotPassing /\ wjob' = (IF wpass.job THEN "ended" ELSE wjob)
              /\ UNCHANGED <<wsite, varnish>> /\ Pass

-----------------------------------------------------------------------------
(* reconcileWpNewSites, on every change of the panel's sites, on a wake    *)
(* and at a job's end; an hour later the 15-minute pass has the site.      *)
Noted == [news EXCEPT !.known = Here, !.pending = Here /\ (@ \/ ~news.known),
                      !.wp = @ /\ Here /\ news.known, !.tried = @ /\ Here /\ news.known]
Owed == varnish.enabled /\ ~varnish.rec.seen
reconcileWpNewSites ==
  /\ UNCHANGED <<wsite, ids, varnish, wpass, hands, passesRun>>
  /\ LET ready == Noted.pending /\ wsite.wp
         runs == ready /\ Owed /\ ~Noted.tried /\ wjob \in {"none", "ended"}
     IN /\ news' = IF (Noted.pending /\ ~varnish.enabled) \/ (ready /\ ~Owed) THEN [Noted EXCEPT !.pending = FALSE, !.wp = FALSE, !.tried = FALSE]
                   ELSE [Noted EXCEPT !.wp = ready, !.tried = @ \/ runs]
        /\ wjob' = IF runs THEN "queued" ELSE wjob
        /\ news' # news \/ wjob' # wjob
Expires == /\ news.pending /\ news' = [news EXCEPT !.pending = FALSE, !.wp = FALSE, !.tried = FALSE]
           /\ UNCHANGED <<wsite, ids, varnish, wjob, wpass, hands, passesRun>>

Next == \/ SiteComes \/ WpComes \/ SiteGoes \/ ByHand \/ configureVarnish
        \/ \E kind \in Kinds : Start(kind, FALSE)
        \/ (wjob = "queued" /\ Start("check", TRUE))
        \/ Look \/ LookFails \/ Act \/ ActFails \/ Recheck \/ RecheckFails \/ PassKilled
        \/ reconcileWpNewSites \/ Expires
Spec == Init /\ [][Next]_autoVars

-----------------------------------------------------------------------------
TypeOK == /\ wsite \in SiteRecords /\ ids \in 0..MaxIds /\ varnish \in Policies /\ hands \in Nat
          /\ news \in [known : BOOLEAN, pending : BOOLEAN, wp : BOOLEAN, tried : BOOLEAN] /\ (news.tried => news.pending)
          /\ wjob \in {"none", "queued", "running", "ended"} /\ wpass \in Passes

(* Automation never puts back a plugin that it has seen or put there and   *)
(* that the site's administrator took out, whatever was killed meanwhile.  *)
NeverPutBackStep == (wsite'.plugin = "active" /\ wsite.gone /\ wpass.at = "act") => wpass.kind = "install"

(* Only an operator changes the switch: no pass saves back an older one.   *)
SettingKeptStep == varnish'.enabled # varnish.enabled => hands' # hands
=============================================================================
