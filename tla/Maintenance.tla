---------------------------- MODULE Maintenance ----------------------------
(***************************************************************************)
(* Maintenance mode (addons/maintenance/action.ts): a directory per site,  *)
(* and one for all of them, whose files are what Nginx itself tests at     *)
(* every request.  Bypass lists are replaced under a lock of their scope;  *)
(* switches, pages and repair's prune take none.  Requests run beside each *)
(* other and may die at any step, CloudPanel creates and deletes sites     *)
(* meanwhile, and Varnish keeps the live pages it has passed on.           *)
(***************************************************************************)
EXTENDS Naturals, FiniteSets

CONSTANTS Domains, Ips,
          Clients,        \* requests that may run beside each other
          Asks,           \* [verb, scope, ips]: what they may ask for
          MaxBypassIps,   \* the limit of a list
          MaxAsked, MaxSiteMoves, MaxVisits, MaxMishaps

VARIABLES present,    \* the domains CloudPanel has
          panelFile,  \* the panel's database: "ok", "unreadable", or "empty" while it is restored
          dir,        \* [Scopes -> what the directory holds]
          lists,      \* the scopes whose list somebody is replacing
          req,        \* [Clients -> request]
          cached,     \* [Domains -> the page Varnish keeps]
          listed,     \* ghost: the list each scope was last given
          torn,       \* ghost: scopes whose replacement was cut short
          stale,      \* ghost: domains whose purge was refused, cut short or out of time
          recreated,  \* ghost: domains created since the running prune read the panel
          count       \* [asked, moves, visits, mishaps] used up

panel == <<present, panelFile>>
ghosts == <<listed, torn, stale, recreated>>
maintenanceVars == <<panel, dir, lists, req, cached, ghosts, count>>

Global == "_global"
Many == "many"
Scopes == Domains \cup {Global}
NoDir == [there |-> FALSE, on |-> FALSE, page |-> "none", bypass |-> {}, stages |-> {}]
Resting == [verb |-> "none", scope |-> Global, ips |-> {}, at |-> "rest", todo |-> {}]
ListVerbs == {"set-bypass", "add-bypass"}
Switches == {"enable", "disable"}
Verbs == ListVerbs \cup Switches \cup {"set-template", "reset-template", "prune"}

(* Neither scope can be a site's domain; only switches and the prune are    *)
(* for many.  (parseAction)                                                 *)
ConstantsOK ==
    /\ {Global, Many} \cap Domains = {}
    /\ Asks \subseteq [verb : Verbs, scope : Scopes \cup {Many}, ips : SUBSET Ips]
    /\ \A ask \in Asks : ask.scope = Many => ask.verb \in Switches \cup {"prune"}

Entries == [there : BOOLEAN, on : BOOLEAN, page : {"none", "passive"}, bypass : SUBSET Ips, stages : SUBSET Clients]
Asking == [verb : Verbs \cup {"none"}, scope : Scopes \cup {Many}, ips : SUBSET Ips, todo : SUBSET Domains,
             at : {"rest", "write", "lock", "stage", "clear", "place", "domains", "purge"}]
TypeOK ==
    /\ present \subseteq Domains /\ panelFile \in {"ok", "unreadable", "empty"}
    /\ dir \in [Scopes -> Entries] /\ lists \subseteq Scopes
    /\ req \in [Clients -> Asking]
    /\ cached \in [Domains -> {"none", "live", "bypassed"}]
    /\ listed \in [Scopes -> SUBSET Ips] /\ torn \subseteq Scopes
    /\ stale \subseteq Domains /\ recreated \subseteq Domains

Init ==
    /\ present = Domains /\ panelFile = "ok"
    /\ dir = [s \in Scopes |-> NoDir] /\ lists = {}
    /\ req = [c \in Clients |-> Resting] /\ cached = [d \in Domains |-> "none"]
    /\ listed = [s \in Scopes |-> {}] /\ torn = {} /\ stale = {} /\ recreated = {}
    /\ count = [asked |-> 0, moves |-> 0, visits |-> 0, mishaps |-> 0]

Goes(c, at) == req' = [req EXCEPT ![c].at = at]
Ends(c) == req' = [req EXCEPT ![c] = Resting]
Spend(what, max) == count[what] < max /\ count' = [count EXCEPT ![what] = @ + 1]
Mishap == Spend("mishaps", MaxMishaps)
Doing(c, verbs, at) == req[c].verb \in verbs /\ req[c].at = at

-----------------------------------------------------------------------------
(* The check in Nginx, and maintenanceBlocks(), which reads the same files. *)
SwitchedOn(d) == dir[Global].on \/ dir[d].on
Blocks(d, ip) == SwitchedOn(d) /\ ip \notin dir[Global].bypass \cup dir[d].bypass

(* parseAction() and assertPanelSite(): a site has to be the panel's when a *)
(* request for it begins; toggleMany() and the prune read its sites once.   *)
(* The prune is part of repair, of which the operation lock lets one run.   *)
Missing == {d \in Domains : dir[d].there /\ d \notin present}
GoneBlind ==    \* a database without sites reads as every site deleted
    IF panelFile = "ok" THEN Missing ELSE IF panelFile = "empty" THEN {d \in Domains : dir[d].there} ELSE {}
Gone == IF panelFile = "ok" /\ present # {} THEN Missing ELSE {}
First(ask) == IF ask.verb \in ListVerbs THEN "lock" ELSE "write"
Todo(ask) == IF ask.verb = "prune" THEN Gone
             ELSE IF ask.scope = Many THEN present ELSE {}

Begin(c, ask) ==
    /\ req[c] = Resting /\ Spend("asked", MaxAsked)
    /\ ask.scope \in Domains => ask.scope \in present /\ panelFile = "ok"
    /\ ask.scope = Many => panelFile = "ok" \/ ask.verb = "prune"
    /\ ask.verb = "prune" => \A other \in Clients : req[other].verb # "prune"
    /\ req' = [req EXCEPT ![c] = [verb |-> ask.verb, scope |-> ask.scope, ips |-> ask.ips, at |-> First(ask), todo |-> Todo(ask)]]
    /\ dir' = IF ask.verb \in ListVerbs THEN [dir EXCEPT ![ask.scope].there = TRUE] ELSE dir
    /\ recreated' = IF ask.verb = "prune" THEN {} ELSE recreated
    /\ UNCHANGED <<panel, lists, cached, listed, torn, stale>>

(* The switch of a scope is one file; the caches are purged after it.       *)
Flip(verb, s) == [dir EXCEPT ![s].on = verb = "enable", ![s].there = @ \/ verb = "enable"]

Switch(c) ==
    /\ Doing(c, Switches, "write") /\ req[c].scope # Many
    /\ dir' = Flip(req[c].verb, req[c].scope)
    /\ req' = IF req[c].scope = Global THEN [req EXCEPT ![c].at = "domains"]
              ELSE [req EXCEPT ![c].at = "purge", ![c].todo = {req[c].scope}]
    /\ UNCHANGED <<panel, lists, cached, ghosts, count>>

(* toggleMany(): site by site; one whose file cannot be written is named in *)
(* the reply, the rest go on, and those that were written are purged.       *)
SwitchMany(c) ==
    /\ Doing(c, Switches, "write") /\ req[c].scope = Many
    /\ \E written \in SUBSET req[c].todo :
         /\ IF written = req[c].todo THEN UNCHANGED count ELSE Mishap
         /\ dir' = [s \in Scopes |-> IF s \in written THEN Flip(req[c].verb, s)[s] ELSE dir[s]]
         /\ req' = [req EXCEPT ![c].at = "purge", ![c].todo = written]
    /\ UNCHANGED <<panel, lists, cached, ghosts>>

(* A global switch asks the panel whose caches to purge, and purges none    *)
(* when it cannot be read.                                                  *)
ReadDomains(c) ==
    /\ Doing(c, Switches, "domains")
    /\ req' = [req EXCEPT ![c].at = "purge", ![c].todo = IF panelFile = "ok" THEN present ELSE {}]
    /\ stale' = IF panelFile = "ok" THEN stale ELSE Domains
    /\ UNCHANGED <<panel, dir, lists, cached, listed, torn, recreated, count>>

(* purgeVarnish(), purgeVarnishMany(): an answer that is refused, or that   *)
(* does not come in time, is not told to anyone.                            *)
PurgeOnLeaving(c, d) ==   \* maintenance that begins leaves the cache alone
    /\ Doing(c, Switches, "purge") /\ d \in req[c].todo
    /\ req' = [req EXCEPT ![c].todo = @ \ {d}]
    /\ cached' = IF req[c].verb = "enable" THEN cached ELSE [cached EXCEPT ![d] = "none"]
    /\ stale' = stale \ {d}
    /\ UNCHANGED <<panel, dir, lists, listed, torn, recreated, count>>
Purge(c, d) ==
    /\ Doing(c, Switches, "purge") /\ d \in req[c].todo
    /\ req' = [req EXCEPT ![c].todo = @ \ {d}]
    /\ cached' = [cached EXCEPT ![d] = "none"] /\ stale' = stale \ {d}
    /\ UNCHANGED <<panel, dir, lists, listed, torn, recreated, count>>
PurgeRefused(c, d) ==
    /\ Doing(c, Switches, "purge") /\ d \in req[c].todo /\ Mishap
    /\ req' = [req EXCEPT ![c].todo = @ \ {d}] /\ stale' = stale \cup {d}
    /\ UNCHANGED <<panel, dir, lists, cached, listed, torn, recreated>>
Purged(c) ==
    /\ Doing(c, Switches, "purge") /\ req[c].todo = {} /\ Ends(c)
    /\ UNCHANGED <<panel, dir, lists, cached, ghosts, count>>

(* set-template stores what sanitizeTemplate() lets through, reset-template *)
(* removes it and leaves Nginx the default page.                            *)
WriteTemplate(c) ==
    /\ Doing(c, {"set-template", "reset-template"}, "write") /\ Ends(c)
    /\ dir' = IF req[c].verb = "set-template"
                THEN [dir EXCEPT ![req[c].scope].page = "passive", ![req[c].scope].there = TRUE]
                ELSE [dir EXCEPT ![req[c].scope].page = "none"]
    /\ UNCHANGED <<panel, lists, cached, ghosts, count>>

-----------------------------------------------------------------------------
(* writeBypasses()                                                          *)
Unlock(s) == lists' = lists \ {s}

NextListAsked(c) == req[c].ips    \* an added address replaces the list
NextList(c) == IF req[c].verb = "add-bypass" THEN req[c].ips \cup dir[req[c].scope].bypass ELSE req[c].ips

TakeListsAnyway(c) ==   \* without the lock
    /\ Doing(c, ListVerbs, "lock")
    /\ lists' = lists \cup {req[c].scope} /\ req' = [req EXCEPT ![c].at = "stage", ![c].ips = NextList(c)]
    /\ UNCHANGED <<panel, dir, cached, ghosts, count>>
TakeLists(c) ==
    /\ Doing(c, ListVerbs, "lock") /\ req[c].scope \notin lists
    /\ IF Cardinality(NextList(c)) > MaxBypassIps
         THEN Ends(c) /\ UNCHANGED lists
         ELSE lists' = lists \cup {req[c].scope} /\ req' = [req EXCEPT ![c].at = "stage", ![c].ips = NextList(c)]
    /\ UNCHANGED <<panel, dir, cached, ghosts, count>>
LocksOut(c) ==
    /\ Doing(c, ListVerbs, "lock") /\ req[c].scope \in lists /\ Ends(c)
    /\ UNCHANGED <<panel, dir, lists, cached, ghosts, count>>

(* Every file of the new list is written before one of the old goes.        *)
Stage(c) ==
    /\ Doing(c, ListVerbs, "stage") /\ dir[req[c].scope].there
    /\ dir' = [dir EXCEPT ![req[c].scope].stages = @ \cup {c}] /\ Goes(c, "clear")
    /\ UNCHANGED <<panel, lists, cached, ghosts, count>>
StageFails(c) ==
    /\ Doing(c, ListVerbs, "stage")
    /\ IF dir[req[c].scope].there THEN Mishap ELSE UNCHANGED count
    /\ Unlock(req[c].scope) /\ Ends(c)
    /\ UNCHANGED <<panel, dir, cached, ghosts>>

Clear(c, ip) ==
    /\ Doing(c, ListVerbs, "clear") /\ c \in dir[req[c].scope].stages /\ ip \in dir[req[c].scope].bypass
    /\ dir' = [dir EXCEPT ![req[c].scope].bypass = @ \ {ip}]
    /\ UNCHANGED <<panel, lists, req, cached, ghosts, count>>
Cleared(c) ==
    /\ Doing(c, ListVerbs, "clear") /\ c \in dir[req[c].scope].stages
    /\ dir[req[c].scope].bypass = {} /\ Goes(c, "place")
    /\ UNCHANGED <<panel, dir, lists, cached, ghosts, count>>

Place(c, ip) ==
    /\ Doing(c, ListVerbs, "place") /\ c \in dir[req[c].scope].stages /\ ip \in req[c].ips \ dir[req[c].scope].bypass
    /\ dir' = [dir EXCEPT ![req[c].scope].bypass = @ \cup {ip}]
    /\ UNCHANGED <<panel, lists, req, cached, ghosts, count>>
Placed(c) ==
    /\ Doing(c, ListVerbs, "place") /\ c \in dir[req[c].scope].stages /\ req[c].ips \subseteq dir[req[c].scope].bypass
    /\ dir' = [dir EXCEPT ![req[c].scope].stages = @ \ {c}]
    /\ listed' = [listed EXCEPT ![req[c].scope] = req[c].ips] /\ torn' = torn \ {req[c].scope}
    /\ Unlock(req[c].scope) /\ Ends(c)
    /\ UNCHANGED <<panel, cached, stale, recreated, count>>

(* The prune took the directory away under it, or a rename failed.          *)
ListFails(c) ==
    /\ Doing(c, ListVerbs, "clear") \/ Doing(c, ListVerbs, "place")
    /\ LET s == req[c].scope IN
       /\ IF c \in dir[s].stages THEN Mishap ELSE UNCHANGED count
       /\ dir' = [dir EXCEPT ![s].stages = @ \ {c}]
       /\ Unlock(s) /\ torn' = torn \cup {s}
    /\ Ends(c)
    /\ UNCHANGED <<panel, cached, listed, stale, recreated>>

-----------------------------------------------------------------------------
(* pruneMaintenanceState(): the directories of sites that are not in the    *)
(* panel, one after another, without a lock.                                *)
Remove(c, d) ==
    /\ Doing(c, {"prune"}, "write") /\ d \in req[c].todo
    /\ dir' = [dir EXCEPT ![d] = NoDir] /\ req' = [req EXCEPT ![c].todo = @ \ {d}]
    /\ listed' = [listed EXCEPT ![d] = {}]
    /\ UNCHANGED <<panel, lists, cached, torn, stale, recreated, count>>
Pruned(c) ==
    /\ Doing(c, {"prune"}, "write") /\ req[c].todo = {} /\ Ends(c)
    /\ UNCHANGED <<panel, dir, lists, cached, ghosts, count>>

Killed(c) ==
    /\ req[c] # Resting /\ Mishap /\ Ends(c)
    /\ lists' = IF req[c].at \in {"stage", "clear", "place"} THEN lists \ {req[c].scope} ELSE lists
    /\ stale' = CASE req[c].at = "purge" -> stale \cup req[c].todo
                  [] req[c].at = "domains" -> Domains
                  [] OTHER -> stale
    /\ torn' = IF req[c].at \in {"clear", "place"} THEN torn \cup {req[c].scope} ELSE torn
    /\ UNCHANGED <<panel, dir, cached, listed, recreated>>

(* CloudPanel, an outage or a restore of its database, and visitors.  A     *)
(* page that a visitor gets past maintenance is kept like any other.        *)
SiteMoves ==
    /\ Spend("moves", MaxSiteMoves)
    /\ \/ \E d \in present : present' = present \ {d} /\ cached' = [cached EXCEPT ![d] = "none"] /\ UNCHANGED <<panelFile, recreated>>
       \/ \E d \in Domains \ present : present' = present \cup {d} /\ recreated' = recreated \cup {d} /\ UNCHANGED <<panelFile, cached>>
       \/ panelFile' \in {"ok", "unreadable", "empty"} \ {panelFile} /\ UNCHANGED <<present, cached, recreated>>
    /\ UNCHANGED <<dir, lists, req, listed, torn, stale>>
Visit(d, ip) ==
    /\ d \in present /\ cached[d] = "none" /\ ~Blocks(d, ip) /\ Spend("visits", MaxVisits)
    /\ cached' = [cached EXCEPT ![d] = IF SwitchedOn(d) THEN "bypassed" ELSE "live"]
    /\ UNCHANGED <<panel, dir, lists, req, ghosts>>

ClientStep(c) ==
    \/ \E ask \in Asks : Begin(c, ask)
    \/ Switch(c) \/ SwitchMany(c) \/ ReadDomains(c) \/ Purged(c) \/ WriteTemplate(c)
    \/ \E d \in Domains : Purge(c, d) \/ PurgeRefused(c, d) \/ Remove(c, d)
    \/ TakeLists(c) \/ LocksOut(c) \/ Stage(c) \/ StageFails(c) \/ Cleared(c) \/ Placed(c) \/ ListFails(c)
    \/ \E ip \in Ips : Clear(c, ip) \/ Place(c, ip)
    \/ Pruned(c) \/ Killed(c)
Next ==
    \/ \E c \in Clients : ClientStep(c)
    \/ SiteMoves \/ \E d \in Domains, ip \in Ips : Visit(d, ip)
Spec == Init /\ [][Next]_maintenanceVars

-----------------------------------------------------------------------------
(* writeBypasses(): whoever else is replacing, adding or pruning, a list    *)
(* that nobody is replacing is the whole of the last one given, unless that *)
(* replacement was cut short; and an address in it was asked for by the     *)
(* last list or by the one being written.                                   *)
LastListWhole == \A s \in Scopes :
    /\ s \notin lists \cup torn => dir[s].bypass = listed[s]
    /\ dir[s].bypass \subseteq listed[s] \cup UNION {req[c].ips : c \in {x \in Clients : req[x].scope = s /\ req[x].at = "place"}} \/ s \in torn

(* addBypass(), a sign-in's own address, keeps the rest of the list.        *)
AddKeepsRestStep == \A c \in Clients :
    Doing(c, {"add-bypass"}, "place") /\ req'[c] = Resting /\ listed' # listed
        => \A s \in Scopes \ torn : listed[s] \subseteq listed'[s]

(* pruneMaintenanceState() and deletedSites(): no outage of the panel's     *)
(* database, and no site without a row in it for a moment, takes the state  *)
(* of a site that was the panel's when the prune began.                     *)
LiveStateKeptStep == \A d \in present \ recreated : dir[d].there => dir'[d].there

(* purgeVarnish() after the switch: visitors without a bypass are not given *)
(* a page from before the maintenance, once its purge was answered.         *)
NoLivePageKept == \A d \in Domains :
    cached[d] = "live" /\ SwitchedOn(d)
        => d \in stale \/ \E c \in Clients : \/ req[c].at = "domains"
                                             \/ req[c].at = "purge" /\ d \in req[c].todo
=============================================================================
