---------------------------- MODULE PhpResources ----------------------------
(***************************************************************************)
(* PHP Resources (addons/php-resources/action.ts): categories of PHP-FPM   *)
(* limits, written into the pool files of the sites assigned to them.      *)
(*                                                                         *)
(* A pool's limits are one value, 0 the stock ones; php-fpm runs those it  *)
(* last loaded.  CloudPanel makes and deletes sites and moves one to       *)
(* another PHP version, which leaves it a fresh stock pool.  One operation *)
(* at a time holds the policy's lock and works on what it read then.       *)
(***************************************************************************)
EXTENDS Integers, FiniteSets

CONSTANTS PoolSites, Categories, Limits, MaxPoolIds, MaxPoolMoves

VARIABLES prow,        \* each domain's row: its id (0 for none) and PHP version
          pool, runs,  \* its limits on disk; what php-fpm runs
          cats, default, assigned, known,   \* policy.json
          pop,         \* the operation under way
          poolIds, poolMoves,
          cut,         \* ghost: an operation was killed before its end
          decided      \* ghost: the sites an operator decided on, or that a default found there

poolVars == <<prow, pool, runs, cats, default, assigned, known, pop, poolIds, poolMoves, cut, decided>>
policy == <<cats, default, assigned, known>>
poolPanel == <<prow, poolIds, poolMoves, cut>>

Versions == {1, 2}
NoCat == "none"
Idle == [at |-> "idle", verb |-> "list", rows |-> {}, entries |-> <<>>, left |-> {}, ver |-> 1, was |-> <<>>, failed |-> {}, cat |-> NoCat, limit |-> 0]
Existing == {NoCat} \cup {c \in Categories : cats[c] # -1}
Live == {d \in PoolSites : prow[d].id # 0}
Ids(ds) == {prow[d].id : d \in ds}
Row(d) == [d |-> d, id |-> prow[d].id, ver |-> prow[d].ver]
Rows == {Row(d) : d \in Live}
At(step) == pop.at = step
Named == {r.d : r \in pop.rows}

Init == /\ prow = [d \in PoolSites |-> [id |-> 0, ver |-> 1]] /\ pool = [d \in PoolSites |-> 0] /\ runs = pool
        /\ cats = [c \in Categories |-> -1] /\ default = NoCat /\ assigned = [d \in PoolSites |-> NoCat] /\ known = {}
        /\ pop = Idle /\ poolIds = 0 /\ poolMoves = 0 /\ cut = FALSE /\ decided = {}

-----------------------------------------------------------------------------
(* CloudPanel.                                                             *)
PanelMoves == poolMoves < MaxPoolMoves /\ poolMoves' = poolMoves + 1 /\ UNCHANGED <<policy, pop, cut, decided>>
Fresh(d, r) == prow' = [prow EXCEPT ![d] = r] /\ pool' = [pool EXCEPT ![d] = 0] /\ runs' = [runs EXCEPT ![d] = 0]
CreatePhpSite(d) == /\ PanelMoves /\ prow[d].id = 0 /\ poolIds < MaxPoolIds /\ poolIds' = poolIds + 1
                    /\ \E v \in Versions : Fresh(d, [id |-> poolIds + 1, ver |-> v])
DeletePhpSite(d) == PanelMoves /\ prow[d].id # 0 /\ Fresh(d, [id |-> 0, ver |-> 1]) /\ UNCHANGED poolIds
MovePhpVersion(d) == PanelMoves /\ prow[d].id # 0 /\ Fresh(d, [prow[d] EXCEPT !.ver = 3 - @]) /\ UNCHANGED poolIds

-----------------------------------------------------------------------------
(* The verbs, once each has the lock: what it read, and the limits it is   *)
(* to write into which pools.                                              *)
Nextly(left, step) == IF left = {} THEN "policy" ELSE step
Begin(verb, entries, cat, limit) ==
  LET versions == {prow[d].ver : d \in DOMAIN entries} IN
  /\ At("idle")
  /\ pop' = [Idle EXCEPT !.at = Nextly(versions, "write"), !.left = versions, !.verb = verb, !.rows = Rows, !.entries = entries, !.cat = cat, !.limit = limit]
  /\ UNCHANGED <<poolPanel, pool, runs, policy, decided>>
In(c) == {d \in Live : assigned[d] = c}
saveCategory(c, limit) == Begin("save", [d \in In(c) |-> limit], c, limit)
deleteCategory(c) == cats[c] # -1 /\ Begin("delete", [d \in In(c) |-> 0], c, 0)
assignSites(ds, c) == /\ ds # {} /\ ds \subseteq Live /\ c \in Existing
                      /\ Begin("assign", [d \in ds |-> IF c = NoCat THEN 0 ELSE cats[c]], c, 0)
Joining == {d \in Live : assigned[d] = NoCat /\ default # NoCat /\ prow[d].id \notin known}
reconcilePhpResources ==
  /\ default # NoCat \/ \E d \in PoolSites : assigned[d] # NoCat
  /\ Begin("reconcile", [d \in {e \in Live : assigned[e] # NoCat} \cup Joining |->
                           cats[IF assigned[d] # NoCat THEN assigned[d] ELSE default]], default, 0)
(* Mutant: setting a default records no site as known.                     *)
setDefaultOnly(c) ==
  /\ At("idle") /\ c \in Existing /\ default' = c
  /\ decided' = (IF c = NoCat THEN decided ELSE decided \cup Ids(Live))
  /\ UNCHANGED <<poolPanel, pool, runs, cats, assigned, known, pop>>
setDefaultCategory(c) ==
  /\ At("idle") /\ c \in Existing /\ default' = c
  /\ known' = (IF c = NoCat THEN known ELSE Ids(Live)) /\ decided' = (IF c = NoCat THEN decided ELSE decided \cup Ids(Live))
  /\ UNCHANGED <<poolPanel, pool, runs, cats, assigned, pop>>

-----------------------------------------------------------------------------
(* applyMany: one PHP version at a time, its pools, then a test and a       *)
(* reload of its service, and if that is refused its pools as they were    *)
(* and a reload of those.  A missing pool is failed alone.                 *)
There(d) == prow[d].id # 0 /\ prow[d].ver = pop.ver      \* the version's pool file of that domain is there
WritePools ==
  /\ At("write") /\ UNCHANGED <<poolPanel, runs, policy, decided>>
  /\ \E v \in pop.left :
       LET group == {r.d : r \in {q \in pop.rows : q.ver = v /\ q.d \in DOMAIN pop.entries}}
           here == {d \in group : prow[d].id # 0 /\ prow[d].ver = v}
           ds == {d \in here : pool[d] # pop.entries[d]}
       IN /\ pool' = [d \in PoolSites |-> IF d \in ds THEN pop.entries[d] ELSE pool[d]]
          /\ pop' = [pop EXCEPT !.at = Nextly(IF ds = {} THEN pop.left \ {v} ELSE {v}, IF ds = {} THEN "write" ELSE "reload"),
                                !.left = @ \ {v}, !.ver = v, !.was = [d \in ds |-> pool[d]],
                                !.failed = @ \cup (group \ here)]
(* What a reload of the version's service makes php-fpm run.               *)
Loaded(files) == [d \in PoolSites |-> IF prow[d].ver = pop.ver THEN files[d] ELSE runs[d]]
Reload == /\ At("reload") /\ runs' = Loaded(pool) /\ UNCHANGED <<poolPanel, pool, policy, decided>>
          /\ pop' = [pop EXCEPT !.at = Nextly(pop.left, "write")]
(* Mutant: a refused version's pools are left as they were written.        *)
ReloadRefusedKept ==
  /\ At("reload") /\ UNCHANGED <<poolPanel, pool, runs, policy, decided>>
  /\ pop' = [pop EXCEPT !.at = Nextly(pop.left, "write"), !.failed = @ \cup DOMAIN pop.was]
ReloadRefused ==
  /\ At("reload") /\ UNCHANGED <<poolPanel, policy, decided>>
  /\ pool' = [d \in PoolSites |-> IF d \in DOMAIN pop.was /\ There(d) THEN pop.was[d] ELSE pool[d]]
  /\ runs' = Loaded(pool')
  /\ pop' = [pop EXCEPT !.at = Nextly(pop.left, "write"), !.failed = @ \cup DOMAIN pop.was]
GotAll(ds) == ds                         \* mutant: a refused site counts as done
Got(ds) == {d \in ds : d \notin pop.failed}
WritePolicy ==
  /\ At("policy") /\ pop' = Idle /\ UNCHANGED <<poolPanel, pool, runs>>
  /\ CASE pop.verb = "save" -> cats' = [cats EXCEPT ![pop.cat] = pop.limit] /\ UNCHANGED <<default, assigned, known, decided>>
       [] pop.verb = "delete" ->
            /\ assigned' = [d \in PoolSites |-> IF d \in Got(DOMAIN pop.entries) \/ (pop.failed = {} /\ assigned[d] = pop.cat)
                                                  THEN NoCat ELSE assigned[d]]
            /\ cats' = (IF pop.failed = {} THEN [cats EXCEPT ![pop.cat] = -1] ELSE cats)
            /\ default' = (IF pop.failed = {} /\ default = pop.cat THEN NoCat ELSE default)
            /\ UNCHANGED <<known, decided>>
       [] pop.verb = "assign" ->
            LET got == {r \in pop.rows : r.d \in Got(DOMAIN pop.entries)}
            IN /\ assigned' = [d \in PoolSites |-> IF d \in {r.d : r \in got} THEN pop.cat ELSE assigned[d]]
               /\ known' = known \cup {r.id : r \in got} /\ decided' = decided \cup {r.id : r \in got}
               /\ UNCHANGED <<cats, default>>
       [] pop.verb = "reconcile" ->
            LET joining == {r \in pop.rows : r.d \in DOMAIN pop.entries /\ assigned[r.d] = NoCat}
            IN /\ assigned' = [d \in PoolSites |-> IF d \notin Named THEN NoCat
                                                   ELSE IF d \in Got({r.d : r \in joining}) THEN default ELSE assigned[d]]
               /\ known' = {r.id : r \in {q \in pop.rows : q \in joining => q.d \notin pop.failed}}
               /\ UNCHANGED <<cats, default, decided>>
Killed == pop.at # "idle" /\ pop' = Idle /\ cut' = TRUE /\ UNCHANGED <<prow, poolIds, poolMoves, pool, runs, policy, decided>>

Next == \/ \E d \in PoolSites : CreatePhpSite(d) \/ DeletePhpSite(d) \/ MovePhpVersion(d)
        \/ \E c \in Categories : (\E limit \in Limits : saveCategory(c, limit)) \/ deleteCategory(c)
        \/ \E c \in Categories \cup {NoCat} : setDefaultCategory(c) \/ \E ds \in SUBSET PoolSites : assignSites(ds, c)
        \/ reconcilePhpResources \/ WritePools \/ Reload \/ ReloadRefused \/ WritePolicy \/ Killed
Spec == Init /\ [][Next]_poolVars

-----------------------------------------------------------------------------
TypeOK == /\ \A d \in PoolSites : /\ prow[d].id \in 0..MaxPoolIds /\ prow[d].ver \in Versions
                                  /\ {pool[d], runs[d]} \subseteq {0} \cup Limits
                                  /\ assigned[d] \in Existing
          /\ default \in Existing
          /\ known \subseteq 1..MaxPoolIds /\ pop.at \in {"idle", "write", "reload", "policy"}

(* While no operation was killed: between operations php-fpm runs what the *)
(* pool files say, and limits that are not CloudPanel's on a site decided  *)
(* about belong to a category that the site is in.                         *)
RunsWhatIsFiled == (At("idle") /\ ~cut) => runs = pool
LimitsAreNamed == (At("idle") /\ ~cut) => \A d \in Live : pool[d] # 0 => assigned[d] # NoCat \/ prow[d].id \notin known
(* A default for new sites reaches no site that was there when it was set, *)
(* nor one an operator has decided on.                                     *)
DefaultTakesNewOnlyStep ==
  (At("policy") /\ pop.verb = "reconcile") =>
    \A r \in pop.rows : (assigned[r.d] = NoCat /\ assigned'[r.d] # NoCat) => r.id \notin decided
=============================================================================
