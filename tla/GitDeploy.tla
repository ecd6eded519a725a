----------------------------- MODULE GitDeploy -----------------------------
(***************************************************************************)
(* The Git addon and one domain (addons/git/action.ts): what operators     *)
(* save, the push-to-deploy URL and its deliveries, deployment records,    *)
(* their runners, and the addon's prune.                                   *)
(*                                                                         *)
(* Deploying takes the site's lock; saving settings, switching the URL and *)
(* forgetting take none.  A record is "young" for five minutes: systemd    *)
(* answers and shows a unit, and a runner has the lock or has given up,    *)
(* within them (the guard of Age), so that prune's look at a record, its   *)
(* unit and its age is one step here; ManagerJobs has it in three.         *)
(***************************************************************************)
EXTENDS Naturals, FiniteSets

CONSTANTS Deployments, \* job ids
          Requests,    \* action processes
          MaxSaves,    \* bound: settings and URLs ever saved
          MaxSites,    \* bound: how often the domain is created
          Free

ConstantsOK == MaxSites \in Nat \ {0} /\ MaxSaves \in Nat

VARIABLES site, sites,  \* the id of the domain's row in the panel, 0 for none; ids used
          conf, saves,  \* the saved record; versions used
          state, young, \* a deployment's record
          run, copy,    \* its runner: where it is, the record it read
          req, lock

vars == <<site, sites, conf, saves, state, young, run, copy, req, lock>>
panel == <<site, sites>>
saved == <<conf, saves>>
jobs == <<state, young, run, copy>>

(* The row the settings were saved for, their version, the URL's token.    *)
Configs == [site : 0..MaxSites, settings : 0..MaxSaves, token : 0..MaxSaves]
NoConfig == [site |-> 0, settings |-> 0, token |-> 0]
Configured == conf # NoConfig

Edits == {"configure", "enable", "rotate", "disable"}
Verbs == Edits \cup {"deploy", "push", "deliver", "none"}
Asked == [at : {"idle", "save", "lock", "held", "start", "deliver"},
          verb : Verbs, conf : Configs, job : Deployments \cup {Free}]
Idle == [at |-> "idle", verb |-> "none", conf |-> NoConfig, job |-> Free]

Unfinished(d) == state[d] \in {"queued", "running"}
At(r, place) == req[r].at = place
Now(r, new) == req' = [req EXCEPT ![r] = new]
Goto(r, place) == Now(r, [req[r] EXCEPT !.at = place])
Answer(r) == Now(r, Idle)
Record(d, s) == /\ state' = [state EXCEPT ![d] = s] /\ young' = young \cup {d}
Stop(d) == /\ run' = [run EXCEPT ![d] = "idle"] /\ copy' = [copy EXCEPT ![d] = NoConfig]

Init == /\ site = 1 /\ sites = 1 /\ conf = NoConfig /\ saves = 0
        /\ state = [d \in Deployments |-> "none"] /\ young = {}
        /\ run = [d \in Deployments |-> "idle"] /\ copy = [d \in Deployments |-> NoConfig]
        /\ req = [r \in Requests |-> Idle] /\ lock = Free

-----------------------------------------------------------------------------
(* CloudPanel.                                                             *)

CreateSite == /\ site = 0 /\ sites < MaxSites
              /\ site' = sites + 1 /\ sites' = sites + 1
              /\ UNCHANGED <<saved, jobs, req, lock>>
DeleteSite == site # 0 /\ site' = 0 /\ UNCHANGED <<sites, saved, jobs, req, lock>>

-----------------------------------------------------------------------------
(* Saving: the record is read, and written back with one part changed.     *)

ReadConfig(r, verb) ==
  /\ At(r, "idle") /\ verb \in Edits /\ site # 0
  /\ (verb # "configure") => Configured
  /\ ~(verb = "enable" /\ conf.token # 0) /\ ~(verb = "disable" /\ conf.token = 0)
  /\ (verb # "disable") => saves < MaxSaves
  /\ Now(r, [Idle EXCEPT !.at = "save", !.verb = verb, !.conf = conf])
  /\ UNCHANGED <<panel, saved, jobs, lock>>

Changed(was, verb, v) ==
  CASE verb = "configure" -> [site |-> site, settings |-> v, token |-> was.token]
    [] verb = "disable"   -> [was EXCEPT !.token = 0]
    [] verb = "deliver"   -> was
    [] OTHER              -> [was EXCEPT !.token = v]

WriteConfig(r) ==
  /\ At(r, "save")
  /\ LET verb == req[r].verb
         new == verb \notin {"disable", "deliver"}
     IN /\ new => saves < MaxSaves
        /\ saves' = IF new THEN saves + 1 ELSE saves
        /\ conf' = Changed(req[r].conf, verb, saves + 1)
  /\ Answer(r)
  /\ UNCHANGED <<panel, jobs, lock>>

Forget == Configured /\ conf' = NoConfig /\ UNCHANGED <<panel, saves, jobs, req, lock>>

-----------------------------------------------------------------------------
(* A deployment asked for by an operator, or by a push with the URL's      *)
(* token, which is compared before the lock and again under it.            *)

Deploy(r) == /\ At(r, "idle")
             /\ Now(r, [Idle EXCEPT !.at = "lock", !.verb = "deploy"])
             /\ UNCHANGED <<panel, saved, jobs, lock>>
Push(r) == /\ At(r, "idle") /\ conf.token # 0
           /\ Now(r, [Idle EXCEPT !.at = "lock", !.verb = "push", !.conf = conf])
           /\ UNCHANGED <<panel, saved, jobs, lock>>

TakeLock(r) == /\ At(r, "lock") /\ lock = Free /\ lock' = r
               /\ Goto(r, "held")
               /\ UNCHANGED <<panel, saved, jobs>>
LockTimeout(r) == /\ At(r, "lock") /\ lock # Free
                  /\ Answer(r)
                  /\ UNCHANGED <<panel, saved, jobs, lock>>

Matches(r) == req[r].conf.token # 0 /\ conf.token = req[r].conf.token
Deployable == site # 0 /\ Configured /\ ~\E d \in Deployments : Unfinished(d)
AfterStart(r) == Now(r, [Idle EXCEPT !.at = IF req[r].verb = "push" THEN "deliver" ELSE "idle"])

(* A push with a token that no longer stands is refused unrecorded; one    *)
(* that pings, names another branch or cannot deploy now is recorded.      *)
Refuse(r) ==
  /\ At(r, "held")
  /\ \/ req[r].verb = "deploy" /\ ~Deployable /\ Answer(r)
     \/ req[r].verb = "push" /\ IF Matches(r) THEN Now(r, [Idle EXCEPT !.at = "deliver"]) ELSE Answer(r)
  /\ lock' = Free
  /\ UNCHANGED <<panel, saved, jobs>>

(* Changed form: a record whose runner has not begun does not count.       *)
QueueBesideQueued(r) ==
  /\ At(r, "held") /\ (req[r].verb = "push" => Matches(r))
  /\ site # 0 /\ Configured /\ ~\E d \in Deployments : state[d] = "running"
  /\ \E d \in Deployments : /\ state[d] = "none" /\ Record(d, "queued")
                            /\ Now(r, [req[r] EXCEPT !.at = "start", !.job = d])
  /\ lock' = Free
  /\ UNCHANGED <<panel, saved, run, copy>>

(* The record is made under the lock, which is free before its unit starts. *)
Queue(r) ==
  /\ At(r, "held") /\ (req[r].verb = "push" => Matches(r))
  /\ Deployable
  /\ \E d \in Deployments : /\ state[d] = "none" /\ Record(d, "queued")
                            /\ Now(r, [req[r] EXCEPT !.at = "start", !.job = d])
  /\ lock' = Free
  /\ UNCHANGED <<panel, saved, run, copy>>

StartUnit(r) == /\ At(r, "start")
                /\ run' = [run EXCEPT ![req[r].job] = "wait"]
                /\ AfterStart(r)
                /\ UNCHANGED <<panel, saved, state, young, copy, lock>>
StartRefused(r) == /\ At(r, "start")
                   /\ Record(req[r].job, "failed")
                   /\ AfterStart(r)
                   /\ UNCHANGED <<panel, saved, run, copy, lock>>

(* What a delivery did, on the record read again.                          *)
RecordDelivery(r) ==
  /\ At(r, "deliver")
  /\ IF conf.token = 0 THEN Answer(r)
     ELSE Now(r, [Idle EXCEPT !.at = "save", !.verb = "deliver", !.conf = conf])
  /\ UNCHANGED <<panel, saved, jobs, lock>>

Killed(r) == /\ ~At(r, "idle") /\ Answer(r)
             /\ lock' = IF lock = r THEN Free ELSE lock
             /\ UNCHANGED <<panel, saved, jobs>>

-----------------------------------------------------------------------------
(* The runner.                                                             *)

RunnerTakesLock(d) == /\ run[d] = "wait" /\ lock = Free /\ lock' = d
                      /\ run' = [run EXCEPT ![d] = "held"]
                      /\ UNCHANGED <<panel, saved, state, young, copy, req>>
RunnerGivesUp(d) == /\ run[d] = "wait" /\ lock # Free /\ Stop(d)
                    /\ UNCHANGED <<panel, saved, state, young, req, lock>>

(* Held only to settle whose job it is: from here the record says so.      *)
Claim(d) ==
  /\ run[d] = "held" /\ lock' = Free
  /\ IF state[d] = "queued" /\ site # 0 /\ Configured
     THEN /\ Record(d, "running")
          /\ copy' = [copy EXCEPT ![d] = conf]
          /\ run' = [run EXCEPT ![d] = "work"]
     ELSE Record(d, "failed") /\ Stop(d)
  /\ UNCHANGED <<panel, saved, req>>

(* Fetch, reset, submodules and the post-deploy command.                   *)
Work(d) == /\ run[d] = "work" /\ Stop(d)
           /\ \E outcome \in {"done", "failed"} : Record(d, outcome)
           /\ UNCHANGED <<panel, saved, req, lock>>

RunnerDies(d) == /\ run[d] # "idle" /\ Stop(d)
                 /\ lock' = IF lock = d THEN Free ELSE lock
                 /\ UNCHANGED <<panel, saved, state, young, req>>

-----------------------------------------------------------------------------
Age(d) == /\ d \in young /\ run[d] \notin {"wait", "held"}
          /\ ~\E r \in Requests : At(r, "start") /\ req[r].job = d
          /\ young' = young \ {d}
          /\ UNCHANGED <<panel, saved, state, run, copy, req, lock>>

(* Sites that are gone are forgotten; then, record by record, one nothing   *)
(* runs is failed, and a finished one dropped once its retention is over.  *)
PruneForgets == /\ site = 0 /\ Configured /\ conf' = NoConfig
                /\ UNCHANGED <<panel, saves, jobs, req, lock>>

PruneRecord(d) ==
  /\ d \notin young
  /\ \/ Unfinished(d) /\ run[d] = "idle" /\ Record(d, "failed")
     \/ state[d] \in {"done", "failed"} /\ state' = [state EXCEPT ![d] = "gone"] /\ UNCHANGED young
  /\ UNCHANGED <<panel, saved, run, copy, req, lock>>

RequestStep(r) == \/ WriteConfig(r) \/ TakeLock(r) \/ LockTimeout(r) \/ Refuse(r) \/ Queue(r)
                  \/ StartUnit(r) \/ StartRefused(r) \/ RecordDelivery(r)
RunnerStep(d) == RunnerTakesLock(d) \/ RunnerGivesUp(d) \/ Claim(d) \/ Work(d)

Next == \/ CreateSite \/ DeleteSite \/ Forget \/ PruneForgets
        \/ \E r \in Requests : \/ \E verb \in Edits : ReadConfig(r, verb)
                               \/ Deploy(r) \/ Push(r) \/ RequestStep(r) \/ Killed(r)
        \/ \E d \in Deployments : RunnerStep(d) \/ RunnerDies(d) \/ Age(d) \/ PruneRecord(d)

Spec == Init /\ [][Next]_vars

-----------------------------------------------------------------------------
TypeOK ==
  /\ site \in 0..sites /\ sites \in 1..MaxSites
  /\ conf \in Configs /\ saves \in 0..MaxSaves
  /\ state \in [Deployments -> {"none", "queued", "running", "done", "failed", "gone"}]
  /\ young \subseteq Deployments
  /\ run \in [Deployments -> {"idle", "wait", "held", "work"}]
  /\ copy \in [Deployments -> Configs]
  /\ req \in [Requests -> Asked]
  /\ lock \in Deployments \cup Requests \cup {Free}

(* A site's deployments are one at a time, whoever asks and whatever dies: *)
(* the lock that is dropped before the unit starts and again at the claim, *)
(* the record and the prune together behave as OneJob promises.            *)
Service == INSTANCE OneJob WITH Jobs <- Deployments, shown <- state,
                                live <- {d \in Deployments : run[d] # "idle"}
ImplementsOneJob == Service!Spec
=============================================================================
