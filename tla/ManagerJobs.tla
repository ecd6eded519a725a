---------------------------- MODULE ManagerJobs ----------------------------
(***************************************************************************)
(* The manager's background jobs: the record on disk (cli/job-store.ts),   *)
(* the create path that makes the buttons idempotent and the runner        *)
(* systemd starts (cli/manager-action.ts), and the repair that fails the   *)
(* records whose runner died.  A request is an action process the gateway  *)
(* spawned; it can be killed at any step.  A runner is a transient unit.   *)
(*                                                                         *)
(* A record's directory mtime is its age: "fresh" is at most five minutes, *)
(* "old" more than five, "expired" more than the retention.  Three things  *)
(* are taken to happen within five minutes: systemd-run's answer, a unit's *)
(* becoming visible to is-active, and one record's check by repair (the    *)
(* guard of Age).  A waiter's lock timeout may come at any time the lock   *)
(* is taken.                                                               *)
(***************************************************************************)
EXTENDS Naturals, FiniteSets, TLAPS

CONSTANTS Jobs,        \* job ids; each is used at most once
          Requests,    \* action processes asking for a job
          Kinds,       \* what the requests ask for: "enable", "disable", "update"
          Addons,
          Shells,      \* root shells and timers running another operation
          None,        \* nobody holds the lock
          Repair       \* the repair operation, as a holder of the lock

ASSUME KindsKnown == Kinds \subseteq {"enable", "disable", "update"}
ASSUME HoldersDistinct ==
  /\ None \notin Jobs \cup Requests \cup Shells \cup {Repair}
  /\ Repair \notin Jobs \cup Shells
  /\ Jobs \cap Shells = {}

VARIABLES rec,      \* the record's `state` file, "none" before and "gone" after its directory
          age,      \* how long ago the record's directory last changed
          want,     \* the kind and addon recorded for a job
          unit,     \* the job's transient unit as systemd reports it
          run,      \* where its runner is
          pc,       \* where each request is
          asked,    \* what it asks for
          made,     \* the job it is creating
          mgr,      \* the holder of manager.lock
          op,       \* the holder of operation.lock
          enabled,  \* the addons whose config file exists
          pass,     \* where repair's pass over the records is
          todo,     \* the records it has still to check
          checking  \* the one it is checking

vars == <<rec, age, want, unit, run, pc, asked, made, mgr, op, enabled, pass, todo, checking>>
records == <<rec, age, want>>
requests == <<pc, asked, made, mgr>>
repair == <<pass, todo, checking>>

NoWant == [kind |-> "update", addon |-> ""]
Wants == {w \in [kind : Kinds, addon : Addons \cup {""}] : w.kind = "update" <=> w.addon = ""}
Unfinished == {"queued", "running"}
Terminal == {"done", "failed"}
Working == {"begin", "wait", "work", "succeeded", "failing"}
Creating == {"record", "start"}

(* findOlderThan(dir, 60 s, 5): false for a directory that is not there.   *)
OlderThan5(j) == rec[j] \notin {"none", "gone"} /\ age[j] # "fresh"

(* The jobs a second click would follow.                                   *)
ActiveJobs == {j \in Jobs : /\ rec[j] \in Unfinished
                            /\ unit[j] = "active" \/ ~OlderThan5(j)}

Impossible(w) == \/ w.kind = "enable" /\ w.addon \in enabled
                 \/ w.kind = "disable" /\ w.addon \notin enabled


Init == /\ rec = [j \in Jobs |-> "none"]
        /\ age = [j \in Jobs |-> "fresh"]
        /\ want = [j \in Jobs |-> NoWant]
        /\ unit = [j \in Jobs |-> "none"]
        /\ run = [j \in Jobs |-> "idle"]
        /\ pc = [r \in Requests |-> "idle"]
        /\ asked = [r \in Requests |-> NoWant]
        /\ made = [r \in Requests |-> None]
        /\ mgr = None
        /\ op = None
        /\ enabled \in SUBSET Addons
        /\ pass = "idle"
        /\ todo = {}
        /\ checking = None

-----------------------------------------------------------------------------
(* createJob: the request.                                                 *)

Goto(r, place) == pc' = [pc EXCEPT ![r] = place]

(* The request has been answered, refused or killed.                       *)
Finish(r) == /\ Goto(r, "idle")
             /\ asked' = [asked EXCEPT ![r] = NoWant]
             /\ made' = [made EXCEPT ![r] = None]

(* rejectImpossible passes; it is not asked again under the lock.          *)
Ask(r, w) ==
  /\ pc[r] = "idle"
  /\ ~Impossible(w)
  /\ Goto(r, "look")
  /\ asked' = [asked EXCEPT ![r] = w]
  /\ UNCHANGED <<records, unit, run, made, mgr, op, enabled, repair>>

(* The unlocked look: answer with a job that is still going.               *)
Look(r) ==
  /\ pc[r] = "look"
  /\ \/ /\ ActiveJobs # {}
        /\ Finish(r)
     \/ /\ ActiveJobs = {}
        /\ Goto(r, "lock")
        /\ UNCHANGED <<asked, made>>
  /\ UNCHANGED <<records, unit, run, mgr, op, enabled, repair>>

TakeManagerLock(r) ==
  /\ pc[r] = "lock"
  /\ mgr = None
  /\ mgr' = r
  /\ Goto(r, "held")
  /\ UNCHANGED <<records, unit, run, asked, made, op, enabled, repair>>

ManagerLockTimeout(r) ==
  /\ pc[r] = "lock"
  /\ mgr # None
  /\ Finish(r)
  /\ UNCHANGED <<records, unit, run, mgr, op, enabled, repair>>

(* Changed form: the look is not repeated under the lock.                  *)
CreateUnlooked(r) ==
  /\ pc[r] = "held"
  /\ \E j \in Jobs :
       /\ rec[j] = "none"
       /\ rec' = [rec EXCEPT ![j] = "blank"]
       /\ age' = [age EXCEPT ![j] = "fresh"]
       /\ made' = [made EXCEPT ![r] = j]
  /\ Goto(r, "record")
  /\ UNCHANGED <<want, mgr, asked, unit, run, op, enabled, repair>>

(* The look under the lock, and the new record's directory.                *)
CreateOrFollow(r) ==
  /\ pc[r] = "held"
  /\ \/ /\ ActiveJobs # {}
        /\ Finish(r)
        /\ mgr' = None
        /\ UNCHANGED records
     \/ /\ ActiveJobs = {}
        /\ \E j \in Jobs :
             /\ rec[j] = "none"
             /\ rec' = [rec EXCEPT ![j] = "blank"]
             /\ age' = [age EXCEPT ![j] = "fresh"]
             /\ made' = [made EXCEPT ![r] = j]
        /\ Goto(r, "record")
        /\ UNCHANGED <<want, mgr, asked>>
  /\ UNCHANGED <<unit, run, op, enabled, repair>>

(* Changed form: the unit is started before the record says queued.        *)
QueueUnsaid(r) ==
  /\ pc[r] = "record"
  /\ want' = [want EXCEPT ![made[r]] = asked[r]]
  /\ Goto(r, "start")
  /\ UNCHANGED <<rec, age, unit, run, asked, made, mgr, op, enabled, repair>>

(* kind, addon, createdAt and, last of what others act on, state.          *)
Queue(r) ==
  /\ pc[r] = "record"
  /\ rec' = [rec EXCEPT ![made[r]] = "queued"]
  /\ age' = [age EXCEPT ![made[r]] = "fresh"]
  /\ want' = [want EXCEPT ![made[r]] = asked[r]]
  /\ Goto(r, "start")
  /\ UNCHANGED <<unit, run, asked, made, mgr, op, enabled, repair>>

(* systemd-run: the runner may begin before this returns.                  *)
StartUnit(r) ==
  /\ pc[r] = "start"
  /\ unit' = [unit EXCEPT ![made[r]] = "starting"]
  /\ run' = [run EXCEPT ![made[r]] = "begin"]
  /\ Goto(r, "started")
  /\ UNCHANGED <<records, asked, made, mgr, op, enabled, repair>>

(* systemd refused the unit: the record is removed and the request fails.  *)
StartRefused(r) ==
  /\ pc[r] = "start"
  /\ rec' = [rec EXCEPT ![made[r]] = "gone"]
  /\ mgr' = None
  /\ Finish(r)
  /\ UNCHANGED <<age, want, unit, run, op, enabled, repair>>

Answer(r) ==
  /\ pc[r] = "started"
  /\ mgr' = None
  /\ Finish(r)
  /\ UNCHANGED <<records, unit, run, op, enabled, repair>>

(* The action process dies; the kernel drops its flock.                    *)
RequestKilled(r) ==
  /\ pc[r] # "idle"
  /\ Finish(r)
  /\ mgr' = IF mgr = r THEN None ELSE mgr
  /\ UNCHANGED <<records, unit, run, op, enabled, repair>>

-----------------------------------------------------------------------------
(* The unit and its runner, runManagerJob.                                 *)

UnitVisible(j) ==
  /\ unit[j] = "starting"
  /\ unit' = [unit EXCEPT ![j] = "active"]
  /\ UNCHANGED <<records, run, requests, op, enabled, repair>>

RunnerBegins(j) ==
  /\ run[j] = "begin"
  /\ rec' = [rec EXCEPT ![j] = "running"]
  /\ age' = [age EXCEPT ![j] = "fresh"]
  /\ run' = [run EXCEPT ![j] = "wait"]
  /\ UNCHANGED <<want, unit, requests, op, enabled, repair>>

RunnerTakesLock(j) ==
  /\ run[j] = "wait"
  /\ op = None
  /\ op' = j
  /\ run' = [run EXCEPT ![j] = "work"]
  /\ UNCHANGED <<records, unit, requests, enabled, repair>>

RunnerLockTimeout(j) ==
  /\ run[j] = "wait"
  /\ op # None
  /\ run' = [run EXCEPT ![j] = "failing"]
  /\ UNCHANGED <<records, unit, requests, op, enabled, repair>>

(* A step the operation reports; most operations report none.              *)
RunnerReports(j) ==
  /\ run[j] = "work"
  /\ want[j].kind = "update"
  /\ age' = [age EXCEPT ![j] = "fresh"]
  /\ UNCHANGED <<rec, want, unit, run, requests, op, enabled, repair>>

Applied(w) == IF w.kind = "enable" THEN enabled \cup {w.addon}
              ELSE IF w.kind = "disable" THEN enabled \ {w.addon} ELSE enabled

(* The operation ends and lets go of the lock; one that fails may or may   *)
(* not have written the config file by then.                               *)
RunnerWorks(j) ==
  /\ run[j] = "work"
  /\ op' = None
  /\ \/ /\ run' = [run EXCEPT ![j] = "succeeded"]
        /\ enabled' = Applied(want[j])
     \/ /\ run' = [run EXCEPT ![j] = "failing"]
        /\ enabled' = enabled \/ enabled' = Applied(want[j])
  /\ UNCHANGED <<records, unit, requests, repair>>

(* Changed form: the outcome is recorded in words no reader knows.         *)
RunnerRecordsWords(j) ==
  /\ run[j] \in {"succeeded", "failing"}
  /\ rec' = [rec EXCEPT ![j] = run[j]]
  /\ age' = [age EXCEPT ![j] = "fresh"]
  /\ run' = [run EXCEPT ![j] = "exit"]
  /\ UNCHANGED <<want, unit, requests, op, enabled, repair>>

RunnerRecords(j) ==
  /\ run[j] \in {"succeeded", "failing"}
  /\ rec' = [rec EXCEPT ![j] = IF run[j] = "succeeded" THEN "done" ELSE "failed"]
  /\ age' = [age EXCEPT ![j] = "fresh"]
  /\ run' = [run EXCEPT ![j] = "exit"]
  /\ UNCHANGED <<want, unit, requests, op, enabled, repair>>

(* The process ends, on its own or killed; systemd collects the unit.      *)
RunnerEnds(j) ==
  /\ run[j] # "idle"
  /\ run' = [run EXCEPT ![j] = "idle"]
  /\ unit' = [unit EXCEPT ![j] = "none"]
  /\ op' = IF op = j THEN None ELSE op
  /\ UNCHANGED <<records, requests, enabled, repair>>

-----------------------------------------------------------------------------
(* Other operations, and repair's pass over the records (pruneJobs).       *)

ShellTakesLock(s) ==
  /\ op = None
  /\ op' = s
  /\ UNCHANGED <<records, unit, run, requests, enabled, repair>>

ShellWorks(s) ==
  /\ op = s
  /\ op' = None
  /\ \/ UNCHANGED enabled
     \/ \E a \in Addons : enabled' \in {enabled \cup {a}, enabled \ {a}}
  /\ UNCHANGED <<records, unit, run, requests, repair>>

RepairBegins ==
  /\ op = None
  /\ op' = Repair
  /\ pass' = "scan"
  /\ todo' = {j \in Jobs : rec[j] \notin {"none", "gone"}}
  /\ UNCHANGED <<records, unit, run, requests, enabled, checking>>

PassTo(place) == pass' = place /\ UNCHANGED <<todo, checking>>
NextRecord == pass' = "scan" /\ todo' = todo \ {checking} /\ checking' = None
NoPass == pass' = "idle" /\ todo' = {} /\ checking' = None

(* Changed form: only a running record can be stuck.                       *)
PruneReadsRunning(j) ==
  /\ pass = "scan"
  /\ j \in todo
  /\ checking' = j
  /\ pass' = IF rec[j] = "running" THEN "probe" ELSE "expire"
  /\ UNCHANGED <<records, unit, run, requests, op, enabled, todo>>

PruneReadsState(j) ==
  /\ pass = "scan"
  /\ j \in todo
  /\ checking' = j
  /\ pass' = IF rec[j] \in Unfinished THEN "probe" ELSE "expire"
  /\ UNCHANGED <<records, unit, run, requests, op, enabled, todo>>

(* Mutants: a job without a unit is stuck at once; a live job is checked    *)
(* for expiry all the same.                                                *)
PruneProbesOnly ==
  /\ pass = "probe"
  /\ \/ unit[checking] = "active" /\ NextRecord
     \/ unit[checking] # "active" /\ PassTo("mark")
  /\ UNCHANGED <<records, unit, run, requests, op, enabled>>

PruneProbesUnit ==
  /\ pass = "probe"
  /\ \/ unit[checking] = "active" /\ NextRecord
     \/ unit[checking] # "active" /\ PassTo("age")
  /\ UNCHANGED <<records, unit, run, requests, op, enabled>>

PruneReadsAge ==
  /\ pass = "age"
  /\ \/ OlderThan5(checking) /\ PassTo("mark")
     \/ ~OlderThan5(checking) /\ NextRecord
  /\ UNCHANGED <<records, unit, run, requests, op, enabled>>

PruneMarks ==
  /\ pass = "mark"
  /\ rec' = [rec EXCEPT ![checking] = "failed"]
  /\ age' = [age EXCEPT ![checking] = "fresh"]
  /\ PassTo("expire")
  /\ UNCHANGED <<want, unit, run, requests, op, enabled>>

PruneExpires ==
  /\ pass = "expire"
  /\ \/ age[checking] = "expired" /\ rec' = [rec EXCEPT ![checking] = "gone"]
     \/ age[checking] # "expired" /\ UNCHANGED rec
  /\ NextRecord
  /\ UNCHANGED <<age, want, unit, run, requests, op, enabled>>

RepairEnds ==
  /\ op = Repair
  /\ pass = "scan"
  /\ todo = {}
  /\ op' = None
  /\ NoPass
  /\ UNCHANGED <<records, unit, run, requests, enabled>>

(* Repair dies anywhere in its pass; the next one starts over.             *)
RepairKilled ==
  /\ op = Repair
  /\ op' = None
  /\ NoPass
  /\ UNCHANGED <<records, unit, run, requests, enabled>>

-----------------------------------------------------------------------------
(* Time and reboots.                                                       *)

BeingCreated(j) == \E r \in Requests : pc[r] \in Creating /\ made[r] = j
BeingChecked(j) == checking = j

Age(j) ==
  /\ rec[j] \notin {"none", "gone"}
  /\ ~BeingCreated(j)
  /\ unit[j] # "starting"
  /\ ~BeingChecked(j)
  /\ \/ age[j] = "fresh" /\ age' = [age EXCEPT ![j] = "old"]
     \/ age[j] = "old"   /\ age' = [age EXCEPT ![j] = "expired"]
  /\ UNCHANGED <<rec, want, unit, run, requests, op, enabled, repair>>

Reboot ==
  /\ unit' = [j \in Jobs |-> "none"]
  /\ run' = [j \in Jobs |-> "idle"]
  /\ pc' = [r \in Requests |-> "idle"]
  /\ asked' = [r \in Requests |-> NoWant]
  /\ made' = [r \in Requests |-> None]
  /\ mgr' = None
  /\ op' = None
  /\ NoPass
  /\ UNCHANGED <<records, enabled>>

RequestStep(r) == \/ \E w \in Wants : Ask(r, w)
                  \/ Look(r) \/ TakeManagerLock(r) \/ ManagerLockTimeout(r)
                  \/ CreateOrFollow(r) \/ Queue(r) \/ StartUnit(r) \/ StartRefused(r)
                  \/ Answer(r) \/ RequestKilled(r)

RunnerStep(j) == \/ RunnerBegins(j) \/ RunnerTakesLock(j) \/ RunnerLockTimeout(j)
                 \/ RunnerWorks(j) \/ RunnerRecords(j) \/ RunnerEnds(j)

RepairStep == \/ \E j \in Jobs : PruneReadsState(j)
              \/ PruneProbesUnit \/ PruneReadsAge \/ PruneMarks \/ PruneExpires \/ RepairEnds

Next == \/ \E r \in Requests : RequestStep(r)
        \/ \E j \in Jobs : RunnerStep(j) \/ UnitVisible(j) \/ RunnerReports(j) \/ Age(j)
        \/ \E s \in Shells : ShellTakesLock(s) \/ ShellWorks(s)
        \/ RepairBegins \/ RepairStep \/ RepairKilled
        \/ Reboot

Spec == Init /\ [][Next]_vars

(* A runner and a shell end one day, and a record ages, if only between    *)
(* two passes over it.  The reconcile timer gets the lock one day although *)
(* others take it too, and reboots and kills do not cut every pass short   *)
(* at the same step.                                                       *)
Checks(j) == checking = j /\ (PruneProbesUnit \/ PruneReadsAge \/ PruneMarks \/ PruneExpires)

FairSpec ==
  /\ Spec
  /\ \A j \in Jobs : WF_vars(RunnerStep(j)) /\ WF_vars(UnitVisible(j)) /\ SF_vars(Age(j))
  /\ \A s \in Shells : WF_vars(ShellWorks(s))
  /\ \A r \in Requests : WF_vars(pc[r] # "idle" /\ RequestStep(r))
  /\ SF_vars(RepairBegins) /\ SF_vars(RepairEnds)
  /\ \A j \in Jobs : /\ SF_vars(PruneReadsState(j))
                     /\ \A place \in {"probe", "age", "mark", "expire"} :
                          SF_vars(pass = place /\ Checks(j))

-----------------------------------------------------------------------------
TypeOK ==
  /\ rec \in [Jobs -> {"none", "blank", "gone"} \cup Unfinished \cup Terminal]
  /\ age \in [Jobs -> {"fresh", "old", "expired"}]
  /\ want \in [Jobs -> Wants \cup {NoWant}]
  /\ unit \in [Jobs -> {"none", "starting", "active"}]
  /\ run \in [Jobs -> {"idle", "exit"} \cup Working]
  /\ pc \in [Requests -> {"idle", "look", "lock", "held", "started"} \cup Creating]
  /\ asked \in [Requests -> Wants \cup {NoWant}]
  /\ made \in [Requests -> Jobs \cup {None}]
  /\ mgr \in Requests \cup {None}
  /\ op \in Jobs \cup Shells \cup {None, Repair}
  /\ enabled \subseteq Addons
  /\ pass \in {"idle", "scan", "probe", "age", "mark", "expire"}
  /\ todo \subseteq Jobs
  /\ checking \in Jobs \cup {None}

(* However the clicks, the lock's timeouts, the kills and repair           *)
(* interleave, at most one manager job has a runner that has not recorded  *)
(* its end: createJob's look under manager.lock sees every such job,       *)
(* whether or not systemd shows its unit yet.                              *)
OneRunner == \A i, j \in Jobs : run[i] \in Working /\ run[j] \in Working => i = j

(* Repair never writes "failed" over a job whose runner is alive, and such *)
(* a job is always one a second click would follow: activeManagerJob and   *)
(* pruneJobs agree on what "still going" means.                            *)
RunnerHasRecord ==
  \A j \in Jobs : run[j] \in Working => rec[j] \in Unfinished /\ j \in ActiveJobs

(* A finished job's outcome is never rewritten: not by a runner that       *)
(* starts late, nor by a repair that read the state before the runner      *)
(* wrote its end.  Only expiry removes it.                                 *)
OutcomeIsFinal == [][\A j \in Jobs : rec[j] \in Terminal => rec'[j] \in {rec[j], "gone"}]_rec

(* A record still queued or running is never removed by the retention      *)
(* (only systemd refusing its unit takes it away).                         *)
ExpiryTakesFinishedOnly ==
  [][\A j \in Jobs : rec[j] \in Unfinished /\ rec'[j] = "gone" => BeingCreated(j)]_vars

(* Once its request is out of the way a record that says queued or running *)
(* is told an end, whatever died: the page that follows it is never left   *)
(* waiting, and the record does not just vanish.                           *)
EveryJobEnds ==
  \A j \in Jobs : rec[j] \in Unfinished /\ ~BeingCreated(j) ~> rec[j] \in Terminal

(* The record as a page reads it, and the jobs with a runner, behave as    *)
(* OneJob promises: each step of a request, runner or repair is one of its *)
(* steps or changes nothing it shows.                                      *)
Shown == [j \in Jobs |-> IF rec[j] = "blank" THEN "none" ELSE rec[j]]
Live == {j \in Jobs : run[j] \in Working}
Service == INSTANCE OneJob WITH shown <- Shown, live <- Live
ImplementsOneJob == Service!Spec

-----------------------------------------------------------------------------
(* The proofs, for any number of jobs, action processes, addons and        *)
(* shells.  None of the properties is inductive.  What carries them is     *)
(* that "fresh" protects a record through the windows where systemd does   *)
(* not show its unit: the creating request holds manager.lock and keeps    *)
(* its record fresh until the unit starts, a starting unit's record is     *)
(* fresh, and repair acts on an age it read after the unit.                *)

CheckingPc == {"probe", "age", "mark", "expire"}

(* manager.lock is held from the look under it to the reply.               *)
LockHeld == \A r \in Requests : pc[r] \in {"held", "started"} \cup Creating => mgr = r

(* While a request makes a record, that record is fresh, nothing runs it   *)
(* yet, and no other job is running either.                                *)
CreatingAlone ==
  \A r \in Requests : pc[r] \in Creating =>
    /\ made[r] \in Jobs
    /\ rec[made[r]] = IF pc[r] = "record" THEN "blank" ELSE "queued"
    /\ age[made[r]] = "fresh"
    /\ unit[made[r]] = "none"
    /\ \A j \in Jobs : run[j] \notin Working

(* A runner that has not recorded its end has an unfinished record and a   *)
(* unit, and a unit systemd does not show yet has a fresh record.          *)
RunnerCovered ==
  \A j \in Jobs :
    /\ run[j] \in Working => /\ rec[j] = IF run[j] = "begin" THEN "queued" ELSE "running"
                             /\ unit[j] # "none"
    /\ run[j] = "work" => op = j
    /\ unit[j] = "starting" => age[j] = "fresh"
    /\ rec[j] = "none" => unit[j] = "none"

(* What repair has learnt of the record it is checking still holds when it *)
(* acts on it.                                                             *)
CheckSound ==
  /\ pass # "idle" => op = Repair
  /\ pass \in CheckingPc <=> checking # None
  /\ pass \in CheckingPc => checking \in Jobs
  /\ pass \in {"probe", "age"} =>
       \/ rec[checking] \in Unfinished \cup {"gone"}
       \/ rec[checking] \in Terminal /\ age[checking] = "fresh"
  /\ pass = "age" /\ run[checking] \in Working => age[checking] = "fresh"
  /\ pass = "mark" => /\ rec[checking] \in Unfinished
                          /\ age[checking] # "fresh"
                          /\ run[checking] \notin Working
  /\ pass = "expire" /\ rec[checking] \in Unfinished => age[checking] = "fresh"

IInv == TypeOK /\ OneRunner /\ LockHeld /\ CreatingAlone /\ RunnerCovered /\ CheckSound

(* Every step keeps the types: a state one handler writes is a state the   *)
(* others know how to read.                                                *)
LEMMA TypeInductive == TypeOK /\ [Next]_vars => TypeOK'
<1> SUFFICES ASSUME TypeOK, [Next]_vars PROVE TypeOK'
  OBVIOUS
<1> USE HoldersDistinct
<1>1. ASSUME NEW r \in Requests, NEW w \in Wants, Ask(r, w) PROVE TypeOK'
  BY <1>1 DEF TypeOK, records, requests, repair, Ask, Goto
<1>2. ASSUME NEW r \in Requests, Look(r) PROVE TypeOK'
  BY <1>2 DEF TypeOK, records, requests, repair, Unfinished, Look, Goto, Finish
<1>3. ASSUME NEW r \in Requests, TakeManagerLock(r) PROVE TypeOK'
  BY <1>3 DEF TypeOK, records, requests, repair, TakeManagerLock, Goto
<1>4. ASSUME NEW r \in Requests, ManagerLockTimeout(r) PROVE TypeOK'
  BY <1>4 DEF TypeOK, records, requests, repair, ManagerLockTimeout, Goto, Finish
<1>5. ASSUME NEW r \in Requests, CreateOrFollow(r) PROVE TypeOK'
  <2>1. CASE Finish(r) /\ mgr' = None /\ UNCHANGED records
    BY <1>5, <2>1 DEF TypeOK, records, repair, CreateOrFollow, Goto, Finish
  <2>2. ASSUME NEW j \in Jobs, rec' = [rec EXCEPT ![j] = "blank"],
    age' = [age EXCEPT ![j] = "fresh"],
               made' = [made EXCEPT ![r] = j], Goto(r, "record"), UNCHANGED <<want, mgr,
                 asked>>
        PROVE  TypeOK'
    BY <1>5, <2>2 DEF TypeOK, repair, Creating, CreateOrFollow, Goto
  <2>3. QED
    BY <1>5, <2>1, <2>2 DEF CreateOrFollow
<1>6. ASSUME NEW r \in Requests, Queue(r) PROVE TypeOK'
  BY <1>6 DEF TypeOK, records, requests, repair, Unfinished, Creating, Queue, Goto
<1>7. ASSUME NEW r \in Requests, StartUnit(r) PROVE TypeOK'
  BY <1>7 DEF TypeOK, records, requests, repair, Working, StartUnit, Goto
<1>8. ASSUME NEW r \in Requests, StartRefused(r) PROVE TypeOK'
  BY <1>8 DEF TypeOK, records, requests, repair, StartRefused, Goto, Finish
<1>9. ASSUME NEW r \in Requests, Answer(r) PROVE TypeOK'
  BY <1>9 DEF TypeOK, records, requests, repair, Answer, Goto, Finish
<1>10. ASSUME NEW r \in Requests, RequestKilled(r) PROVE TypeOK'
  BY <1>10 DEF TypeOK, records, requests, repair, RequestKilled, Goto, Finish
<1>11. ASSUME NEW j \in Jobs, UnitVisible(j) PROVE TypeOK'
  BY <1>11 DEF TypeOK, records, requests, repair, UnitVisible
<1>12. ASSUME NEW j \in Jobs, RunnerBegins(j) PROVE TypeOK'
  BY <1>12 DEF TypeOK, records, requests, repair, Unfinished, Working, RunnerBegins
<1>13. ASSUME NEW j \in Jobs, RunnerTakesLock(j) PROVE TypeOK'
  BY <1>13 DEF TypeOK, records, requests, repair, Working, RunnerTakesLock
<1>14. ASSUME NEW j \in Jobs, RunnerLockTimeout(j) PROVE TypeOK'
  BY <1>14 DEF TypeOK, records, requests, repair, Working, RunnerLockTimeout
<1>15. ASSUME NEW j \in Jobs, RunnerReports(j) PROVE TypeOK'
  BY <1>15 DEF TypeOK, records, requests, repair, RunnerReports
<1>16. ASSUME NEW j \in Jobs, RunnerWorks(j) PROVE TypeOK'
  <2>1. want[j].kind = "enable" => want[j].addon \in Addons
    <3>1. CASE want[j] \in Wants
      BY <3>1 DEF Wants
    <3>2. CASE want[j] = NoWant
      <4>1. NoWant.kind = "update"
        BY DEF NoWant
      <4>2. QED
        BY <3>2, <4>1
    <3>3. QED
      BY <3>1, <3>2 DEF TypeOK
  <2>2. Applied(want[j]) \subseteq Addons
    BY <2>1 DEF TypeOK, Applied
  <2>3. enabled' \subseteq Addons
    BY <1>16, <2>2 DEF RunnerWorks, TypeOK
  <2>4. QED
    BY <1>16, <2>3 DEF TypeOK, records, requests, repair, Working, RunnerWorks
<1>17. ASSUME NEW j \in Jobs, RunnerRecords(j) PROVE TypeOK'
  BY <1>17 DEF TypeOK, records, requests, repair, Terminal, RunnerRecords
<1>18. ASSUME NEW j \in Jobs, RunnerEnds(j) PROVE TypeOK'
  BY <1>18 DEF TypeOK, records, requests, repair, RunnerEnds
<1>19. ASSUME NEW j \in Jobs, PruneReadsState(j) PROVE TypeOK'
  BY <1>19 DEF TypeOK, records, requests, repair, PruneReadsState
<1>20. ASSUME NEW j \in Jobs, Age(j) PROVE TypeOK'
  BY <1>20 DEF TypeOK, records, requests, repair, Unfinished, Age
<1>21. ASSUME NEW s \in Shells, ShellTakesLock(s) PROVE TypeOK'
  BY <1>21 DEF TypeOK, records, requests, repair, ShellTakesLock
<1>22. ASSUME NEW s \in Shells, ShellWorks(s) PROVE TypeOK'
  BY <1>22 DEF TypeOK, records, requests, repair, ShellWorks
<1>23. CASE RepairBegins
  BY <1>23 DEF TypeOK, records, requests, repair, RepairBegins
<1>24. CASE PruneProbesUnit
  BY <1>24 DEF TypeOK, records, requests, repair, PruneProbesUnit, NextRecord, PassTo
<1>25. CASE PruneReadsAge
  BY <1>25 DEF TypeOK, records, requests, repair, PruneReadsAge, NextRecord, PassTo
<1>26. CASE PruneMarks
  BY <1>26 DEF TypeOK, records, requests, repair, Terminal, PruneMarks, PassTo
<1>27. CASE PruneExpires
  BY <1>27 DEF TypeOK, records, requests, repair, PruneExpires, NextRecord
<1>28. CASE RepairEnds
  BY <1>28 DEF TypeOK, records, requests, repair, RepairEnds, NoPass
<1>29. CASE RepairKilled
  BY <1>29 DEF TypeOK, records, requests, repair, RepairKilled, NoPass
<1>30. CASE Reboot
  BY <1>30 DEF TypeOK, records, requests, repair, Reboot, NoPass
<1>31. CASE UNCHANGED vars
  BY <1>31 DEF TypeOK, records, requests, repair, NoWant, vars
<1>32. QED
  BY <1>1, <1>2, <1>3, <1>4, <1>5, <1>6, <1>7, <1>8, <1>9, <1>10, <1>11, <1>12, <1>13,
     <1>14, <1>15, <1>16, <1>17, <1>18, <1>19, <1>20, <1>21, <1>22, <1>23, <1>24, <1>25,
     <1>26, <1>27, <1>28, <1>29, <1>30, <1>31
  DEF Next, RequestStep, RunnerStep, RepairStep

(* Between its look under manager.lock and its reply a request holds it.    *)
LEMMA LockHeldInductive == TypeOK /\ LockHeld /\ [Next]_vars => LockHeld'
<1> SUFFICES ASSUME TypeOK, LockHeld, [Next]_vars PROVE LockHeld'
  OBVIOUS
<1> USE HoldersDistinct
<1>1. ASSUME NEW r \in Requests, NEW w \in Wants, Ask(r, w) PROVE LockHeld'
  BY <1>1 DEF LockHeld, Creating, Ask, Goto
<1>2. ASSUME NEW r \in Requests, Look(r) PROVE LockHeld'
  BY <1>2 DEF TypeOK, LockHeld, Creating, Look, Goto, Finish
<1>3. ASSUME NEW r \in Requests, TakeManagerLock(r) PROVE LockHeld'
  BY <1>3 DEF LockHeld, TakeManagerLock, Goto
<1>4. ASSUME NEW r \in Requests, ManagerLockTimeout(r) PROVE LockHeld'
  BY <1>4 DEF LockHeld, Creating, ManagerLockTimeout, Goto, Finish
<1>5. ASSUME NEW r \in Requests, CreateOrFollow(r) PROVE LockHeld'
  BY <1>5 DEF TypeOK, LockHeld, Creating, CreateOrFollow, Goto, Finish
<1>6. ASSUME NEW r \in Requests, Queue(r) PROVE LockHeld'
  BY <1>6 DEF LockHeld, Creating, Queue, Goto
<1>7. ASSUME NEW r \in Requests, StartUnit(r) PROVE LockHeld'
  BY <1>7 DEF LockHeld, Creating, StartUnit, Goto
<1>8. ASSUME NEW r \in Requests, StartRefused(r) PROVE LockHeld'
  BY <1>8 DEF TypeOK, LockHeld, Creating, records, requests, StartRefused, Goto, Finish
<1>9. ASSUME NEW r \in Requests, Answer(r) PROVE LockHeld'
  BY <1>9 DEF TypeOK, LockHeld, Creating, Answer, Goto, Finish
<1>10. ASSUME NEW r \in Requests, RequestKilled(r) PROVE LockHeld'
  BY <1>10 DEF TypeOK, LockHeld, Creating, RequestKilled, Goto, Finish
<1>11. ASSUME NEW j \in Jobs, UnitVisible(j) PROVE LockHeld'
  BY <1>11 DEF LockHeld, requests, UnitVisible
<1>12. ASSUME NEW j \in Jobs, RunnerBegins(j) PROVE LockHeld'
  BY <1>12 DEF LockHeld, requests, RunnerBegins
<1>13. ASSUME NEW j \in Jobs, RunnerTakesLock(j) PROVE LockHeld'
  BY <1>13 DEF LockHeld, requests, RunnerTakesLock
<1>14. ASSUME NEW j \in Jobs, RunnerLockTimeout(j) PROVE LockHeld'
  BY <1>14 DEF LockHeld, requests, RunnerLockTimeout
<1>15. ASSUME NEW j \in Jobs, RunnerReports(j) PROVE LockHeld'
  BY <1>15 DEF LockHeld, requests, RunnerReports
<1>16. ASSUME NEW j \in Jobs, RunnerWorks(j) PROVE LockHeld'
  BY <1>16 DEF LockHeld, requests, RunnerWorks
<1>17. ASSUME NEW j \in Jobs, RunnerRecords(j) PROVE LockHeld'
  BY <1>17 DEF LockHeld, requests, RunnerRecords
<1>18. ASSUME NEW j \in Jobs, RunnerEnds(j) PROVE LockHeld'
  BY <1>18 DEF LockHeld, requests, RunnerEnds
<1>19. ASSUME NEW j \in Jobs, PruneReadsState(j) PROVE LockHeld'
  BY <1>19 DEF LockHeld, requests, PruneReadsState
<1>20. ASSUME NEW j \in Jobs, Age(j) PROVE LockHeld'
  BY <1>20 DEF LockHeld, requests, Age
<1>21. ASSUME NEW s \in Shells, ShellTakesLock(s) PROVE LockHeld'
  BY <1>21 DEF LockHeld, requests, ShellTakesLock
<1>22. ASSUME NEW s \in Shells, ShellWorks(s) PROVE LockHeld'
  BY <1>22 DEF LockHeld, requests, ShellWorks
<1>23. CASE RepairBegins
  BY <1>23 DEF LockHeld, requests, RepairBegins
<1>24. CASE PruneProbesUnit
  BY <1>24 DEF LockHeld, requests, PruneProbesUnit
<1>25. CASE PruneReadsAge
  BY <1>25 DEF LockHeld, requests, PruneReadsAge
<1>26. CASE PruneMarks
  BY <1>26 DEF LockHeld, requests, PruneMarks
<1>27. CASE PruneExpires
  BY <1>27 DEF LockHeld, requests, PruneExpires
<1>28. CASE RepairEnds
  BY <1>28 DEF LockHeld, requests, RepairEnds
<1>29. CASE RepairKilled
  BY <1>29 DEF LockHeld, requests, RepairKilled
<1>30. CASE Reboot
  BY <1>30 DEF LockHeld, Creating, Reboot
<1>31. CASE UNCHANGED vars
  BY <1>31 DEF LockHeld, vars
<1>32. QED
  BY <1>1, <1>2, <1>3, <1>4, <1>5, <1>6, <1>7, <1>8, <1>9, <1>10, <1>11, <1>12, <1>13,
     <1>14, <1>15, <1>16, <1>17, <1>18, <1>19, <1>20, <1>21, <1>22, <1>23, <1>24, <1>25,
     <1>26, <1>27, <1>28, <1>29, <1>30, <1>31
  DEF Next, RequestStep, RunnerStep, RepairStep

(* Only a request that is making a record starts a runner, and nothing     *)
(* runs while it does.                                                     *)
LEMMA OneRunnerInductive == TypeOK /\ CreatingAlone /\ OneRunner /\ [Next]_vars => OneRunner'
<1> SUFFICES ASSUME TypeOK, CreatingAlone, OneRunner, [Next]_vars PROVE OneRunner'
  OBVIOUS
<1> USE HoldersDistinct
<1>1. ASSUME NEW r \in Requests, NEW w \in Wants, Ask(r, w) PROVE OneRunner'
  BY <1>1 DEF OneRunner, Ask
<1>2. ASSUME NEW r \in Requests, Look(r) PROVE OneRunner'
  BY <1>2 DEF OneRunner, Look
<1>3. ASSUME NEW r \in Requests, TakeManagerLock(r) PROVE OneRunner'
  BY <1>3 DEF OneRunner, TakeManagerLock
<1>4. ASSUME NEW r \in Requests, ManagerLockTimeout(r) PROVE OneRunner'
  BY <1>4 DEF OneRunner, ManagerLockTimeout
<1>5. ASSUME NEW r \in Requests, CreateOrFollow(r) PROVE OneRunner'
  BY <1>5 DEF OneRunner, CreateOrFollow
<1>6. ASSUME NEW r \in Requests, Queue(r) PROVE OneRunner'
  BY <1>6 DEF OneRunner, Queue
<1>7. ASSUME NEW r \in Requests, StartUnit(r) PROVE OneRunner'
  BY <1>7 DEF OneRunner, CreatingAlone, Creating, StartUnit
<1>8. ASSUME NEW r \in Requests, StartRefused(r) PROVE OneRunner'
  BY <1>8 DEF OneRunner, StartRefused
<1>9. ASSUME NEW r \in Requests, Answer(r) PROVE OneRunner'
  BY <1>9 DEF OneRunner, Answer
<1>10. ASSUME NEW r \in Requests, RequestKilled(r) PROVE OneRunner'
  BY <1>10 DEF OneRunner, RequestKilled
<1>11. ASSUME NEW j \in Jobs, UnitVisible(j) PROVE OneRunner'
  BY <1>11 DEF OneRunner, UnitVisible
<1>12. ASSUME NEW j \in Jobs, RunnerBegins(j) PROVE OneRunner'
  BY <1>12 DEF OneRunner, Working, RunnerBegins
<1>13. ASSUME NEW j \in Jobs, RunnerTakesLock(j) PROVE OneRunner'
  BY <1>13 DEF OneRunner, Working, RunnerTakesLock
<1>14. ASSUME NEW j \in Jobs, RunnerLockTimeout(j) PROVE OneRunner'
  BY <1>14 DEF OneRunner, Working, RunnerLockTimeout
<1>15. ASSUME NEW j \in Jobs, RunnerReports(j) PROVE OneRunner'
  BY <1>15 DEF OneRunner, RunnerReports
<1>16. ASSUME NEW j \in Jobs, RunnerWorks(j) PROVE OneRunner'
  BY <1>16 DEF TypeOK, OneRunner, RunnerWorks
<1>17. ASSUME NEW j \in Jobs, RunnerRecords(j) PROVE OneRunner'
  BY <1>17 DEF OneRunner, Working, RunnerRecords
<1>18. ASSUME NEW j \in Jobs, RunnerEnds(j) PROVE OneRunner'
  BY <1>18 DEF OneRunner, Working, RunnerEnds
<1>19. ASSUME NEW j \in Jobs, PruneReadsState(j) PROVE OneRunner'
  BY <1>19 DEF OneRunner, PruneReadsState
<1>20. ASSUME NEW j \in Jobs, Age(j) PROVE OneRunner'
  BY <1>20 DEF OneRunner, Age
<1>21. ASSUME NEW s \in Shells, ShellTakesLock(s) PROVE OneRunner'
  BY <1>21 DEF OneRunner, ShellTakesLock
<1>22. ASSUME NEW s \in Shells, ShellWorks(s) PROVE OneRunner'
  BY <1>22 DEF OneRunner, ShellWorks
<1>23. CASE RepairBegins
  BY <1>23 DEF OneRunner, RepairBegins
<1>24. CASE PruneProbesUnit
  BY <1>24 DEF OneRunner, PruneProbesUnit
<1>25. CASE PruneReadsAge
  BY <1>25 DEF OneRunner, PruneReadsAge
<1>26. CASE PruneMarks
  BY <1>26 DEF OneRunner, PruneMarks
<1>27. CASE PruneExpires
  BY <1>27 DEF OneRunner, PruneExpires
<1>28. CASE RepairEnds
  BY <1>28 DEF OneRunner, RepairEnds
<1>29. CASE RepairKilled
  BY <1>29 DEF OneRunner, RepairKilled
<1>30. CASE Reboot
  BY <1>30 DEF OneRunner, Working, Reboot
<1>31. CASE UNCHANGED vars
  BY <1>31 DEF OneRunner, vars
<1>32. QED
  BY <1>1, <1>2, <1>3, <1>4, <1>5, <1>6, <1>7, <1>8, <1>9, <1>10, <1>11, <1>12, <1>13,
     <1>14, <1>15, <1>16, <1>17, <1>18, <1>19, <1>20, <1>21, <1>22, <1>23, <1>24, <1>25,
     <1>26, <1>27, <1>28, <1>29, <1>30, <1>31
  DEF Next, RequestStep, RunnerStep, RepairStep

(* The look under the lock finds no active job, so no runner is left; and  *)
(* nothing else writes, ages or expires the record while it is made.       *)
LEMMA CreatingAloneInductive ==
  TypeOK /\ LockHeld /\ CreatingAlone /\ RunnerCovered /\ CheckSound /\ [Next]_vars
    => CreatingAlone'
<1> SUFFICES ASSUME TypeOK, LockHeld, CreatingAlone, RunnerCovered, CheckSound,
  [Next]_vars PROVE CreatingAlone'
  OBVIOUS
<1> USE HoldersDistinct
<1>1. ASSUME NEW r \in Requests, NEW w \in Wants, Ask(r, w) PROVE CreatingAlone'
  BY <1>1 DEF CreatingAlone, Creating, records, Ask, Goto
<1>2. ASSUME NEW r \in Requests, Look(r) PROVE CreatingAlone'
  BY <1>2 DEF TypeOK, CreatingAlone, Creating, records, Look, Goto, Finish
<1>3. ASSUME NEW r \in Requests, TakeManagerLock(r) PROVE CreatingAlone'
  BY <1>3 DEF CreatingAlone, Creating, records, TakeManagerLock, Goto
<1>4. ASSUME NEW r \in Requests, ManagerLockTimeout(r) PROVE CreatingAlone'
  BY <1>4 DEF CreatingAlone, Creating, records, ManagerLockTimeout, Goto, Finish
<1>5. ASSUME NEW r \in Requests, CreateOrFollow(r) PROVE CreatingAlone'
  BY <1>5 DEF TypeOK, CreatingAlone, RunnerCovered, Creating, Terminal, ActiveJobs,
     OlderThan5, records, CreateOrFollow, Goto, Finish
<1>6. ASSUME NEW r \in Requests, Queue(r) PROVE CreatingAlone'
  BY <1>6 DEF TypeOK, LockHeld, CreatingAlone, Creating, Queue, Goto
<1>7. ASSUME NEW r \in Requests, StartUnit(r) PROVE CreatingAlone'
  BY <1>7 DEF TypeOK, LockHeld, CreatingAlone, Creating, StartUnit, Goto
<1>8. ASSUME NEW r \in Requests, StartRefused(r) PROVE CreatingAlone'
  BY <1>8 DEF TypeOK, LockHeld, CreatingAlone, Creating, StartRefused, Goto, Finish
<1>9. ASSUME NEW r \in Requests, Answer(r) PROVE CreatingAlone'
  BY <1>9 DEF CreatingAlone, Creating, records, Answer, Goto, Finish
<1>10. ASSUME NEW r \in Requests, RequestKilled(r) PROVE CreatingAlone'
  BY <1>10 DEF TypeOK, CreatingAlone, Creating, records, RequestKilled, Goto, Finish
<1>11. ASSUME NEW j \in Jobs, UnitVisible(j) PROVE CreatingAlone'
  BY <1>11 DEF CreatingAlone, Creating, records, requests, UnitVisible
<1>12. ASSUME NEW j \in Jobs, RunnerBegins(j) PROVE CreatingAlone'
  BY <1>12 DEF CreatingAlone, Creating, Working, requests, RunnerBegins
<1>13. ASSUME NEW j \in Jobs, RunnerTakesLock(j) PROVE CreatingAlone'
  BY <1>13 DEF CreatingAlone, Creating, Working, requests, RunnerTakesLock
<1>14. ASSUME NEW j \in Jobs, RunnerLockTimeout(j) PROVE CreatingAlone'
  BY <1>14 DEF CreatingAlone, Creating, Working, requests, RunnerLockTimeout
<1>15. ASSUME NEW j \in Jobs, RunnerReports(j) PROVE CreatingAlone'
  BY <1>15 DEF CreatingAlone, Creating, requests, RunnerReports
<1>16. ASSUME NEW j \in Jobs, RunnerWorks(j) PROVE CreatingAlone'
  BY <1>16 DEF CreatingAlone, Creating, Working, requests, RunnerWorks
<1>17. ASSUME NEW j \in Jobs, RunnerRecords(j) PROVE CreatingAlone'
  BY <1>17 DEF CreatingAlone, Creating, Working, requests, RunnerRecords
<1>18. ASSUME NEW j \in Jobs, RunnerEnds(j) PROVE CreatingAlone'
  BY <1>18 DEF CreatingAlone, Creating, Working, records, requests, RunnerEnds
<1>19. ASSUME NEW j \in Jobs, PruneReadsState(j) PROVE CreatingAlone'
  BY <1>19 DEF CreatingAlone, Creating, records, requests, PruneReadsState
<1>20. ASSUME NEW j \in Jobs, Age(j) PROVE CreatingAlone'
  BY <1>20 DEF TypeOK, CreatingAlone, Creating, requests, Age, BeingCreated
<1>21. ASSUME NEW s \in Shells, ShellTakesLock(s) PROVE CreatingAlone'
  BY <1>21 DEF CreatingAlone, Creating, records, requests, ShellTakesLock
<1>22. ASSUME NEW s \in Shells, ShellWorks(s) PROVE CreatingAlone'
  BY <1>22 DEF CreatingAlone, Creating, records, requests, ShellWorks
<1>23. CASE RepairBegins
  BY <1>23 DEF CreatingAlone, records, requests, RepairBegins
<1>24. CASE PruneProbesUnit
  BY <1>24 DEF CreatingAlone, records, requests, PruneProbesUnit
<1>25. CASE PruneReadsAge
  BY <1>25 DEF CreatingAlone, records, requests, PruneReadsAge
<1>26. CASE PruneMarks
  BY <1>26 DEF CreatingAlone, CheckSound, requests, PruneMarks
<1>27. CASE PruneExpires
  BY <1>27 DEF TypeOK, CreatingAlone, requests, PruneExpires
<1>28. CASE RepairEnds
  BY <1>28 DEF CreatingAlone, records, requests, RepairEnds
<1>29. CASE RepairKilled
  BY <1>29 DEF CreatingAlone, records, requests, RepairKilled
<1>30. CASE Reboot
  BY <1>30 DEF CreatingAlone, Creating, Reboot
<1>31. CASE UNCHANGED vars
  BY <1>31 DEF CreatingAlone, vars
<1>32. QED
  BY <1>1, <1>2, <1>3, <1>4, <1>5, <1>6, <1>7, <1>8, <1>9, <1>10, <1>11, <1>12, <1>13,
     <1>14, <1>15, <1>16, <1>17, <1>18, <1>19, <1>20, <1>21, <1>22, <1>23, <1>24, <1>25,
     <1>26, <1>27, <1>28, <1>29, <1>30, <1>31
  DEF Next, RequestStep, RunnerStep, RepairStep

(* Repair marks only a record without a runner, and expires no unfinished   *)
(* one.                                                                    *)
LEMMA RunnerCoveredInductive ==
  TypeOK /\ CreatingAlone /\ RunnerCovered /\ CheckSound /\ [Next]_vars => RunnerCovered'
<1> SUFFICES ASSUME TypeOK, CreatingAlone, RunnerCovered, CheckSound,
  [Next]_vars PROVE RunnerCovered'
  OBVIOUS
<1> USE HoldersDistinct
<1>1. ASSUME NEW r \in Requests, NEW w \in Wants, Ask(r, w) PROVE RunnerCovered'
  BY <1>1 DEF RunnerCovered, records, Ask
<1>2. ASSUME NEW r \in Requests, Look(r) PROVE RunnerCovered'
  BY <1>2 DEF RunnerCovered, records, Look
<1>3. ASSUME NEW r \in Requests, TakeManagerLock(r) PROVE RunnerCovered'
  BY <1>3 DEF RunnerCovered, records, TakeManagerLock
<1>4. ASSUME NEW r \in Requests, ManagerLockTimeout(r) PROVE RunnerCovered'
  BY <1>4 DEF RunnerCovered, records, ManagerLockTimeout
<1>5. ASSUME NEW r \in Requests, CreateOrFollow(r) PROVE RunnerCovered'
  BY <1>5 DEF TypeOK, RunnerCovered, records, CreateOrFollow
<1>6. ASSUME NEW r \in Requests, Queue(r) PROVE RunnerCovered'
  BY <1>6 DEF CreatingAlone, RunnerCovered, Creating, Queue
<1>7. ASSUME NEW r \in Requests, StartUnit(r) PROVE RunnerCovered'
  BY <1>7 DEF TypeOK, CreatingAlone, RunnerCovered, records, StartUnit
<1>8. ASSUME NEW r \in Requests, StartRefused(r) PROVE RunnerCovered'
  BY <1>8 DEF CreatingAlone, RunnerCovered, Creating, StartRefused
<1>9. ASSUME NEW r \in Requests, Answer(r) PROVE RunnerCovered'
  BY <1>9 DEF RunnerCovered, records, Answer
<1>10. ASSUME NEW r \in Requests, RequestKilled(r) PROVE RunnerCovered'
  BY <1>10 DEF RunnerCovered, records, RequestKilled
<1>11. ASSUME NEW j \in Jobs, UnitVisible(j) PROVE RunnerCovered'
  BY <1>11 DEF RunnerCovered, records, UnitVisible
<1>12. ASSUME NEW j \in Jobs, RunnerBegins(j) PROVE RunnerCovered'
  BY <1>12 DEF TypeOK, RunnerCovered, RunnerBegins
<1>13. ASSUME NEW j \in Jobs, RunnerTakesLock(j) PROVE RunnerCovered'
  BY <1>13 DEF RunnerCovered, Working, records, RunnerTakesLock
<1>14. ASSUME NEW j \in Jobs, RunnerLockTimeout(j) PROVE RunnerCovered'
  BY <1>14 DEF RunnerCovered, Working, records, RunnerLockTimeout
<1>15. ASSUME NEW j \in Jobs, RunnerReports(j) PROVE RunnerCovered'
  BY <1>15 DEF RunnerCovered, RunnerReports
<1>16. ASSUME NEW j \in Jobs, RunnerWorks(j) PROVE RunnerCovered'
  BY <1>16 DEF TypeOK, RunnerCovered, records, RunnerWorks
<1>17. ASSUME NEW j \in Jobs, RunnerRecords(j) PROVE RunnerCovered'
  BY <1>17 DEF TypeOK, RunnerCovered, Working, RunnerRecords
<1>18. ASSUME NEW j \in Jobs, RunnerEnds(j) PROVE RunnerCovered'
  BY <1>18 DEF TypeOK, RunnerCovered, Working, records, RunnerEnds
<1>19. ASSUME NEW j \in Jobs, PruneReadsState(j) PROVE RunnerCovered'
  BY <1>19 DEF RunnerCovered, records, PruneReadsState
<1>20. ASSUME NEW j \in Jobs, Age(j) PROVE RunnerCovered'
  BY <1>20 DEF TypeOK, RunnerCovered, Age
<1>21. ASSUME NEW s \in Shells, ShellTakesLock(s) PROVE RunnerCovered'
  BY <1>21 DEF RunnerCovered, records, ShellTakesLock
<1>22. ASSUME NEW s \in Shells, ShellWorks(s) PROVE RunnerCovered'
  BY <1>22 DEF RunnerCovered, records, ShellWorks
<1>23. CASE RepairBegins
  BY <1>23 DEF RunnerCovered, records, RepairBegins
<1>24. CASE PruneProbesUnit
  BY <1>24 DEF RunnerCovered, records, PruneProbesUnit
<1>25. CASE PruneReadsAge
  BY <1>25 DEF RunnerCovered, records, PruneReadsAge
<1>26. CASE PruneMarks
  BY <1>26 DEF RunnerCovered, CheckSound, PruneMarks
<1>27. CASE PruneExpires
  BY <1>27 DEF TypeOK, RunnerCovered, CheckSound, Terminal, PruneExpires
<1>28. CASE RepairEnds
  BY <1>28 DEF RunnerCovered, records, RepairEnds
<1>29. CASE RepairKilled
  BY <1>29 DEF RunnerCovered, records, RepairKilled
<1>30. CASE Reboot
  BY <1>30 DEF RunnerCovered, Working, Reboot
<1>31. CASE UNCHANGED vars
  BY <1>31 DEF RunnerCovered, vars
<1>32. QED
  BY <1>1, <1>2, <1>3, <1>4, <1>5, <1>6, <1>7, <1>8, <1>9, <1>10, <1>11, <1>12, <1>13,
     <1>14, <1>15, <1>16, <1>17, <1>18, <1>19, <1>20, <1>21, <1>22, <1>23, <1>24, <1>25,
     <1>26, <1>27, <1>28, <1>29, <1>30, <1>31
  DEF Next, RequestStep, RunnerStep, RepairStep

(* What repair read stays true while others work: a job that starts or     *)
(* ends meanwhile makes its record fresh.                                  *)
LEMMA CheckSoundInductive ==
  TypeOK /\ CreatingAlone /\ RunnerCovered /\ CheckSound /\ [Next]_vars => CheckSound'
<1> SUFFICES ASSUME TypeOK, CreatingAlone, RunnerCovered, CheckSound,
  [Next]_vars PROVE CheckSound'
  OBVIOUS
<1> USE HoldersDistinct
<1>1. ASSUME NEW r \in Requests, NEW w \in Wants, Ask(r, w) PROVE CheckSound'
  BY <1>1 DEF CheckSound, records, repair, Ask
<1>2. ASSUME NEW r \in Requests, Look(r) PROVE CheckSound'
  BY <1>2 DEF CheckSound, records, repair, Look
<1>3. ASSUME NEW r \in Requests, TakeManagerLock(r) PROVE CheckSound'
  BY <1>3 DEF CheckSound, records, repair, TakeManagerLock
<1>4. ASSUME NEW r \in Requests, ManagerLockTimeout(r) PROVE CheckSound'
  BY <1>4 DEF CheckSound, records, repair, ManagerLockTimeout
<1>5. ASSUME NEW r \in Requests, CreateOrFollow(r) PROVE CheckSound'
  BY <1>5 DEF TypeOK, CheckSound, CheckingPc, Unfinished, Terminal, records, repair,
     CreateOrFollow
<1>6. ASSUME NEW r \in Requests, Queue(r) PROVE CheckSound'
  BY <1>6 DEF CreatingAlone, CheckSound, Creating, Unfinished, repair, Queue
<1>7. ASSUME NEW r \in Requests, StartUnit(r) PROVE CheckSound'
  BY <1>7 DEF CreatingAlone, CheckSound, Creating, records, repair, StartUnit
<1>8. ASSUME NEW r \in Requests, StartRefused(r) PROVE CheckSound'
  BY <1>8 DEF CreatingAlone, CheckSound, Creating, repair, StartRefused
<1>9. ASSUME NEW r \in Requests, Answer(r) PROVE CheckSound'
  BY <1>9 DEF CheckSound, records, repair, Answer
<1>10. ASSUME NEW r \in Requests, RequestKilled(r) PROVE CheckSound'
  BY <1>10 DEF CheckSound, records, repair, RequestKilled
<1>11. ASSUME NEW j \in Jobs, UnitVisible(j) PROVE CheckSound'
  BY <1>11 DEF CheckSound, records, repair, UnitVisible
<1>12. ASSUME NEW j \in Jobs, RunnerBegins(j) PROVE CheckSound'
  BY <1>12 DEF RunnerCovered, CheckSound, Working, Unfinished, repair, RunnerBegins
<1>13. ASSUME NEW j \in Jobs, RunnerTakesLock(j) PROVE CheckSound'
  BY <1>13 DEF CheckSound, repair, RunnerTakesLock
<1>14. ASSUME NEW j \in Jobs, RunnerLockTimeout(j) PROVE CheckSound'
  BY <1>14 DEF CheckSound, Working, records, repair, RunnerLockTimeout
<1>15. ASSUME NEW j \in Jobs, RunnerReports(j) PROVE CheckSound'
  BY <1>15 DEF CheckSound, Working, repair, RunnerReports
<1>16. ASSUME NEW j \in Jobs, RunnerWorks(j) PROVE CheckSound'
  BY <1>16 DEF RunnerCovered, CheckSound, repair, RunnerWorks
<1>17. ASSUME NEW j \in Jobs, RunnerRecords(j) PROVE CheckSound'
  BY <1>17 DEF TypeOK, CheckSound, Terminal, repair, RunnerRecords
<1>18. ASSUME NEW j \in Jobs, RunnerEnds(j) PROVE CheckSound'
  BY <1>18 DEF CheckSound, Working, records, repair, RunnerEnds
<1>19. ASSUME NEW j \in Jobs, PruneReadsState(j) PROVE CheckSound'
  BY <1>19 DEF CheckSound, CheckingPc, records, PruneReadsState
<1>20. ASSUME NEW j \in Jobs, Age(j) PROVE CheckSound'
  BY <1>20 DEF TypeOK, CheckSound, CheckingPc, repair, Age, BeingChecked
<1>21. ASSUME NEW s \in Shells, ShellTakesLock(s) PROVE CheckSound'
  BY <1>21 DEF CheckSound, repair, ShellTakesLock
<1>22. ASSUME NEW s \in Shells, ShellWorks(s) PROVE CheckSound'
  BY <1>22 DEF CheckSound, repair, ShellWorks
<1>23. CASE RepairBegins
  BY <1>23 DEF CheckSound, CheckingPc, RepairBegins
<1>24. CASE PruneProbesUnit
  BY <1>24 DEF TypeOK, RunnerCovered, CheckSound, CheckingPc, records, PruneProbesUnit,
     NextRecord, PassTo
<1>25. CASE PruneReadsAge
  BY <1>25 DEF CheckSound, CheckingPc, OlderThan5, records, PruneReadsAge, NextRecord,
     PassTo
<1>26. CASE PruneMarks
  BY <1>26 DEF TypeOK, CheckSound, CheckingPc, PruneMarks, PassTo
<1>27. CASE PruneExpires
  BY <1>27 DEF CheckSound, CheckingPc, PruneExpires, NextRecord
<1>28. CASE RepairEnds
  BY <1>28 DEF CheckSound, CheckingPc, RepairEnds, NoPass
<1>29. CASE RepairKilled
  BY <1>29 DEF CheckSound, CheckingPc, RepairKilled, NoPass
<1>30. CASE Reboot
  BY <1>30 DEF CheckSound, CheckingPc, Reboot, NoPass
<1>31. CASE UNCHANGED vars
  BY <1>31 DEF CheckSound, vars
<1>32. QED
  BY <1>1, <1>2, <1>3, <1>4, <1>5, <1>6, <1>7, <1>8, <1>9, <1>10, <1>11, <1>12, <1>13,
     <1>14, <1>15, <1>16, <1>17, <1>18, <1>19, <1>20, <1>21, <1>22, <1>23, <1>24, <1>25,
     <1>26, <1>27, <1>28, <1>29, <1>30, <1>31
  DEF Next, RequestStep, RunnerStep, RepairStep

(* The strengthening, for every reachable state.                           *)
THEOREM InvHolds == Spec => []IInv
<1>1. Init => IInv
  <2> SUFFICES ASSUME Init PROVE IInv
    OBVIOUS
  <2> USE HoldersDistinct DEF Init
  <2>1. TypeOK
    BY DEF TypeOK
  <2>2. OneRunner
    BY DEF OneRunner, Working
  <2>3. LockHeld /\ CreatingAlone
    BY DEF LockHeld, CreatingAlone, Creating
  <2>4. RunnerCovered
    BY DEF RunnerCovered, Working
  <2>5. CheckSound
    BY DEF CheckSound, CheckingPc
  <2>6. QED
    BY <2>1, <2>2, <2>3, <2>4, <2>5 DEF IInv
<1>2. IInv /\ [Next]_vars => IInv'
  BY TypeInductive, LockHeldInductive, OneRunnerInductive, CreatingAloneInductive,
     RunnerCoveredInductive, CheckSoundInductive DEF IInv
<1>3. QED
  BY <1>1, <1>2, PTL DEF Spec

(* The states of records, requests, units and repair are the ones the      *)
(* handlers of manager-action.ts and job-store.ts know.                    *)
THEOREM TypeCorrect == Spec => []TypeOK
<1>1. IInv => TypeOK
  BY DEF IInv
<1>2. QED
  BY <1>1, InvHolds, PTL

(* However many clicks there are, createJob's look under manager.lock      *)
(* leaves at most one manager job running.                                 *)
THEOREM OneRunnerHolds == Spec => []OneRunner
<1>1. IInv => OneRunner
  BY DEF IInv
<1>2. QED
  BY <1>1, InvHolds, PTL

(* A running job's record is never failed or removed under it, and a       *)
(* second click always finds it.                                           *)
THEOREM RunnerHasRecordHolds == Spec => []RunnerHasRecord
<1>1. IInv => RunnerHasRecord
  <2> SUFFICES ASSUME IInv, NEW j \in Jobs, run[j] \in Working
               PROVE  rec[j] \in Unfinished /\ j \in ActiveJobs
    BY DEF RunnerHasRecord
  <2>1. rec[j] \in Unfinished /\ unit[j] \in {"starting", "active"}
    BY DEF IInv, RunnerCovered, TypeOK, Unfinished
  <2>2. unit[j] = "active" \/ ~OlderThan5(j)
    BY <2>1 DEF IInv, RunnerCovered, OlderThan5
  <2>3. QED
    BY <2>1, <2>2 DEF ActiveJobs
<1>2. QED
  BY <1>1, InvHolds, PTL

(* A record that says done or failed keeps saying it until it expires,     *)
(* whichever of the runner and repair was late.                            *)
THEOREM OutcomeIsFinalHolds == Spec => OutcomeIsFinal
<1> DEFINE Kept == \A j \in Jobs : rec[j] \in Terminal => rec'[j] \in {rec[j], "gone"}
<1>1. IInv /\ [Next]_vars => [Kept]_rec
  <2> SUFFICES ASSUME IInv, [Next]_vars PROVE Kept
    OBVIOUS
  <2>1. ASSUME NEW r \in Requests, CreateOrFollow(r) PROVE Kept
    BY <2>1 DEF IInv, TypeOK, Terminal, records, CreateOrFollow
  <2>2. ASSUME NEW r \in Requests, Queue(r) PROVE Kept
    BY <2>2 DEF IInv, CreatingAlone, Creating, Terminal, Queue
  <2>3. ASSUME NEW r \in Requests, StartRefused(r) PROVE Kept
    BY <2>3 DEF StartRefused
  <2>4. ASSUME NEW j \in Jobs, RunnerBegins(j) PROVE Kept
    BY <2>4 DEF IInv, RunnerCovered, Working, Terminal, RunnerBegins
  <2>5. ASSUME NEW j \in Jobs, RunnerRecords(j) PROVE Kept
    BY <2>5 DEF IInv, RunnerCovered, Working, Terminal, RunnerRecords
  <2>6. CASE PruneMarks
    BY <2>6 DEF IInv, CheckSound, Unfinished, Terminal, PruneMarks
  <2>7. CASE PruneExpires
    BY <2>7 DEF IInv, TypeOK, PruneExpires
  <2>8. CASE UNCHANGED rec
    BY <2>8
  <2>9. QED
    BY <2>1, <2>2, <2>3, <2>4, <2>5, <2>6, <2>7, <2>8
    DEF Next, RequestStep, RunnerStep, RepairStep, vars, records, Ask, Look,
        TakeManagerLock, ManagerLockTimeout, StartUnit, Answer, RequestKilled,
        RunnerTakesLock, RunnerLockTimeout, RunnerWorks, RunnerEnds, UnitVisible,
        RunnerReports, Age, ShellTakesLock, ShellWorks, RepairBegins, PruneReadsState,
        PruneProbesUnit, PruneReadsAge, RepairEnds, RepairKilled, Reboot
<1>2. QED
  BY <1>1, InvHolds, PTL DEF Spec, OutcomeIsFinal

(* The retention removes ended records only; an unfinished one goes when   *)
(* systemd refused its unit, which its own request does.                   *)
THEOREM ExpiryTakesFinishedOnlyHolds == Spec => ExpiryTakesFinishedOnly
<1> DEFINE Kept == \A j \in Jobs : rec[j] \in Unfinished /\ rec'[j] = "gone" => BeingCreated(j)
<1>1. IInv /\ [Next]_vars => [Kept]_vars
  <2> SUFFICES ASSUME IInv, [Next]_vars PROVE Kept
    OBVIOUS
  <2>1. ASSUME NEW r \in Requests, CreateOrFollow(r) PROVE Kept
    BY <2>1 DEF IInv, TypeOK, Unfinished, records, CreateOrFollow
  <2>2. ASSUME NEW r \in Requests, Queue(r) PROVE Kept
    BY <2>2 DEF Unfinished, Queue
  <2>3. ASSUME NEW r \in Requests, StartRefused(r) PROVE Kept
    BY <2>3 DEF Creating, Unfinished, BeingCreated, StartRefused
  <2>4. ASSUME NEW j \in Jobs, RunnerBegins(j) PROVE Kept
    BY <2>4 DEF Unfinished, RunnerBegins
  <2>5. ASSUME NEW j \in Jobs, RunnerRecords(j) PROVE Kept
    BY <2>5 DEF Unfinished, RunnerRecords
  <2>6. CASE PruneMarks
    BY <2>6 DEF Unfinished, PruneMarks
  <2>7. CASE PruneExpires
    BY <2>7 DEF IInv, TypeOK, CheckSound, Unfinished, PruneExpires
  <2>8. CASE UNCHANGED rec
    BY <2>8 DEF Unfinished
  <2>9. QED
    BY <2>1, <2>2, <2>3, <2>4, <2>5, <2>6, <2>7, <2>8
    DEF Next, RequestStep, RunnerStep, RepairStep, vars, records, Ask, Look,
        TakeManagerLock, ManagerLockTimeout, StartUnit, Answer, RequestKilled,
        RunnerTakesLock, RunnerLockTimeout, RunnerWorks, RunnerEnds, UnitVisible,
        RunnerReports, Age, ShellTakesLock, ShellWorks, RepairBegins, PruneReadsState,
        PruneProbesUnit, PruneReadsAge, RepairEnds, RepairKilled, Reboot
<1>2. QED
  BY <1>1, InvHolds, PTL DEF Spec, ExpiryTakesFinishedOnly

(* The job service of manager-action.ts and job-store.ts implements OneJob: *)
(* every step of a request, a runner or repair is a step of it or changes  *)
(* nothing a page can see.                                                 *)
THEOREM Implementation == Spec => ImplementsOneJob
<1>1. Init => Service!Init
  BY DEF Init, Service!Init, Shown, Live, Working
<1>2. IInv /\ [Next]_vars => [Service!Next]_(Service!vars)
  <2> SUFFICES ASSUME IInv, [Next]_vars PROVE [Service!Next]_(Service!vars)
    OBVIOUS
  <2> USE DEF Service!vars
  <2>1. ASSUME NEW r \in Requests, CreateOrFollow(r) PROVE UNCHANGED <<Shown, Live>>
    <3>1. UNCHANGED Live
      BY <2>1 DEF CreateOrFollow, Live
    <3>2. UNCHANGED Shown
      BY <2>1 DEF CreateOrFollow, Shown, records, IInv, TypeOK
    <3>3. QED
      BY <3>1, <3>2
  <2>2. ASSUME NEW r \in Requests, Queue(r) PROVE Service!Submit(made[r])
    BY <2>2 DEF IInv, TypeOK, CreatingAlone, Queue, Shown, Live, Service!Submit,
       Service!Show
  <2>3. ASSUME NEW r \in Requests, StartUnit(r) PROVE Service!Launch(made[r])
    BY <2>3 DEF IInv, TypeOK, CreatingAlone, Working, StartUnit, records, Shown, Live,
       Service!Launch
  <2>4. ASSUME NEW r \in Requests, StartRefused(r) PROVE Service!Remove(made[r])
    BY <2>4 DEF IInv, TypeOK, CreatingAlone, StartRefused, Shown, Live, Service!Remove,
       Service!Show
  <2>5. ASSUME NEW j \in Jobs, RunnerBegins(j) PROVE Service!Start(j)
    BY <2>5 DEF IInv, TypeOK, RunnerCovered, Working, RunnerBegins, Shown, Live,
       Service!Start, Service!Show
  <2>6. ASSUME NEW j \in Jobs, RunnerTakesLock(j) \/ RunnerLockTimeout(j) \/ RunnerWorks(j)
        PROVE  UNCHANGED <<Shown, Live>>
    <3>1. UNCHANGED Shown
      BY <2>6 DEF RunnerTakesLock, RunnerLockTimeout, RunnerWorks, records, Shown
    <3>2. UNCHANGED Live
      BY <2>6 DEF RunnerTakesLock, RunnerLockTimeout, RunnerWorks, IInv, TypeOK, Live,
         Working
    <3>3. QED
      BY <3>1, <3>2
  <2>7. ASSUME NEW j \in Jobs, RunnerRecords(j) PROVE Service!End(j)
    <3>1. rec[j] = "running" /\ j \in Live
      BY <2>7 DEF RunnerRecords, IInv, RunnerCovered, Working, Live
    <3>2. Live' = Live \ {j}
      BY <2>7 DEF RunnerRecords, IInv, TypeOK, Working, Live
    <3>3. \E outcome \in {"done", "failed"} : rec' = [rec EXCEPT ![j] = outcome]
      BY <2>7 DEF RunnerRecords
    <3>4. \E outcome \in {"done", "failed"} : Shown' = [Shown EXCEPT ![j] = outcome]
      BY <3>3 DEF Shown, IInv, TypeOK
    <3>5. QED
      BY <3>1, <3>2, <3>4 DEF Service!End, Service!Show, Service!Ended, Shown
  <2>8. ASSUME NEW j \in Jobs, RunnerEnds(j) PROVE Service!Die \/ UNCHANGED <<Shown, Live>>
    <3>1. UNCHANGED Shown
      BY <2>8 DEF RunnerEnds, records, Shown
    <3>2. Live' = Live \ {j}
      BY <2>8 DEF RunnerEnds, IInv, TypeOK, Working, Live
    <3>3. j \in Live => Live = {j}
      BY DEF IInv, OneRunner, Live
    <3>4. QED
      BY <3>1, <3>2, <3>3 DEF Service!Die
  <2>9. CASE PruneMarks
    <3>1. Service!Presume(checking)
      BY <2>9 DEF IInv, TypeOK, CheckSound, CheckingPc, Unfinished, PruneMarks, Shown,
         Live, Service!Presume, Service!Show, Service!Unfinished
    <3>2. checking \in Jobs
      BY <2>9 DEF IInv, CheckSound, CheckingPc, PruneMarks
    <3>3. QED
      BY <3>1, <3>2 DEF Service!Next
  <2>10. CASE PruneExpires
    <3>1. checking \in Jobs /\ UNCHANGED Live
      BY <2>10 DEF IInv, CheckSound, CheckingPc, PruneExpires, Live
    <3>2. CASE rec[checking] = "gone" \/ UNCHANGED rec
      BY <2>10, <3>1, <3>2 DEF IInv, TypeOK, PruneExpires, Shown
    <3>3. CASE /\ rec[checking] # "gone" /\ age[checking] = "expired"
               /\ rec' = [rec EXCEPT ![checking] = "gone"]
      <4>1. rec[checking] \notin Unfinished
        BY <2>10, <3>3 DEF IInv, CheckSound, PruneExpires
      <4>2. checking \notin Live
        BY <4>1 DEF IInv, RunnerCovered, Unfinished, Live
      <4>3. Shown' = [Shown EXCEPT ![checking] = "gone"] /\ Shown[checking] \in {"none",
        "done", "failed"}
        BY <3>1, <3>3, <4>1 DEF IInv, TypeOK, Shown, Terminal
      <4>4. Service!Remove(checking)
        BY <3>1, <4>2, <4>3 DEF Service!Remove, Service!Show, Service!Ended
      <4>5. QED
        BY <3>1, <4>4 DEF Service!Next
    <3>4. QED
      BY <2>10, <3>2, <3>3 DEF PruneExpires
  <2>11. CASE Reboot
    <3>1. UNCHANGED Shown /\ Live' = {}
      BY <2>11 DEF Reboot, records, Shown, Live, Working
    <3>2. QED
      BY <3>1 DEF Service!Next, Service!Die
  <2>12. CASE UNCHANGED <<rec, run>>
    BY <2>12 DEF Shown, Live
  <2>13. ASSUME NEW r \in Requests
         PROVE  made[r] \in Jobs \/ ~(Queue(r) \/ StartUnit(r) \/ StartRefused(r))
    BY DEF IInv, CreatingAlone, Creating, Queue, StartUnit, StartRefused
  <2>14. CASE \E r \in Requests : Queue(r) \/ StartUnit(r) \/ StartRefused(r)
    BY <2>2, <2>3, <2>4, <2>13, <2>14 DEF Service!Next
  <2>15. CASE \E j \in Jobs : RunnerBegins(j) \/ RunnerRecords(j) \/ RunnerEnds(j)
    BY <2>5, <2>7, <2>8, <2>15 DEF Service!Next
  <2>16. QED
    BY <2>1, <2>6, <2>9, <2>10, <2>11, <2>12, <2>14, <2>15
    DEF Next, RequestStep, RunnerStep, RepairStep, vars, records, Ask, Look,
        TakeManagerLock, ManagerLockTimeout, Answer, RequestKilled,
        UnitVisible, RunnerReports, Age, ShellTakesLock, ShellWorks, RepairBegins,
          PruneReadsState,
        PruneProbesUnit, PruneReadsAge, RepairEnds, RepairKilled
<1>3. QED
  BY <1>1, <1>2, InvHolds, PTL DEF Spec, ImplementsOneJob, Service!Spec

=============================================================================
