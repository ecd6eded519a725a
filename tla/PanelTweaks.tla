---------------------------- MODULE PanelTweaks ----------------------------
(***************************************************************************)
(* Panel Tweaks (addons/panel-tweaks/action.ts, branding.ts, app/index.ts, *)
(* inject/): the switches, the images of Theme & Branding, what            *)
(* CloudPanel's templates carry of both, and the measurement of the sites' *)
(* sizes by a job or by the repair timer.                                  *)
(*                                                                         *)
(* A change is saved under a lock; the templates are rendered by a second  *)
(* call, under the platform's own lock, which reads whatever is saved by   *)
(* then.  The two locks of a measurement are others again.                 *)
(***************************************************************************)
EXTENDS Naturals

CONSTANTS Admins, TweakKeys, Slots, Images,
          MeasureJobs,                       \* the records there may be, in order
          MaxTweakAsks, MaxSweeps, MaxTweakMishaps

VARIABLES tweaks, logos, images, page,      \* tweaks.json; branding.json; the images kept; the templates
          tweaksLock, tweakReq,              \* panel-tweaks.lock, and what the administrators' requests do
          render,                            \* the rendering underway
          measureJob, jobsLock, scanLock,    \* the records with their runners; the locks of a measurement
          sweeper, sizes,                    \* the repair timer's sweep; disk-usage.json
          begun, tweakAsks, tweakMishaps,
          behind                             \* ghost: a change that was saved and never rendered

settings == <<tweaks, logos, images, tweaksLock>>
measuring == <<measureJob, jobsLock, scanLock, sweeper, sizes, begun>>
counts == <<tweakAsks, tweakMishaps>>
tweakVars == <<settings, page, tweakReq, render, measuring, counts, behind>>

Nobody == "nobody"
Timer == "timer"
NoImage == "none"
Rested == [at |-> "rest", key |-> "", value |-> FALSE, slot |-> "", image |-> NoImage, cur |-> [s \in TweakKeys |-> FALSE], was |-> [s \in Slots |-> NoImage]]
NotRendering == [by |-> Nobody, clears |-> FALSE, tweaks |-> [s \in TweakKeys |-> FALSE], logos |-> [s \in Slots |-> NoImage]]
NoSweep == [at |-> "rest", sweep |-> 0]
NoMeasure == [state |-> "none", at |-> "gone", before |-> 0, sweep |-> 0, result |-> 0]
ConstantsOK == /\ {"table", "disk", "branding"} \subseteq TweakKeys /\ NoImage \notin Images
               /\ Nobody \notin Admins /\ Timer \notin Admins
               /\ MaxTweakAsks \in Nat /\ MaxSweeps \in Nat /\ MaxTweakMishaps \in Nat

Quiet == render.by = Nobody /\ \A a \in Admins : tweakReq[a].at \in {"rest", "look", "queue"}

(* A switch whose parent is off is off.                                    *)
withTweakDependencies(t) == [t EXCEPT !["disk"] = @ /\ t["table"]]
DEFAULT_TWEAKS == [s \in TweakKeys |-> s = "table"]
TEMPLATE_TWEAK_KEYS == TweakKeys \ {"table", "disk"}
(* The images the templates name, when they carry the branding at all.     *)
brandingHead(t, l) == [on |-> t["branding"], names |-> IF t["branding"] THEN {l[s] : s \in Slots} \ {NoImage} ELSE {}]

Init == /\ tweaks = DEFAULT_TWEAKS /\ logos = [s \in Slots |-> NoImage] /\ images = {}
        /\ page = brandingHead(DEFAULT_TWEAKS, [s \in Slots |-> NoImage])
        /\ tweaksLock = Nobody /\ tweakReq = [a \in Admins |-> Rested] /\ render = NotRendering
        /\ measureJob = [j \in MeasureJobs |-> NoMeasure] /\ jobsLock = Nobody /\ scanLock = Nobody
        /\ sweeper = NoSweep /\ sizes = 0 /\ begun = 0
        /\ tweakAsks = 0 /\ tweakMishaps = 0 /\ behind = FALSE

-----------------------------------------------------------------------------
(* The administrators' changes.                                            *)
Goes(a, to) == tweakReq' = [tweakReq EXCEPT ![a].at = to]
Ends(a) == tweakReq' = [tweakReq EXCEPT ![a] = Rested]
May(a) == tweakReq[a].at = "rest" /\ tweakAsks < MaxTweakAsks /\ tweakAsks' = tweakAsks + 1

AskSwitch(a, key, on) ==
    /\ May(a) /\ tweakReq' = [tweakReq EXCEPT ![a] = [Rested EXCEPT !.at = "lock", !.key = key, !.value = on]]
    /\ UNCHANGED <<settings, page, render, measuring, tweakMishaps, behind>>
AskImage(a, slot, image) ==
    /\ May(a) /\ tweakReq' = [tweakReq EXCEPT ![a] = [Rested EXCEPT !.at = "lock", !.slot = slot, !.image = image]]
    /\ UNCHANGED <<settings, page, render, measuring, tweakMishaps, behind>>

(* Mutant: what is on file is read before the lock.                        *)
TakeLockLate(a) ==
    /\ tweakReq[a].at = "lock"
    /\ IF tweakReq[a].cur # [s \in TweakKeys |-> FALSE]
       THEN tweaksLock = Nobody /\ tweaksLock' = a /\ Goes(a, "write")
       ELSE tweaksLock' = tweaksLock /\ tweakReq' = [tweakReq EXCEPT ![a].cur = tweaks, ![a].was = logos]
    /\ UNCHANGED <<tweaks, logos, images, page, render, measuring, counts, behind>>
TakeLock(a) ==
    /\ tweakReq[a].at = "lock" /\ tweaksLock = Nobody /\ tweaksLock' = a
    /\ tweakReq' = [tweakReq EXCEPT ![a].at = "write", ![a].cur = tweaks, ![a].was = logos]
    /\ UNCHANGED <<tweaks, logos, images, page, render, measuring, counts, behind>>
LockTimeout(a) == /\ tweakReq[a].at = "lock" /\ tweaksLock # Nobody /\ Ends(a)
                  /\ UNCHANGED <<settings, page, render, measuring, counts, behind>>

(* setTweaks: the reply says whether the templates must be rendered again, *)
(* which they are only when the switch moved.                              *)
Wanted(r) == withTweakDependencies([r.cur EXCEPT ![r.key] = r.value])
setTweaks(a) ==
    /\ tweakReq[a].at = "write" /\ tweakReq[a].key # ""
    /\ tweaks' = Wanted(tweakReq[a]) /\ tweaksLock' = Nobody
    /\ IF \E key \in TEMPLATE_TWEAK_KEYS : tweakReq[a].cur[key] # Wanted(tweakReq[a])[key]
       THEN Goes(a, "reinject") ELSE Ends(a)
    /\ UNCHANGED <<logos, images, page, render, measuring, counts, behind>>

(* setBranding: the image, then the file that names it, then the images    *)
(* nobody names any more.                                                  *)
Branded(r) == [r.was EXCEPT ![r.slot] = r.image]
storeAsset(a) == /\ tweakReq[a].at = "write" /\ tweakReq[a].slot # ""
                 /\ images' = images \cup ({tweakReq[a].image} \ {NoImage}) /\ Goes(a, "save")
                 /\ UNCHANGED <<tweaks, logos, tweaksLock, page, render, measuring, counts, behind>>
(* Mutant: the images are gone through before the file is written.         *)
Left(r) == {Branded(r)[s] : s \in Slots} \ {NoImage}
writeBrandingLast(a) ==
    /\ tweakReq[a].at = "save"
    /\ IF images = Left(tweakReq[a]) THEN logos' = Branded(tweakReq[a]) /\ Goes(a, "prune") /\ UNCHANGED images
       ELSE images' = Left(tweakReq[a]) /\ UNCHANGED <<logos, tweakReq>>
    /\ UNCHANGED <<tweaks, tweaksLock, page, render, measuring, counts, behind>>
writeBranding(a) == /\ tweakReq[a].at = "save" /\ logos' = Branded(tweakReq[a]) /\ Goes(a, "prune")
                    /\ UNCHANGED <<tweaks, images, tweaksLock, page, render, measuring, counts, behind>>
pruneAssets(a) == /\ tweakReq[a].at = "prune" /\ images' = images \cap {logos[s] : s \in Slots} /\ tweaksLock' = Nobody
                  /\ IF tweaks["branding"] THEN Goes(a, "reinject") ELSE Ends(a)
                  /\ UNCHANGED <<tweaks, logos, page, render, measuring, counts, behind>>
brandingAsset == images \cap {logos[s] : s \in Slots}

-----------------------------------------------------------------------------
(* The rendering: of the request that moved a switch, or of a repair.  The *)
(* settings are read as each block is made, and the files written after.   *)
reinjectTemplates(a) ==
    /\ tweakReq[a].at = "reinject" /\ render.by = Nobody
    /\ render' = [by |-> a, clears |-> TRUE, tweaks |-> tweaks, logos |-> logos] /\ Goes(a, "rendering")
    /\ UNCHANGED <<settings, page, measuring, counts, behind>>
repairs == /\ behind /\ render.by = Nobody /\ render' = [by |-> Timer, clears |-> TRUE, tweaks |-> tweaks, logos |-> logos]
           /\ UNCHANGED <<settings, page, tweakReq, measuring, counts, behind>>
Rendered == /\ render.by # Nobody /\ render' = NotRendering
            /\ page' = brandingHead(render.tweaks, render.logos) /\ behind' = (behind /\ ~render.clears)
            /\ tweakReq' = [a \in Admins |-> IF render.by = a THEN Rested ELSE tweakReq[a]]
            /\ UNCHANGED <<settings, measuring, counts>>
(* Mutant: a rendering that finds one underway leaves it to that one.      *)
RenderBusyTrusts(a) ==
    /\ tweakReq[a].at = "reinject" /\ render.by # Nobody /\ Ends(a)
    /\ UNCHANGED <<settings, page, render, measuring, counts, behind>>
(* Refused, or out of time behind another: the page says it is saved and   *)
(* not in the panel's templates.                                           *)
RenderBusy(a) ==
    /\ tweakReq[a].at = "reinject" /\ render.by # Nobody /\ Ends(a)
    /\ behind' = TRUE /\ render' = [render EXCEPT !.clears = FALSE]
    /\ UNCHANGED <<settings, page, measuring, counts>>

(* A request, or the rendering with it, is killed.                         *)
AdminDies(a) ==
    /\ tweakReq[a].at \notin {"rest", "lock"}
    /\ tweakMishaps < MaxTweakMishaps /\ tweakMishaps' = tweakMishaps + 1
    /\ tweaksLock' = (IF tweaksLock = a THEN Nobody ELSE tweaksLock)
    /\ jobsLock' = (IF jobsLock = a THEN Nobody ELSE jobsLock)
    /\ render' = (IF render.by = a THEN NotRendering ELSE [render EXCEPT !.clears = FALSE])
    /\ behind' = TRUE /\ Ends(a)
    /\ UNCHANGED <<tweaks, logos, images, page, measureJob, scanLock, sweeper, sizes, begun, tweakAsks>>

-----------------------------------------------------------------------------
(* A measurement: recorded once under its own lock, run by its unit, which *)
(* takes the answer of a sweep that ended while it waited for the disk.    *)
Unfinished == {j \in MeasureJobs : measureJob[j].state \in {"queued", "running"}}
(* Mutant: the lock is not waited for.                                     *)
AskMeasureAtOnce(a) == /\ May(a) /\ jobsLock' = jobsLock /\ Goes(a, "look")
                       /\ UNCHANGED <<settings, page, render, measureJob, scanLock, sweeper, sizes, begun, tweakMishaps, behind>>
AskMeasure(a) == /\ May(a) /\ jobsLock = Nobody /\ jobsLock' = a /\ Goes(a, "look")
                 /\ UNCHANGED <<settings, page, render, measureJob, scanLock, sweeper, sizes, begun, tweakMishaps, behind>>
activeMeasurement(a) ==
    /\ tweakReq[a].at = "look"
    /\ IF Unfinished # {} THEN Ends(a) /\ jobsLock' = Nobody ELSE Goes(a, "queue") /\ UNCHANGED jobsLock
    /\ UNCHANGED <<settings, page, render, measureJob, scanLock, sweeper, sizes, begun, counts, behind>>
startMeasurement(a) ==
    /\ tweakReq[a].at = "queue" /\ Ends(a) /\ jobsLock' = Nobody
    /\ \E j \in MeasureJobs :
         /\ measureJob[j].state = "none" /\ \A k \in MeasureJobs : k < j => measureJob[k].state # "none"
         /\ \/ measureJob' = [measureJob EXCEPT ![j].state = "queued", ![j].at = "start"] /\ UNCHANGED tweakMishaps
            \/ /\ tweakMishaps < MaxTweakMishaps /\ tweakMishaps' = tweakMishaps + 1
               /\ measureJob' = [measureJob EXCEPT ![j].state = "failed"]
    /\ UNCHANGED <<settings, page, render, scanLock, sweeper, sizes, begun, tweakAsks, behind>>

Becomes(j, changes) == measureJob' = [measureJob EXCEPT ![j] = changes]
Runs(j, at) == measureJob[j].at = at
Still == UNCHANGED <<settings, page, tweakReq, render, jobsLock, counts, behind>>
runMeasurement(j) == /\ Runs(j, "start") /\ measureJob[j].state = "queued"
                     /\ Becomes(j, [measureJob[j] EXCEPT !.state = "running", !.at = "lock", !.before = sizes])
                     /\ Still /\ UNCHANGED <<scanLock, sweeper, sizes, begun>>
(* An end that was recorded for it meanwhile stands.                       *)
AlreadyOver(j) == /\ Runs(j, "start") /\ measureJob[j].state # "queued" /\ Becomes(j, [measureJob[j] EXCEPT !.at = "gone"])
                  /\ Still /\ UNCHANGED <<scanLock, sweeper, sizes, begun>>
(* Mutant: any sizes there are will do.                                    *)
scanLockAny(j) ==
    /\ Runs(j, "lock") /\ scanLock = Nobody
    /\ IF sizes # 0
       THEN Becomes(j, [measureJob[j] EXCEPT !.state = "done", !.at = "gone", !.result = sizes]) /\ UNCHANGED <<scanLock, begun>>
       ELSE /\ begun < MaxSweeps /\ begun' = begun + 1 /\ scanLock' = "job"
            /\ Becomes(j, [measureJob[j] EXCEPT !.at = "sweep", !.sweep = begun + 1])
    /\ Still /\ UNCHANGED <<sweeper, sizes>>
scanLocked(j) ==
    /\ Runs(j, "lock") /\ scanLock = Nobody
    /\ IF sizes # 0 /\ sizes # measureJob[j].before
       THEN Becomes(j, [measureJob[j] EXCEPT !.state = "done", !.at = "gone", !.result = sizes]) /\ UNCHANGED <<scanLock, begun>>
       ELSE /\ begun < MaxSweeps /\ begun' = begun + 1 /\ scanLock' = "job"
            /\ Becomes(j, [measureJob[j] EXCEPT !.at = "sweep", !.sweep = begun + 1])
    /\ Still /\ UNCHANGED <<sweeper, sizes>>
WaitedTooLong(j) == /\ Runs(j, "lock") /\ scanLock # Nobody /\ Becomes(j, [measureJob[j] EXCEPT !.state = "failed", !.at = "gone"])
                    /\ Still /\ UNCHANGED <<scanLock, sweeper, sizes, begun>>
(* scanDisk: rows, accounts and sizes one by one, and the file at the end. *)
scanDisk(j) == /\ Runs(j, "sweep") /\ sizes' = measureJob[j].sweep /\ scanLock' = Nobody
               /\ Becomes(j, [measureJob[j] EXCEPT !.at = "record", !.result = measureJob[j].sweep])
               /\ Still /\ UNCHANGED <<sweeper, begun>>
ScanFails(j) == /\ Runs(j, "sweep") /\ scanLock' = Nobody /\ tweakMishaps < MaxTweakMishaps /\ tweakMishaps' = tweakMishaps + 1
                /\ Becomes(j, [measureJob[j] EXCEPT !.state = "failed", !.at = "gone"])
                /\ UNCHANGED <<settings, page, tweakReq, render, jobsLock, tweakAsks, behind, sweeper, sizes, begun>>
Recorded(j) == /\ Runs(j, "record") /\ Becomes(j, [measureJob[j] EXCEPT !.state = "done", !.at = "gone"])
               /\ Still /\ UNCHANGED <<scanLock, sweeper, sizes, begun>>
RunnerDies(j) == /\ measureJob[j].at # "gone" /\ tweakMishaps < MaxTweakMishaps /\ tweakMishaps' = tweakMishaps + 1
                 /\ Becomes(j, [measureJob[j] EXCEPT !.at = "gone"]) /\ scanLock' = (IF Runs(j, "sweep") THEN Nobody ELSE scanLock)
                 /\ UNCHANGED <<settings, page, tweakReq, render, jobsLock, tweakAsks, behind, sweeper, sizes, begun>>

(* Repair's hook: a job whose unit is gone is marked, and a sweep begins   *)
(* when one is due and no job is about to make one.                        *)
pruneMeasurements == /\ \E j \in Unfinished : measureJob[j].at = "gone" /\ Becomes(j, [measureJob[j] EXCEPT !.state = "failed"])
                     /\ Still /\ UNCHANGED <<scanLock, sweeper, sizes, begun>>
scanDiskUsage == /\ sweeper.at = "rest" /\ tweaks["disk"] /\ Unfinished = {} /\ begun < MaxSweeps
                 /\ sweeper' = [sweeper EXCEPT !.at = "lock"] /\ Still /\ UNCHANGED <<measureJob, scanLock, sizes, begun>>
(* Mutant: the sweep begins whoever holds the disk.                        *)
TimerSweepsAnyway == /\ sweeper.at = "lock" /\ begun < MaxSweeps /\ begun' = begun + 1
                     /\ sweeper' = [at |-> "sweep", sweep |-> begun + 1] /\ UNCHANGED scanLock
                     /\ Still /\ UNCHANGED <<measureJob, sizes>>
TimerSweeps == /\ sweeper.at = "lock" /\ scanLock = Nobody /\ begun < MaxSweeps /\ begun' = begun + 1
               /\ scanLock' = Timer /\ sweeper' = [at |-> "sweep", sweep |-> begun + 1]
               /\ Still /\ UNCHANGED <<measureJob, sizes>>
TimerGivesUp == /\ sweeper.at = "lock" /\ sweeper' = NoSweep /\ Still /\ UNCHANGED <<measureJob, scanLock, sizes, begun>>
TimerEnds == /\ sweeper.at = "sweep" /\ sweeper' = NoSweep /\ scanLock' = (IF scanLock = Timer THEN Nobody ELSE scanLock)
             /\ sizes' \in {sizes, sweeper.sweep} /\ Still /\ UNCHANGED <<measureJob, begun>>

Next == \/ \E a \in Admins : \/ \E key \in TweakKeys, on \in BOOLEAN : AskSwitch(a, key, on)
                             \/ \E slot \in Slots, image \in Images \cup {NoImage} : AskImage(a, slot, image)
                             \/ TakeLock(a) \/ LockTimeout(a) \/ setTweaks(a) \/ storeAsset(a) \/ writeBranding(a) \/ pruneAssets(a)
                             \/ reinjectTemplates(a) \/ RenderBusy(a) \/ AdminDies(a)
                             \/ AskMeasure(a) \/ activeMeasurement(a) \/ startMeasurement(a)
        \/ repairs \/ Rendered \/ pruneMeasurements \/ scanDiskUsage \/ TimerSweeps \/ TimerGivesUp \/ TimerEnds
        \/ \E j \in MeasureJobs : \/ runMeasurement(j) \/ AlreadyOver(j) \/ scanLocked(j) \/ WaitedTooLong(j) \/ scanDisk(j) \/ ScanFails(j)
                                  \/ Recorded(j) \/ RunnerDies(j)
Spec == Init /\ [][Next]_tweakVars

-----------------------------------------------------------------------------
Switches == [TweakKeys -> BOOLEAN]
SlotImages == [Slots -> Images \cup {NoImage}]
Changes == [at : {"rest", "lock", "write", "save", "prune", "reinject", "rendering", "look", "queue"},
            key : TweakKeys \cup {""}, value : BOOLEAN, slot : Slots \cup {""},
            image : Images \cup {NoImage}, cur : Switches, was : SlotImages]
Renderings == [by : Admins \cup {Nobody, Timer}, clears : BOOLEAN, tweaks : Switches, logos : SlotImages]
Measurements == [state : {"none", "queued", "running", "done", "failed"},
                 at : {"gone", "start", "lock", "sweep", "record"},
                 before : 0..MaxSweeps, sweep : 0..MaxSweeps, result : 0..MaxSweeps]
Sweeps == [at : {"rest", "lock", "sweep"}, sweep : 0..MaxSweeps]
TypeOK == /\ tweaks \in Switches /\ logos \in SlotImages /\ images \subseteq Images
          /\ page \in [on : BOOLEAN, names : SUBSET Images]
          /\ tweaksLock \in Admins \cup {Nobody} /\ tweakReq \in [Admins -> Changes]
          /\ render \in Renderings /\ behind \in BOOLEAN
          /\ measureJob \in [MeasureJobs -> Measurements] /\ jobsLock \in Admins \cup {Nobody}
          /\ scanLock \in {Nobody, Timer, "job"} /\ sweeper \in Sweeps
          /\ sizes \in 0..MaxSweeps /\ begun \in 0..MaxSweeps
          /\ tweakAsks \in 0..MaxTweakAsks /\ tweakMishaps \in 0..MaxTweakMishaps

(* Once no change is underway the panel's templates carry the switches and *)
(* the images that are saved, whatever the order of two administrators'    *)
(* saves and renderings, unless one was killed or refused and no repair    *)
(* has come by since; and every image they name is one that is served.     *)
PageCarriesWhatIsSaved ==
    Quiet /\ ~behind => page = brandingHead(tweaks, logos) /\ page.names \subseteq brandingAsset

(* Every image a slot names is there to be served, at any moment and after *)
(* any kill.                                                               *)
NamedIsServed == {logos[s] : s \in Slots} \ {NoImage} \subseteq brandingAsset

(* A change leaves what another administrator has saved meanwhile as it    *)
(* is: only the switch it names moves, and the one that hangs on it.       *)
ChangesOnlyItsOwnStep ==
    /\ \A r, s \in TweakKeys \ {"disk"} : tweaks'[r] # tweaks[r] /\ tweaks'[s] # tweaks[s] => r = s
    /\ tweaks'["disk"] # tweaks["disk"] => {s \in TweakKeys : tweaks'[s] # tweaks[s]} \subseteq {"disk", "table"}
    /\ \A r, s \in Slots : logos'[r] # logos[r] /\ logos'[s] # logos[s] => r = s
    /\ \A a \in Admins : tweakReq[a].at = "write" /\ tweakReq'[a].at # "write" /\ tweakReq[a].key # "" /\ tweakMishaps' = tweakMishaps =>
         \A s \in TweakKeys \ {tweakReq[a].key, "disk"} : tweaks'[s] = tweaks[s]

(* The sizes on file are never replaced by older ones, and a measurement   *)
(* that says done reports sizes of a sweep that ended after it had begun.  *)
NewestSizesStep == /\ sizes' >= sizes
                   /\ \A j \in MeasureJobs : measureJob'[j].state = "done" /\ measureJob[j].state # "done" =>
                        measureJob'[j].result > measureJob[j].before /\ measureJob'[j].result <= sizes'
(* One measurement at a time, however many pages ask.                      *)
OneMeasurement == \A j, k \in {l \in Unfinished : measureJob[l].at # "gone"} : j = k
=============================================================================
