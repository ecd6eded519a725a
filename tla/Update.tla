------------------------------- MODULE Update -------------------------------
(***************************************************************************)
(* `clp-addons update` and the rollback of a failed one (cli/update.ts,    *)
(* cli/artifacts.ts), with the repairs and other updates that queue for    *)
(* the operation lock (cli/operation-lock.ts).                             *)
(*                                                                         *)
(* A process runs the version that was installed when it started, however  *)
(* long it then waits for the lock.  The child an update hands over to     *)
(* runs inside its parent's lock, and the two die together: a signal from  *)
(* the terminal, or the stop of the job's unit, reaches both.              *)
(***************************************************************************)
EXTENDS Naturals, TLAPS

CONSTANTS Procs, Nobody,
          Timer,        \* the process of the reconcile service, which only repairs
          Versions,     \* releases, in order
          RenamedAt,    \* from this release an addon goes by its new name
          MaxUpdates,   \* bound: updates ever started
          MaxKills      \* bound: operations ever killed

ASSUME VersionsAreNumbers == Versions \subseteq Nat \ {0} /\ RenamedAt \in Nat
ASSUME NobodyIsNoProc == Nobody \notin Procs /\ Timer \in Procs
ASSUME BoundsAreNumbers == MaxUpdates \in Nat /\ MaxKills \in Nat

VARIABLES bin, manifest,   \* the installed binary, and the release its manifest names
          previous,        \* the two kept aside
          since,           \* news-since, 0 when there is none
          names,           \* the name the renamed addon's files have, "old" or "new"
          units, panel,    \* whose units and configs, whose templates and Nginx blocks
          manager,         \* what the manager service runs, 0 when it is down
          kind, ver,       \* each process's command, and the release it runs
          holder, step,    \* the operation lock, and where its holder is
          target, keptSince, renamed, changed,
          fell,            \* the manager went down after the child had seen it up
          before,          \* what the holder found
          updates, kills

box == <<bin, manifest, previous, since, names, units, panel, manager>>
procs == <<kind, ver>>
locals == <<target, keptSince, renamed, changed, fell, before>>
bounds == <<updates, kills>>
vars == <<box, procs, holder, step, locals, bounds>>

Init == /\ \E v \in Versions :
             /\ bin = v /\ manifest = v /\ units = v /\ panel = v /\ manager = v
             /\ names = IF v < RenamedAt THEN "old" ELSE "new"
             /\ before = [bin |-> v, manifest |-> v, since |-> 0, names |-> names]
        /\ previous = [bin |-> 0, manifest |-> 0] /\ since = 0
        /\ kind = [p \in Procs |-> "none"] /\ ver = [p \in Procs |-> 0]
        /\ holder = Nobody /\ step = "none"
        /\ target = 0 /\ keptSince = 0 /\ renamed = FALSE /\ changed = FALSE
        /\ fell = FALSE /\ updates = 0 /\ kills = 0

-----------------------------------------------------------------------------
(* Starting, and the operation lock.                                       *)

Start(p, k) ==
  /\ kind[p] = "none"
  /\ p = Timer => k = "repair"
  /\ k = "update" => updates < MaxUpdates
  /\ updates' = IF k = "update" THEN updates + 1 ELSE updates
  /\ kind' = [kind EXCEPT ![p] = k]
  /\ ver' = [ver EXCEPT ![p] = bin]
  /\ UNCHANGED <<box, holder, step, locals, kills>>

FirstStep(k) == CASE k = "update" -> "resolve"
                  [] k = "repair" -> "repair-names"
                  [] k = "anchors" -> "repair-panel"

TakeLock(p) ==
  /\ kind[p] # "none" /\ holder = Nobody
  /\ holder' = p
  /\ step' = FirstStep(kind[p])
  /\ before' = [bin |-> bin, manifest |-> manifest, since |-> since, names |-> names]
  /\ UNCHANGED <<box, procs, target, keptSince, renamed, changed, fell, bounds>>

Ends(p) == /\ kind' = [kind EXCEPT ![p] = "none"]
           /\ ver' = [ver EXCEPT ![p] = 0]
Release == /\ Ends(holder)
           /\ holder' = Nobody /\ step' = "none"
           /\ target' = 0 /\ keptSince' = 0 /\ renamed' = FALSE /\ changed' = FALSE
           /\ fell' = FALSE /\ UNCHANGED <<before, bounds>>

GiveUp(p) ==
  /\ kind[p] # "none" /\ holder \notin {p, Nobody}
  /\ Ends(p)
  /\ UNCHANGED <<box, holder, step, locals, bounds>>

(* `held`, or the finally, lets go of the lock whatever happened.          *)
Kill ==
  /\ holder # Nobody /\ kills < MaxKills
  /\ kills' = kills + 1
  /\ Ends(holder)
  /\ holder' = Nobody /\ step' = "none"
  /\ target' = 0 /\ keptSince' = 0 /\ renamed' = FALSE /\ changed' = FALSE
  /\ fell' = FALSE /\ UNCHANGED <<box, before, updates>>

Goes(from, to) == step = from /\ step' = to /\ UNCHANGED <<procs, holder, fell, before, bounds>>

-----------------------------------------------------------------------------
(* The outgoing process of an update.                                      *)

ArtifactsMatch(t) == bin = t /\ manifest = t

(* Up to date, nothing newer, or a download that fails or is refused.      *)
NothingToDo == step = "resolve" /\ Release /\ UNCHANGED box

(* An explicit version may be older; the newest release may not.           *)
Resolve(t, explicit) ==
  /\ Goes("resolve", "keep")
  /\ explicit \/ t >= ver[holder]
  /\ ~(t = ver[holder] /\ ArtifactsMatch(t))
  /\ target' = t
  /\ UNCHANGED <<box, keptSince, renamed, changed>>

KeepPrevious ==
  /\ Goes("keep", "replace-binary")
  /\ previous' = [bin |-> bin, manifest |-> manifest]
  /\ keptSince' = since
  /\ UNCHANGED <<bin, manifest, since, names, units, panel, manager, target, renamed, changed>>

(* Both old copies are removed before the new ones are made.               *)
KeepFails ==
  /\ step = "keep"
  /\ \E b \in {0, bin} : previous' = [bin |-> b, manifest |-> 0]
  /\ Release
  /\ UNCHANGED <<bin, manifest, since, names, units, panel, manager>>

ReplaceBinary ==
  /\ Goes("replace-binary", "replace-manifest")
  /\ bin' = target
  /\ UNCHANGED <<manifest, previous, since, names, units, panel, manager>>
  /\ UNCHANGED <<target, keptSince, renamed, changed>>

ReplaceManifest ==
  /\ Goes("replace-manifest", "hand-over")
  /\ manifest' = target
  /\ UNCHANGED <<bin, previous, since, names, units, panel, manager>>
  /\ UNCHANGED <<target, keptSince, renamed, changed>>

ReplaceFails ==
  /\ step \in {"replace-binary", "replace-manifest", "hand-over"}
  /\ Goes(step, "undo")
  /\ UNCHANGED <<box, target, keptSince, renamed, changed>>

(* After the child: is the manager active?                                 *)
Verified == step = "verify" /\ manager # 0 /\ Release /\ UNCHANGED box
ManagerDown ==
  /\ manager = 0
  /\ Goes("verify", "undo")
  /\ UNCHANGED <<box, target, keptSince, renamed, changed>>

(* Changed form: the news record is not put back.                          *)
RestoreNothing ==
  /\ Goes("undo", "restore-binary")
  /\ UNCHANGED <<box, target, keptSince, renamed, changed>>

RestoreSince ==
  /\ Goes("undo", "restore-binary")
  /\ since' = keptSince
  /\ UNCHANGED <<bin, manifest, previous, names, units, panel, manager>>
  /\ UNCHANGED <<target, keptSince, renamed, changed>>

RestoreBinary ==
  /\ Goes("restore-binary", "restore-manifest")
  /\ bin' = previous.bin
  /\ UNCHANGED <<manifest, previous, since, names, units, panel, manager>>
  /\ UNCHANGED <<target, keptSince, renamed, changed>>

RestoreManifest ==
  /\ Goes("restore-manifest", "restart-previous")
  /\ manifest' = previous.manifest
  /\ UNCHANGED <<bin, previous, since, names, units, panel, manager>>
  /\ UNCHANGED <<target, keptSince, renamed, changed>>

(* Changed form: a failed update keeps the lock.                           *)
RestartHolding ==
  /\ step = "restart-previous" /\ step' = "none"
  /\ manager' \in {bin, 0}
  /\ UNCHANGED <<bin, manifest, previous, since, names, units, panel>>
  /\ UNCHANGED <<procs, holder, locals, bounds>>

(* A restart that fails is reported and no more.                           *)
RestartPrevious ==
  /\ step = "restart-previous"
  /\ manager' \in {bin, 0}
  /\ Release
  /\ UNCHANGED <<bin, manifest, previous, since, names, units, panel>>

-----------------------------------------------------------------------------
(* The child: `update --no-self-update`, run from the installed binary.    *)

ChildRecordsNews ==
  /\ Goes("hand-over", "child-names")
  /\ since' = IF since = 0 /\ ver[holder] # target THEN ver[holder] ELSE since
  /\ UNCHANGED <<bin, manifest, previous, names, units, panel, manager>>
  /\ UNCHANGED <<target, keptSince, renamed, changed>>

Renames(v) == v >= RenamedAt /\ names = "old"

ChildRenames ==
  /\ Goes("child-names", "child-config")
  /\ renamed' = Renames(target)
  /\ names' = IF Renames(target) THEN "new" ELSE names
  /\ UNCHANGED <<bin, manifest, previous, since, units, panel, manager>>
  /\ UNCHANGED <<target, keptSince, changed>>

ChildConfigures ==
  /\ Goes("child-config", "child-panel")
  /\ units' = target
  /\ UNCHANGED <<bin, manifest, previous, since, names, panel, manager>>
  /\ UNCHANGED <<target, keptSince, renamed, changed>>

ChildReconciles ==
  /\ Goes("child-panel", "child-restart")
  /\ panel' = target
  /\ UNCHANGED <<bin, manifest, previous, since, names, units, manager>>
  /\ UNCHANGED <<target, keptSince, renamed, changed>>

ChildRestarts ==
  /\ Goes("child-restart", "child-check")
  /\ manager' \in {bin, 0}
  /\ UNCHANGED <<bin, manifest, previous, since, names, units, panel>>
  /\ UNCHANGED <<target, keptSince, renamed, changed>>

Unrename == names' = IF renamed THEN "old" ELSE names

(* Changed form: the new name stays when the manager is down.              *)
ChildLooksOnly ==
  /\ Goes("child-check", "verify")
  /\ UNCHANGED <<box, target, keptSince, renamed, changed>>

ChildChecks ==
  /\ Goes("child-check", "verify")
  /\ IF manager = 0 THEN Unrename ELSE UNCHANGED names
  /\ UNCHANGED <<bin, manifest, previous, since, units, panel, manager>>
  /\ UNCHANGED <<target, keptSince, renamed, changed>>

ChildFails ==
  /\ step \in {"child-names", "child-config", "child-panel", "child-restart"}
  /\ Goes(step, "undo")
  /\ Unrename
  /\ UNCHANGED <<bin, manifest, previous, since, units, panel, manager>>
  /\ UNCHANGED <<target, keptSince, renamed, changed>>

-----------------------------------------------------------------------------
(* Repair: all of it, or `--anchors-only`.                                 *)

RepairNames ==
  /\ Goes("repair-names", "repair-config")
  /\ names' = IF Renames(ver[holder]) THEN "new" ELSE names
  /\ UNCHANGED <<bin, manifest, previous, since, units, panel, manager>>
  /\ UNCHANGED <<target, keptSince, renamed, changed>>

(* Changed form: a repair that finds its units in place ends there.        *)
RepairWhenMoved ==
  /\ step = "repair-config"
  /\ \/ /\ units # ver[holder]
        /\ Goes("repair-config", "repair-units")
        /\ units' = ver[holder]
        /\ changed' = TRUE
        /\ UNCHANGED <<target, keptSince, renamed>>
     \/ units = ver[holder] /\ Release /\ UNCHANGED units
  /\ UNCHANGED <<bin, manifest, previous, since, names, panel, manager>>

(* Two releases may have the same units.                                   *)
RepairConfig ==
  /\ Goes("repair-config", "repair-units")
  /\ units' = ver[holder]
  /\ changed' \in IF units = ver[holder] THEN {FALSE} ELSE BOOLEAN
  /\ UNCHANGED <<bin, manifest, previous, since, names, panel, manager>>
  /\ UNCHANGED <<target, keptSince, renamed>>

RepairUnits ==
  /\ Goes("repair-units", "repair-panel")
  /\ manager' \in IF changed \/ manager = 0 THEN {bin, 0} ELSE {manager}
  /\ UNCHANGED <<bin, manifest, previous, since, names, units, panel>>
  /\ UNCHANGED <<target, keptSince, renamed, changed>>

RepairPanel ==
  /\ step = "repair-panel"
  /\ panel' = ver[holder]
  /\ Release
  /\ UNCHANGED <<bin, manifest, previous, since, names, units, manager>>

-----------------------------------------------------------------------------
(* The service crashes once it has been seen to start (Restart=always).    *)
ManagerFalls ==
  /\ manager # 0 /\ step = "verify"
  /\ manager' = 0 /\ fell' = TRUE
  /\ UNCHANGED <<bin, manifest, previous, since, names, units, panel>>
  /\ UNCHANGED <<procs, holder, step, target, keptSince, renamed, changed, before, bounds>>

UpdateSteps ==
  \/ \E t \in Versions, explicit \in BOOLEAN : Resolve(t, explicit)
  \/ NothingToDo \/ KeepPrevious \/ KeepFails
  \/ ReplaceBinary \/ ReplaceManifest \/ ReplaceFails
  \/ ChildRecordsNews \/ ChildRenames \/ ChildConfigures \/ ChildReconciles \/ ChildRestarts
  \/ ChildChecks \/ ChildFails
  \/ Verified \/ ManagerDown
  \/ RestoreSince \/ RestoreBinary \/ RestoreManifest \/ RestartPrevious
RepairSteps == RepairNames \/ RepairConfig \/ RepairUnits \/ RepairPanel

Next == \/ \E p \in Procs : \/ \E k \in {"update", "repair", "anchors"} : Start(p, k)
                            \/ TakeLock(p) \/ GiveUp(p)
        \/ UpdateSteps \/ RepairSteps
        \/ Kill \/ ManagerFalls

Spec == Init /\ [][Next]_vars

(* An operation goes on; the timer starts a repair every quarter of an     *)
(* hour, and does not find the lock taken for its 15 minutes every time.   *)
(* A restarted manager comes up now and then.                              *)
FairSpec == /\ Spec
            /\ WF_vars(UpdateSteps \/ RepairSteps)
            /\ WF_vars(Start(Timer, "repair")) /\ SF_vars(TakeLock(Timer))
            /\ <>[][~GiveUp(Timer)]_vars
            /\ SF_vars(RepairUnits /\ manager' # 0)

-----------------------------------------------------------------------------
Steps == {"none", "resolve", "keep", "replace-binary", "replace-manifest", "hand-over",
          "verify", "undo", "restore-binary", "restore-manifest", "restart-previous",
          "child-names", "child-config", "child-panel", "child-restart", "child-check",
          "repair-names", "repair-config", "repair-units", "repair-panel"}
Releases == Versions \cup {0}

TypeOK ==
  /\ bin \in Versions /\ units \in Versions /\ panel \in Versions
  /\ manifest \in Releases /\ since \in Releases /\ manager \in Releases
  /\ previous \in [bin : Releases, manifest : Releases]
  /\ names \in {"old", "new"}
  /\ kind \in [Procs -> {"none", "update", "repair", "anchors"}] /\ ver \in [Procs -> Releases]
  /\ holder \in Procs \cup {Nobody} /\ step \in Steps /\ (holder = Nobody <=> step = "none")
  /\ target \in Releases /\ keptSince \in Releases
  /\ renamed \in BOOLEAN /\ changed \in BOOLEAN /\ fell \in BOOLEAN
  /\ before \in [bin : Versions, manifest : Releases, since : Releases, names : {"old", "new"}]
  /\ updates \in 0..MaxUpdates /\ kills \in 0..MaxKills

RolledBack == step = "restart-previous"

(* Wherever an update failed, its rollback leaves the binary, its manifest *)
(* and the news record exactly as the update found them.                   *)
RollbackFiles ==
  RolledBack => bin = before.bin /\ manifest = before.manifest /\ since = before.since

(* The binary a rollback restores finds the renamed addon under the name   *)
(* it knows: a failed update moves it back (docs/decisions/wp-tools.md:17).*)
(* The one exception is a manager that the child saw up and that is down   *)
(* when its parent looks: the child, which knows what it renamed, is gone. *)
RollbackKeepsAddon ==
  RolledBack /\ before.names = "old" /\ bin < RenamedAt /\ ~fell => names = "old"
RollbackRestores == RollbackFiles /\ RollbackKeepsAddon

(* Whatever was killed or rolled back, the repairs bring units, configs,   *)
(* templates and Nginx blocks to the installed release.                    *)
RepairConverges == <>[](units = bin /\ panel = bin)

-----------------------------------------------------------------------------
(* The inductive invariant.                                                *)

(* The lock's holder runs a command, and a command a release.              *)
Commands == /\ holder # Nobody => kind[holder] # "none"
            /\ \A p \in Procs : kind[p] # "none" => ver[p] \in Versions

Unreplaced == {"resolve", "keep", "replace-binary"}
Children == {"child-names", "child-config", "child-panel", "child-restart", "child-check"}
Undoing == {"undo", "restore-binary", "restore-manifest", "restart-previous"}
Replacing == {"replace-binary", "replace-manifest", "hand-over", "verify"} \cup Children \cup Undoing

(* What an update found is in place until it replaces it, then kept aside, *)
(* and comes back one by one.                                              *)
FoundIsKept ==
  /\ step \in Unreplaced => bin = before.bin /\ manifest = before.manifest /\ since = before.since
  /\ step \in Replacing => /\ previous = [bin |-> before.bin, manifest |-> before.manifest]
                           /\ keptSince = before.since
  /\ step \in Replacing \cup {"keep"} => target \in Versions
  /\ step \in Undoing \ {"undo"} => since = before.since
  /\ step \in {"restore-manifest", "restart-previous"} => bin = before.bin
  /\ step = "restart-previous" => manifest = before.manifest

(* The name an update found stays until the child renames; the child that  *)
(* renamed puts it back unless it saw the manager up.                      *)
NamesAreKept ==
  /\ step = "none" => ~renamed
  /\ step \in Unreplaced \cup {"replace-manifest", "hand-over", "child-names"} =>
       names = before.names /\ ~renamed
  /\ step \in Children => IF renamed THEN before.names = "old" /\ names = "new"
                          ELSE names = before.names
  /\ step = "verify" /\ manager = 0 /\ ~fell => names = before.names
  /\ step \in Undoing /\ ~fell => names = before.names

IInv == TypeOK /\ Commands /\ FoundIsKept /\ NamesAreKept

(* Every step keeps the types, and the lock with a command.                *)
LEMMA TypesHold ==
  ASSUME TypeOK, Commands, FoundIsKept, [Next]_vars
  PROVE  TypeOK' /\ Commands'
<1> USE VersionsAreNumbers, NobodyIsNoProc, BoundsAreNumbers
        DEF TypeOK, Commands, Releases, Steps, box, procs, locals, bounds
<1>1. ASSUME NEW p \in Procs, NEW k \in {"update", "repair", "anchors"}, Start(p, k)
      PROVE  TypeOK' /\ Commands'
  BY <1>1 DEF Start
<1>2. ASSUME NEW p \in Procs, TakeLock(p) PROVE TypeOK' /\ Commands'
  BY <1>2 DEF TakeLock, FirstStep
<1>3. ASSUME NEW p \in Procs, GiveUp(p) PROVE TypeOK' /\ Commands'
  BY <1>3 DEF GiveUp, Ends
<1>4. ASSUME NEW t \in Versions, NEW explicit \in BOOLEAN, Resolve(t, explicit)
      PROVE  TypeOK' /\ Commands'
  BY <1>4 DEF Resolve, Goes
<1>5. CASE NothingToDo
  BY <1>5 DEF NothingToDo, Release, Ends
<1>6. CASE KeepPrevious
  BY <1>6 DEF KeepPrevious, Goes
<1>7. CASE KeepFails
  <2>1. renamed' \in BOOLEAN /\ changed' \in BOOLEAN /\ fell' \in BOOLEAN
    BY <1>7, Zenon DEF KeepFails, Release
  <2>2. previous' \in [bin : Releases, manifest : Releases]
    BY <1>7 DEF KeepFails
  <2>3. /\ step = "keep" /\ kind' = [kind EXCEPT ![holder] = "none"] /\ ver' = [ver EXCEPT ![holder] = 0]
        /\ holder' = Nobody /\ step' = "none" /\ target' = 0 /\ keptSince' = 0
        /\ UNCHANGED <<bin, manifest, since, names, units, panel, manager, before, bounds>>
    BY <1>7 DEF KeepFails, Release, Ends
  <2>4. QED
    BY <2>1, <2>2, <2>3
<1>8. CASE ReplaceBinary
  <2>1. target \in Versions
    BY <1>8 DEF ReplaceBinary, Goes, FoundIsKept, Replacing, Children
  <2>2. QED
    BY <1>8, <2>1 DEF ReplaceBinary, Goes
<1>9. CASE ReplaceManifest
  BY <1>9 DEF ReplaceManifest, Goes
<1>10. CASE ReplaceFails
  BY <1>10 DEF ReplaceFails, Goes
<1>11. CASE ChildRecordsNews
  BY <1>11 DEF ChildRecordsNews, Goes
<1>12. CASE ChildRenames
  BY <1>12 DEF ChildRenames, Goes, Renames
<1>13. CASE ChildConfigures
  <2>1. target \in Versions
    BY <1>13 DEF ChildConfigures, Goes, FoundIsKept, Replacing, Children
  <2>2. QED
    BY <1>13, <2>1 DEF ChildConfigures, Goes
<1>14. CASE ChildReconciles
  <2>1. target \in Versions
    BY <1>14 DEF ChildReconciles, Goes, FoundIsKept, Replacing, Children
  <2>2. QED
    BY <1>14, <2>1 DEF ChildReconciles, Goes
<1>15. CASE ChildRestarts
  BY <1>15 DEF ChildRestarts, Goes
<1>16. CASE ChildChecks
  BY <1>16 DEF ChildChecks, Goes, Unrename
<1>17. CASE ChildFails
  BY <1>17 DEF ChildFails, Goes, Unrename
<1>18. CASE Verified
  BY <1>18 DEF Verified, Release, Ends
<1>19. CASE ManagerDown
  BY <1>19 DEF ManagerDown, Goes
<1>20. CASE RestoreSince
  BY <1>20 DEF RestoreSince, Goes
<1>21. CASE RestoreBinary
  <2>1. previous.bin \in Versions
    BY <1>21 DEF RestoreBinary, Goes, FoundIsKept, Replacing, Undoing
  <2>2. QED
    BY <1>21, <2>1 DEF RestoreBinary, Goes
<1>22. CASE RestoreManifest
  BY <1>22 DEF RestoreManifest, Goes
<1>23. CASE RestartPrevious
  BY <1>23 DEF RestartPrevious, Release, Ends
<1>24. CASE RepairNames
  BY <1>24 DEF RepairNames, Goes, Renames
<1>25. CASE RepairConfig
  <2>1. changed' \in BOOLEAN
    BY <1>25, Zenon DEF RepairConfig
  <2>2. ver[holder] \in Versions
    BY <1>25 DEF RepairConfig, Goes
  <2>3. /\ units' = ver[holder] /\ step' = "repair-units" /\ step = "repair-config"
        /\ UNCHANGED <<bin, manifest, previous, since, names, panel, manager, target, keptSince,
                       renamed, procs, holder, fell, before, bounds>>
    BY <1>25 DEF RepairConfig, Goes
  <2>4. QED
    BY <2>1, <2>2, <2>3
<1>26. CASE RepairUnits
  BY <1>26 DEF RepairUnits, Goes
<1>27. CASE RepairPanel
  BY <1>27 DEF RepairPanel, Release, Ends
<1>28. CASE Kill
  <2>1. renamed' \in BOOLEAN /\ changed' \in BOOLEAN /\ fell' \in BOOLEAN
    BY <1>28, Zenon DEF Kill
  <2>2. kills' \in 0..MaxKills
    BY <1>28 DEF Kill
  <2>3. /\ holder # Nobody /\ kind' = [kind EXCEPT ![holder] = "none"] /\ ver' = [ver EXCEPT ![holder] = 0]
        /\ holder' = Nobody /\ step' = "none" /\ target' = 0 /\ keptSince' = 0
        /\ UNCHANGED <<box, before, updates>>
    BY <1>28 DEF Kill, Ends
  <2>4. QED
    BY <2>1, <2>2, <2>3
<1>29. CASE ManagerFalls
  BY <1>29 DEF ManagerFalls
<1>30. CASE UNCHANGED vars
  BY <1>30 DEF vars
<1>31. QED
  BY <1>1, <1>2, <1>3, <1>4, <1>5, <1>6, <1>7, <1>8, <1>9, <1>10, <1>11, <1>12, <1>13, <1>14,
     <1>15, <1>16, <1>17, <1>18, <1>19, <1>20, <1>21, <1>22, <1>23, <1>24, <1>25, <1>26,
     <1>27, <1>28, <1>29, <1>30 DEF Next, UpdateSteps, RepairSteps

(* What an update found is kept aside until it is back.                    *)
LEMMA FoundHolds ==
  ASSUME TypeOK, Commands, FoundIsKept, [Next]_vars
  PROVE  FoundIsKept'
<1> USE DEF FoundIsKept, Unreplaced, Replacing, Children, Undoing, box, procs, locals, bounds
<1>1. ASSUME NEW p \in Procs, NEW k \in {"update", "repair", "anchors"}, Start(p, k)
      PROVE  FoundIsKept'
  BY <1>1 DEF Start
<1>2. ASSUME NEW p \in Procs, TakeLock(p) PROVE FoundIsKept'
  <2>1. step' \in {"resolve", "repair-names", "repair-panel"}
    BY <1>2 DEF TakeLock, FirstStep, TypeOK
  <2>2. /\ before' = [bin |-> bin, manifest |-> manifest, since |-> since, names |-> names]
        /\ step = "none" /\ UNCHANGED <<box, target, keptSince, renamed, fell>>
    BY <1>2 DEF TakeLock, TypeOK
  <2>3. QED
    BY <2>1, <2>2
<1>3. ASSUME NEW p \in Procs, GiveUp(p) PROVE FoundIsKept'
  BY <1>3 DEF GiveUp, Ends
<1>4. ASSUME NEW t \in Versions, NEW explicit \in BOOLEAN, Resolve(t, explicit)
      PROVE  FoundIsKept'
  BY <1>4 DEF Resolve, Goes
<1>5. CASE NothingToDo
  BY <1>5 DEF NothingToDo, Release, Ends
<1>6. CASE KeepPrevious
  BY <1>6 DEF KeepPrevious, Goes
<1>7. CASE KeepFails
  BY <1>7 DEF KeepFails, Release, Ends
<1>8. CASE ReplaceBinary
  BY <1>8 DEF ReplaceBinary, Goes
<1>9. CASE ReplaceManifest
  BY <1>9 DEF ReplaceManifest, Goes
<1>10. CASE ReplaceFails
  BY <1>10 DEF ReplaceFails, Goes
<1>11. CASE ChildRecordsNews
  BY <1>11 DEF ChildRecordsNews, Goes
<1>12. CASE ChildRenames
  BY <1>12 DEF ChildRenames, Goes, Renames
<1>13. CASE ChildConfigures
  BY <1>13 DEF ChildConfigures, Goes
<1>14. CASE ChildReconciles
  BY <1>14 DEF ChildReconciles, Goes
<1>15. CASE ChildRestarts
  BY <1>15 DEF ChildRestarts, Goes
<1>16. CASE ChildChecks
  BY <1>16 DEF ChildChecks, Goes, Unrename
<1>17. CASE ChildFails
  BY <1>17 DEF ChildFails, Goes, Unrename
<1>18. CASE Verified
  BY <1>18 DEF Verified, Release, Ends
<1>19. CASE ManagerDown
  BY <1>19 DEF ManagerDown, Goes
<1>20. CASE RestoreSince
  BY <1>20 DEF RestoreSince, Goes
<1>21. CASE RestoreBinary
  BY <1>21 DEF RestoreBinary, Goes
<1>22. CASE RestoreManifest
  BY <1>22 DEF RestoreManifest, Goes
<1>23. CASE RestartPrevious
  BY <1>23 DEF RestartPrevious, Release, Ends
<1>24. CASE RepairNames
  BY <1>24 DEF RepairNames, Goes, Renames
<1>25. CASE RepairConfig
  BY <1>25 DEF RepairConfig, Goes
<1>26. CASE RepairUnits
  BY <1>26 DEF RepairUnits, Goes
<1>27. CASE RepairPanel
  BY <1>27 DEF RepairPanel, Release, Ends
<1>28. CASE Kill
  BY <1>28 DEF Kill, Ends
<1>29. CASE ManagerFalls
  BY <1>29 DEF ManagerFalls
<1>30. CASE UNCHANGED vars
  BY <1>30 DEF vars
<1>31. QED
  BY <1>1, <1>2, <1>3, <1>4, <1>5, <1>6, <1>7, <1>8, <1>9, <1>10, <1>11, <1>12, <1>13, <1>14,
     <1>15, <1>16, <1>17, <1>18, <1>19, <1>20, <1>21, <1>22, <1>23, <1>24, <1>25, <1>26,
     <1>27, <1>28, <1>29, <1>30 DEF Next, UpdateSteps, RepairSteps

(* So is the name of the renamed addon.                                    *)
LEMMA NamesHold ==
  ASSUME TypeOK, Commands, NamesAreKept, [Next]_vars
  PROVE  NamesAreKept'
<1> USE DEF NamesAreKept, Unreplaced, Children, Undoing, box, procs, locals, bounds
<1>1. ASSUME NEW p \in Procs, NEW k \in {"update", "repair", "anchors"}, Start(p, k)
      PROVE  NamesAreKept'
  BY <1>1 DEF Start
<1>2. ASSUME NEW p \in Procs, TakeLock(p) PROVE NamesAreKept'
  <2>1. step' \in {"resolve", "repair-names", "repair-panel"}
    BY <1>2 DEF TakeLock, FirstStep, TypeOK
  <2>2. /\ before' = [bin |-> bin, manifest |-> manifest, since |-> since, names |-> names]
        /\ step = "none" /\ UNCHANGED <<box, target, keptSince, renamed, fell>>
    BY <1>2 DEF TakeLock, TypeOK
  <2>3. QED
    BY <2>1, <2>2
<1>3. ASSUME NEW p \in Procs, GiveUp(p) PROVE NamesAreKept'
  BY <1>3 DEF GiveUp, Ends
<1>4. ASSUME NEW t \in Versions, NEW explicit \in BOOLEAN, Resolve(t, explicit)
      PROVE  NamesAreKept'
  BY <1>4 DEF Resolve, Goes
<1>5. CASE NothingToDo
  BY <1>5 DEF NothingToDo, Release, Ends
<1>6. CASE KeepPrevious
  BY <1>6 DEF KeepPrevious, Goes
<1>7. CASE KeepFails
  BY <1>7 DEF KeepFails, Release, Ends
<1>8. CASE ReplaceBinary
  BY <1>8 DEF ReplaceBinary, Goes
<1>9. CASE ReplaceManifest
  BY <1>9 DEF ReplaceManifest, Goes
<1>10. CASE ReplaceFails
  BY <1>10 DEF ReplaceFails, Goes
<1>11. CASE ChildRecordsNews
  BY <1>11 DEF ChildRecordsNews, Goes
<1>12. CASE ChildRenames
  BY <1>12 DEF ChildRenames, Goes, Renames
<1>13. CASE ChildConfigures
  BY <1>13 DEF ChildConfigures, Goes
<1>14. CASE ChildReconciles
  BY <1>14 DEF ChildReconciles, Goes
<1>15. CASE ChildRestarts
  BY <1>15 DEF ChildRestarts, Goes
<1>16. CASE ChildChecks
  BY <1>16 DEF ChildChecks, Goes, Unrename
<1>17. CASE ChildFails
  BY <1>17 DEF ChildFails, Goes, Unrename
<1>18. CASE Verified
  BY <1>18 DEF Verified, Release, Ends
<1>19. CASE ManagerDown
  BY <1>19 DEF ManagerDown, Goes
<1>20. CASE RestoreSince
  BY <1>20 DEF RestoreSince, Goes
<1>21. CASE RestoreBinary
  BY <1>21 DEF RestoreBinary, Goes
<1>22. CASE RestoreManifest
  BY <1>22 DEF RestoreManifest, Goes
<1>23. CASE RestartPrevious
  BY <1>23 DEF RestartPrevious, Release, Ends
<1>24. CASE RepairNames
  BY <1>24 DEF RepairNames, Goes, Renames
<1>25. CASE RepairConfig
  BY <1>25 DEF RepairConfig, Goes
<1>26. CASE RepairUnits
  BY <1>26 DEF RepairUnits, Goes
<1>27. CASE RepairPanel
  BY <1>27 DEF RepairPanel, Release, Ends
<1>28. CASE Kill
  BY <1>28 DEF Kill, Ends
<1>29. CASE ManagerFalls
  BY <1>29 DEF ManagerFalls
<1>30. CASE UNCHANGED vars
  BY <1>30 DEF vars
<1>31. QED
  BY <1>1, <1>2, <1>3, <1>4, <1>5, <1>6, <1>7, <1>8, <1>9, <1>10, <1>11, <1>12, <1>13, <1>14,
     <1>15, <1>16, <1>17, <1>18, <1>19, <1>20, <1>21, <1>22, <1>23, <1>24, <1>25, <1>26,
     <1>27, <1>28, <1>29, <1>30 DEF Next, UpdateSteps, RepairSteps

LEMMA StartHolds == Init => IInv
<1> SUFFICES ASSUME NEW v \in Versions, bin = v, manifest = v, units = v, panel = v, manager = v,
                    names = (IF v < RenamedAt THEN "old" ELSE "new"),
                    before = [bin |-> v, manifest |-> v, since |-> 0, names |-> names],
                    previous = [bin |-> 0, manifest |-> 0], since = 0,
                    kind = [p \in Procs |-> "none"], ver = [p \in Procs |-> 0],
                    holder = Nobody, step = "none", target = 0, keptSince = 0,
                    renamed = FALSE, changed = FALSE, fell = FALSE, updates = 0, kills = 0
             PROVE  IInv
  BY Zenon DEF Init
<1>1. renamed \in BOOLEAN /\ changed \in BOOLEAN /\ fell \in BOOLEAN
  BY Zenon
<1>2. TypeOK
  BY <1>1, VersionsAreNumbers, NobodyIsNoProc, BoundsAreNumbers DEF TypeOK, Releases, Steps
<1>3. Commands
  BY DEF Commands
<1>4. FoundIsKept /\ NamesAreKept
  BY DEF FoundIsKept, NamesAreKept, Unreplaced, Replacing, Children, Undoing
<1>5. QED
  BY <1>2, <1>3, <1>4 DEF IInv

LEMMA StepHolds == IInv /\ [Next]_vars => IInv'
  BY TypesHold, FoundHolds, NamesHold DEF IInv

LEMMA RollbackIsWhole == IInv => RollbackRestores
<1> SUFFICES ASSUME FoundIsKept, NamesAreKept PROVE RollbackRestores
  BY DEF IInv
<1>1. RollbackFiles
  BY DEF RollbackFiles, RolledBack, FoundIsKept, Undoing
<1>2. RollbackKeepsAddon
  BY DEF RollbackKeepsAddon, RolledBack, NamesAreKept, Undoing
<1>3. QED
  BY <1>1, <1>2 DEF RollbackRestores

(* Whatever releases there are, whoever waits for the lock and whatever is *)
(* killed, every variable keeps its type: what is installed is a release,  *)
(* and the lock is free when nobody is at work.                            *)
THEOREM TypeCorrect == Spec => []TypeOK
<1>1. IInv => TypeOK
  BY DEF IInv
<1>2. QED
  BY <1>1, StartHolds, StepHolds, PTL DEF Spec

(* Wherever an update fails, its rollback has the binary, the manifest and *)
(* the news record the update found, and the renamed addon is under the    *)
(* name that binary knows.                                                 *)
THEOREM RollbackRestoresHolds == Spec => []RollbackRestores
  BY StartHolds, StepHolds, RollbackIsWhole, PTL DEF Spec

=============================================================================
