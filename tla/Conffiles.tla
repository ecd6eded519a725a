----------------------------- MODULE Conffiles -----------------------------
(***************************************************************************)
(* The maintenance block in /etc/nginx/global_settings, a conffile of      *)
(* nginx-common: repair, enable and disable put it in and take it out      *)
(* (reconcileMaintenance in cli/inject.ts), and around an unattended       *)
(* upgrade `apt-hook pre` and `post` give the package its text back        *)
(* (cli/apt-hook.ts, cli/conffiles.ts, releaseMaintenanceSettings).        *)
(*                                                                         *)
(* The file is a text and a flag: is our block in it?  The text is the one *)
(* a version of the package ships, edited by the operator or not.  What an *)
(* Nginx transaction does inside is NginxTransaction's: here it commits or *)
(* leaves the file as it was.                                              *)
(***************************************************************************)
EXTENDS Naturals, TLAPS

CONSTANTS MaxPackage,   \* bound: versions of the package
          Kills,        \* whether an operation, or the hook, can be killed
          Refusals      \* whether Nginx may refuse a change

ASSUME PackagesExist == MaxPackage \in Nat \ {0}
ASSUME FlagsAreFlags == Kills \in BOOLEAN /\ Refusals \in BOOLEAN

VARIABLES text, block,         \* global_settings
          pristine, hash,      \* global-settings.pristine and .sha256, or None
          enabled,             \* the maintenance addon's config is there
          installed, candidate,\* the package, as dpkg and apt-cache policy see it
          flag, fresh,         \* conffiles-released, and raised within six hours
          service,             \* apt-daily-upgrade.service
          hook,                \* where the upgrade and its hooks are
          op,                  \* where the holder of the operation lock is
          upstream,            \* the text it read
          held,                \* the last upgrade was held back over our block alone, one not crossed
          asked,     \* ghost: systemctl has told it that no upgrade has the file, and none has begun since
          overtaken, \* ghost: dpkg or the hook has changed what it read of the file or the record
          crossed    \* ghost: the block was put in by one that was overtaken, or unasked while given back

file == <<text, block>>
baseline == <<pristine, hash>>
package == <<installed, candidate>>
release == <<flag, fresh>>
ghosts == <<asked, overtaken, crossed>>
vars == <<file, baseline, enabled, package, release, service, hook, op, upstream, held, ghosts>>

Kinds == {"repair", "reconcile", "enable", "disable"}

Operation == <<op, upstream>>
World == <<enabled, package, release, service, hook, held>>

Shipped(v) == [package |-> v, edited |-> FALSE]
Texts == [package : 1..MaxPackage, edited : BOOLEAN]
None == [package |-> 0, edited |-> FALSE]

Init == /\ text = Shipped(1) /\ block = FALSE
        /\ pristine = None /\ hash = None /\ enabled = FALSE
        /\ installed = 1 /\ candidate = 1
        /\ flag = FALSE /\ fresh = FALSE /\ service = "inactive" /\ hook = "idle"
        /\ op = "idle" /\ upstream = None /\ held = FALSE
        /\ asked = FALSE /\ overtaken = FALSE /\ crossed = FALSE

-----------------------------------------------------------------------------
(* The operator, the package archive, and time.                            *)

(* Nobody edits the file in the moment a command of ours has it read, or   *)
(* takes an edit back during an upgrade.                                   *)
EditText ==
  /\ op = "idle" /\ hook \in {"idle", "running", "ending"}
  /\ text.edited => hook = "idle"
  /\ text' = [text EXCEPT !.edited = ~@]
  /\ UNCHANGED <<block, baseline, World, Operation, ghosts>>

(* The package lists are refreshed between two upgrade runs.               *)
NewPackage ==
  /\ hook = "idle" /\ candidate < MaxPackage
  /\ candidate' = candidate + 1
  /\ UNCHANGED <<file, baseline, enabled, installed, release, service, hook, Operation, held, ghosts>>

SixHours ==
  /\ fresh /\ fresh' = FALSE
  /\ UNCHANGED <<file, baseline, enabled, package, flag, service, hook, Operation, held, ghosts>>

-----------------------------------------------------------------------------
(* Operations of ours, one at a time under the operation lock.             *)

(* Repair alone looks at the flag; the others, an update or an install     *)
(* ("reconcile") among them, reconcile whatever an upgrade does.           *)
Start(k) ==
  /\ op = "idle"
  /\ enabled' = IF k \in {"repair", "reconcile"} THEN enabled ELSE k = "enable"
  /\ op' = IF k = "repair" THEN "check" ELSE "read"
  /\ asked' = FALSE
  /\ UNCHANGED <<file, baseline, package, release, service, hook, upstream, held, overtaken, crossed>>

(* conffilesReleased; `answers` when systemctl does.                       *)
(* Changed form: the flag never lapses.                                    *)
ReleasedWhileRaised(answers) == flag
Released(answers) == flag /\ (IF answers THEN service = "running" ELSE fresh)

(* Changed form: the text read by the operation before this one is taken   *)
(* for the file's.                                                         *)
CheckReleasedThenWrite ==
  /\ op = "check"
  /\ op' = IF flag THEN "idle" ELSE "write"
  /\ UNCHANGED <<file, baseline, upstream, World, ghosts>>

CheckReleased ==
  /\ op = "check"
  /\ \E answers \in BOOLEAN : /\ op' = IF Released(answers) THEN "idle" ELSE "read"
                             /\ asked' = (answers /\ ~Released(answers))
  /\ UNCHANGED <<file, baseline, upstream, World, overtaken, crossed>>

HasState == pristine # None \/ hash # None
HasBaseline == pristine # None /\ hash = pristine

(* Changed form: a recorded baseline stands for the file.                  *)
ReadRecorded ==
  /\ op = "read"
  /\ upstream' = IF HasBaseline THEN pristine ELSE text
  /\ op' = IF HasBaseline \/ ~enabled THEN "write" ELSE "record"
  /\ overtaken' = FALSE
  /\ UNCHANGED <<file, baseline, World, asked, crossed>>

ReadSettings ==
  /\ op = "read"
  /\ HasBaseline \/ (~block /\ ~HasState)
  /\ HasBaseline => pristine = text
  /\ upstream' = text
  /\ op' = IF HasBaseline \/ ~enabled THEN "write" ELSE "record"
  /\ overtaken' = FALSE
  /\ UNCHANGED <<file, baseline, World, asked, crossed>>

(* "conflict" or "upstream-changed": no changes were made.                 *)
LeaveAlone ==
  /\ op = "read"
  /\ \/ ~HasBaseline /\ (block \/ HasState)
     \/ HasBaseline /\ pristine # text
  /\ op' = "idle"
  /\ UNCHANGED <<file, baseline, upstream, World, ghosts>>

RecordPristine ==
  /\ op = "record"
  /\ pristine' = upstream
  /\ op' = "record-hash"
  /\ UNCHANGED <<file, hash, upstream, World, ghosts>>

RecordHash ==
  /\ op = "record-hash"
  /\ hash' = upstream
  /\ op' = "write"
  /\ UNCHANGED <<file, pristine, upstream, World, ghosts>>

(* The Nginx transaction: committed, or the file put back.                 *)
WriteSettings ==
  /\ op = "write"
  /\ text' = upstream
  /\ block' = enabled
  /\ op' = IF enabled THEN "idle" ELSE "remove"
  /\ crossed' = (enabled /\ (overtaken \/ (flag /\ service = "running" /\ ~asked)))
  /\ UNCHANGED <<baseline, upstream, World, asked, overtaken>>

WriteRolledBack ==
  /\ Refusals /\ op = "write"
  /\ op' = "idle"
  /\ UNCHANGED <<file, baseline, upstream, World, ghosts>>

(* Disabled: the record goes, file by file.                                *)
RemovePristine ==
  /\ op = "remove"
  /\ pristine' = None
  /\ op' = "remove-hash"
  /\ UNCHANGED <<file, hash, upstream, World, ghosts>>

RemoveHash ==
  /\ op = "remove-hash"
  /\ hash' = None
  /\ op' = "idle"
  /\ UNCHANGED <<file, pristine, upstream, World, ghosts>>

KillOperation ==
  /\ Kills /\ op # "idle"
  /\ op' = "idle"
  /\ UNCHANGED <<file, baseline, upstream, World, ghosts>>

-----------------------------------------------------------------------------
(* The upgrade service: `pre`, which takes no lock, the upgrade, `post`.   *)

StartUpgrade ==
  /\ hook = "idle"
  /\ service' = "running" /\ hook' = "pre" /\ held' = FALSE /\ asked' = FALSE
  /\ UNCHANGED <<file, baseline, enabled, package, release, Operation, overtaken, crossed>>

(* releaseConffiles: an edited file with an upgrade waiting is due.        *)
Due == block /\ candidate # installed

NothingDue ==
  /\ hook = "pre" /\ ~Due
  /\ hook' = "running"
  /\ UNCHANGED <<file, baseline, enabled, package, release, service, Operation, held, ghosts>>

RaiseFlag ==
  /\ hook = "pre" /\ Due
  /\ flag' = TRUE /\ fresh' = TRUE /\ asked' = FALSE
  /\ hook' = "strip"
  /\ UNCHANGED <<file, baseline, enabled, package, service, Operation, held, overtaken, crossed>>

(* Changed form: the record is forgotten and the block stays.              *)
StripNothing ==
  /\ hook = "strip"
  /\ hook' = IF block /\ HasBaseline /\ pristine = text THEN "forget" ELSE "running"
  /\ UNCHANGED <<file, baseline, enabled, package, release, service, Operation, held, ghosts>>

Strip ==
  /\ hook = "strip"
  /\ IF block /\ HasBaseline /\ pristine = text
     THEN block' = FALSE /\ hook' = "forget" /\ crossed' = FALSE
     ELSE hook' = "running" /\ UNCHANGED <<block, crossed>>
  /\ UNCHANGED <<text, baseline, enabled, package, release, service, Operation, held, asked, overtaken>>

Overtakes == /\ overtaken' = (overtaken \/ op \notin {"idle", "check", "read"})
             /\ UNCHANGED <<asked, crossed>>

ForgetPristine ==
  /\ hook = "forget"
  /\ pristine' = None
  /\ hook' = "forget-hash"
  /\ Overtakes
  /\ UNCHANGED <<file, hash, enabled, package, release, service, Operation, held>>

ForgetHash ==
  /\ hook = "forget-hash"
  /\ hash' = None
  /\ hook' = "running"
  /\ Overtakes
  /\ UNCHANGED <<file, pristine, enabled, package, release, service, Operation, held>>

(* dpkg replaces an unmodified conffile; over a modified one               *)
(* unattended-upgrades holds the package back.  A text the operator changed*)
(* since the block went in is theirs, and left alone.                      *)
Unpack ==
  /\ hook = "running" /\ candidate # installed
  /\ text = Shipped(installed) /\ ~block
  /\ text' = Shipped(candidate) /\ installed' = candidate
  /\ Overtakes
  /\ UNCHANGED <<block, baseline, enabled, candidate, release, service, hook, Operation, held>>

HoldBack ==
  /\ hook = "running" /\ candidate # installed
  /\ text # Shipped(installed) \/ block
  /\ held' = (text = Shipped(installed) /\ (HasBaseline => pristine = text) /\ ~crossed)
  /\ UNCHANGED <<file, baseline, enabled, package, release, service, hook, Operation, ghosts>>

(* endConffileRelease; the repair after it is one that starts now or, when *)
(* it cannot have the lock, the timer's next.                              *)
Post ==
  /\ hook = "running"
  /\ flag' = FALSE
  /\ hook' = "ending"
  /\ UNCHANGED <<file, baseline, enabled, package, fresh, service, Operation, held, ghosts>>

EndUpgrade ==
  /\ hook = "ending"
  /\ service' = "inactive" /\ hook' = "idle"
  /\ UNCHANGED <<file, baseline, enabled, package, release, Operation, held, ghosts>>

(* The service stops without its `post`, as it is or part-way through      *)
(* `pre`.                                                                  *)
StopWithoutPost ==
  /\ hook = "running" \/ (Kills /\ hook # "idle")
  /\ service' = "failed" /\ hook' = "idle"
  /\ UNCHANGED <<file, baseline, enabled, package, release, Operation, held, ghosts>>

OperationSteps ==
  \/ CheckReleased \/ ReadSettings \/ LeaveAlone \/ RecordPristine \/ RecordHash
  \/ WriteSettings \/ WriteRolledBack \/ RemovePristine \/ RemoveHash
Upgrade == \/ StartUpgrade \/ NothingDue \/ RaiseFlag \/ Strip \/ ForgetPristine \/ ForgetHash
           \/ Unpack \/ HoldBack \/ Post \/ EndUpgrade \/ StopWithoutPost

Next == \/ \E k \in Kinds : Start(k)
        \/ OperationSteps \/ KillOperation
        \/ Upgrade
        \/ EditText \/ NewPackage \/ SixHours

Spec == Init /\ [][Next]_vars

(* An operation and an upgrade run end, the timer repairs again and again, *)
(* and an Nginx transaction goes through now and then.                     *)
HookSteps == NothingDue \/ RaiseFlag \/ Strip \/ ForgetPristine \/ ForgetHash \/ Post \/ EndUpgrade
FairSpec == /\ Spec
            /\ \A place \in {"check", "read", "record", "record-hash", "write"} :
                 SF_vars(op = place /\ OperationSteps)
            /\ WF_vars(SixHours)
            /\ WF_vars(HookSteps)
            /\ SF_vars(Start("repair") /\ hook = "idle") /\ SF_vars(WriteSettings)

-----------------------------------------------------------------------------
TypeOK ==
  /\ text \in Texts /\ block \in BOOLEAN
  /\ pristine \in Texts \cup {None} /\ hash \in Texts \cup {None}
  /\ enabled \in BOOLEAN /\ installed \in 1..candidate /\ candidate \in 1..MaxPackage
  /\ flag \in BOOLEAN /\ fresh \in BOOLEAN /\ held \in BOOLEAN
  /\ service \in {"inactive", "running", "failed"}
  /\ hook \in {"idle", "pre", "strip", "forget", "forget-hash", "running", "ending"}
  /\ op \in {"idle", "check", "read", "record", "record-hash", "write", "remove",
             "remove-hash"}
  /\ upstream \in Texts \cup {None}
  /\ asked \in BOOLEAN /\ overtaken \in BOOLEAN /\ crossed \in BOOLEAN

(* Our block is never in the file without the record that says what the    *)
(* file was: repair takes a block without one for somebody else's.  Only a *)
(* block that is crossed may be: the hook forgot the record under it.      *)
BlockHasBaseline == block => HasBaseline \/ crossed

(* A package whose conffile `pre` gave back is not held back over our      *)
(* block, whatever repairs run meanwhile; a crossed block is not counted.  *)
ReleasedNotHeld == flag => ~held

(* The records of a conffile are true of it, whoever works on it.          *)
RecordsHold == BlockHasBaseline /\ ReleasedNotHeld

(* Nothing of ours changes the file's own text: not the package's newer    *)
(* one, and not the operator's edit.  Only an operation that dpkg overtook *)
(* between its read and its write puts an older text back.                 *)
TextKeptStep == text' # text => \/ \E t \in {text.edited} : text' = [text EXCEPT !.edited = ~t]
                                \/ text' = Shipped(candidate) /\ installed' = candidate
                                    /\ installed # candidate
                                \/ overtaken

(* "While an upgrade run has the files, repair must not put the edits back,*)
(* however long it runs" (cli/conffiles.ts:58-59): who has looked since the*)
(* run began does not.  What never looks, or looked before, may.           *)
ReleasedStaysReleasedStep == flag /\ service = "running" /\ block' => block \/ ~asked

(* What an upgrade run has given back, and the file's own text, are left   *)
(* alone.                                                                  *)
LeftAlone == [][TextKeptStep /\ ReleasedStaysReleasedStep]_vars

(* With the addon on and a file the operator leaves as the package ships   *)
(* it, the block comes back after every upgrade run, one that stopped      *)
(* without its `post` or was killed in it included.  The exception is a    *)
(* record of another text, or half a record, without the block: what a     *)
(* refused change or a kill leaves, and repair reports as a conflict.      *)
Stranded == HasState /\ ~(HasBaseline /\ pristine = text)

BlockReturns ==
  []<>(block \/ ~enabled \/ text.edited \/ hook # "idle" \/ Stranded)

-----------------------------------------------------------------------------
(* The inductive invariant.                                                *)

UpgradeRuns == hook # "idle" <=> service = "running"

(* Who has looked is not at work on a file that is given back.             *)
LookStands == asked => ~(flag /\ service = "running")

(* While `pre` releases the file the flag is up, and what it is about to   *)
(* forget is out of the file, or was put back unasked.                     *)
PreHolds ==
  /\ hook \in {"pre", "strip", "forget", "forget-hash"} => ~held
  /\ hook \in {"strip", "forget", "forget-hash"} => flag
  /\ hook \in {"forget", "forget-hash"} => ~block \/ crossed

(* With the flag up, a block that `pre` could not take out is over a text  *)
(* that is not as recorded, or that the operator has edited since; the     *)
(* others are crossed.                                                     *)
RunHasFiles ==
  flag => /\ hook # "ending"
          /\ hook = "running" /\ block /\ candidate # installed /\ ~crossed
               => pristine # text \/ text.edited

(* What an operation has read is what it writes over, unless overtaken.    *)
ReadIsThere ==
  /\ op \in {"record", "record-hash", "write"} /\ ~overtaken => upstream = text
  /\ op \in {"record", "record-hash"} => ~block /\ enabled
  /\ op = "record-hash" /\ ~overtaken => pristine = upstream
  /\ op = "write" /\ enabled /\ ~overtaken => HasBaseline
  /\ op \in {"remove", "remove-hash"} => ~block

(* An operation writes a text it has read.                                 *)
HasRead == op \in {"record", "record-hash", "write"} => upstream \in Texts

IInv == TypeOK /\ HasRead /\ RecordsHold /\ UpgradeRuns /\ LookStands /\ PreHolds /\ RunHasFiles /\ ReadIsThere

(* Every step keeps the types.                                             *)
LEMMA TypesHold == TypeOK /\ HasRead /\ [Next]_vars => TypeOK' /\ HasRead'
<1> SUFFICES ASSUME TypeOK, HasRead, [Next]_vars PROVE TypeOK' /\ HasRead'
  OBVIOUS
<1> USE PackagesExist DEF TypeOK, HasRead, Texts, None, Shipped, file, baseline, package, release,
        Operation, World, ghosts, Kinds, Overtakes
<1>1. ASSUME NEW k \in Kinds, Start(k) PROVE TypeOK' /\ HasRead'
  <2>1. enabled' \in BOOLEAN /\ asked' \in BOOLEAN
    BY <1>1, Zenon DEF Start
  <2>2. QED
    BY <1>1, <2>1 DEF Start
<1>2. CASE CheckReleased
  BY <1>2 DEF CheckReleased
<1>3. CASE ReadSettings
  <2>1. overtaken' \in BOOLEAN
    BY <1>3, Zenon DEF ReadSettings
  <2>2. QED
    BY <1>3, <2>1 DEF ReadSettings
<1>4. CASE LeaveAlone
  BY <1>4 DEF LeaveAlone
<1>5. CASE RecordPristine
  BY <1>5 DEF RecordPristine
<1>6. CASE RecordHash
  BY <1>6 DEF RecordHash
<1>7. CASE WriteSettings
  BY <1>7 DEF WriteSettings
<1>8. CASE WriteRolledBack
  BY <1>8 DEF WriteRolledBack
<1>9. CASE RemovePristine
  BY <1>9 DEF RemovePristine
<1>10. CASE RemoveHash
  BY <1>10 DEF RemoveHash
<1>11. CASE KillOperation
  BY <1>11 DEF KillOperation
<1>12. CASE StartUpgrade
  <2>1. held' \in BOOLEAN /\ asked' \in BOOLEAN
    BY <1>12, Zenon DEF StartUpgrade
  <2>2. QED
    BY <1>12, <2>1 DEF StartUpgrade
<1>13. CASE NothingDue
  BY <1>13 DEF NothingDue
<1>14. CASE RaiseFlag
  <2>1. flag' \in BOOLEAN /\ fresh' \in BOOLEAN /\ asked' \in BOOLEAN
    BY <1>14, Zenon DEF RaiseFlag
  <2>2. QED
    BY <1>14, <2>1 DEF RaiseFlag
<1>15. CASE Strip
  <2>1. block' \in BOOLEAN /\ crossed' \in BOOLEAN
    BY <1>15, Zenon DEF Strip
  <2>2. QED
    BY <1>15, <2>1 DEF Strip
<1>16. CASE ForgetPristine
  BY <1>16 DEF ForgetPristine
<1>17. CASE ForgetHash
  BY <1>17 DEF ForgetHash
<1>18. CASE Unpack
  BY <1>18 DEF Unpack
<1>19. CASE HoldBack
  BY <1>19 DEF HoldBack
<1>20. CASE Post
  <2>1. flag' \in BOOLEAN
    BY <1>20, Zenon DEF Post
  <2>2. QED
    BY <1>20, <2>1 DEF Post
<1>21. CASE EndUpgrade
  BY <1>21 DEF EndUpgrade
<1>22. CASE StopWithoutPost
  BY <1>22 DEF StopWithoutPost
<1>23. CASE EditText
  <2>1. text' = [package |-> text.package, edited |-> ~text.edited]
    BY <1>23 DEF EditText
  <2>2. text' \in Texts
    BY <2>1
  <2>3. QED
    BY <1>23, <2>2 DEF EditText
<1>24. CASE NewPackage
  BY <1>24 DEF NewPackage
<1>25. CASE SixHours
  <2>1. fresh' \in BOOLEAN
    BY <1>25, Zenon DEF SixHours
  <2>2. QED
    BY <1>25, <2>1 DEF SixHours
<1>26. CASE UNCHANGED vars
  BY <1>26 DEF vars
<1>27. QED
  BY <1>1, <1>2, <1>3, <1>4, <1>5, <1>6, <1>7, <1>8, <1>9, <1>10, <1>11, <1>12, <1>13, <1>14,
     <1>15, <1>16, <1>17, <1>18, <1>19, <1>20, <1>21, <1>22, <1>23, <1>24, <1>25,
     <1>26 DEF Next, OperationSteps, Upgrade

(* The invariant holds from the start and after every step.                *)
LEMMA StartHolds == Init => IInv
<1> SUFFICES ASSUME Init PROVE IInv
  OBVIOUS
<1> USE DEF Init
<1>1. Shipped(1) \in Texts /\ MaxPackage \in Nat /\ 1 \in 1..MaxPackage
  BY PackagesExist DEF Shipped, Texts
<1>2. /\ block \in BOOLEAN /\ enabled \in BOOLEAN /\ flag \in BOOLEAN /\ fresh \in BOOLEAN
      /\ held \in BOOLEAN /\ asked \in BOOLEAN /\ overtaken \in BOOLEAN /\ crossed \in BOOLEAN
  BY Zenon
<1>3. TypeOK /\ HasRead
  BY <1>1, <1>2 DEF TypeOK, HasRead
<1>4. RecordsHold /\ UpgradeRuns /\ LookStands /\ PreHolds /\ RunHasFiles /\ ReadIsThere
  BY DEF RecordsHold, BlockHasBaseline, ReleasedNotHeld, UpgradeRuns, LookStands, PreHolds,
         RunHasFiles, ReadIsThere
<1>5. QED
  BY <1>3, <1>4 DEF IInv

LEMMA StepHolds ==
  ASSUME IInv, [Next]_vars
  PROVE  IInv'
<1> DEFINE Rest == RecordsHold /\ UpgradeRuns /\ LookStands /\ PreHolds /\ RunHasFiles /\ ReadIsThere
<1>1. Rest
  BY DEF IInv
<1>2. TypeOK' /\ HasRead'
  BY TypesHold DEF IInv
<1>3. /\ block \in BOOLEAN /\ enabled \in BOOLEAN /\ flag \in BOOLEAN /\ held \in BOOLEAN
      /\ asked \in BOOLEAN /\ overtaken \in BOOLEAN /\ crossed \in BOOLEAN /\ text.edited \in BOOLEAN /\ text # None
  BY DEF IInv, TypeOK, Texts, None
<1>4. Rest'
  <2> USE <1>1, <1>3
      DEF file, baseline, package, release, Operation, World, ghosts, Overtakes,
          RecordsHold, BlockHasBaseline, HasBaseline, HasState,
          ReleasedNotHeld, UpgradeRuns, LookStands, PreHolds, RunHasFiles, ReadIsThere
  <2>1. ASSUME NEW k \in Kinds, Start(k) PROVE Rest'
    BY <2>1 DEF Start
  <2>2. CASE CheckReleased
    BY <2>2 DEF CheckReleased, Released
  <2>3. CASE ReadSettings
    BY <2>3 DEF ReadSettings
  <2>4. CASE LeaveAlone
    BY <2>4 DEF LeaveAlone
  <2>5. CASE RecordPristine
    BY <2>5 DEF RecordPristine
  <2>6. CASE RecordHash
    BY <2>6 DEF RecordHash
  <2>7. CASE WriteSettings
    BY <2>7 DEF WriteSettings
  <2>8. CASE WriteRolledBack
    BY <2>8 DEF WriteRolledBack
  <2>9. CASE RemovePristine
    BY <2>9 DEF RemovePristine
  <2>10. CASE RemoveHash
    BY <2>10 DEF RemoveHash
  <2>11. CASE KillOperation
    BY <2>11 DEF KillOperation
  <2>12. CASE StartUpgrade
    BY <2>12 DEF StartUpgrade
  <2>13. CASE NothingDue
    BY <2>13 DEF NothingDue, Due
  <2>14. CASE RaiseFlag
    BY <2>14 DEF RaiseFlag
  <2>15. CASE Strip
    BY <2>15 DEF Strip
  <2>16. CASE ForgetPristine
    BY <2>16 DEF ForgetPristine
  <2>17. CASE ForgetHash
    BY <2>17 DEF ForgetHash
  <2>18. CASE Unpack
    BY <2>18 DEF Unpack
  <2>19. CASE HoldBack
    <3>1. held' => text = Shipped(installed) /\ (HasBaseline => pristine = text) /\ ~crossed
      BY <2>19, Zenon DEF HoldBack
    <3>2. /\ hook = "running" /\ candidate # installed
          /\ text # Shipped(installed) \/ block
          /\ UNCHANGED <<file, baseline, enabled, package, release, service, hook, Operation, ghosts>>
      BY <2>19, Zenon DEF HoldBack
    <3>3. text = Shipped(installed) => text.edited = FALSE
      BY DEF Shipped
    <3>4. QED
      BY <3>1, <3>2, <3>3
  <2>20. CASE Post
    BY <2>20 DEF Post
  <2>21. CASE EndUpgrade
    BY <2>21 DEF EndUpgrade
  <2>22. CASE StopWithoutPost
    BY <2>22 DEF StopWithoutPost
  <2>23. CASE EditText
    BY <2>23 DEF EditText
  <2>24. CASE NewPackage
    BY <2>24 DEF NewPackage
  <2>25. CASE SixHours
    BY <2>25 DEF SixHours
  <2>26. CASE UNCHANGED vars
    BY <2>26 DEF vars
  <2> HIDE DEF Rest
  <2>27. QED
    BY <2>1, <2>2, <2>3, <2>4, <2>5, <2>6, <2>7, <2>8, <2>9, <2>10, <2>11, <2>12, <2>13,
       <2>14, <2>15, <2>16, <2>17, <2>18, <2>19, <2>20, <2>21, <2>22, <2>23, <2>24, <2>25,
       <2>26 DEF Next, OperationSteps, Upgrade
<1>5. QED
  BY <1>2, <1>4 DEF IInv

(* What no upgrade or operation does to the file, from the same invariant. *)
LEMMA StepLeavesAlone ==
  ASSUME IInv, [Next]_vars
  PROVE  [TextKeptStep /\ ReleasedStaysReleasedStep]_vars
<1>1. ReadIsThere /\ LookStands /\ block \in BOOLEAN /\ flag \in BOOLEAN /\ overtaken \in BOOLEAN
      /\ asked \in BOOLEAN
  BY DEF IInv, TypeOK
<1> SUFFICES ASSUME Next PROVE TextKeptStep /\ ReleasedStaysReleasedStep
  BY DEF vars
<1>2. CASE WriteSettings
  <2>1. op = "write" /\ text' = upstream /\ UNCHANGED <<flag, service>>
    BY <1>2 DEF WriteSettings, World, release
  <2>2. text' = text \/ overtaken
    BY <1>1, <2>1 DEF ReadIsThere
  <2>3. ~(flag /\ service = "running") \/ ~asked
    BY <1>1 DEF LookStands
  <2>4. QED
    BY <2>2, <2>3 DEF TextKeptStep, ReleasedStaysReleasedStep
<1>3. CASE EditText
  BY <1>1, <1>3 DEF EditText, TextKeptStep, ReleasedStaysReleasedStep
<1>4. CASE Unpack
  BY <1>1, <1>4 DEF Unpack, TextKeptStep, ReleasedStaysReleasedStep
<1>5. CASE Strip
  BY <1>1, <1>5 DEF Strip, TextKeptStep, ReleasedStaysReleasedStep
<1>6. CASE ~(WriteSettings \/ EditText \/ Unpack \/ Strip)
  <2>1. UNCHANGED <<text, block>>
    BY <1>6 DEF Next, OperationSteps, Upgrade, file, World, Start, CheckReleased,
       ReadSettings, LeaveAlone, RecordPristine, RecordHash, WriteRolledBack, RemovePristine,
       RemoveHash, KillOperation, StartUpgrade, NothingDue, RaiseFlag, ForgetPristine,
       ForgetHash, HoldBack, Post, EndUpgrade, StopWithoutPost, NewPackage, SixHours
  <2>2. QED
    BY <1>1, <2>1 DEF TextKeptStep, ReleasedStaysReleasedStep
<1>7. QED
  BY <1>2, <1>3, <1>4, <1>5, <1>6

(* Whatever the package, the operator, refusals and kills do: every        *)
(* variable keeps its type, and an operation writes a text it has read.    *)
THEOREM TypeCorrect == Spec => []TypeOK
<1>1. Init => TypeOK /\ HasRead
  BY StartHolds DEF IInv
<1>2. TypeOK /\ HasRead /\ [Next]_vars => TypeOK' /\ HasRead'
  BY TypesHold
<1>3. QED
  BY <1>1, <1>2, PTL DEF Spec

(* Wherever an upgrade and an operation meet and whoever is killed: our    *)
(* block is never in the file without the record of what the file was, and *)
(* a package whose conffile was given back is not held back over our       *)
(* block, but for a block put in by an operation that the hook overtook, or*)
(* by one that had not looked while the file was given back (repair.ts:31, *)
(* toggle.ts:86, update.ts:45, uninstall.ts:106).                          *)
THEOREM RecordsHoldAlways == Spec => []RecordsHold
<1>1. Init => IInv
  BY StartHolds
<1>2. IInv /\ [Next]_vars => IInv'
  BY StepHolds
<1>3. IInv => RecordsHold
  BY DEF IInv
<1>4. QED
  BY <1>1, <1>2, <1>3, PTL DEF Spec

(* Nothing of ours changes the file's own text unless dpkg overtook it, and*)
(* no operation that has looked since the upgrade began puts the block back*)
(* into a file that is given back (conffilesReleased, reconcileMaintenance).*)
THEOREM LeftAloneAlways == Spec => LeftAlone
<1>1. Init => IInv
  BY StartHolds
<1>2. IInv /\ [Next]_vars => IInv'
  BY StepHolds
<1>3. IInv /\ [Next]_vars => [TextKeptStep /\ ReleasedStaysReleasedStep]_vars
  BY StepLeavesAlone
<1>4. QED
  BY <1>1, <1>2, <1>3, PTL DEF Spec, LeftAlone

=============================================================================
