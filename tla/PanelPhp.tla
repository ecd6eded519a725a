------------------------------ MODULE PanelPhp ------------------------------
(***************************************************************************)
(* The PHP that runs CloudPanel itself (system-tweaks/panel-php.ts): a     *)
(* drop-in of its FPM unit swaps the binary for the one the operator       *)
(* chose.  A change is tested, restarted and proven; a failure puts the    *)
(* previous unit back.  One operation at a time holds the lock; it may be  *)
(* killed, and packages come, are upgraded and go meanwhile.               *)
(***************************************************************************)
EXTENDS Naturals

CONSTANTS Phps,             \* PHP versions newer than the one CloudPanel starts
          MaxReleases, MaxPhpOps, MaxPackageMoves

VARIABLES choice,           \* panel-php.json: the version, the release that failed, withdrawn
          unit,             \* the version the addon's drop-in starts, or Stock without one
          foreign,          \* someone else's drop-in sets the binary
          fpm,              \* the version running, and whether it answers
          release,          \* each version's installed release, 0 for none
          act, phpOps, packageMoves,
          torn, tried       \* ghosts: an operation was killed; the release repair saw fail last

phpVars == <<choice, unit, foreign, fpm, release, act, phpOps, packageMoves, torn, tried>>

Stock == "stock"
NoFailure == [php |-> Stock, release |-> 0]
Resting == [verb |-> "none", at |-> "idle", php |-> Stock, before |-> Stock, target |-> Stock, seen |-> 0, was |-> FALSE]
Doing(step) == act.at = step
Installed(v) == v \in {Stock} \cup {w \in Phps : release[w] # 0}
ReleaseOf(v) == IF v = Stock THEN 0 ELSE release[v]
(* What apt-cache says of it; no release when it fails.                    *)
Told(v) == {ReleaseOf(v), 0}

Init == /\ choice = [php |-> Stock, failure |-> NoFailure, withdrawn |-> FALSE]
        /\ unit = Stock /\ foreign = FALSE /\ fpm = [php |-> Stock, up |-> TRUE] /\ release = [v \in Phps |-> 1]
        /\ act = Resting /\ phpOps = 0 /\ packageMoves = 0 /\ torn = FALSE /\ tried = [v \in Phps |-> 0]

machine == <<unit, foreign, fpm, release, packageMoves>>

-----------------------------------------------------------------------------
(* What an operation does once it has the lock.                            *)
Begin(verb, php, seen) == /\ Doing("idle") /\ phpOps < MaxPhpOps /\ phpOps' = phpOps + 1
                          /\ act' = [Resting EXCEPT !.verb = verb, !.at = "apply", !.php = php, !.seen = seen]
(* Mutant: a change queued behind the withdrawal goes ahead.               *)
setPanelPhpQueued(php) == Begin("set", php, 0) /\ UNCHANGED <<choice, machine, torn, tried>>
setPanelPhp(php) == Begin("set", php, 0) /\ ~choice.withdrawn /\ UNCHANGED <<choice, machine, torn, tried>>
reconcilePanelPhp ==
  /\ choice.php # Stock \/ unit # Stock
  /\ ~choice.withdrawn
  /\ \E seen \in Told(choice.php) :
       /\ choice.failure = NoFailure \/ choice.failure # [php |-> choice.php, release |-> seen]
       /\ Begin("reconcile", choice.php, seen)
  /\ UNCHANGED <<choice, machine, torn, tried>>
withdrawPanelPhp == /\ Doing("idle") /\ phpOps < MaxPhpOps /\ phpOps' = phpOps + 1
                    /\ choice' = [choice EXCEPT !.withdrawn = TRUE]
                    /\ act' = [Resting EXCEPT !.verb = "withdraw", !.at = "apply", !.was = choice.withdrawn]
                    /\ UNCHANGED <<machine, torn, tried>>
restorePanelPhp == /\ Doing("idle") /\ choice.withdrawn /\ choice' = [choice EXCEPT !.withdrawn = FALSE]
                   /\ UNCHANGED <<act, phpOps, machine, torn, tried>>

-----------------------------------------------------------------------------
(* apply: what the choice asks for, and whether the unit has to change.    *)
Wanted == IF Installed(act.php) \/ unit # act.php THEN act.php ELSE Stock
Refused == (foreign /\ act.php # Stock) \/ ~Installed(Wanted)
Unchanged == /\ Doing("apply") /\ ~Refused /\ Wanted = unit /\ act' = [act EXCEPT !.at = "record"]
             /\ UNCHANGED <<choice, machine, phpOps, torn, tried>>
Test == /\ Doing("apply") /\ ~Refused /\ Wanted # unit
        /\ act' = [act EXCEPT !.at = "install", !.before = unit, !.target = Wanted]
        /\ UNCHANGED <<choice, machine, phpOps, torn, tried>>
TestRefused == /\ Doing("apply") /\ act' = [act EXCEPT !.at = "failed"] /\ (Refused \/ (Wanted # unit /\ (Wanted # Stock \/ act.verb = "withdraw")))
               /\ UNCHANGED <<choice, machine, phpOps, torn, tried>>
Puts(version, next) == /\ unit' = version /\ \E at \in next : act' = [act EXCEPT !.at = at]
                       /\ UNCHANGED <<choice, foreign, fpm, release, packageMoves, phpOps, torn, tried>>
Install == Doing("install") /\ Puts(act.target, {"restart", "undo"})
(* A restart starts the unit's version if it is there, and may not answer. *)
Restarts(next) == /\ \E up \in {FALSE, Installed(unit)} : /\ fpm' = [php |-> IF foreign THEN Stock ELSE unit, up |-> up] /\ act' = [act EXCEPT !.at = next]
                  /\ UNCHANGED <<choice, unit, foreign, release, packageMoves, phpOps, torn, tried>>
Restart == Doing("restart") /\ Restarts("prove")
Missing == act.verb # "withdraw" /\ act.php # act.target
Prove == /\ Doing("prove") /\ UNCHANGED <<choice, machine, phpOps, torn, tried>>
         /\ act' = [act EXCEPT !.at = IF fpm # [php |-> act.target, up |-> TRUE] THEN "undo" ELSE IF Missing THEN "failed" ELSE "record"]
(* Under someone else's drop-in the addon's is taken away without proof.   *)
ProveNothing == /\ Doing("prove") /\ foreign /\ act.verb # "withdraw" /\ act.php = Stock
                /\ act' = [act EXCEPT !.at = IF fpm.up THEN "record" ELSE "failed"] /\ UNCHANGED <<choice, machine, phpOps, torn, tried>>
(* Mutant: the panel is restarted and the drop-in that failed stays.       *)
UndoNothing == Doing("undo") /\ Puts(unit, {"restart again", "failed"})
Undo == Doing("undo") /\ Puts(act.before, {"restart again", "failed"})
RestartAgain == Doing("restart again") /\ Restarts("failed")

(* The end: the choice recorded, or the failure.                           *)
Chosen(php, failure) == [choice EXCEPT !.php = php, !.failure = failure]
Over(c) == choice' = c /\ act' = Resting /\ UNCHANGED <<machine, phpOps>>
Record == /\ Doing("record")
          /\ Over(IF act.verb = "withdraw" THEN choice ELSE Chosen(act.php, NoFailure))
          /\ torn' = (torn /\ act.verb = "withdraw")
          /\ tried' = (IF act.verb = "withdraw" THEN tried ELSE [v \in Phps |-> 0])
(* Mutant: repair's failure is not recorded.                               *)
FailedUnrecorded == IF act.verb = "withdraw" THEN [choice EXCEPT !.withdrawn = act.was] ELSE choice
FailedChoice == CASE act.verb = "set" -> choice
                  [] act.verb = "reconcile" -> Chosen(choice.php, [php |-> choice.php, release |-> act.seen])
                  [] act.verb = "withdraw" -> [choice EXCEPT !.withdrawn = act.was]
Fail == /\ Doing("failed") /\ Over(FailedChoice) /\ UNCHANGED torn
        /\ tried' = (IF act.verb = "reconcile" /\ act.php \in Phps /\ act.seen # 0 THEN [tried EXCEPT ![act.php] = act.seen] ELSE tried)
Killed == ~Doing("idle") /\ act' = Resting /\ torn' = TRUE /\ UNCHANGED <<choice, machine, phpOps, tried>>

-----------------------------------------------------------------------------
(* The server: packages, a reboot, a drop-in of someone else's.            *)
Moves == packageMoves < MaxPackageMoves /\ packageMoves' = packageMoves + 1 /\ UNCHANGED <<choice, unit, act, phpOps, torn, tried>>
Upgrade(v) == Moves /\ release[v] \in 1..(MaxReleases - 1) /\ release' = [release EXCEPT ![v] = @ + 1] /\ UNCHANGED <<foreign, fpm>>
Remove(v) == Moves /\ release[v] # 0 /\ release' = [release EXCEPT ![v] = 0] /\ UNCHANGED <<foreign, fpm>>
Reboot == Moves /\ Doing("idle") /\ fpm' = [php |-> IF foreign THEN Stock ELSE unit, up |-> Installed(unit)] /\ UNCHANGED <<release, foreign>>
Override == Moves /\ foreign' = ~foreign /\ UNCHANGED <<release, fpm>>

Next == \/ \E v \in Phps \cup {Stock} : setPanelPhp(v)
        \/ reconcilePanelPhp \/ withdrawPanelPhp \/ restorePanelPhp
        \/ Unchanged \/ Test \/ TestRefused \/ Install \/ Restart \/ Prove \/ ProveNothing \/ Undo \/ RestartAgain \/ Record \/ Fail \/ Killed
        \/ Reboot \/ Override \/ \E v \in Phps : Upgrade(v) \/ Remove(v)
Spec == Init /\ [][Next]_phpVars

-----------------------------------------------------------------------------
TypeOK == /\ {choice.php, unit, fpm.php} \subseteq Phps \cup {Stock} /\ choice.failure.release \in 0..MaxReleases
          /\ release \in [Phps -> 0..MaxReleases] /\ act.target \in Phps \cup {Stock} /\ tried \in [Phps -> 0..MaxReleases]

(* Withdrawn, the unit is CloudPanel's own: nothing but a withdrawal that  *)
(* failed puts a drop-in back.                                             *)
WithdrawnStaysOffStep == (choice.withdrawn /\ unit' # Stock /\ unit' # unit) => act.verb = "withdraw"
(* Unless an operation was killed, the version the drop-in starts is the   *)
(* one that is recorded as chosen.                                         *)
UnitIsChosen == (Doing("idle") /\ ~torn) => unit \in {Stock, choice.php}
(* Repair does not restart the panel on a release that it has seen fail,   *)
(* but when apt-cache does not tell it the release, and, if the panel      *)
(* failed then too, once more when apt-cache answers again.                *)
Untold == act.seen = 0 \/ choice.failure = [php |-> act.php, release |-> 0]
FailedOnceStep == (act.verb = "reconcile" /\ Doing("install") /\ unit' # unit /\ act.target # Stock)
                  => tried[act.target] # act.seen \/ Untold
=============================================================================
