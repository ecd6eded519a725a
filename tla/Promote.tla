------------------------------ MODULE Promote ------------------------------
(***************************************************************************)
(* Stager's promote of a PHP or static site (addons/stager/action.ts): the *)
(* staging copy's files are assembled beside the live document root and    *)
(* renamed into its place, the live site's own configuration copied in     *)
(* before and its uploads moved in after.  The job runs in a unit of its   *)
(* own under the target's lock; repair's prune, which takes no lock, puts  *)
(* back a root an interrupted promote moved aside, and drops the replaced  *)
(* roots of expired records.                                               *)
(*                                                                         *)
(* A document root is whose code it holds, whose configuration files, and  *)
(* whose uploads.                                                          *)
(***************************************************************************)
EXTENDS Naturals

CONSTANTS MaxJobs,  \* bound: promotes onto the site
          MaxKills  \* bound: runners, and prunes, that die

ASSUME JobsCounted == MaxJobs \in Nat \ {0}
ASSUME KillsCounted == MaxKills \in Nat

VARIABLES live,            \* the live document root, or None
          prev,            \* .clp-stager-prev-<target>-<job>, by job
          stage, discard,  \* .clp-stager-promote-<job>, and the rolled-back release
          state, swap,     \* the record's fields, by job; state "gone": no record
          old,             \* records nobody wrote to for fourteen days
          job, pc,         \* the last job asked for, and where its runner is
          pruning,         \* where repair's prune is
          kills,
          before,          \* history: the live root the last job found
          cut, taken, stuck \* history: see "What the code cannot see" below

disk == <<live, prev, stage, discard>>
record == <<state, swap, old>>
history == <<before, cut, taken, stuck>>
vars == <<disk, record, job, pc, pruning, kills, history>>

Jobs == 1..MaxJobs
Stray == MaxJobs + 1                \* what the site itself writes into a missing root
Roots == [code : 0..Stray, config : {"live", "staging", "none"},
          uploads : {"live", "staging", "none"}]
None == [code |-> 0, config |-> "none", uploads |-> "none"]
LiveAtFirst == [code |-> 0, config |-> "live", uploads |-> "live"]
Staging(j) == [code |-> j, config |-> "staging", uploads |-> "staging"]

Unfinished(j) == state[j] \in {"queued", "running"}
Final(j) == state[j] \in {"done", "failed"}
Running == pc # "idle"

Init == /\ live = LiveAtFirst /\ before = LiveAtFirst
        /\ prev = [j \in Jobs |-> None]
        /\ stage = [j \in Jobs |-> None] /\ discard = [j \in Jobs |-> None]
        /\ state = [j \in Jobs |-> "gone"] /\ swap = [j \in Jobs |-> "none"]
        /\ old = {} /\ job = 0 /\ pc = "idle" /\ pruning = "idle" /\ kills = 0
        /\ cut = {} /\ taken = FALSE /\ stuck = FALSE

-----------------------------------------------------------------------------
(* The request: recorded under the target's lock, then handed to systemd,  *)
(* which may refuse.                                                       *)

cmdPromote ==
  /\ job < MaxJobs /\ ~Running
  /\ live # None
  /\ \A j \in Jobs : ~Unfinished(j)
  /\ job' = job + 1 /\ before' = live
  /\ \/ /\ state' = [state EXCEPT ![job + 1] = "queued"]
        /\ pc' = "queued"
     \/ /\ state' = [state EXCEPT ![job + 1] = "failed"]
        /\ UNCHANGED pc
  /\ UNCHANGED <<disk, swap, old, pruning, kills, cut, taken, stuck>>

-----------------------------------------------------------------------------
(* The runner.                                                             *)

Goes(from, to) == pc = from /\ pc' = to
Sets(field) == swap' = [swap EXCEPT ![job] = field]

Begin ==
  /\ Goes("queued", "assemble")
  /\ state' = [state EXCEPT ![job] = "running"]
  /\ UNCHANGED <<disk, swap, old, job, pruning, kills, history>>

(* The database's dump is taken and the staging files copied.              *)
Assemble ==
  /\ Goes("assemble", "strip")
  /\ stage' = [stage EXCEPT ![job] = Staging(job)]
  /\ UNCHANGED <<live, prev, discard, record, job, pruning, kills, history>>

Strip ==
  /\ Goes("strip", "keep")
  /\ stage' = [stage EXCEPT ![job].config = "none", ![job].uploads = "none"]
  /\ UNCHANGED <<live, prev, discard, record, job, pruning, kills, history>>

(* Changed form: what the live site owns follows after the switch.         *)
KeepNothing ==
  /\ Goes("keep", "aside")
  /\ UNCHANGED <<disk, record, job, pruning, kills, history>>

KeepConfig ==
  /\ Goes("keep", "aside")
  /\ stage' = [stage EXCEPT ![job].config = live.config]
  /\ UNCHANGED <<live, prev, discard, record, job, pruning, kills, history>>

MoveAside ==
  /\ Goes("aside", "record-aside")
  /\ prev' = [prev EXCEPT ![job] = live]
  /\ live' = None
  /\ UNCHANGED <<stage, discard, record, job, pruning, kills, history>>

RecordAside ==
  /\ Goes("record-aside", "switch")
  /\ Sets("moved")
  /\ UNCHANGED <<disk, state, old, job, pruning, kills, history>>

Switch ==
  /\ Goes("switch", "record-switch")
  /\ live = None
  /\ live' = stage[job]
  /\ stage' = [stage EXCEPT ![job] = None]
  /\ UNCHANGED <<prev, discard, record, job, pruning, kills, history>>

RecordSwitch ==
  /\ Goes("record-switch", "uploads")
  /\ Sets("done")
  /\ UNCHANGED <<disk, state, old, job, pruning, kills, history>>

MoveUploads ==
  /\ Goes("uploads", "result")
  /\ live' = [live EXCEPT !.uploads = prev[job].uploads]
  /\ prev' = [prev EXCEPT ![job].uploads = "none"]
  /\ UNCHANGED <<stage, discard, record, job, pruning, kills, history>>

(* One of its three commands fails, and the promote goes on without them.  *)
UploadsStay ==
  /\ Goes("uploads", "result")
  /\ prev[job].uploads # "none" /\ stuck' = TRUE
  /\ UNCHANGED <<disk, record, job, pruning, kills, before, cut, taken>>

RecordResult ==
  /\ Goes("result", "idle")
  /\ state' = [state EXCEPT ![job] = "done"]
  /\ UNCHANGED <<disk, swap, old, job, pruning, kills, history>>

-----------------------------------------------------------------------------
(* A step that fails tells the record at once (failJob); a record that     *)
(* cannot be written throws, and is told at the end of the unwinding.      *)

FailJob ==
  /\ pc \in {"assemble", "strip", "keep", "aside", "switch"}
  /\ pc' = "undo-aside"
  /\ state' = [state EXCEPT ![job] = "failed"]
  /\ UNCHANGED <<disk, swap, old, job, pruning, kills, history>>

ThrowBeforeSwitch ==
  /\ pc \in {"record-aside", "record-switch"}
  /\ pc' = "undo-aside"
  /\ cut' = IF pc = "record-switch" THEN cut \cup {job} ELSE cut
  /\ UNCHANGED <<disk, record, job, pruning, kills, before, taken, stuck>>

ThrowAfterSwitch ==
  /\ \/ pc = "uploads" /\ pc' = "undo-switch"
     \/ pc = "result" /\ pc' = "undo-uploads"
  /\ UNCHANGED <<disk, record, job, pruning, kills, history>>

(* Before the unwinding is armed, and after it is disarmed for the last    *)
(* write, a record that cannot be written ends the runner as it is.        *)
ThrowUnarmed ==
  /\ pc \in {"queued", "result"} /\ pc' = "idle"
  /\ cut' = IF pc = "result" THEN cut \cup {job} ELSE cut
  /\ state' = [state EXCEPT ![job] = "failed"] \/ UNCHANGED state
  /\ UNCHANGED <<disk, swap, old, job, pruning, kills, before, taken, stuck>>

(* Changed form: only a recorded switch is undone.                         *)
UndoNothing ==
  /\ Goes("undo-aside", "unwound")
  /\ UNCHANGED <<disk, record, job, pruning, kills, history>>

(* rollbackPromote before the switch is recorded.                          *)
UndoAside ==
  /\ pc = "undo-aside"
  /\ IF prev[job] # None /\ live = None
     THEN /\ live' = prev[job]
          /\ prev' = [prev EXCEPT ![job] = None]
          /\ pc' = "undo-record"
     ELSE UNCHANGED <<live, prev>> /\ pc' = "unwound"
  /\ UNCHANGED <<stage, discard, record, job, pruning, kills, history>>

UndoRecord ==
  /\ Goes("undo-record", "unwound")
  /\ Sets("rolled-back") \/ UNCHANGED swap
  /\ UNCHANGED <<disk, state, old, job, pruning, kills, history>>

(* Changed form: the uploads are left on the release being discarded.      *)
UndoUploadsNot ==
  /\ Goes("undo-uploads", "undo-switch")
  /\ UNCHANGED <<disk, record, job, pruning, kills, history>>

(* And after it: the uploads go back first, if they were moved and can be. *)
UndoUploads ==
  /\ Goes("undo-uploads", "undo-switch")
  /\ IF live.uploads = "none" THEN UNCHANGED <<live, prev, stuck>>
     ELSE \/ /\ prev' = [prev EXCEPT ![job].uploads = live.uploads]
             /\ live' = [live EXCEPT !.uploads = "none"]
             /\ UNCHANGED stuck
          \/ stuck' = TRUE /\ UNCHANGED <<live, prev>>
  /\ UNCHANGED <<stage, discard, record, job, pruning, kills, before, cut, taken>>

UndoSwitch ==
  /\ Goes("undo-switch", "undo-back")
  /\ discard' = [discard EXCEPT ![job] = live]
  /\ live' = None
  /\ UNCHANGED <<prev, stage, record, job, pruning, kills, history>>

UndoBack ==
  /\ pc = "undo-back"
  /\ IF live = None
     THEN /\ live' = prev[job]
          /\ prev' = [prev EXCEPT ![job] = None]
          /\ pc' = "undo-swap"
     ELSE UNCHANGED <<live, prev>> /\ pc' = "unwound"
  /\ UNCHANGED <<stage, discard, record, job, pruning, kills, history>>

(* Changed form: recorded in a word repair does not know.                  *)
UndoSwapWord ==
  /\ Goes("undo-swap", "drop-discard")
  /\ Sets("restored")
  /\ UNCHANGED <<disk, state, old, job, pruning, kills, history>>

UndoSwap ==
  /\ pc = "undo-swap"
  /\ \/ Sets("rolled-back") /\ pc' = "drop-discard"
     \/ UNCHANGED swap /\ pc' = "unwound"
  /\ UNCHANGED <<disk, state, old, job, pruning, kills, history>>

DropDiscard ==
  /\ Goes("drop-discard", "unwound")
  /\ discard' = [discard EXCEPT ![job] = None]
  /\ UNCHANGED <<live, prev, stage, record, job, pruning, kills, history>>

Unwound ==
  /\ Goes("unwound", "idle")
  /\ stage' = [stage EXCEPT ![job] = None]
  /\ state' = [state EXCEPT ![job] = "failed"] \/ UNCHANGED state
  /\ UNCHANGED <<live, prev, discard, swap, old, job, pruning, kills, history>>

-----------------------------------------------------------------------------
(* What the code cannot see: a runner that dies (cut), something else that *)
(* appears at the live root while it is missing (taken), and the uploads a *)
(* command could not move (stuck).                                         *)

KillRunner ==
  /\ Running /\ kills < MaxKills
  /\ pc' = "idle" /\ kills' = kills + 1 /\ cut' = cut \cup {job}
  /\ UNCHANGED <<disk, record, job, pruning, before, taken, stuck>>

(* A request of the live site's own code that makes the directories of the *)
(* file it writes.                                                         *)
SiteWrites ==
  /\ live = None /\ ~taken
  /\ live' = [code |-> Stray, config |-> "none", uploads |-> "none"]
  /\ taken' = TRUE
  /\ UNCHANGED <<prev, stage, discard, record, job, pc, pruning, kills, before, cut, stuck>>

-----------------------------------------------------------------------------
(* Repair's prune, every fifteen minutes.                                  *)

(* A prune takes a moment of those fourteen days.                          *)
FourteenDays(j) ==
  /\ pruning = "idle" /\ state[j] # "gone"
  /\ ~(Running /\ j = job)
  /\ old' = old \cup {j}
  /\ UNCHANGED <<disk, state, swap, job, pc, pruning, kills, history>>

(* The records of an interrupted switch.  Changed form: a promote that     *)
(* failed has put its root back itself.                                    *)
InterruptedDone == {j \in Jobs : state[j] = "done" /\ swap[j] = "moved" /\ prev[j] # None}
Interrupted == {j \in Jobs : Final(j) /\ swap[j] = "moved" /\ prev[j] # None}

(* The newest one's root goes back; after it the root is not missing.      *)
recoverInterruptedPromotions ==
  /\ pruning = "idle" /\ pruning' = "drop"
  /\ IF live = None /\ Interrupted # {}
     THEN \E j \in Interrupted :
            /\ \A i \in Interrupted : i <= j
            /\ live' = prev[j]
            /\ prev' = [prev EXCEPT ![j] = None]
            /\ swap' = [swap EXCEPT ![j] = "rolled-back"]
            /\ old' = old \ {j}
            /\ taken' = (taken \/ (Running /\ j # job))
     ELSE UNCHANGED <<live, prev, swap, old, taken>>
  /\ UNCHANGED <<stage, discard, state, job, pc, kills, before, cut, stuck>>

(* Changed form: the roots are dropped before the interrupted are looked   *)
(* for.                                                                    *)
DropFirst ==
  /\ pruning \in {"idle", "drop"}
  /\ pruning' = IF pruning = "idle" THEN "idle" ELSE "expire"
  /\ prev' = [j \in Jobs |-> IF Final(j) /\ j \in old THEN None ELSE prev[j]]
  /\ UNCHANGED <<live, stage, discard, record, job, pc, kills, history>>

dropExpiredPromoteRoots ==
  /\ pruning = "drop" /\ pruning' = "expire"
  /\ prev' = [j \in Jobs |-> IF Final(j) /\ j \in old THEN None ELSE prev[j]]
  /\ UNCHANGED <<live, stage, discard, record, job, pc, kills, history>>

Dead(j) == Unfinished(j) /\ ~(Running /\ j = job)

(* Changed form: the record's age is the one it had before it was marked.  *)
PruneJobsAged ==
  /\ pruning = "expire" /\ pruning' = "idle"
  /\ \E M \in SUBSET {j \in Jobs : Dead(j)} :
       /\ state' = [j \in Jobs |-> IF j \in old /\ (j \in M \/ Final(j)) THEN "gone"
                                   ELSE IF j \in M THEN "failed" ELSE state[j]]
       /\ old' = old \ M
  /\ UNCHANGED <<disk, swap, job, pc, kills, history>>

(* A dead runner's record is marked once it is five minutes old; marking   *)
(* writes to it, so that it is not the pass that takes it.                 *)
pruneJobs ==
  /\ pruning = "expire" /\ pruning' = "idle"
  /\ \E M \in SUBSET {j \in Jobs : Dead(j)} :
       /\ state' = [j \in Jobs |-> IF j \in M THEN "failed"
                                   ELSE IF j \in old /\ Final(j) THEN "gone" ELSE state[j]]
       /\ old' = old \ (M \cup {j \in Jobs : Final(j)})
  /\ UNCHANGED <<disk, swap, job, pc, kills, history>>

KillPrune ==
  /\ pruning # "idle" /\ kills < MaxKills
  /\ pruning' = "idle" /\ kills' = kills + 1
  /\ UNCHANGED <<disk, record, job, pc, history>>

-----------------------------------------------------------------------------
Forward == \/ Begin \/ Assemble \/ Strip \/ KeepConfig \/ MoveAside \/ RecordAside
           \/ Switch \/ RecordSwitch \/ MoveUploads \/ UploadsStay \/ RecordResult
Unwind == \/ UndoAside \/ UndoRecord \/ UndoUploads \/ UndoSwitch \/ UndoBack \/ UndoSwap
          \/ DropDiscard \/ Unwound
Fails == FailJob \/ ThrowBeforeSwitch \/ ThrowAfterSwitch \/ ThrowUnarmed
Prune == recoverInterruptedPromotions \/ dropExpiredPromoteRoots \/ pruneJobs

Next == \/ cmdPromote \/ Forward \/ Fails \/ Unwind \/ Prune
        \/ KillRunner \/ KillPrune \/ SiteWrites \/ \E j \in Jobs : FourteenDays(j)

Spec == Init /\ [][Next]_vars

MarksTheDead == pruneJobs /\ \A j \in Jobs : Dead(j) => state'[j] = "failed"

(* A runner goes on while it lives; the timer runs repair again and again, *)
(* and sooner or later a pass comes five minutes after a runner died.      *)
FairSpec == /\ Spec
            /\ WF_vars(Forward \/ FailJob \/ Unwind)
            /\ WF_vars(Prune) /\ SF_vars(MarksTheDead)

-----------------------------------------------------------------------------
TypeOK ==
  /\ live \in Roots /\ before \in Roots
  /\ prev \in [Jobs -> Roots] /\ stage \in [Jobs -> Roots] /\ discard \in [Jobs -> Roots]
  /\ state \in [Jobs -> {"gone", "queued", "running", "done", "failed"}]
  /\ swap \in [Jobs -> {"none", "moved", "done", "rolled-back"}]
  /\ old \subseteq Jobs /\ job \in 0..MaxJobs /\ kills \in 0..MaxKills
  /\ pc \in {"idle", "queued", "assemble", "strip", "keep", "aside", "record-aside",
             "switch", "record-switch", "uploads", "result", "undo-aside", "undo-record",
             "undo-uploads", "undo-switch", "undo-back", "undo-swap", "drop-discard",
             "unwound"}
  /\ pruning \in {"idle", "drop", "expire"}
  /\ cut \subseteq Jobs /\ taken \in BOOLEAN /\ stuck \in BOOLEAN

(* A root is served with the live site's own configuration from its first  *)
(* request, before, during and after a promote and its unwinding, and never*)
(* with the staging copy's, whoever dies where.  (A root the site itself   *)
(* made while its own was missing has none.)                               *)
ServesOwnConfig ==
  live # None => live.config = "live" \/ (taken /\ live.config = "none")

(* The record tells what is on the disk: after "done" the new code is live,*)
(* after "failed" the root is the one the promote found.  Not promised of a*)
(* runner that died or could not record its switch or its end, nor of a    *)
(* missing root something else took; and uploads that could not be moved   *)
(* are not there.                                                          *)
Same(r, s) == r.code = s.code /\ r.config = s.config /\ (stuck \/ r.uploads = s.uploads)

RecordIsTrue ==
  ~Running /\ job > 0 /\ job \notin cut /\ ~taken =>
    CASE state[job] = "done" -> Same(live, [before EXCEPT !.code = job])
      [] state[job] = "failed" -> Same(live, before)
      [] OTHER -> TRUE

(* A replaced root does not outlive the record that names it.              *)
RootsGoWithRecords == \A j \in Jobs : state[j] = "gone" => prev[j] = None

(* A root recorded as moved aside is not dropped while the site has no     *)
(* other, however late repair comes.                                       *)
LastRootKept ==
  [][\A j \in Jobs : swap[j] = "moved" /\ prev[j] # None /\ prev'[j] = None
                       => live' # None \/ \E i \in Jobs : prev'[i] # None]_vars

(* The uploads go only with a replaced root whose fourteen days are over,  *)
(* or on a discarded release they could not be moved from.                 *)
UploadsIn(r) == r.uploads = "live"
UploadsKept == UploadsIn(live) \/ \E j \in Jobs : UploadsIn(prev[j]) \/ UploadsIn(discard[j])

UploadsOutlivePromotes ==
  [][UploadsKept /\ ~UploadsKept' => stuck \/ \E j \in old : UploadsIn(prev[j])]_vars

(* A promote that is recorded to have died between the two renames is put  *)
(* back by the repair pass.                                                *)
MovedComesBack ==
  \A j \in Jobs : (live = None /\ j = job /\ swap[j] = "moved" /\ prev[j] # None)
                    ~> (live # None)

(* A promote that died strands neither the visitors' uploads nor a root    *)
(* that it had moved away.                                                 *)
NothingStranded == UploadsOutlivePromotes /\ MovedComesBack
=============================================================================
