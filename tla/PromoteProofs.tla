--------------------------- MODULE PromoteProofs ---------------------------
(***************************************************************************)
(* Proofs about Promote.  The invariant says what each place of the runner *)
(* has on the disk and in its record: a root is never moved to the live    *)
(* path before it is configured, and what repair's prune may touch are the *)
(* roots of records that are finished, never those of the runner.          *)
(***************************************************************************)
EXTENDS Promote, TLAPS

(* Where the runner has yet to finish or fail: its record says so, so that *)
(* repair's prune, which goes by the record, leaves its roots alone.       *)
BeforeSwitch == {"queued", "assemble", "strip", "keep", "aside"}
Switching == {"record-aside", "switch"}
Switched == {"record-switch", "uploads", "result", "undo-uploads"}
Undoing == {"undo-switch", "undo-back"}

RunnerRecorded ==
  /\ Running => job \in Jobs /\ job \notin old /\ state[job] # "gone"
  /\ pc \in BeforeSwitch \cup Switching \cup Switched \cup Undoing => Unfinished(job)
  /\ \A j \in Jobs : j > job => state[j] = "gone" /\ j \notin old

(* A root that may be served.                                              *)
Sound(r) == \/ r.config = "live"
            \/ taken /\ r.config = "none" /\ r.code # 0

(* What is live, or can come back, may be served.                          *)
RootsSound ==
  /\ live # None => Sound(live)
  /\ \A j \in Jobs : prev[j] # None => Sound(prev[j])

(* What the runner's place has prepared, moved aside and switched.         *)
StepsSound ==
  /\ pc \in BeforeSwitch => live # None
  /\ pc \in {"strip", "keep", "aside"} \cup Switching => stage[job].code = job
  /\ pc \in {"aside"} \cup Switching => Sound(stage[job])
  /\ pc \in Switching \cup Switched \cup Undoing => Sound(prev[job])
  /\ pc \in Switched => Sound(live)

(* Dropped roots first, then their records.                                *)
ExpiredGone ==
  /\ \A j \in Jobs : state[j] = "gone" => prev[j] = None
  /\ pruning = "expire" => \A j \in old : Final(j) => prev[j] = None

(* Between repair's first pass and its second: if the site has no root,    *)
(* either one stays that is not old, or none of the old is interrupted.    *)
LastRootSafe ==
  pruning = "drop" /\ live = None =>
    \/ \E j \in Jobs \ old : prev[j] # None
    \/ \A j \in old : ~(Final(j) /\ swap[j] = "moved" /\ prev[j] # None)

IInv == TypeOK /\ RunnerRecorded /\ RootsSound /\ StepsSound /\ ExpiredGone /\ LastRootSafe

(* TypeOK in three parts.                                                  *)
DiskTyped ==
  /\ live \in Roots /\ before \in Roots
  /\ prev \in [Jobs -> Roots] /\ stage \in [Jobs -> Roots] /\ discard \in [Jobs -> Roots]

RecordTyped ==
  /\ state \in [Jobs -> {"gone", "queued", "running", "done", "failed"}]
  /\ swap \in [Jobs -> {"none", "moved", "done", "rolled-back"}]
  /\ old \subseteq Jobs /\ job \in 0..MaxJobs /\ kills \in 0..MaxKills
  /\ cut \subseteq Jobs /\ taken \in BOOLEAN /\ stuck \in BOOLEAN

ControlTyped ==
  /\ pc \in {"idle", "queued", "assemble", "strip", "keep", "aside", "record-aside",
             "switch", "record-switch", "uploads", "result", "undo-aside", "undo-record",
             "undo-uploads", "undo-switch", "undo-back", "undo-swap", "drop-discard",
             "unwound"}
  /\ pruning \in {"idle", "drop", "expire"}

(* A missing root is a root too.                                           *)
LEMMA NoneIsRoot == None \in Roots
  BY JobsCounted DEF None, Roots, Stray

(* What the runner assembles for a job is a root.                          *)
LEMMA StagingIsRoot == \A j \in Jobs : Staging(j) \in Roots
  BY JobsCounted DEF Staging, Roots, Stray, Jobs

(* A root with other uploads is a root, and as sound as it was.            *)
LEMMA UploadsReplaced ==
  ASSUME NEW r \in Roots, NEW u \in {"live", "staging", "none"}
  PROVE  LET s == [r EXCEPT !.uploads = u]
         IN s \in Roots /\ s.code = r.code /\ s.config = r.config /\ s.uploads = u
  BY DEF Roots

(* The same of another configuration: what KeepConfig writes.              *)
LEMMA ConfigReplaced ==
  ASSUME NEW r \in Roots, NEW c \in {"live", "staging", "none"}
  PROVE  LET s == [r EXCEPT !.config = c]
         IN s \in Roots /\ s.code = r.code /\ s.config = c /\ s.uploads = r.uploads
  BY DEF Roots

(* There is something where a sound root is.                               *)
LEMMA SoundIsThere == ~Sound(None)
  BY DEF Sound, None

(* What a root's configuration and uploads can be.                         *)
LEMMA FieldsTyped ==
  ASSUME NEW r \in Roots
  PROVE  r.config \in {"live", "staging", "none"} /\ r.uploads \in {"live", "staging", "none"}
  BY DEF Roots

LEMMA TypeInParts == TypeOK <=> DiskTyped /\ RecordTyped /\ ControlTyped
  BY DEF TypeOK, DiskTyped, RecordTyped, ControlTyped

(* The roots on the disk stay roots: what is moved, copied and emptied. *)
LEMMA DiskInductive ==
  ASSUME DiskTyped, RecordTyped, RunnerRecorded, [Next]_vars
  PROVE  DiskTyped'
<1> USE JobsCounted, KillsCounted
<1>1. ASSUME Strip PROVE DiskTyped'
  <2>1. stage[job] \in Roots
    BY <1>1 DEF DiskTyped, RunnerRecorded, Running, Strip, Goes, Jobs
  <2>2. [stage[job] EXCEPT !.config = "none", !.uploads = "none"] \in Roots
    BY <2>1 DEF Roots
  <2>3. stage' = [stage EXCEPT ![job] =
                    [stage[job] EXCEPT !.config = "none", !.uploads = "none"]]
    BY <1>1 DEF Strip
  <2>4. QED
    BY <1>1, <2>2, <2>3 DEF Strip, DiskTyped, history
<1>2. ASSUME KeepConfig PROVE DiskTyped'
  <2>1. stage[job] \in Roots /\ live.config \in {"live", "staging", "none"}
    BY <1>2, FieldsTyped DEF KeepConfig, Goes, DiskTyped, RunnerRecorded, Running
  <2>2. [stage[job] EXCEPT !.config = live.config] \in Roots
    BY <2>1, ConfigReplaced
  <2>3. stage' = [stage EXCEPT ![job] = [stage[job] EXCEPT !.config = live.config]]
    BY <1>2 DEF KeepConfig
  <2>4. QED
    BY <1>2, <2>2, <2>3 DEF KeepConfig, DiskTyped, history
<1>3. ASSUME MoveUploads PROVE DiskTyped'
  <2>1. job \in Jobs
    BY <1>3 DEF RunnerRecorded, Running, MoveUploads, Goes
  <2>2. prev[job] \in Roots /\ live \in Roots
    BY <2>1 DEF DiskTyped
  <2>3. [live EXCEPT !.uploads = prev[job].uploads] \in Roots
        /\ [prev[job] EXCEPT !.uploads = "none"] \in Roots
    BY <2>2, FieldsTyped, UploadsReplaced
  <2>4. prev' = [prev EXCEPT ![job] = [prev[job] EXCEPT !.uploads = "none"]]
    BY <1>3 DEF MoveUploads
  <2>5. QED
    BY <1>3, <2>3, <2>4 DEF MoveUploads, DiskTyped, history
<1>4. ASSUME UndoAside PROVE DiskTyped'
  <2>1. job \in Jobs
    BY <1>4 DEF RunnerRecorded, Running, UndoAside
  <2>2. prev[job] \in Roots
    BY <2>1 DEF DiskTyped
  <2>3. QED
    BY <1>4, <2>1, <2>2, NoneIsRoot DEF UndoAside, DiskTyped, history
<1>5. ASSUME UndoUploads PROVE DiskTyped'
  <2>1. prev[job] \in Roots /\ live \in Roots
    BY <1>5 DEF DiskTyped, RunnerRecorded, Running, UndoUploads, Goes
  <2>2. [prev[job] EXCEPT !.uploads = live.uploads] \in Roots
        /\ [live EXCEPT !.uploads = "none"] \in Roots
    BY <2>1, FieldsTyped, UploadsReplaced
  <2>3. \/ prev' = [prev EXCEPT ![job] = [prev[job] EXCEPT !.uploads = live.uploads]]
        \/ prev' = prev
    BY <1>5 DEF UndoUploads
  <2>4. QED
    BY <1>5, <2>2, <2>3 DEF UndoUploads, DiskTyped
<1>6. ASSUME UndoBack PROVE DiskTyped'
  <2>1. job \in Jobs
    BY <1>6 DEF RunnerRecorded, Running, UndoBack
  <2>2. prev[job] \in Roots
    BY <2>1 DEF DiskTyped
  <2>3. QED
    BY <1>6, <2>1, <2>2, NoneIsRoot DEF UndoBack, DiskTyped, history
<1>7. ASSUME recoverInterruptedPromotions PROVE DiskTyped'
  <2>1. CASE UNCHANGED <<live, prev>>
    BY <1>7, <2>1 DEF recoverInterruptedPromotions, DiskTyped
  <2>2. ASSUME NEW j \in Jobs, live' = prev[j], prev' = [prev EXCEPT ![j] = None]
        PROVE  DiskTyped'
    BY <1>7, <2>2, NoneIsRoot DEF recoverInterruptedPromotions, DiskTyped
  <2>3. QED
    BY <1>7, <2>1, <2>2 DEF recoverInterruptedPromotions, Interrupted
<1>8. ASSUME SiteWrites PROVE DiskTyped'
  <2>1. [code |-> Stray, config |-> "none", uploads |-> "none"] \in Roots
    BY DEF Roots, Stray
  <2>2. QED
    BY <1>8, <2>1 DEF SiteWrites, DiskTyped
<1> USE DEF DiskTyped, RunnerRecorded, disk, record, history, Running, Goes
<1>9. ASSUME cmdPromote PROVE DiskTyped'
  BY <1>9 DEF cmdPromote
<1>10. ASSUME Begin PROVE DiskTyped'
  BY <1>10 DEF Begin
<1>11. ASSUME Assemble PROVE DiskTyped'
  BY <1>11, StagingIsRoot DEF Assemble
<1>12. ASSUME MoveAside PROVE DiskTyped'
  BY <1>12, NoneIsRoot DEF MoveAside
<1>13. ASSUME RecordAside PROVE DiskTyped'
  BY <1>13 DEF RecordAside
<1>14. ASSUME Switch PROVE DiskTyped'
  BY <1>14, NoneIsRoot DEF Switch
<1>15. ASSUME RecordSwitch PROVE DiskTyped'
  BY <1>15 DEF RecordSwitch
<1>16. ASSUME UploadsStay PROVE DiskTyped'
  BY <1>16 DEF UploadsStay
<1>17. ASSUME RecordResult PROVE DiskTyped'
  BY <1>17 DEF RecordResult
<1>18. ASSUME FailJob PROVE DiskTyped'
  BY <1>18 DEF FailJob
<1>19. ASSUME ThrowBeforeSwitch PROVE DiskTyped'
  BY <1>19 DEF ThrowBeforeSwitch
<1>20. ASSUME ThrowAfterSwitch PROVE DiskTyped'
  BY <1>20 DEF ThrowAfterSwitch
<1>21. ASSUME ThrowUnarmed PROVE DiskTyped'
  BY <1>21 DEF ThrowUnarmed
<1>22. ASSUME UndoRecord PROVE DiskTyped'
  BY <1>22 DEF UndoRecord
<1>23. ASSUME UndoSwitch PROVE DiskTyped'
  BY <1>23, NoneIsRoot DEF UndoSwitch
<1>24. ASSUME UndoSwap PROVE DiskTyped'
  BY <1>24 DEF UndoSwap
<1>25. ASSUME DropDiscard PROVE DiskTyped'
  BY <1>25, NoneIsRoot DEF DropDiscard
<1>26. ASSUME Unwound PROVE DiskTyped'
  BY <1>26, NoneIsRoot DEF Unwound
<1>27. ASSUME dropExpiredPromoteRoots PROVE DiskTyped'
  BY <1>27, NoneIsRoot DEF dropExpiredPromoteRoots
<1>28. ASSUME pruneJobs PROVE DiskTyped'
  BY <1>28 DEF pruneJobs
<1>29. ASSUME KillRunner PROVE DiskTyped'
  BY <1>29 DEF KillRunner
<1>30. ASSUME KillPrune PROVE DiskTyped'
  BY <1>30 DEF KillPrune
<1>31. ASSUME NEW j \in Jobs, FourteenDays(j) PROVE DiskTyped'
  BY <1>31 DEF FourteenDays
<1>32. CASE UNCHANGED vars
  BY <1>32 DEF vars
<1>33. QED
  BY <1>1, <1>2, <1>3, <1>4, <1>5, <1>6, <1>7, <1>8, <1>9, <1>10, <1>11, <1>12, <1>13,
     <1>14, <1>15, <1>16, <1>17, <1>18, <1>19, <1>20, <1>21, <1>22, <1>23, <1>24, <1>25,
     <1>26, <1>27, <1>28, <1>29, <1>30, <1>31, <1>32
     DEF Next, Forward, Fails, Unwind, Prune

(* The records, and what the code cannot see. *)
LEMMA RecordTypeInductive ==
  ASSUME DiskTyped, RecordTyped, RunnerRecorded, [Next]_vars
  PROVE  RecordTyped'
<1> USE JobsCounted, KillsCounted
<1> USE DEF RecordTyped, RunnerRecorded, disk, record, history, Running, Goes, Sets,
       Jobs
<1>1. ASSUME cmdPromote PROVE RecordTyped'
  BY <1>1 DEF cmdPromote
<1>2. ASSUME Begin PROVE RecordTyped'
  BY <1>2 DEF Begin
<1>3. ASSUME Assemble PROVE RecordTyped'
  BY <1>3 DEF Assemble
<1>4. ASSUME Strip PROVE RecordTyped'
  BY <1>4 DEF Strip
<1>5. ASSUME KeepConfig PROVE RecordTyped'
  BY <1>5 DEF KeepConfig
<1>6. ASSUME MoveAside PROVE RecordTyped'
  BY <1>6 DEF MoveAside
<1>7. ASSUME RecordAside PROVE RecordTyped'
  BY <1>7 DEF RecordAside
<1>8. ASSUME Switch PROVE RecordTyped'
  BY <1>8 DEF Switch
<1>9. ASSUME RecordSwitch PROVE RecordTyped'
  BY <1>9 DEF RecordSwitch
<1>10. ASSUME MoveUploads PROVE RecordTyped'
  BY <1>10 DEF MoveUploads
<1>11. ASSUME UploadsStay PROVE RecordTyped'
  BY <1>11 DEF UploadsStay
<1>12. ASSUME RecordResult PROVE RecordTyped'
  BY <1>12 DEF RecordResult
<1>13. ASSUME FailJob PROVE RecordTyped'
  BY <1>13 DEF FailJob
<1>14. ASSUME ThrowBeforeSwitch PROVE RecordTyped'
  BY <1>14 DEF ThrowBeforeSwitch
<1>15. ASSUME ThrowAfterSwitch PROVE RecordTyped'
  BY <1>15 DEF ThrowAfterSwitch
<1>16. ASSUME ThrowUnarmed PROVE RecordTyped'
  BY <1>16 DEF ThrowUnarmed
<1>17. ASSUME UndoAside PROVE RecordTyped'
  BY <1>17 DEF UndoAside
<1>18. ASSUME UndoRecord PROVE RecordTyped'
  BY <1>18 DEF UndoRecord
<1>19. ASSUME UndoUploads PROVE RecordTyped'
  BY <1>19 DEF UndoUploads
<1>20. ASSUME UndoSwitch PROVE RecordTyped'
  BY <1>20 DEF UndoSwitch
<1>21. ASSUME UndoBack PROVE RecordTyped'
  BY <1>21 DEF UndoBack
<1>22. ASSUME UndoSwap PROVE RecordTyped'
  BY <1>22 DEF UndoSwap
<1>23. ASSUME DropDiscard PROVE RecordTyped'
  BY <1>23 DEF DropDiscard
<1>24. ASSUME Unwound PROVE RecordTyped'
  BY <1>24 DEF Unwound
<1>25. ASSUME recoverInterruptedPromotions PROVE RecordTyped'
  BY <1>25 DEF recoverInterruptedPromotions
<1>26. ASSUME dropExpiredPromoteRoots PROVE RecordTyped'
  BY <1>26 DEF dropExpiredPromoteRoots
<1>27. ASSUME pruneJobs PROVE RecordTyped'
  BY <1>27 DEF pruneJobs
<1>28. ASSUME KillRunner PROVE RecordTyped'
  BY <1>28 DEF KillRunner
<1>29. ASSUME KillPrune PROVE RecordTyped'
  BY <1>29 DEF KillPrune
<1>30. ASSUME SiteWrites PROVE RecordTyped'
  BY <1>30 DEF SiteWrites
<1>31. ASSUME NEW j \in Jobs, FourteenDays(j) PROVE RecordTyped'
  BY <1>31 DEF FourteenDays
<1>32. CASE UNCHANGED vars
  BY <1>32 DEF vars
<1>33. QED
  BY <1>1, <1>2, <1>3, <1>4, <1>5, <1>6, <1>7, <1>8, <1>9, <1>10, <1>11, <1>12, <1>13,
     <1>14, <1>15, <1>16, <1>17, <1>18, <1>19, <1>20, <1>21, <1>22, <1>23, <1>24, <1>25,
     <1>26, <1>27, <1>28, <1>29, <1>30, <1>31, <1>32
     DEF Next, Forward, Fails, Unwind, Prune

(* The places of the runner and of the prune. *)
LEMMA ControlInductive ==
  ASSUME ControlTyped, [Next]_vars
  PROVE  ControlTyped'
<1> USE JobsCounted, KillsCounted
<1> USE DEF ControlTyped, disk, record, history, Goes
<1>1. ASSUME cmdPromote PROVE ControlTyped'
  BY <1>1 DEF cmdPromote
<1>2. ASSUME Begin PROVE ControlTyped'
  BY <1>2 DEF Begin
<1>3. ASSUME Assemble PROVE ControlTyped'
  BY <1>3 DEF Assemble
<1>4. ASSUME Strip PROVE ControlTyped'
  BY <1>4 DEF Strip
<1>5. ASSUME KeepConfig PROVE ControlTyped'
  BY <1>5 DEF KeepConfig
<1>6. ASSUME MoveAside PROVE ControlTyped'
  BY <1>6 DEF MoveAside
<1>7. ASSUME RecordAside PROVE ControlTyped'
  BY <1>7 DEF RecordAside
<1>8. ASSUME Switch PROVE ControlTyped'
  BY <1>8 DEF Switch
<1>9. ASSUME RecordSwitch PROVE ControlTyped'
  BY <1>9 DEF RecordSwitch
<1>10. ASSUME MoveUploads PROVE ControlTyped'
  BY <1>10 DEF MoveUploads
<1>11. ASSUME UploadsStay PROVE ControlTyped'
  BY <1>11 DEF UploadsStay
<1>12. ASSUME RecordResult PROVE ControlTyped'
  BY <1>12 DEF RecordResult
<1>13. ASSUME FailJob PROVE ControlTyped'
  BY <1>13 DEF FailJob
<1>14. ASSUME ThrowBeforeSwitch PROVE ControlTyped'
  BY <1>14 DEF ThrowBeforeSwitch
<1>15. ASSUME ThrowAfterSwitch PROVE ControlTyped'
  BY <1>15 DEF ThrowAfterSwitch
<1>16. ASSUME ThrowUnarmed PROVE ControlTyped'
  BY <1>16 DEF ThrowUnarmed
<1>17. ASSUME UndoAside PROVE ControlTyped'
  BY <1>17 DEF UndoAside
<1>18. ASSUME UndoRecord PROVE ControlTyped'
  BY <1>18 DEF UndoRecord
<1>19. ASSUME UndoUploads PROVE ControlTyped'
  BY <1>19 DEF UndoUploads
<1>20. ASSUME UndoSwitch PROVE ControlTyped'
  BY <1>20 DEF UndoSwitch
<1>21. ASSUME UndoBack PROVE ControlTyped'
  BY <1>21 DEF UndoBack
<1>22. ASSUME UndoSwap PROVE ControlTyped'
  BY <1>22 DEF UndoSwap
<1>23. ASSUME DropDiscard PROVE ControlTyped'
  BY <1>23 DEF DropDiscard
<1>24. ASSUME Unwound PROVE ControlTyped'
  BY <1>24 DEF Unwound
<1>25. ASSUME recoverInterruptedPromotions PROVE ControlTyped'
  BY <1>25 DEF recoverInterruptedPromotions
<1>26. ASSUME dropExpiredPromoteRoots PROVE ControlTyped'
  BY <1>26 DEF dropExpiredPromoteRoots
<1>27. ASSUME pruneJobs PROVE ControlTyped'
  BY <1>27 DEF pruneJobs
<1>28. ASSUME KillRunner PROVE ControlTyped'
  BY <1>28 DEF KillRunner
<1>29. ASSUME KillPrune PROVE ControlTyped'
  BY <1>29 DEF KillPrune
<1>30. ASSUME SiteWrites PROVE ControlTyped'
  BY <1>30 DEF SiteWrites
<1>31. ASSUME NEW j \in Jobs, FourteenDays(j) PROVE ControlTyped'
  BY <1>31 DEF FourteenDays
<1>32. CASE UNCHANGED vars
  BY <1>32 DEF vars
<1>33. QED
  BY <1>1, <1>2, <1>3, <1>4, <1>5, <1>6, <1>7, <1>8, <1>9, <1>10, <1>11, <1>12, <1>13,
     <1>14, <1>15, <1>16, <1>17, <1>18, <1>19, <1>20, <1>21, <1>22, <1>23, <1>24, <1>25,
     <1>26, <1>27, <1>28, <1>29, <1>30, <1>31, <1>32
     DEF Next, Forward, Fails, Unwind, Prune

(* No step of the runner, of repair's prune or of the site leaves the types. *)
LEMMA TypeInductive == TypeOK /\ RunnerRecorded /\ [Next]_vars => TypeOK'
  BY TypeInParts, DiskInductive, RecordTypeInductive, ControlInductive
     DEF TypeOK, DiskTyped, RecordTyped, ControlTyped

(* A job that still runs keeps its record, and one that can still switch or
   unwind a switch keeps it unfinished: only its runner, or repair after the
   runner is dead, finishes it. *)
LEMMA RecordedInductive ==
  ASSUME TypeOK, RunnerRecorded, [Next]_vars
  PROVE  RunnerRecorded'
<1> USE JobsCounted, KillsCounted
<1>1. ASSUME cmdPromote PROVE RunnerRecorded'
  <2>1. job + 1 \in Jobs /\ job + 1 \notin old /\ pc = "idle" /\ old' = old /\ job' = job + 1
    BY <1>1 DEF cmdPromote, TypeOK, RunnerRecorded, Running, Jobs
  <2>2. /\ state'[job + 1] # "gone"
        /\ \A j \in Jobs : j > job + 1 => state'[j] = state[j]
    BY <1>1, <2>1 DEF cmdPromote, TypeOK, Jobs
  <2>3. \/ pc' = "idle"
        \/ pc' = "queued" /\ state'[job + 1] = "queued"
    BY <1>1, <2>1 DEF cmdPromote, TypeOK
  <2>4. \A j \in Jobs : j > job + 1 => j > job
    BY DEF TypeOK, Jobs
  <2>5. QED
    BY <2>1, <2>2, <2>3, <2>4
       DEF RunnerRecorded, BeforeSwitch, Switching, Switched, Undoing, Running, Unfinished
<1>2. ASSUME pruneJobs PROVE RunnerRecorded'
  <2>1. PICK M \in SUBSET {j \in Jobs : Dead(j)} :
          /\ state' = [j \in Jobs |-> IF j \in M THEN "failed"
                                      ELSE IF j \in old /\ Final(j) THEN "gone" ELSE state[j]]
          /\ old' = old \ (M \cup {j \in Jobs : Final(j)})
    BY <1>2 DEF pruneJobs
  <2>2. pc' = pc /\ job' = job
    BY <1>2 DEF pruneJobs
  <2>3. Running => job \notin M
    BY DEF Dead
  <2>4. Running => state'[job] = state[job]
    BY <2>1, <2>3 DEF RunnerRecorded
  <2>5. \A j \in Jobs : j > job => state'[j] = "gone" /\ j \notin old'
    BY <2>1 DEF RunnerRecorded, Dead, Unfinished
  <2>6. QED
    BY <2>1, <2>2, <2>4, <2>5
       DEF RunnerRecorded, BeforeSwitch, Switching, Switched, Undoing, Running, Unfinished
<1> USE DEF TypeOK, None, RunnerRecorded, BeforeSwitch, Switching, Switched, Undoing,
       disk, record, history, Jobs, Running, Unfinished, Final, Goes, Sets, Interrupted,
       Dead
<1>3. ASSUME Begin PROVE RunnerRecorded'
  BY <1>3 DEF Begin
<1>4. ASSUME Assemble PROVE RunnerRecorded'
  BY <1>4 DEF Assemble
<1>5. ASSUME Strip PROVE RunnerRecorded'
  BY <1>5 DEF Strip
<1>6. ASSUME KeepConfig PROVE RunnerRecorded'
  BY <1>6 DEF KeepConfig
<1>7. ASSUME MoveAside PROVE RunnerRecorded'
  BY <1>7 DEF MoveAside
<1>8. ASSUME RecordAside PROVE RunnerRecorded'
  BY <1>8 DEF RecordAside
<1>9. ASSUME Switch PROVE RunnerRecorded'
  BY <1>9 DEF Switch
<1>10. ASSUME RecordSwitch PROVE RunnerRecorded'
  BY <1>10 DEF RecordSwitch
<1>11. ASSUME MoveUploads PROVE RunnerRecorded'
  BY <1>11 DEF MoveUploads
<1>12. ASSUME UploadsStay PROVE RunnerRecorded'
  BY <1>12 DEF UploadsStay
<1>13. ASSUME RecordResult PROVE RunnerRecorded'
  BY <1>13 DEF RecordResult
<1>14. ASSUME FailJob PROVE RunnerRecorded'
  BY <1>14 DEF FailJob
<1>15. ASSUME ThrowBeforeSwitch PROVE RunnerRecorded'
  BY <1>15 DEF ThrowBeforeSwitch
<1>16. ASSUME ThrowAfterSwitch PROVE RunnerRecorded'
  BY <1>16 DEF ThrowAfterSwitch
<1>17. ASSUME ThrowUnarmed PROVE RunnerRecorded'
  BY <1>17 DEF ThrowUnarmed
<1>18. ASSUME UndoAside PROVE RunnerRecorded'
  BY <1>18 DEF UndoAside
<1>19. ASSUME UndoRecord PROVE RunnerRecorded'
  BY <1>19 DEF UndoRecord
<1>20. ASSUME UndoUploads PROVE RunnerRecorded'
  BY <1>20 DEF UndoUploads
<1>21. ASSUME UndoSwitch PROVE RunnerRecorded'
  BY <1>21 DEF UndoSwitch
<1>22. ASSUME UndoBack PROVE RunnerRecorded'
  BY <1>22 DEF UndoBack
<1>23. ASSUME UndoSwap PROVE RunnerRecorded'
  BY <1>23 DEF UndoSwap
<1>24. ASSUME DropDiscard PROVE RunnerRecorded'
  BY <1>24 DEF DropDiscard
<1>25. ASSUME Unwound PROVE RunnerRecorded'
  BY <1>25 DEF Unwound
<1>26. ASSUME recoverInterruptedPromotions PROVE RunnerRecorded'
  BY <1>26 DEF recoverInterruptedPromotions
<1>27. ASSUME dropExpiredPromoteRoots PROVE RunnerRecorded'
  BY <1>27 DEF dropExpiredPromoteRoots
<1>28. ASSUME KillRunner PROVE RunnerRecorded'
  BY <1>28 DEF KillRunner
<1>29. ASSUME KillPrune PROVE RunnerRecorded'
  BY <1>29 DEF KillPrune
<1>30. ASSUME SiteWrites PROVE RunnerRecorded'
  BY <1>30 DEF SiteWrites
<1>31. ASSUME NEW j \in Jobs, FourteenDays(j) PROVE RunnerRecorded'
  BY <1>31 DEF FourteenDays
<1>32. CASE UNCHANGED vars
  BY <1>32 DEF vars
<1>33. QED
  BY <1>1, <1>2, <1>3, <1>4, <1>5, <1>6, <1>7, <1>8, <1>9, <1>10, <1>11, <1>12, <1>13,
     <1>14, <1>15, <1>16, <1>17, <1>18, <1>19, <1>20, <1>21, <1>22, <1>23, <1>24, <1>25,
     <1>26, <1>27, <1>28, <1>29, <1>30, <1>31, <1>32
     DEF Next, Forward, Fails, Unwind, Prune

(* Every root that comes to the live path, or is kept to come back there,
   is the live site's or has its configuration. *)
LEMMA RootsInductive ==
  ASSUME TypeOK, RunnerRecorded, RootsSound, StepsSound, [Next]_vars
  PROVE  RootsSound'
<1> USE JobsCounted, KillsCounted
<1>1. ASSUME UndoAside PROVE RootsSound'
  <2>1. job \in Jobs /\ taken' = taken /\ prev \in [Jobs -> Roots]
    BY <1>1 DEF UndoAside, RunnerRecorded, Running, history, TypeOK
  <2>2. CASE prev[job] # None /\ live = None
    BY <1>1, <2>1, <2>2 DEF UndoAside, RootsSound, Sound
  <2>3. CASE UNCHANGED <<live, prev>>
    BY <2>1, <2>3 DEF RootsSound, Sound
  <2>4. QED
    BY <1>1, <2>2, <2>3 DEF UndoAside
<1>2. ASSUME UndoUploads PROVE RootsSound'
  <2>1. /\ job \in Jobs /\ taken' = taken /\ prev \in [Jobs -> Roots] /\ live \in Roots
        /\ Sound(live) /\ Sound(prev[job])
    BY <1>2 DEF UndoUploads, Goes, RunnerRecorded, Running, TypeOK, StepsSound, Switched
  <2>2. CASE UNCHANGED <<live, prev>>
    BY <2>1, <2>2 DEF RootsSound, Sound
  <2>3. ASSUME prev' = [prev EXCEPT ![job] = [prev[job] EXCEPT !.uploads = live.uploads]],
               live' = [live EXCEPT !.uploads = "none"]
        PROVE  RootsSound'
    <3>1. /\ live'.code = live.code /\ live'.config = live.config
          /\ prev'[job].code = prev[job].code /\ prev'[job].config = prev[job].config
      <4>1. prev[job] \in Roots /\ prev'[job] = [prev[job] EXCEPT !.uploads = live.uploads]
        BY <2>1, <2>3
      <4>2. QED
        BY <2>1, <2>3, <4>1, FieldsTyped, UploadsReplaced
    <3>2. \A j \in Jobs : j # job => prev'[j] = prev[j]
      BY <2>1, <2>3
    <3>3. \A j \in Jobs : prev[j] # None => Sound(prev[j])
      BY DEF RootsSound
    <3>4. ASSUME NEW j \in Jobs, prev'[j] # None PROVE Sound(prev[j])
      BY <2>1, <3>2, <3>3, <3>4
    <3>5. \A j \in Jobs : prev'[j].code = prev[j].code /\ prev'[j].config = prev[j].config
      BY <3>1, <3>2
    <3>6. QED
      BY <2>1, <3>1, <3>4, <3>5 DEF RootsSound, Sound
  <2>4. QED
    BY <1>2, <2>2, <2>3 DEF UndoUploads
<1>3. ASSUME UndoBack PROVE RootsSound'
  <2>1. job \in Jobs /\ taken' = taken /\ prev \in [Jobs -> Roots]
    BY <1>3 DEF UndoBack, RunnerRecorded, Running, history, TypeOK
  <2>2. CASE live = None
    BY <1>3, <2>1, <2>2 DEF UndoBack, RootsSound, Sound
  <2>3. CASE UNCHANGED <<live, prev>>
    BY <2>1, <2>3 DEF RootsSound, Sound
  <2>4. QED
    BY <1>3, <2>2, <2>3 DEF UndoBack
<1>4. ASSUME recoverInterruptedPromotions PROVE RootsSound'
  <2>1. CASE UNCHANGED <<live, prev, taken>>
    BY <2>1 DEF RootsSound, Sound
  <2>2. ASSUME NEW j \in Interrupted, live' = prev[j], prev' = [prev EXCEPT ![j] = None],
               taken => taken'
        PROVE  RootsSound'
    <3>1. j \in Jobs /\ prev[j] # None /\ prev \in [Jobs -> Roots]
      BY DEF Interrupted, TypeOK
    <3>2. QED
      BY <2>2, <3>1 DEF RootsSound, Sound
  <2>3. QED
    BY <1>4, <2>1, <2>2 DEF recoverInterruptedPromotions
<1> USE DEF TypeOK, None, RunnerRecorded, BeforeSwitch, Switching, Switched, Undoing,
       RootsSound, StepsSound, Sound, disk, record, history, Jobs, Running, Unfinished,
       Final, Goes, Sets, Interrupted, Dead
<1>5. ASSUME cmdPromote PROVE RootsSound'
  BY <1>5 DEF cmdPromote
<1>6. ASSUME Begin PROVE RootsSound'
  BY <1>6 DEF Begin
<1>7. ASSUME Assemble PROVE RootsSound'
  BY <1>7 DEF Assemble
<1>8. ASSUME Strip PROVE RootsSound'
  BY <1>8 DEF Strip
<1>9. ASSUME KeepConfig PROVE RootsSound'
  BY <1>9 DEF KeepConfig
<1>10. ASSUME MoveAside PROVE RootsSound'
  BY <1>10 DEF MoveAside
<1>11. ASSUME RecordAside PROVE RootsSound'
  BY <1>11 DEF RecordAside
<1>12. ASSUME Switch PROVE RootsSound'
  BY <1>12 DEF Switch
<1>13. ASSUME RecordSwitch PROVE RootsSound'
  BY <1>13 DEF RecordSwitch
<1>14. ASSUME MoveUploads PROVE RootsSound'
  BY <1>14 DEF MoveUploads
<1>15. ASSUME UploadsStay PROVE RootsSound'
  BY <1>15 DEF UploadsStay
<1>16. ASSUME RecordResult PROVE RootsSound'
  BY <1>16 DEF RecordResult
<1>17. ASSUME FailJob PROVE RootsSound'
  BY <1>17 DEF FailJob
<1>18. ASSUME ThrowBeforeSwitch PROVE RootsSound'
  BY <1>18 DEF ThrowBeforeSwitch
<1>19. ASSUME ThrowAfterSwitch PROVE RootsSound'
  BY <1>19 DEF ThrowAfterSwitch
<1>20. ASSUME ThrowUnarmed PROVE RootsSound'
  BY <1>20 DEF ThrowUnarmed
<1>21. ASSUME UndoRecord PROVE RootsSound'
  BY <1>21 DEF UndoRecord
<1>22. ASSUME UndoSwitch PROVE RootsSound'
  BY <1>22 DEF UndoSwitch
<1>23. ASSUME UndoSwap PROVE RootsSound'
  BY <1>23 DEF UndoSwap
<1>24. ASSUME DropDiscard PROVE RootsSound'
  BY <1>24 DEF DropDiscard
<1>25. ASSUME Unwound PROVE RootsSound'
  BY <1>25 DEF Unwound
<1>26. ASSUME dropExpiredPromoteRoots PROVE RootsSound'
  BY <1>26 DEF dropExpiredPromoteRoots
<1>27. ASSUME pruneJobs PROVE RootsSound'
  BY <1>27 DEF pruneJobs
<1>28. ASSUME KillRunner PROVE RootsSound'
  BY <1>28 DEF KillRunner
<1>29. ASSUME KillPrune PROVE RootsSound'
  BY <1>29 DEF KillPrune
<1>30. ASSUME SiteWrites PROVE RootsSound'
  BY <1>30 DEF SiteWrites
<1>31. ASSUME NEW j \in Jobs, FourteenDays(j) PROVE RootsSound'
  BY <1>31 DEF FourteenDays
<1>32. CASE UNCHANGED vars
  BY <1>32 DEF vars
<1>33. QED
  BY <1>1, <1>2, <1>3, <1>4, <1>5, <1>6, <1>7, <1>8, <1>9, <1>10, <1>11, <1>12, <1>13,
     <1>14, <1>15, <1>16, <1>17, <1>18, <1>19, <1>20, <1>21, <1>22, <1>23, <1>24, <1>25,
     <1>26, <1>27, <1>28, <1>29, <1>30, <1>31, <1>32
     DEF Next, Forward, Fails, Unwind, Prune

(* What each place of the runner has on the disk: the staged release is
   configured before the switch, and the root moved aside stays where the
   unwinding looks for it. *)
LEMMA StepsInductive ==
  ASSUME TypeOK, RunnerRecorded, RootsSound, StepsSound, [Next]_vars
  PROVE  StepsSound'
<1> USE JobsCounted, KillsCounted
<1>1. ASSUME Assemble PROVE StepsSound'
  <2>1. stage'[job].code = job
    BY <1>1 DEF Assemble, Goes, TypeOK, RunnerRecorded, Running, Staging
  <2>2. pc = "assemble" /\ pc' = "strip" /\ job' = job /\ UNCHANGED <<live, prev>>
    BY <1>1 DEF Assemble, Goes
  <2>3. QED
    BY <2>1, <2>2 DEF StepsSound, BeforeSwitch, Switching, Switched, Undoing
<1>2. ASSUME UndoUploads PROVE StepsSound'
  <2>1. /\ job \in Jobs /\ live \in Roots /\ prev \in [Jobs -> Roots] /\ Sound(prev[job])
        /\ job' = job /\ taken' = taken /\ pc' = "undo-switch"
    BY <1>2 DEF UndoUploads, Goes, RunnerRecorded, Running, TypeOK, StepsSound, Switched
  <2>2. prev'[job].config = prev[job].config /\ prev'[job].code = prev[job].code
    <3>1. CASE prev' = prev
      BY <3>1
    <3>2. CASE prev' = [prev EXCEPT ![job] = [prev[job] EXCEPT !.uploads = live.uploads]]
      BY <2>1, <3>2, FieldsTyped, UploadsReplaced
    <3>3. QED
      BY <1>2, <3>1, <3>2 DEF UndoUploads
  <2>3. QED
    BY <2>1, <2>2 DEF StepsSound, Sound, BeforeSwitch, Switching, Switched, Undoing
<1>3. ASSUME recoverInterruptedPromotions PROVE StepsSound'
  <2>1. /\ pc' = pc /\ job' = job /\ stage' = stage /\ (taken => taken')
    BY <1>3 DEF recoverInterruptedPromotions, TypeOK
  <2>2. CASE UNCHANGED <<live, prev, taken>>
    BY <2>1, <2>2 DEF StepsSound, Sound, BeforeSwitch, Switching, Switched, Undoing
  <2>3. CASE live = None /\ Interrupted # {}
    <3>1. PICK j \in Interrupted : /\ live' = prev[j]
                                   /\ prev' = [prev EXCEPT ![j] = None]
      BY <1>3, <2>3 DEF recoverInterruptedPromotions
    <3>2. j \in Jobs /\ Final(j) /\ prev[j] # None
      BY DEF Interrupted
    <3>3. Sound(live') /\ live' # None
      BY <3>1, <3>2 DEF RootsSound
    <3>4. pc \in Switching \cup Switched \cup Undoing => prev'[job] = prev[job]
      BY <3>1, <3>2 DEF RunnerRecorded, Unfinished, Final, TypeOK
    <3>5. pc \notin BeforeSwitch
      BY <2>3 DEF StepsSound
    <3>6. QED
      BY <2>1, <3>3, <3>4, <3>5
         DEF StepsSound, Sound, BeforeSwitch, Switching, Switched, Undoing
  <2>4. QED
    BY <1>3, <2>2, <2>3 DEF recoverInterruptedPromotions
<1> USE DEF TypeOK, None, RunnerRecorded, BeforeSwitch, Switching, Switched, Undoing,
       RootsSound, StepsSound, Sound, disk, record, history, Jobs, Running, Unfinished,
       Final, Goes, Sets, Interrupted, Dead
<1>4. ASSUME cmdPromote PROVE StepsSound'
  BY <1>4 DEF cmdPromote
<1>5. ASSUME Begin PROVE StepsSound'
  BY <1>5 DEF Begin
<1>6. ASSUME Strip PROVE StepsSound'
  BY <1>6 DEF Strip
<1>7. ASSUME KeepConfig PROVE StepsSound'
  BY <1>7 DEF KeepConfig
<1>8. ASSUME MoveAside PROVE StepsSound'
  BY <1>8 DEF MoveAside
<1>9. ASSUME RecordAside PROVE StepsSound'
  BY <1>9 DEF RecordAside
<1>10. ASSUME Switch PROVE StepsSound'
  BY <1>10 DEF Switch
<1>11. ASSUME RecordSwitch PROVE StepsSound'
  BY <1>11 DEF RecordSwitch
<1>12. ASSUME MoveUploads PROVE StepsSound'
  BY <1>12 DEF MoveUploads
<1>13. ASSUME UploadsStay PROVE StepsSound'
  BY <1>13 DEF UploadsStay
<1>14. ASSUME RecordResult PROVE StepsSound'
  BY <1>14 DEF RecordResult
<1>15. ASSUME FailJob PROVE StepsSound'
  BY <1>15 DEF FailJob
<1>16. ASSUME ThrowBeforeSwitch PROVE StepsSound'
  BY <1>16 DEF ThrowBeforeSwitch
<1>17. ASSUME ThrowAfterSwitch PROVE StepsSound'
  BY <1>17 DEF ThrowAfterSwitch
<1>18. ASSUME ThrowUnarmed PROVE StepsSound'
  BY <1>18 DEF ThrowUnarmed
<1>19. ASSUME UndoAside PROVE StepsSound'
  BY <1>19 DEF UndoAside
<1>20. ASSUME UndoRecord PROVE StepsSound'
  BY <1>20 DEF UndoRecord
<1>21. ASSUME UndoSwitch PROVE StepsSound'
  BY <1>21 DEF UndoSwitch
<1>22. ASSUME UndoBack PROVE StepsSound'
  BY <1>22 DEF UndoBack
<1>23. ASSUME UndoSwap PROVE StepsSound'
  BY <1>23 DEF UndoSwap
<1>24. ASSUME DropDiscard PROVE StepsSound'
  BY <1>24 DEF DropDiscard
<1>25. ASSUME Unwound PROVE StepsSound'
  BY <1>25 DEF Unwound
<1>26. ASSUME dropExpiredPromoteRoots PROVE StepsSound'
  BY <1>26 DEF dropExpiredPromoteRoots
<1>27. ASSUME pruneJobs PROVE StepsSound'
  BY <1>27 DEF pruneJobs
<1>28. ASSUME KillRunner PROVE StepsSound'
  BY <1>28 DEF KillRunner
<1>29. ASSUME KillPrune PROVE StepsSound'
  BY <1>29 DEF KillPrune
<1>30. ASSUME SiteWrites PROVE StepsSound'
  BY <1>30 DEF SiteWrites
<1>31. ASSUME NEW j \in Jobs, FourteenDays(j) PROVE StepsSound'
  BY <1>31 DEF FourteenDays
<1>32. CASE UNCHANGED vars
  BY <1>32 DEF vars
<1>33. QED
  BY <1>1, <1>2, <1>3, <1>4, <1>5, <1>6, <1>7, <1>8, <1>9, <1>10, <1>11, <1>12, <1>13,
     <1>14, <1>15, <1>16, <1>17, <1>18, <1>19, <1>20, <1>21, <1>22, <1>23, <1>24, <1>25,
     <1>26, <1>27, <1>28, <1>29, <1>30, <1>31, <1>32
     DEF Next, Forward, Fails, Unwind, Prune

(* Repair drops the replaced root of an expired record before the record. *)
LEMMA ExpiredInductive ==
  ASSUME TypeOK, RunnerRecorded, ExpiredGone, [Next]_vars
  PROVE  ExpiredGone'
<1> USE JobsCounted, KillsCounted
<1>1. ASSUME UndoAside PROVE ExpiredGone'
  <2>1. job \in Jobs /\ prev \in [Jobs -> Roots]
    BY <1>1 DEF UndoAside, RunnerRecorded, Running, TypeOK
  <2>2. /\ state' = state /\ pruning' = pruning /\ old' = old /\ old \subseteq Jobs
        /\ \A j \in Jobs : prev[j] = None => prev'[j] = None
    BY <1>1, <2>1 DEF UndoAside, record, TypeOK
  <2>3. QED
    BY <2>2 DEF ExpiredGone, Final
<1>2. ASSUME UndoUploads PROVE ExpiredGone'
  <2>1. job \in Jobs /\ prev \in [Jobs -> Roots] /\ Unfinished(job)
    BY <1>2 DEF UndoUploads, Goes, RunnerRecorded, Running, TypeOK, Switched
  <2>2. /\ state' = state /\ pruning' = pruning /\ old' = old /\ old \subseteq Jobs
        /\ \A j \in Jobs : j # job => prev'[j] = prev[j]
    BY <1>2, <2>1 DEF UndoUploads, record, TypeOK
  <2>3. QED
    BY <2>1, <2>2 DEF ExpiredGone, Final, Unfinished
<1>3. ASSUME UndoBack PROVE ExpiredGone'
  <2>1. job \in Jobs /\ prev \in [Jobs -> Roots]
    BY <1>3 DEF UndoBack, RunnerRecorded, Running, TypeOK
  <2>2. /\ state' = state /\ pruning' = pruning /\ old' = old /\ old \subseteq Jobs
        /\ \A j \in Jobs : prev[j] = None => prev'[j] = None
    BY <1>3, <2>1 DEF UndoBack, record, TypeOK
  <2>3. QED
    BY <2>2 DEF ExpiredGone, Final
<1> USE DEF TypeOK, None, RunnerRecorded, BeforeSwitch, Switching, Switched, Undoing,
       ExpiredGone, disk, record, history, Jobs, Running, Unfinished, Final, Goes, Sets,
       Interrupted, Dead
<1>4. ASSUME cmdPromote PROVE ExpiredGone'
  BY <1>4 DEF cmdPromote
<1>5. ASSUME Begin PROVE ExpiredGone'
  BY <1>5 DEF Begin
<1>6. ASSUME Assemble PROVE ExpiredGone'
  BY <1>6 DEF Assemble
<1>7. ASSUME Strip PROVE ExpiredGone'
  BY <1>7 DEF Strip
<1>8. ASSUME KeepConfig PROVE ExpiredGone'
  BY <1>8 DEF KeepConfig
<1>9. ASSUME MoveAside PROVE ExpiredGone'
  BY <1>9 DEF MoveAside
<1>10. ASSUME RecordAside PROVE ExpiredGone'
  BY <1>10 DEF RecordAside
<1>11. ASSUME Switch PROVE ExpiredGone'
  BY <1>11 DEF Switch
<1>12. ASSUME RecordSwitch PROVE ExpiredGone'
  BY <1>12 DEF RecordSwitch
<1>13. ASSUME MoveUploads PROVE ExpiredGone'
  BY <1>13 DEF MoveUploads
<1>14. ASSUME UploadsStay PROVE ExpiredGone'
  BY <1>14 DEF UploadsStay
<1>15. ASSUME RecordResult PROVE ExpiredGone'
  BY <1>15 DEF RecordResult
<1>16. ASSUME FailJob PROVE ExpiredGone'
  BY <1>16 DEF FailJob
<1>17. ASSUME ThrowBeforeSwitch PROVE ExpiredGone'
  BY <1>17 DEF ThrowBeforeSwitch
<1>18. ASSUME ThrowAfterSwitch PROVE ExpiredGone'
  BY <1>18 DEF ThrowAfterSwitch
<1>19. ASSUME ThrowUnarmed PROVE ExpiredGone'
  BY <1>19 DEF ThrowUnarmed
<1>20. ASSUME UndoRecord PROVE ExpiredGone'
  BY <1>20 DEF UndoRecord
<1>21. ASSUME UndoSwitch PROVE ExpiredGone'
  BY <1>21 DEF UndoSwitch
<1>22. ASSUME UndoSwap PROVE ExpiredGone'
  BY <1>22 DEF UndoSwap
<1>23. ASSUME DropDiscard PROVE ExpiredGone'
  BY <1>23 DEF DropDiscard
<1>24. ASSUME Unwound PROVE ExpiredGone'
  BY <1>24 DEF Unwound
<1>25. ASSUME recoverInterruptedPromotions PROVE ExpiredGone'
  BY <1>25 DEF recoverInterruptedPromotions
<1>26. ASSUME dropExpiredPromoteRoots PROVE ExpiredGone'
  BY <1>26 DEF dropExpiredPromoteRoots
<1>27. ASSUME pruneJobs PROVE ExpiredGone'
  BY <1>27 DEF pruneJobs
<1>28. ASSUME KillRunner PROVE ExpiredGone'
  BY <1>28 DEF KillRunner
<1>29. ASSUME KillPrune PROVE ExpiredGone'
  BY <1>29 DEF KillPrune
<1>30. ASSUME SiteWrites PROVE ExpiredGone'
  BY <1>30 DEF SiteWrites
<1>31. ASSUME NEW j \in Jobs, FourteenDays(j) PROVE ExpiredGone'
  BY <1>31 DEF FourteenDays
<1>32. CASE UNCHANGED vars
  BY <1>32 DEF vars
<1>33. QED
  BY <1>1, <1>2, <1>3, <1>4, <1>5, <1>6, <1>7, <1>8, <1>9, <1>10, <1>11, <1>12, <1>13,
     <1>14, <1>15, <1>16, <1>17, <1>18, <1>19, <1>20, <1>21, <1>22, <1>23, <1>24, <1>25,
     <1>26, <1>27, <1>28, <1>29, <1>30, <1>31, <1>32
     DEF Next, Forward, Fails, Unwind, Prune

(* Between the two passes of the prune no root that is due to be dropped
   becomes the only one left of an interrupted promote. *)
LEMMA LastRootInductive ==
  ASSUME TypeOK, RunnerRecorded, RootsSound, StepsSound, LastRootSafe, [Next]_vars
  PROVE  LastRootSafe'
<1> USE JobsCounted, KillsCounted
<1>1. ASSUME UndoAside PROVE LastRootSafe'
  <2>1. /\ state' = state /\ pruning' = pruning /\ old' = old /\ swap' = swap
        /\ old \subseteq Jobs
    BY <1>1 DEF UndoAside, record, TypeOK
  <2>2. CASE prev[job] # None /\ live = None
    BY <1>1, <2>2 DEF UndoAside, LastRootSafe
  <2>3. CASE UNCHANGED <<live, prev>>
    BY <2>1, <2>3 DEF LastRootSafe, Final
  <2>4. QED
    BY <1>1, <2>2, <2>3 DEF UndoAside
<1>2. ASSUME UndoBack PROVE LastRootSafe'
  <2>1. /\ state' = state /\ pruning' = pruning /\ old' = old /\ swap' = swap
        /\ old \subseteq Jobs
    BY <1>2 DEF UndoBack, record, TypeOK
  <2>2. prev[job] # None
    BY <1>2, SoundIsThere DEF UndoBack, StepsSound, Undoing
  <2>3. CASE live = None
    BY <1>2, <2>2, <2>3 DEF UndoBack, LastRootSafe
  <2>4. CASE UNCHANGED <<live, prev>>
    BY <2>1, <2>4 DEF LastRootSafe, Final
  <2>5. QED
    BY <1>2, <2>3, <2>4 DEF UndoBack
<1>3. ASSUME recoverInterruptedPromotions PROVE LastRootSafe'
  <2>1. CASE live = None /\ Interrupted # {}
    <3>1. PICK j \in Interrupted : live' = prev[j]
      BY <1>3, <2>1 DEF recoverInterruptedPromotions
    <3>2. QED
      BY <3>1 DEF Interrupted, LastRootSafe
  <2>2. CASE UNCHANGED <<live, prev, swap, old>> /\ (live # None \/ Interrupted = {})
    <3>1. state' = state /\ old \subseteq Jobs
      BY <1>3 DEF recoverInterruptedPromotions, TypeOK
    <3>2. QED
      BY <2>2, <3>1 DEF LastRootSafe, Interrupted, Final
  <2>3. QED
    BY <1>3, <2>1, <2>2 DEF recoverInterruptedPromotions
<1> USE DEF TypeOK, None, RunnerRecorded, BeforeSwitch, Switching, Switched, Undoing,
       RootsSound, StepsSound, Sound, LastRootSafe, disk, record, history, Jobs,
       Running, Unfinished, Final, Goes, Sets, Interrupted, Dead
<1>4. ASSUME cmdPromote PROVE LastRootSafe'
  BY <1>4 DEF cmdPromote
<1>5. ASSUME Begin PROVE LastRootSafe'
  BY <1>5 DEF Begin
<1>6. ASSUME Assemble PROVE LastRootSafe'
  BY <1>6 DEF Assemble
<1>7. ASSUME Strip PROVE LastRootSafe'
  BY <1>7 DEF Strip
<1>8. ASSUME KeepConfig PROVE LastRootSafe'
  BY <1>8 DEF KeepConfig
<1>9. ASSUME MoveAside PROVE LastRootSafe'
  BY <1>9 DEF MoveAside
<1>10. ASSUME RecordAside PROVE LastRootSafe'
  BY <1>10 DEF RecordAside
<1>11. ASSUME Switch PROVE LastRootSafe'
  BY <1>11 DEF Switch
<1>12. ASSUME RecordSwitch PROVE LastRootSafe'
  BY <1>12 DEF RecordSwitch
<1>13. ASSUME MoveUploads PROVE LastRootSafe'
  BY <1>13 DEF MoveUploads
<1>14. ASSUME UploadsStay PROVE LastRootSafe'
  BY <1>14 DEF UploadsStay
<1>15. ASSUME RecordResult PROVE LastRootSafe'
  BY <1>15 DEF RecordResult
<1>16. ASSUME FailJob PROVE LastRootSafe'
  BY <1>16 DEF FailJob
<1>17. ASSUME ThrowBeforeSwitch PROVE LastRootSafe'
  BY <1>17 DEF ThrowBeforeSwitch
<1>18. ASSUME ThrowAfterSwitch PROVE LastRootSafe'
  BY <1>18 DEF ThrowAfterSwitch
<1>19. ASSUME ThrowUnarmed PROVE LastRootSafe'
  BY <1>19 DEF ThrowUnarmed
<1>20. ASSUME UndoRecord PROVE LastRootSafe'
  BY <1>20 DEF UndoRecord
<1>21. ASSUME UndoUploads PROVE LastRootSafe'
  BY <1>21 DEF UndoUploads
<1>22. ASSUME UndoSwitch PROVE LastRootSafe'
  BY <1>22 DEF UndoSwitch
<1>23. ASSUME UndoSwap PROVE LastRootSafe'
  BY <1>23 DEF UndoSwap
<1>24. ASSUME DropDiscard PROVE LastRootSafe'
  BY <1>24 DEF DropDiscard
<1>25. ASSUME Unwound PROVE LastRootSafe'
  BY <1>25 DEF Unwound
<1>26. ASSUME dropExpiredPromoteRoots PROVE LastRootSafe'
  BY <1>26 DEF dropExpiredPromoteRoots
<1>27. ASSUME pruneJobs PROVE LastRootSafe'
  BY <1>27 DEF pruneJobs
<1>28. ASSUME KillRunner PROVE LastRootSafe'
  BY <1>28 DEF KillRunner
<1>29. ASSUME KillPrune PROVE LastRootSafe'
  BY <1>29 DEF KillPrune
<1>30. ASSUME SiteWrites PROVE LastRootSafe'
  BY <1>30 DEF SiteWrites
<1>31. ASSUME NEW j \in Jobs, FourteenDays(j) PROVE LastRootSafe'
  BY <1>31 DEF FourteenDays
<1>32. CASE UNCHANGED vars
  BY <1>32 DEF vars
<1>33. QED
  BY <1>1, <1>2, <1>3, <1>4, <1>5, <1>6, <1>7, <1>8, <1>9, <1>10, <1>11, <1>12, <1>13,
     <1>14, <1>15, <1>16, <1>17, <1>18, <1>19, <1>20, <1>21, <1>22, <1>23, <1>24, <1>25,
     <1>26, <1>27, <1>28, <1>29, <1>30, <1>31, <1>32
     DEF Next, Forward, Fails, Unwind, Prune

(* Before the first promote there is nothing but the live root.            *)
LEMMA Starts == Init => IInv
<1> SUFFICES ASSUME Init PROVE IInv
  OBVIOUS
<1> USE JobsCounted, KillsCounted
<1>1. TypeOK
  <2>1. LiveAtFirst \in Roots
    BY DEF LiveAtFirst, Roots, Stray
  <2>2. DiskTyped
    BY <2>1, NoneIsRoot DEF Init, DiskTyped
  <2>3. RecordTyped
    <3>1. 0 \in 0..MaxJobs /\ 0 \in 0..MaxKills
      OBVIOUS
    <3>2. QED
      BY <3>1, Zenon DEF Init, RecordTyped
  <2>4. ControlTyped
    BY DEF Init, ControlTyped
  <2>5. QED
    BY <2>2, <2>3, <2>4 DEF TypeOK, DiskTyped, RecordTyped, ControlTyped
<1>2. RunnerRecorded
  BY DEF Init, RunnerRecorded, Running, BeforeSwitch, Switching, Switched, Undoing
<1>3. RootsSound /\ StepsSound
  BY DEF Init, RootsSound, StepsSound, Sound, LiveAtFirst, BeforeSwitch, Switching, Switched,
         Undoing
<1>4. ExpiredGone /\ LastRootSafe
  BY DEF Init, ExpiredGone, LastRootSafe
<1>5. QED
  BY <1>1, <1>2, <1>3, <1>4 DEF IInv

(* The invariant the properties below follow from holds of every run, with *)
(* any number of promotes onto the site and of runners and prunes that die.*)
THEOREM Inductive == Spec => []IInv
<1>1. IInv /\ [Next]_vars => IInv'
  BY TypeInductive, RecordedInductive, RootsInductive, StepsInductive, ExpiredInductive,
     LastRootInductive DEF IInv
<1>2. QED
  BY Starts, <1>1, PTL DEF Spec

(* Every variable keeps its type.                                          *)
THEOREM TypeCorrect == Spec => []TypeOK
<1>1. IInv => TypeOK
  BY DEF IInv
<1>2. QED
  BY Inductive, <1>1, PTL

(* The live root is never served with the staging copy's configuration,    *)
(* wherever in the switch or its unwinding a runner dies (promoteFiles and *)
(* rollbackPromote of addons/stager/action.ts).                            *)
THEOREM ServesOwnConfigHolds == Spec => []ServesOwnConfig
<1>1. IInv => ServesOwnConfig
  BY DEF IInv, RootsSound, Sound, ServesOwnConfig
<1>2. QED
  BY Inductive, <1>1, PTL

(* Repair takes a record only after the root it names:                     *)
(* dropExpiredPromoteRoots, run before pruneJobs, leaves no replaced root  *)
(* that no record tells of.                                                *)
THEOREM RootsGoWithRecordsHolds == Spec => []RootsGoWithRecords
<1>1. IInv => RootsGoWithRecords
  BY DEF IInv, ExpiredGone, RootsGoWithRecords
<1>2. QED
  BY Inductive, <1>1, PTL

Kept(j) == swap[j] = "moved" /\ prev[j] # None /\ prev'[j] = None
             => live' # None \/ \E i \in Jobs : prev'[i] # None

(* No step drops the last root of a site whose promote was interrupted.    *)
LEMMA StepKeepsLastRoot == IInv /\ [Next]_vars => \A j \in Jobs : Kept(j)
<1> SUFFICES ASSUME IInv, [Next]_vars, NEW k \in Jobs,
                    swap[k] = "moved", prev[k] # None, prev'[k] = None
             PROVE  live' # None \/ \E i \in Jobs : prev'[i] # None
  BY DEF Kept
<1> USE JobsCounted, KillsCounted
<1>0. TypeOK /\ RunnerRecorded /\ StepsSound
  BY DEF IInv
<1>1. CASE prev' = prev
  BY <1>1
<1>2. ASSUME MoveAside PROVE prev'[k] # None
  BY <1>0, <1>2 DEF MoveAside, Goes, StepsSound, BeforeSwitch, TypeOK, RunnerRecorded, Running
<1>3. ASSUME MoveUploads PROVE live' # None
  <2>1. live \in Roots /\ prev[job] \in Roots /\ Sound(live)
    BY <1>0, <1>3 DEF MoveUploads, Goes, StepsSound, Switched, TypeOK, RunnerRecorded, Running
  <2>2. live'.code = live.code /\ live'.config = live.config
    BY <1>3, <2>1, FieldsTyped, UploadsReplaced DEF MoveUploads
  <2>3. QED
    BY <1>3, <2>1, <2>2, SoundIsThere DEF MoveUploads, Sound, history
<1>4. ASSUME UndoUploads PROVE prev'[k] # None
  <2>1. /\ live \in Roots /\ job \in Jobs /\ prev \in [Jobs -> Roots]
        /\ prev[job] \in Roots /\ Sound(prev[job])
    BY <1>0, <1>4 DEF UndoUploads, Goes, StepsSound, Switched, TypeOK, RunnerRecorded, Running
  <2>2. CASE prev' = prev
    BY <2>2
  <2>3. CASE prev' = [prev EXCEPT ![job].uploads = live.uploads]
    <3>1. CASE k # job
      BY <2>1, <2>3, <3>1
    <3>2. CASE k = job
      <4>1. prev'[job] = [prev[job] EXCEPT !.uploads = live.uploads]
        BY <2>1, <2>3
      <4>2. prev'[job].code = prev[job].code /\ prev'[job].config = prev[job].config
        BY <2>1, <4>1, FieldsTyped, UploadsReplaced
      <4>3. Sound(prev'[job])
        BY <2>1, <4>2 DEF Sound
      <4>4. QED
        BY <3>2, <4>3, SoundIsThere
    <3>3. QED
      BY <3>1, <3>2
  <2>4. QED
    BY <1>4, <2>2, <2>3 DEF UndoUploads
<1>5. ASSUME UndoAside PROVE live' # None
  BY <1>5 DEF UndoAside
<1>6. ASSUME UndoBack PROVE live' # None
  BY <1>0, <1>6, SoundIsThere DEF UndoBack, StepsSound, Undoing
<1>7. ASSUME recoverInterruptedPromotions PROVE live' # None
  BY <1>7 DEF recoverInterruptedPromotions, Interrupted
<1>8. ASSUME dropExpiredPromoteRoots PROVE live' # None \/ \E i \in Jobs : prev'[i] # None
  BY <1>8 DEF dropExpiredPromoteRoots, IInv, LastRootSafe
<1>9. CASE UNCHANGED vars \/ cmdPromote \/ Fails \/ KillRunner \/ KillPrune \/ SiteWrites
        \/ \E j \in Jobs : FourteenDays(j)
  BY <1>1, <1>9 
     DEF vars, disk, Fails, cmdPromote, FailJob, ThrowBeforeSwitch, ThrowAfterSwitch,
         ThrowUnarmed,
         KillRunner, KillPrune, SiteWrites, FourteenDays
<1>10. CASE Forward
  BY <1>1, <1>2, <1>3, <1>10
     DEF Forward, disk, Begin, Assemble, Strip, KeepConfig, RecordAside, Switch, RecordSwitch,
         UploadsStay, RecordResult
<1>11. CASE Unwind
  BY <1>1, <1>4, <1>5, <1>6, <1>11
     DEF Unwind, disk, UndoRecord, UndoSwitch, UndoSwap, DropDiscard, Unwound
<1>12. CASE Prune
  BY <1>1, <1>7, <1>8, <1>12 DEF Prune, disk, pruneJobs
<1>13. QED
  BY <1>9, <1>10, <1>11, <1>12 DEF Next

(* A root recorded as moved aside is not dropped while the site has no     *)
(* other, in whatever order repair's passes and the runner's steps fall.   *)
THEOREM LastRootKeptHolds == Spec => LastRootKept
<1>1. IInv /\ [Next]_vars =>
        [\A j \in Jobs : swap[j] = "moved" /\ prev[j] # None /\ prev'[j] = None
                           => live' # None \/ \E i \in Jobs : prev'[i] # None]_vars
  BY StepKeepsLastRoot DEF Kept
<1>2. QED
  BY Inductive, <1>1, PTL DEF Spec, LastRootKept

(* What the runner's place says of the roots against the one the promote   *)
(* found, while nothing happened that the code cannot see.                 *)
Seen == job > 0 /\ job \notin cut /\ ~taken

(* The new code is live, and the uploads are with it or still to come.     *)
UploadsMoved == stuck \/ (live.uploads = before.uploads /\ prev[job].uploads = "none")

GoesForward ==
  /\ pc \in BeforeSwitch => live = before
  /\ pc \in Switching => live = None /\ prev[job] = before
  /\ pc \in {"record-switch", "uploads"} => prev[job] = before /\ live.code = job
  /\ pc \in {"result", "undo-uploads"} =>
       prev[job].code = before.code /\ live.code = job /\ UploadsMoved

ComesBack ==
  /\ pc = "undo-aside" => IF live = None THEN Same(prev[job], before) ELSE Same(live, before)
  /\ pc \in Undoing => Same(prev[job], before)
  /\ pc = "undo-back" => live = None
  /\ pc \in {"undo-record", "undo-swap", "drop-discard", "unwound"} => Same(live, before)

Rests ==
  pc = "idle" =>
    /\ state[job] = "done" => Same(live, [before EXCEPT !.code = job])
    /\ state[job] = "failed" \/ Unfinished(job) => Same(live, before)

RecordSound ==
  /\ \A j \in cut : j <= job
  /\ Running => state[job] # "done"
  /\ ~taken => before.config = "live"
  /\ Seen => GoesForward /\ ComesBack /\ Rests
(* A record and the disk move together; what repair's prune does meanwhile *)
(* is to roots of records that are finished.                               *)
LEMMA RecordSoundInductive ==
  ASSUME IInv, RecordSound, [Next]_vars
  PROVE  RecordSound'
<1> USE JobsCounted, KillsCounted
<1> USE DEF IInv, TypeOK, None, RunnerRecorded, BeforeSwitch, Switching, Switched, Undoing,
       RootsSound, StepsSound, Sound, disk, record, history, Jobs, Running, Unfinished,
       Final, Goes, Sets, Interrupted, Dead, RecordSound, Seen, GoesForward, ComesBack,
       Rests, UploadsMoved, Same
<1>1. ASSUME cmdPromote PROVE RecordSound'
  BY <1>1 DEF cmdPromote
<1>2. ASSUME Begin PROVE RecordSound'
  BY <1>2 DEF Begin
<1>3. ASSUME Assemble PROVE RecordSound'
  BY <1>3 DEF Assemble
<1>4. ASSUME Strip PROVE RecordSound'
  BY <1>4 DEF Strip
<1>5. ASSUME KeepConfig PROVE RecordSound'
  BY <1>5, FieldsTyped, ConfigReplaced DEF KeepConfig
<1>6. ASSUME MoveAside PROVE RecordSound'
  BY <1>6 DEF MoveAside
<1>7. ASSUME RecordAside PROVE RecordSound'
  BY <1>7 DEF RecordAside
<1>8. ASSUME Switch PROVE RecordSound'
  BY <1>8 DEF Switch
<1>9. ASSUME RecordSwitch PROVE RecordSound'
  BY <1>9 DEF RecordSwitch
<1>10. ASSUME MoveUploads PROVE RecordSound'
  BY <1>10, FieldsTyped, UploadsReplaced DEF MoveUploads
<1>11. ASSUME UploadsStay PROVE RecordSound'
  BY <1>11 DEF UploadsStay
<1>12. ASSUME RecordResult PROVE RecordSound'
  BY <1>12 DEF RecordResult
<1>13. ASSUME FailJob PROVE RecordSound'
  BY <1>13 DEF FailJob
<1>14. ASSUME ThrowBeforeSwitch PROVE RecordSound'
  BY <1>14 DEF ThrowBeforeSwitch
<1>15. ASSUME ThrowAfterSwitch PROVE RecordSound'
  BY <1>15 DEF ThrowAfterSwitch
<1>16. ASSUME ThrowUnarmed PROVE RecordSound'
  BY <1>16 DEF ThrowUnarmed
<1>17. ASSUME UndoAside PROVE RecordSound'
  BY <1>17 DEF UndoAside
<1>18. ASSUME UndoRecord PROVE RecordSound'
  BY <1>18 DEF UndoRecord
<1>19. ASSUME UndoUploads PROVE RecordSound'
  <2>1. /\ job \in Jobs /\ prev \in [Jobs -> Roots] /\ live \in Roots /\ prev[job] \in Roots
        /\ pc = "undo-uploads" /\ pc' = "undo-switch" /\ (stuck => stuck')
        /\ UNCHANGED <<job, state, cut, taken, before>>
    BY <1>19 DEF UndoUploads
  <2>2. /\ prev'[job].code = prev[job].code /\ prev'[job].config = prev[job].config
        /\ stuck' \/ prev'[job].uploads = IF live.uploads = "none" THEN prev[job].uploads
                                           ELSE live.uploads
    <3>1. CASE prev' = prev /\ (live.uploads = "none" \/ stuck')
      BY <2>1, <3>1
    <3>2. CASE prev' = [prev EXCEPT ![job] = [prev[job] EXCEPT !.uploads = live.uploads]]
               /\ live.uploads # "none"
      BY <2>1, <3>2, FieldsTyped, UploadsReplaced
    <3>3. QED
      BY <1>19, <3>1, <3>2 DEF UndoUploads
  <2>3. (Seen => Same(prev[job], before))'
    <3>1. Seen' => /\ prev[job].config = "live" /\ before.config = "live"
                   /\ prev[job].code = before.code
      BY <2>1
    <3>2. Seen' /\ ~stuck' => live.uploads = before.uploads /\ prev[job].uploads = "none"
      BY <1>19, <2>1 DEF UndoUploads
    <3>3. ASSUME Seen', ~stuck' PROVE prev'[job].uploads = before.uploads
      BY <2>2, <3>2, <3>3
    <3>4. ASSUME Seen' PROVE prev'[job].code = before.code /\ prev'[job].config = before.config
      BY <2>2, <3>1, <3>4
    <3>5. before' = before /\ job' = job
      BY <2>1
    <3>6. QED
      BY <3>3, <3>4, <3>5
  <2>4. QED
    BY <2>1, <2>3
<1>20. ASSUME UndoSwitch PROVE RecordSound'
  BY <1>20 DEF UndoSwitch
<1>21. ASSUME UndoBack PROVE RecordSound'
  BY <1>21 DEF UndoBack
<1>22. ASSUME UndoSwap PROVE RecordSound'
  BY <1>22 DEF UndoSwap
<1>23. ASSUME DropDiscard PROVE RecordSound'
  BY <1>23 DEF DropDiscard
<1>24. ASSUME Unwound PROVE RecordSound'
  BY <1>24 DEF Unwound
<1>25. ASSUME recoverInterruptedPromotions PROVE RecordSound'
  <2>1. /\ UNCHANGED <<job, pc, state, cut, stuck, before>> /\ (taken => taken')
    BY <1>25 DEF recoverInterruptedPromotions
  <2>2. CASE UNCHANGED <<live, prev, taken>>
    BY <2>1, <2>2
  <2>3. CASE live = None /\ Interrupted # {}
    <3>1. PICK j \in Interrupted :
             /\ \A i \in Interrupted : i <= j
             /\ live' = prev[j] /\ prev' = [prev EXCEPT ![j] = None]
             /\ taken' = (taken \/ (Running /\ j # job))
      BY <1>25, <2>3 DEF recoverInterruptedPromotions
    <3>2. CASE ~Seen'
      BY <2>1, <3>2
    <3>3. CASE Seen' /\ Running
      <4>1. j = job /\ Final(job) /\ prev[job] # None
        BY <3>1, <3>3
      <4>2. pc = "undo-aside" \/ pc \in {"undo-record", "undo-swap", "drop-discard", "unwound"}
        BY <3>3, <4>1
      <4>3. QED
        BY <2>1, <2>3, <3>1, <3>3, <4>1, <4>2
    <3>4. CASE Seen' /\ ~Running
      BY <2>1, <2>3, <3>1, <3>4
    <3>5. QED
      BY <3>2, <3>3, <3>4
  <2>4. QED
    BY <1>25, <2>2, <2>3 DEF recoverInterruptedPromotions
<1>26. ASSUME dropExpiredPromoteRoots PROVE RecordSound'
  BY <1>26 DEF dropExpiredPromoteRoots
<1>27. ASSUME pruneJobs PROVE RecordSound'
  BY <1>27 DEF pruneJobs
<1>28. ASSUME KillRunner PROVE RecordSound'
  BY <1>28 DEF KillRunner
<1>29. ASSUME KillPrune PROVE RecordSound'
  BY <1>29 DEF KillPrune
<1>30. ASSUME SiteWrites PROVE RecordSound'
  BY <1>30 DEF SiteWrites
<1>31. ASSUME NEW j \in Jobs, FourteenDays(j) PROVE RecordSound'
  BY <1>31 DEF FourteenDays
<1>32. CASE UNCHANGED vars
  BY <1>32 DEF vars
<1>33. QED
  BY <1>1, <1>2, <1>3, <1>4, <1>5, <1>6, <1>7, <1>8, <1>9, <1>10, <1>11, <1>12, <1>13,
     <1>14, <1>15, <1>16, <1>17, <1>18, <1>19, <1>20, <1>21, <1>22, <1>23, <1>24, <1>25,
     <1>26, <1>27, <1>28, <1>29, <1>30, <1>31, <1>32
     DEF Next, Forward, Fails, Unwind, Prune
(* Nothing is asked yet.                                                   *)
LEMMA RecordSoundStarts == Init => RecordSound
  BY JobsCounted DEF Init, RecordSound, LiveAtFirst, Seen, Running

(* What a finished record says is on the disk, wherever a step failed and  *)
(* however far its unwinding got (cmdRunPromote's catch, failJob and       *)
(* rollbackPromote around promoteFiles), with repair's prune at any time   *)
(* in between.                                                             *)
THEOREM RecordIsTrueHolds == Spec => []RecordIsTrue
<1>1. IInv /\ RecordSound /\ [Next]_vars => RecordSound'
  BY RecordSoundInductive
<1>2. IInv /\ RecordSound => RecordIsTrue
  BY DEF RecordSound, Seen, Rests, RecordIsTrue, Running, IInv, TypeOK
<1>3. QED
  BY Inductive, RecordSoundStarts, <1>1, <1>2, PTL DEF Spec

(* Where uploads may be.  Only the staged release ever holds the staging   *)
(* copy's; what is switched in holds none until the live ones are moved.   *)
NotStaging(r) == r.uploads \in {"live", "none"}

UploadsSound ==
  /\ NotStaging(live) /\ \A j \in Jobs : NotStaging(prev[j]) /\ NotStaging(discard[j])
  /\ pc \in {"keep", "aside"} \cup Switching => stage[job].uploads = "none"
  /\ pc \in {"record-switch", "uploads"} => live.uploads = "none"
  /\ pc = "undo-switch" => live # None /\ (stuck \/ live.uploads = "none")
  /\ pc \in Undoing \cup {"undo-swap", "drop-discard"} =>
       stuck \/ discard[job].uploads = "none"

(* What a job finds where it moves a root aside or discards a release.     *)
PlacesFree ==
  /\ \A j \in Jobs : j > job => discard[j] = None
  /\ pc \in BeforeSwitch => prev[job] = None
  /\ pc \in BeforeSwitch \cup Switching \cup Switched \cup {"undo-switch"} => discard[job] = None

(* Both go on holding: no step brings the staging copy's uploads out.      *)
LEMMA UploadsSoundInductive ==
  ASSUME IInv, UploadsSound, PlacesFree, [Next]_vars
  PROVE  UploadsSound' /\ PlacesFree'
<1> USE JobsCounted, KillsCounted
<1> USE DEF IInv, TypeOK, None, RunnerRecorded, BeforeSwitch, Switching, Switched, Undoing,
       ExpiredGone, RootsSound, StepsSound, Sound, disk, record, history, Jobs, Running,
       Unfinished, Final, Goes, Sets, Interrupted, Dead, UploadsSound, PlacesFree, NotStaging
<1>1. ASSUME cmdPromote PROVE UploadsSound' /\ PlacesFree'
  BY <1>1 DEF cmdPromote
<1>2. ASSUME Begin PROVE UploadsSound' /\ PlacesFree'
  BY <1>2 DEF Begin
<1>3. ASSUME Assemble PROVE UploadsSound' /\ PlacesFree'
  BY <1>3 DEF Assemble
<1>4. ASSUME Strip PROVE UploadsSound' /\ PlacesFree'
  BY <1>4 DEF Strip
<1>5. ASSUME KeepConfig PROVE UploadsSound' /\ PlacesFree'
  BY <1>5, FieldsTyped, ConfigReplaced DEF KeepConfig
<1>6. ASSUME MoveAside PROVE UploadsSound' /\ PlacesFree'
  BY <1>6 DEF MoveAside
<1>7. ASSUME RecordAside PROVE UploadsSound' /\ PlacesFree'
  BY <1>7 DEF RecordAside
<1>8. ASSUME Switch PROVE UploadsSound' /\ PlacesFree'
  BY <1>8 DEF Switch
<1>9. ASSUME RecordSwitch PROVE UploadsSound' /\ PlacesFree'
  BY <1>9 DEF RecordSwitch
<1>10. ASSUME MoveUploads PROVE UploadsSound' /\ PlacesFree'
  BY <1>10, FieldsTyped, UploadsReplaced DEF MoveUploads
<1>11. ASSUME UploadsStay PROVE UploadsSound' /\ PlacesFree'
  BY <1>11 DEF UploadsStay
<1>12. ASSUME RecordResult PROVE UploadsSound' /\ PlacesFree'
  BY <1>12 DEF RecordResult
<1>13. ASSUME FailJob PROVE UploadsSound' /\ PlacesFree'
  BY <1>13 DEF FailJob
<1>14. ASSUME ThrowBeforeSwitch PROVE UploadsSound' /\ PlacesFree'
  BY <1>14 DEF ThrowBeforeSwitch
<1>15. ASSUME ThrowAfterSwitch PROVE UploadsSound' /\ PlacesFree'
  BY <1>15 DEF ThrowAfterSwitch
<1>16. ASSUME ThrowUnarmed PROVE UploadsSound' /\ PlacesFree'
  BY <1>16 DEF ThrowUnarmed
<1>17. ASSUME UndoAside PROVE UploadsSound' /\ PlacesFree'
  <2>1. /\ job \in Jobs /\ prev \in [Jobs -> Roots] /\ pc = "undo-aside"
        /\ pc' \in {"undo-record", "unwound"} /\ UNCHANGED <<job, discard, stage, stuck>>
    BY <1>17 DEF UndoAside
  <2>2. NotStaging(live') /\ \A j \in Jobs : NotStaging(prev'[j])
    BY <1>17, <2>1 DEF UndoAside
  <2>3. QED
    BY <2>1, <2>2
<1>18. ASSUME UndoRecord PROVE UploadsSound' /\ PlacesFree'
  BY <1>18 DEF UndoRecord
<1>19. ASSUME UndoUploads PROVE UploadsSound' /\ PlacesFree'
  <2>1. /\ job \in Jobs /\ prev \in [Jobs -> Roots] /\ live \in Roots /\ prev[job] \in Roots
        /\ pc = "undo-uploads" /\ pc' = "undo-switch" /\ UNCHANGED <<job, discard, stage>>
    BY <1>19 DEF UndoUploads
  <2>2. /\ NotStaging(live') /\ \A j \in Jobs : NotStaging(prev'[j])
        /\ live' # None /\ (stuck' \/ live'.uploads = "none")
    <3>0. Sound(live)
      BY <2>1
    <3>1. CASE live' = live /\ prev' = prev /\ (live.uploads = "none" \/ stuck')
      BY <3>0, <3>1
    <3>2. CASE /\ prev' = [prev EXCEPT ![job] = [prev[job] EXCEPT !.uploads = live.uploads]]
               /\ live' = [live EXCEPT !.uploads = "none"]
      <4>1. live'.uploads = "none" /\ live' # None
        BY <2>1, <3>0, <3>2, UploadsReplaced
      <4>2. prev'[job].uploads = live.uploads
        BY <2>1, <3>2, FieldsTyped, UploadsReplaced
      <4>3. ASSUME NEW j \in Jobs PROVE NotStaging(prev'[j])
        BY <2>1, <3>2, <4>2
      <4>4. QED
        BY <4>1, <4>3
    <3>3. QED
      BY <1>19, <3>1, <3>2 DEF UndoUploads
  <2>3. QED
    BY <2>1, <2>2
<1>20. ASSUME UndoSwitch PROVE UploadsSound' /\ PlacesFree'
  BY <1>20 DEF UndoSwitch
<1>21. ASSUME UndoBack PROVE UploadsSound' /\ PlacesFree'
  <2>1. /\ job \in Jobs /\ prev \in [Jobs -> Roots] /\ pc = "undo-back"
        /\ pc' \in {"undo-swap", "unwound"} /\ UNCHANGED <<job, discard, stage, stuck>>
    BY <1>21 DEF UndoBack
  <2>2. NotStaging(live') /\ \A j \in Jobs : NotStaging(prev'[j])
    BY <1>21, <2>1 DEF UndoBack
  <2>3. QED
    BY <2>1, <2>2
<1>22. ASSUME UndoSwap PROVE UploadsSound' /\ PlacesFree'
  BY <1>22 DEF UndoSwap
<1>23. ASSUME DropDiscard PROVE UploadsSound' /\ PlacesFree'
  BY <1>23 DEF DropDiscard
<1>24. ASSUME Unwound PROVE UploadsSound' /\ PlacesFree'
  BY <1>24 DEF Unwound
<1>25. ASSUME recoverInterruptedPromotions PROVE UploadsSound' /\ PlacesFree'
  <2>1. UNCHANGED <<job, pc, stuck, discard, stage>>
    BY <1>25 DEF recoverInterruptedPromotions
  <2>2. CASE UNCHANGED <<live, prev>>
    BY <2>1, <2>2
  <2>3. CASE live = None /\ Interrupted # {}
    <3>1. PICK j \in Interrupted : live' = prev[j] /\ prev' = [prev EXCEPT ![j] = None]
      BY <1>25, <2>3 DEF recoverInterruptedPromotions
    <3>2. j \in Jobs /\ prev \in [Jobs -> Roots] /\ Final(j)
      OBVIOUS
    <3>3. /\ NotStaging(live')
          /\ \A i \in Jobs : NotStaging(prev'[i]) /\ (prev[i] = None => prev'[i] = None)
      BY <3>1, <3>2
    <3>4. pc \notin {"record-switch", "uploads", "undo-switch"} \cup BeforeSwitch
      BY <2>3
    <3>5. QED
      BY <2>1, <3>3, <3>4
  <2>4. QED
    BY <1>25, <2>2, <2>3 DEF recoverInterruptedPromotions
<1>26. ASSUME dropExpiredPromoteRoots PROVE UploadsSound' /\ PlacesFree'
  BY <1>26 DEF dropExpiredPromoteRoots
<1>27. ASSUME pruneJobs PROVE UploadsSound' /\ PlacesFree'
  BY <1>27 DEF pruneJobs
<1>28. ASSUME KillRunner PROVE UploadsSound' /\ PlacesFree'
  BY <1>28 DEF KillRunner
<1>29. ASSUME KillPrune PROVE UploadsSound' /\ PlacesFree'
  BY <1>29 DEF KillPrune
<1>30. ASSUME SiteWrites PROVE UploadsSound' /\ PlacesFree'
  BY <1>30 DEF SiteWrites
<1>31. ASSUME NEW j \in Jobs, FourteenDays(j) PROVE UploadsSound' /\ PlacesFree'
  BY <1>31 DEF FourteenDays
<1>32. CASE UNCHANGED vars
  BY <1>32 DEF vars
<1>33. QED
  BY <1>1, <1>2, <1>3, <1>4, <1>5, <1>6, <1>7, <1>8, <1>9, <1>10, <1>11, <1>12, <1>13,
     <1>14, <1>15, <1>16, <1>17, <1>18, <1>19, <1>20, <1>21, <1>22, <1>23, <1>24, <1>25,
     <1>26, <1>27, <1>28, <1>29, <1>30, <1>31, <1>32
     DEF Next, Forward, Fails, Unwind, Prune

(* The first root has its own uploads, and every other place is free.      *)
LEMMA UploadsSoundStarts == Init => UploadsSound /\ PlacesFree
  BY JobsCounted DEF Init, UploadsSound, PlacesFree, NotStaging, LiveAtFirst, None, BeforeSwitch,
     Switching, Switched, Undoing, Jobs

(* What the property excuses: uploads that could not be moved, or due.     *)
Excused == stuck \/ \E j \in old : UploadsIn(prev[j])

(* Uploads are moved between places in one step, or stay where they are.   *)
LEMMA StepKeepsUploads ==
  ASSUME IInv, UploadsSound, PlacesFree, UploadsKept, ~Excused, [Next]_vars
  PROVE  UploadsKept'
<1> USE JobsCounted, KillsCounted
<1>1. ASSUME UNCHANGED <<live, prev, discard>> PROVE UploadsKept'
  BY <1>1 DEF UploadsKept, UploadsIn
<1> USE DEF IInv, TypeOK, None, RunnerRecorded, BeforeSwitch, Switching, Switched, Undoing,
       RootsSound, StepsSound, Sound, Jobs, Running, Unfinished, Final, Goes, Interrupted,
       UploadsSound, PlacesFree, NotStaging, UploadsKept, UploadsIn, Excused
<1>2. ASSUME MoveAside PROVE UploadsKept'
  BY <1>2 DEF MoveAside
<1>3. ASSUME Switch PROVE UploadsKept'
  BY <1>3 DEF Switch
<1>4. ASSUME MoveUploads PROVE UploadsKept'
  BY <1>4, FieldsTyped, UploadsReplaced DEF MoveUploads
<1>5. ASSUME UndoAside PROVE UploadsKept'
  BY <1>5 DEF UndoAside
<1>6. ASSUME UndoUploads PROVE UploadsKept'
  <2>1. /\ job \in Jobs /\ prev \in [Jobs -> Roots] /\ live \in Roots /\ prev[job] \in Roots
        /\ discard' = discard
    BY <1>6 DEF UndoUploads
  <2>2. CASE UNCHANGED <<live, prev>>
    BY <1>1, <2>1, <2>2
  <2>3. CASE prev' = [prev EXCEPT ![job] = [prev[job] EXCEPT !.uploads = live.uploads]]
             /\ live.uploads # "none"
    <3>1. prev'[job].uploads = live.uploads
      BY <2>1, <2>3, FieldsTyped, UploadsReplaced
    <3>2. QED
      BY <2>1, <2>3, <3>1
  <2>4. QED
    BY <1>6, <2>2, <2>3 DEF UndoUploads
<1>7. ASSUME UndoSwitch PROVE UploadsKept'
  BY <1>7 DEF UndoSwitch
<1>8. ASSUME UndoBack PROVE UploadsKept'
  BY <1>8 DEF UndoBack
<1>9. ASSUME DropDiscard PROVE UploadsKept'
  BY <1>9 DEF DropDiscard
<1>10. ASSUME recoverInterruptedPromotions PROVE UploadsKept'
  BY <1>10 DEF recoverInterruptedPromotions
<1>11. ASSUME dropExpiredPromoteRoots PROVE UploadsKept'
  BY <1>11 DEF dropExpiredPromoteRoots
<1>12. ASSUME SiteWrites PROVE UploadsKept'
  BY <1>12 DEF SiteWrites
<1>13. ASSUME \/ UNCHANGED vars \/ \E j \in Jobs : FourteenDays(j)
             \/ cmdPromote \/ Begin \/ Assemble \/ Strip \/ KeepConfig \/ RecordAside \/
             RecordSwitch \/ UploadsStay \/ RecordResult \/ FailJob \/
             ThrowBeforeSwitch \/ ThrowAfterSwitch \/ ThrowUnarmed \/
             UndoRecord \/ UndoSwap \/ Unwound \/ pruneJobs \/ KillRunner
             \/ KillPrune
       PROVE  UploadsKept'
  BY <1>1, <1>13
     DEF vars, disk, FourteenDays, cmdPromote, Begin, Assemble, Strip, KeepConfig,
         RecordAside, RecordSwitch,
         UploadsStay, RecordResult, FailJob, ThrowBeforeSwitch,
         ThrowAfterSwitch, ThrowUnarmed, UndoRecord, UndoSwap, Unwound,
         pruneJobs, KillRunner, KillPrune
<1>14. QED
  BY <1>2, <1>3, <1>4, <1>5, <1>6, <1>7, <1>8, <1>9, <1>10, <1>11, <1>12, <1>13
     DEF Next, Forward, Fails, Unwind, Prune

(* The visitors' uploads stay on the disk whoever dies where: no step of a *)
(* promote, its unwinding or repair's prune takes the last root that has   *)
(* them, but the drop of a replaced root that is due, and a command that   *)
(* could not move them (movePreserved in promoteFiles and in               *)
(* rollbackPromote).                                                       *)
THEOREM UploadsOutlivePromotesHolds == Spec => UploadsOutlivePromotes
<1>1. IInv /\ UploadsSound /\ PlacesFree /\ [Next]_vars => UploadsSound' /\ PlacesFree'
  BY UploadsSoundInductive
<1>2. IInv /\ UploadsSound /\ PlacesFree /\ [Next]_vars =>
        [UploadsKept /\ ~UploadsKept' => stuck \/ \E j \in old : UploadsIn(prev[j])]_vars
  BY StepKeepsUploads DEF Excused
<1>3. QED
  BY Inductive, UploadsSoundStarts, <1>1, <1>2, PTL DEF Spec, UploadsOutlivePromotes
=============================================================================
