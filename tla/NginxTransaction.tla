-------------------------- MODULE NginxTransaction --------------------------
(***************************************************************************)
(* cli/nginx-transaction.ts: panel rows and Nginx files changed together,  *)
(* as Cloudflare IPs, maintenance, sign-in and System Tweaks use it.       *)
(*                                                                         *)
(* A file's content is the set of transactions whose edit it carries, so a *)
(* backup is such a set too.  The operations that share files hold one lock*)
(* from before they read them: SQLite's write lock (BEGIN IMMEDIATE), which*)
(* ROLLBACK lets go before the restored files are validated, or without a  *)
(* database a lock file of their caller's, kept to the end.  A process can *)
(* be killed at any step, which frees either lock, and the operation may be*)
(* run again.                                                              *)
(***************************************************************************)
EXTENDS Naturals, FiniteSets

CONSTANTS Txs,             \* operations, each one edit
          Files,           \* Nginx files
          Touches,         \* the files an operation's stage edits
          WithRow,         \* operations that also change a panel row
          AlwaysValidate,  \* operations that reload even when nothing changed
          Broken,          \* operations whose edit Nginx refuses
          None

ConstantsOK == /\ Touches \in [Txs -> SUBSET Files] /\ None \notin Txs
               /\ WithRow \subseteq Txs /\ AlwaysValidate \subseteq Txs
               /\ Broken \subseteq Txs

VARIABLES file,     \* the edits each file on disk carries
          rows,     \* the operations whose row change is committed
          loaded,   \* the edits Nginx is running with
          lock,     \* "database" or "caller": the lock these operations share
          holder,   \* who holds it
          pc,       \* where each transaction is
          backup,   \* the files as its stage read them
          written,  \* the files it has begun to write and not restored
          wrote,    \* whether it had written any
          asked,    \* whether it asked for a reload
          clean,    \* no recovery step failed, and it was never killed
          crossed   \* one began after another's ROLLBACK, before its recovery was over

vars == <<file, rows, loaded, lock, holder, pc, backup, written, wrote, asked, clean, crossed>>
disk == <<file, rows, loaded>>

HasRow(t) == lock = "database" /\ t \in WithRow
Over == {"idle", "done", "failed", "killed"}

NoEdits == [f \in Files |-> {}]

Init == /\ file = NoEdits /\ rows = {} /\ loaded = NoEdits
        /\ lock \in {"database", "caller"} /\ holder = None
        /\ pc = [t \in Txs |-> "idle"]
        /\ backup = [t \in Txs |-> NoEdits]
        /\ written = [t \in Txs |-> {}]
        /\ wrote = [t \in Txs |-> FALSE]
        /\ asked = [t \in Txs |-> FALSE]
        /\ clean = [t \in Txs |-> TRUE]
        /\ crossed = FALSE

Goto(t, place) == pc' = [pc EXCEPT ![t] = place]
Unlock(t) == holder' = IF holder = t THEN None ELSE holder

(* nginx -t reads every file, whoever wrote it.                            *)
Valid == \A f \in Files : file[f] \cap Broken = {}

(* The files whose content the stage changes; one already right is left.   *)
Changes(t) == {f \in Touches[t] : t \notin backup[t][f]}
Changed(t) == Changes(t) # {} \/ (HasRow(t) /\ t \notin rows)

-----------------------------------------------------------------------------
(* prepare: lock, read, write, validate.                                   *)

(* Changed form: BEGIN instead of BEGIN IMMEDIATE.                         *)
BeginDeferred(t) ==
  /\ pc[t] \in {"idle", "failed", "killed"}
  /\ backup' = [backup EXCEPT ![t] = file]
  /\ written' = [written EXCEPT ![t] = {}]
  /\ wrote' = [wrote EXCEPT ![t] = FALSE]
  /\ asked' = [asked EXCEPT ![t] = FALSE]
  /\ Goto(t, "write")
  /\ UNCHANGED <<disk, clean, holder>>

Begin(t) ==
  /\ pc[t] \in {"idle", "failed", "killed"}
  /\ holder = None
  /\ holder' = t
  /\ backup' = [backup EXCEPT ![t] = file]
  /\ written' = [written EXCEPT ![t] = {}]
  /\ wrote' = [wrote EXCEPT ![t] = FALSE]
  /\ asked' = [asked EXCEPT ![t] = FALSE]
  /\ Goto(t, "write")
  /\ UNCHANGED <<disk, clean>>

(* The stage refuses: an untrusted file, a site the panel does not have.   *)
StageFails(t) ==
  /\ pc[t] = "write"
  /\ written[t] = {}
  /\ Goto(t, "restore")
  /\ UNCHANGED <<disk, holder, backup, written, wrote, asked, clean>>

(* The backup is recorded before the write, which may then fail.           *)
WriteFile(t) ==
  /\ pc[t] = "write"
  /\ \E f \in Changes(t) \ written[t] :
       /\ written' = [written EXCEPT ![t] = @ \cup {f}]
       /\ \/ /\ file' = [file EXCEPT ![f] = backup[t][f] \cup {t}]
             /\ UNCHANGED pc
          \/ /\ Goto(t, "restore")
             /\ UNCHANGED file
  /\ wrote' = [wrote EXCEPT ![t] = TRUE]
  /\ UNCHANGED <<rows, loaded, holder, backup, asked, clean>>

(* Changed form: validates and reloads between two files.                  *)
ValidateEarly(t) ==
  /\ pc[t] = "write"
  /\ \/ Valid /\ Goto(t, "reload")
     \/ Goto(t, "restore")
  /\ UNCHANGED <<disk, holder, backup, written, wrote, asked, clean>>

(* A command may also fail of its own: killed at its time limit.           *)
Validate(t) ==
  /\ pc[t] = "write"
  /\ Changes(t) \subseteq written[t]
  /\ \/ ~Changed(t) /\ t \notin AlwaysValidate /\ Goto(t, "commit")
     \/ (Changed(t) \/ t \in AlwaysValidate) /\ Valid /\ Goto(t, "reload")
     \/ (Changed(t) \/ t \in AlwaysValidate) /\ Goto(t, "restore")
  /\ UNCHANGED <<disk, holder, backup, written, wrote, asked, clean>>

(* A reload reported as failed may have been taken.                        *)
Reload(t) ==
  /\ pc[t] = "reload"
  /\ asked' = [asked EXCEPT ![t] = TRUE]
  /\ \/ Valid /\ loaded' = file /\ Goto(t, "commit")
     \/ Valid /\ loaded' = file /\ Goto(t, "restore")
     \/ UNCHANGED loaded /\ Goto(t, "restore")
  /\ UNCHANGED <<file, rows, holder, backup, written, wrote, clean>>

(* Changed form: commits a row for an operation without one.               *)
CommitAlways(t) ==
  /\ pc[t] = "commit"
  /\ rows' = rows \cup {t}
  /\ Goto(t, "done")
  /\ Unlock(t)
  /\ UNCHANGED <<file, loaded, backup, written, wrote, asked, clean>>

Commit(t) ==
  /\ pc[t] = "commit"
  /\ \/ /\ rows' = rows \cup {x \in {t} : HasRow(x)}
        /\ Goto(t, "done")
        /\ Unlock(t)
     \/ /\ Goto(t, "restore")
        /\ UNCHANGED <<rows, holder>>
  /\ UNCHANGED <<file, loaded, backup, written, wrote, asked, clean>>

-----------------------------------------------------------------------------
(* restore, and the rollback reload.                                       *)

RestoreFile(t) ==
  /\ pc[t] = "restore"
  /\ \E f \in written[t] :
       /\ written' = [written EXCEPT ![t] = @ \ {f}]
       /\ \/ /\ file' = [file EXCEPT ![f] = backup[t][f]]
             /\ UNCHANGED clean
          \/ /\ clean' = [clean EXCEPT ![t] = FALSE]
             /\ UNCHANGED file
  /\ UNCHANGED <<rows, loaded, holder, pc, backup, wrote, asked>>

(* Changed form: rolls back before the files are restored, and restores none.*)
RollbackEarly(t) ==
  /\ pc[t] = "restore"
  /\ IF lock = "caller" THEN UNCHANGED holder ELSE Unlock(t)
  /\ Goto(t, "revalidate")
  /\ UNCHANGED <<disk, backup, written, wrote, asked, clean>>

Rollback(t) ==
  /\ pc[t] = "restore"
  /\ written[t] = {}
  /\ IF lock = "caller" THEN UNCHANGED holder ELSE Unlock(t)
  /\ Goto(t, IF wrote[t] THEN "revalidate" ELSE "give-up")
  /\ UNCHANGED <<disk, backup, written, wrote, asked, clean>>

Revalidate(t) ==
  /\ pc[t] = "revalidate"
  /\ \/ /\ Valid
        /\ Goto(t, IF asked[t] THEN "reload-again" ELSE "give-up")
        /\ UNCHANGED clean
     \/ /\ Goto(t, "give-up")
        /\ clean' = [clean EXCEPT ![t] = FALSE]
  /\ UNCHANGED <<disk, holder, backup, written, wrote, asked>>

ReloadAgain(t) ==
  /\ pc[t] = "reload-again"
  /\ \/ Valid /\ loaded' = file /\ UNCHANGED clean
     \/ UNCHANGED loaded /\ clean' = [clean EXCEPT ![t] = FALSE]
  /\ Goto(t, "give-up")
  /\ UNCHANGED <<file, rows, holder, backup, written, wrote, asked>>

(* The error reaches the caller, which lets go of its own lock.            *)
GiveUp(t) ==
  /\ pc[t] = "give-up"
  /\ Goto(t, "failed")
  /\ Unlock(t)
  /\ UNCHANGED <<disk, backup, written, wrote, asked, clean>>

(* SIGKILL: the kernel drops a file lock, SQLite rolls its journal back.   *)
Killed(t) ==
  /\ pc[t] \notin Over
  /\ Goto(t, "killed")
  /\ Unlock(t)
  /\ clean' = [clean EXCEPT ![t] = FALSE]
  /\ UNCHANGED <<disk, backup, written, wrote, asked>>

TxNext(t) == \/ Begin(t) \/ StageFails(t) \/ WriteFile(t) \/ Validate(t) \/ Reload(t)
             \/ Commit(t) \/ RestoreFile(t) \/ Rollback(t) \/ Revalidate(t) \/ ReloadAgain(t) \/ GiveUp(t)

(* An operation begins while another still reloads what it put back.       *)
Crosses == \E s, t \in Txs : /\ pc[s] \in Over /\ pc'[s] = "write"
                             /\ pc[t] \in {"revalidate", "reload-again"}

Next == /\ \E t \in Txs : TxNext(t) \/ Killed(t)
        /\ crossed' = (crossed \/ Crosses)
        /\ UNCHANGED lock

AllOver == \A t \in Txs : pc[t] = "done"
Spec == Init /\ [][Next \/ (AllOver /\ UNCHANGED vars)]_vars

-----------------------------------------------------------------------------
Edits == [Files -> SUBSET Txs]
TypeOK ==
  /\ file \in Edits /\ loaded \in Edits /\ rows \subseteq WithRow
  /\ lock \in {"database", "caller"} /\ holder \in Txs \cup {None}
  /\ pc \in [Txs -> Over \cup {"write", "reload", "commit", "restore", "revalidate",
                               "reload-again", "give-up"}]
  /\ backup \in [Txs -> Edits]
  /\ written \in [Txs -> SUBSET Files]
  /\ wrote \in [Txs -> BOOLEAN] /\ asked \in [Txs -> BOOLEAN] /\ clean \in [Txs -> BOOLEAN]
  /\ crossed \in BOOLEAN

(* "Commits panel rows and Nginx files together": an operation that        *)
(* succeeded, on a first try or after a kill, has its row and every file.  *)
DoneTogether ==
  \A t \in Txs : pc[t] = "done" => /\ HasRow(t) => t \in rows
                                   /\ \A f \in Touches[t] : t \in file[f]

(* An operation that failed and reported no recovery failure left every    *)
(* file as its stage found it, and the row unchanged, whoever else wrote   *)
(* the same files before or since.                                         *)
RecoveredAsFound ==
  \A t \in Txs : pc[t] = "failed" /\ clean[t] =>
    /\ t \notin rows
    /\ \A f \in Files : t \in file[f] => t \in backup[t][f]

(* Nobody's recovery undoes what another operation committed: the files    *)
(* are put back before SQLite's lock lets the next writer read them.       *)
CommittedStaysStep == \A t \in Txs, f \in Files :
                        pc[t] = "done" /\ t \in file[f] => t \in file'[f]

(* An operation with a row, or with alwaysValidate, that succeeded is in   *)
(* what Nginx runs, even when an earlier try was killed after the files and*)
(* before the reload: what is still missing makes the next try reload.  One*)
(* with neither finds its files already right and reloads nothing.         *)
DoneIsServed ==
  \A t \in Txs : pc[t] = "done" /\ (HasRow(t) \/ t \in AlwaysValidate)
                  => \A f \in Touches[t] : t \in loaded[f]

(* When every operation is over and none was killed or failed to recover,  *)
(* Nginx runs exactly the files on disk: what a failed operation put back  *)
(* is served again.  The exception is an operation that began after the    *)
(* failed one's ROLLBACK let go of SQLite's lock and before its reload,    *)
(* which may load the newer one's files before they are committed.         *)
ServedIsOnDisk ==
  ~crossed /\ (\A t \in Txs : pc[t] \in Over /\ clean[t]) => loaded = file
=============================================================================
