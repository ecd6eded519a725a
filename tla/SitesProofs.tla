----------------------------- MODULE SitesProofs -----------------------------
(***************************************************************************)
(* Proofs about the sites run, part by part, each with an inductive        *)
(* invariant of its own: the Nginx transactions, maintenance mode, the     *)
(* clones, Panel Tweaks, the keys and the requests; AppsProofs has those   *)
(* of the applications in the sites.  At the end, the parts together.      *)
(*                                                                         *)
(* Two things make the first work: who is between its begin and its        *)
(* rollback is alone there, so that it writes over what it read; and while *)
(* no operation began inside another's recovery, what Nginx runs is the    *)
(* files as somebody read them or as they are.                             *)
(***************************************************************************)
EXTENDS AppsProofs

-----------------------------------------------------------------------------
(* The inductive invariant.                                                *)

Forward == {"write", "reload", "commit"}
Holding == Forward \cup {"restore"}
Recovering == {"revalidate", "reload-again"}
RolledBack == Recovering \cup {"give-up"}

(* Who holds the lock is at work; with a lock of the caller's, to the end. *)
Locked ==
  /\ \A t \in Txs : pc[t] \in Holding => holder = t
  /\ holder # None => /\ pc[holder] \in Holding \cup RolledBack
                      /\ nginxLock = "database" => pc[holder] \in Holding

(* What the files carry while one writes them, against what it has read;   *)
(* a file it has put back is as it was, unless that failed.                *)
WrittenOverRead ==
  \A t \in Txs : pc[t] \in Holding =>
    /\ written[t] \subseteq Nginx!Changes(t)
    /\ wrote[t] \/ written[t] = {}
    /\ \A f \in Files : pc[t] \in Forward =>
         file[f] = IF f \in written[t] THEN nginxBackup[t][f] \cup {t} ELSE nginxBackup[t][f]
    /\ pc[t] \in {"reload", "commit"} => Nginx!Changes(t) \subseteq written[t]
    /\ \A f \in Files : \/ file[f] = nginxBackup[t][f]
                        \/ f \in Nginx!Changes(t) /\ file[f] = nginxBackup[t][f] \cup {t}
    /\ pc[t] = "restore" /\ clean[t] => \A f \in Files \ written[t] : file[f] = nginxBackup[t][f]

(* Nobody else can add or take an operation's edit once it is rolled back. *)
PutBack ==
  \A t \in Txs : pc[t] \in RolledBack \cup {"failed"} /\ clean[t] =>
    \A f \in Files : t \in file[f] => t \in nginxBackup[t][f]

RowsOfDone == \A t \in rows : pc[t] = "done"

(* What must be served is loaded when it is committed.                     *)
LoadedAtCommit ==
  \A t \in Txs : pc[t] = "commit" /\ (Nginx!HasRow(t) \/ t \in AlwaysValidate)
                   => \A f \in Touches[t] : t \in loaded[f]

(* No operation is at work while another validates what it put back.       *)
OneAtWork ==
  ~crossed => \A s, t \in Txs : s # t /\ pc[t] \in Recovering => pc[s] \in Nginx!Over \cup {"give-up"}

(* What Nginx runs against the disk: the files as they were read, and      *)
(* after a reload as they are.                                             *)
LoadedFollows ==
  ~crossed /\ (\A t \in Txs : clean[t]) =>
    /\ (\A t \in Txs : pc[t] \in Nginx!Over \cup {"give-up"}) => loaded = file
    /\ \A t \in Txs :
         /\ pc[t] = "write" => ~asked[t]
         /\ pc[t] \in {"write", "reload"} => loaded = nginxBackup[t]
         /\ pc[t] = "commit" => loaded = file /\ (asked[t] \/ loaded = nginxBackup[t])
         /\ pc[t] = "restore" /\ (~asked[t] \/ ~wrote[t]) => loaded = nginxBackup[t]
         /\ pc[t] \in Recovering => file = nginxBackup[t] /\ wrote[t]
         /\ pc[t] = "revalidate" /\ ~asked[t] => loaded = nginxBackup[t]

IInv == /\ Nginx!TypeOK /\ Locked /\ WrittenOverRead /\ Nginx!DoneTogether /\ PutBack /\ RowsOfDone
        /\ LoadedAtCommit /\ Nginx!DoneIsServed /\ OneAtWork /\ LoadedFollows

(* Files that carry the same edits are the same.                           *)
LEMMA SameEdits ==
  ASSUME NEW a \in Nginx!Edits, NEW b \in Nginx!Edits, \A f \in Files : a[f] = b[f]
  PROVE  a = b
  BY DEF Nginx!Edits

(* The one that holds the lock is the only one between its begin and its   *)
(* rollback.                                                               *)
LEMMA HoldsAlone ==
  ASSUME Locked, NEW t \in Txs, pc[t] \in Holding
  PROVE  \A s \in Txs : s # t => pc[s] \notin Holding
  BY DEF Locked

(* While nobody has begun inside another's recovery, one alone is at work. *)
LEMMA AtWorkAlone ==
  ASSUME Nginx!TypeOK, Locked, OneAtWork, ~crossed,
         NEW t \in Txs, pc[t] \notin Nginx!Over \cup {"give-up"}
  PROVE  \A s \in Txs : s # t => pc[s] \in Nginx!Over \cup {"give-up"}
<1> USE DEF Nginx!Over, Forward, Holding, Recovering
<1>1. CASE pc[t] \in Recovering
  BY <1>1 DEF OneAtWork
<1>2. CASE pc[t] \in Holding
  <2>1. \A s \in Txs : s # t => pc[s] \notin Holding
    BY <1>2, HoldsAlone
  <2>2. \A s \in Txs : s # t => pc[s] \notin Recovering
    BY <1>2 DEF OneAtWork
  <2>3. QED
    BY <2>1, <2>2 DEF Nginx!TypeOK
<1>3. QED
  BY <1>1, <1>2 DEF Nginx!TypeOK

(* A step of one at work leaves it alone at work.                          *)
LEMMA MovesAlone ==
  ASSUME Nginx!TypeOK, Locked, OneAtWork, crossed => crossed',
         NEW t \in Txs, pc[t] \notin Nginx!Over, pc[t] = "give-up" => pc'[t] \in Nginx!Over,
         \A s \in Txs : s # t => pc'[s] = pc[s]
  PROVE  OneAtWork'
<1>1. SUFFICES ASSUME ~crossed', NEW r \in Txs, NEW s \in Txs, s # r, pc'[r] \in Recovering
               PROVE  pc'[s] \in Nginx!Over \cup {"give-up"}
  BY DEF OneAtWork
<1>2. CASE r = t
  <2>1. pc[t] \notin Nginx!Over \cup {"give-up"}
    BY <1>1, <1>2 DEF Nginx!Over, Recovering
  <2>2. QED
    BY <1>1, <1>2, <2>1, AtWorkAlone
<1>3. CASE s = t
  <2>1. pc[r] \in Recovering
    BY <1>1, <1>3
  <2>2. pc[t] = "give-up"
    BY <1>1, <1>3, <2>1 DEF OneAtWork
  <2>3. QED
    BY <1>3, <2>2
<1>4. CASE r # t /\ s # t
  BY <1>1, <1>4 DEF OneAtWork
<1>5. QED
  BY <1>2, <1>3, <1>4

(* An operation past its writes has its edit in every file it touches.     *)
LEMMA WrittenIsThere ==
  ASSUME Nginx!ConstantsOK, Nginx!TypeOK, WrittenOverRead
  PROVE  \A s \in Txs : pc[s] \in {"reload", "commit"} => \A f \in Touches[s] : s \in file[f]
<1>1. SUFFICES ASSUME NEW s \in Txs, pc[s] \in {"reload", "commit"}, NEW f \in Touches[s]
               PROVE  s \in file[f]
  OBVIOUS
<1>2. f \in Files
  BY <1>1 DEF Nginx!ConstantsOK
<1>3. file[f] = IF f \in written[s] THEN nginxBackup[s][f] \cup {s} ELSE nginxBackup[s][f]
  BY <1>1, <1>2 DEF WrittenOverRead, Holding, Forward
<1>4. f \in written[s] \/ s \in nginxBackup[s][f]
  BY <1>1, <1>2 DEF WrittenOverRead, Holding, Forward, Nginx!Changes
<1>5. QED
  BY <1>3, <1>4

(* What every step does besides: Next's own conjuncts.                     *)
Flagged == crossed' = (crossed \/ Nginx!Crosses) /\ UNCHANGED nginxLock

(* The files are read under the lock: what was read is what is there.      *)
LEMMA BeginKeeps ==
  ASSUME Nginx!ConstantsOK, IInv, NEW t \in Txs, Nginx!Begin(t), Flagged
  PROVE  IInv'
<1> USE DEF IInv, Nginx!Begin, Flagged, Nginx!Crosses, Nginx!ConstantsOK, Nginx!Edits,
      Nginx!Goto, Nginx!Unlock, Nginx!disk, Nginx!Over, Forward, Holding, Recovering,
      RolledBack, Nginx!HasRow
<1>1. Nginx!TypeOK'
  BY DEF Nginx!TypeOK, Nginx!Changes
<1>2. Locked'
  BY DEF Locked, Nginx!TypeOK
<1>3. WrittenOverRead'
  BY DEF WrittenOverRead, Nginx!TypeOK, Nginx!Changes
<1>4. Nginx!DoneTogether'
  BY DEF Nginx!DoneTogether, Nginx!TypeOK, WrittenOverRead, Nginx!Changes, Locked
<1>5. PutBack'
  BY DEF PutBack, Nginx!TypeOK, WrittenOverRead, Locked
<1>6. RowsOfDone'
  BY DEF RowsOfDone, Nginx!TypeOK
<1>7. LoadedAtCommit'
  BY DEF LoadedAtCommit, Nginx!TypeOK, Nginx!Changed, WrittenOverRead, Nginx!Changes, RowsOfDone
<1>8. Nginx!DoneIsServed'
  BY DEF Nginx!DoneIsServed, Nginx!TypeOK, Nginx!DoneTogether, LoadedAtCommit
<1>9. OneAtWork'
  <2>1. ~crossed' => \A u \in Txs : pc[u] \notin Recovering
    BY DEF Nginx!TypeOK
  <2>2. \A u \in Txs : pc'[u] \in Recovering => pc[u] \in Recovering
    BY DEF Nginx!TypeOK
  <2>3. QED
    BY <2>1, <2>2 DEF OneAtWork
<1>10. LoadedFollows'
  BY DEF LoadedFollows, Nginx!TypeOK, Nginx!Changes, WrittenOverRead, OneAtWork, Locked
<1>11. QED
  BY <1>1, <1>2, <1>3, <1>4, <1>5, <1>6, <1>7, <1>8, <1>9, <1>10

(* Nothing is written yet.                                                 *)
LEMMA StageFailsKeeps ==
  ASSUME Nginx!ConstantsOK, IInv, NEW t \in Txs, Nginx!StageFails(t), Flagged
  PROVE  IInv'
<1> USE DEF IInv, Nginx!StageFails, Flagged, Nginx!Crosses, Nginx!ConstantsOK, Nginx!Edits,
      Nginx!Goto, Nginx!Unlock, Nginx!disk, Nginx!Over, Forward, Holding, Recovering,
      RolledBack, Nginx!HasRow
<1>1. Nginx!TypeOK'
  BY DEF Nginx!TypeOK, Nginx!Changes
<1>2. Locked'
  BY DEF Locked, Nginx!TypeOK
<1>3. WrittenOverRead'
  BY DEF WrittenOverRead, Nginx!TypeOK, Nginx!Changes
<1>4. Nginx!DoneTogether'
  BY DEF Nginx!DoneTogether, Nginx!TypeOK, WrittenOverRead, Nginx!Changes, Locked
<1>5. PutBack'
  BY DEF PutBack, Nginx!TypeOK, WrittenOverRead, Locked
<1>6. RowsOfDone'
  BY DEF RowsOfDone, Nginx!TypeOK
<1>7. LoadedAtCommit'
  BY DEF LoadedAtCommit, Nginx!TypeOK, Nginx!Changed, WrittenOverRead, Nginx!Changes, RowsOfDone
<1>8. Nginx!DoneIsServed'
  BY DEF Nginx!DoneIsServed, Nginx!TypeOK, Nginx!DoneTogether, LoadedAtCommit
<1>9. OneAtWork'
  BY DEF OneAtWork, Nginx!TypeOK, Locked
<1>10. LoadedFollows'
  BY DEF LoadedFollows, Nginx!TypeOK, Nginx!Changes, WrittenOverRead, OneAtWork, Locked
<1>11. QED
  BY <1>1, <1>2, <1>3, <1>4, <1>5, <1>6, <1>7, <1>8, <1>9, <1>10

(* A file is written over what was read of it, or not at all.              *)
LEMMA WriteFileKeeps ==
  ASSUME Nginx!ConstantsOK, IInv, NEW t \in Txs, Nginx!WriteFile(t), Flagged
  PROVE  IInv'
<1> USE DEF IInv, Flagged, Nginx!Crosses, Nginx!ConstantsOK, Nginx!Edits, Nginx!Goto,
      Nginx!disk, Nginx!Over, Forward, Holding, Recovering, RolledBack, Nginx!HasRow
<1>1. PICK f \in Nginx!Changes(t) \ written[t] :
        /\ written' = [written EXCEPT ![t] = written[t] \cup {f}]
        /\ \/ /\ file' = [file EXCEPT ![f] = nginxBackup[t][f] \cup {t}]
              /\ pc' = pc
           \/ file' = file /\ pc' = [pc EXCEPT ![t] = "restore"]
  BY DEF Nginx!WriteFile
<1>2. /\ pc[t] = "write" /\ wrote' = [wrote EXCEPT ![t] = TRUE]
      /\ UNCHANGED <<rows, loaded, holder, nginxBackup, asked, clean, nginxLock>>
  BY DEF Nginx!WriteFile
<1>3. /\ f \in Files /\ f \notin written[t]
      /\ file \in [Files -> SUBSET Txs] /\ nginxBackup[t] \in [Files -> SUBSET Txs]
  BY DEF Nginx!TypeOK, Nginx!Changes
<1>4. /\ \A s \in Txs : s # t => /\ pc'[s] = pc[s] /\ pc[s] \notin Holding
                                 /\ written'[s] = written[s] /\ wrote'[s] = wrote[s]
      /\ written'[t] = written[t] \cup {f} /\ wrote'[t]
      /\ pc'[t] \in {"write", "restore"}
  BY <1>1, <1>2, HoldsAlone DEF Nginx!TypeOK
<1>5. file[f] = nginxBackup[t][f]
  BY <1>2, <1>3 DEF WrittenOverRead
<1>6. /\ \A g \in Files : g # f => file'[g] = file[g]
      /\ \/ file'[f] = nginxBackup[t][f] \cup {t}
         \/ file'[f] = nginxBackup[t][f] /\ pc'[t] = "restore"
  BY <1>1, <1>2, <1>3, <1>5 DEF Nginx!TypeOK
<1>7. \A g \in Files : /\ file[g] \subseteq file'[g]
                       /\ \A s \in Txs : s # t => (s \in file'[g]) = (s \in file[g])
  BY <1>3, <1>5, <1>6
<1>8. Nginx!TypeOK'
  <2>1. written' \in [Txs -> SUBSET Files]
    BY <1>1, <1>3 DEF Nginx!TypeOK
  <2>2. file' \in [Files -> SUBSET Txs]
    BY <1>1, <1>3
  <2>3. pc' \in {pc, [pc EXCEPT ![t] = "restore"]}
    BY <1>1
  <2>4. QED
    BY <1>2, <2>1, <2>2, <2>3 DEF Nginx!TypeOK
<1>9. Locked'
  BY <1>2, <1>4 DEF Locked, Nginx!TypeOK
<1>10. WrittenOverRead'
  <2>1. written'[t] \subseteq Nginx!Changes(t)
    BY <1>1, <1>2, <1>4 DEF WrittenOverRead
  <2>2. ASSUME NEW g \in Files, pc'[t] \in Forward
        PROVE  file'[g] = IF g \in written'[t] THEN nginxBackup[t][g] \cup {t} ELSE nginxBackup[t][g]
    <3>1. CASE g = f
      <4>1. g \in written'[t]
        BY <1>4, <3>1
      <4>2. pc'[t] = "write" /\ file'[g] = nginxBackup[t][g] \cup {t}
        BY <1>4, <1>6, <2>2, <3>1
      <4>3. QED
        BY <4>1, <4>2
    <3>2. CASE g # f
      <4>1. file[g] = IF g \in written[t] THEN nginxBackup[t][g] \cup {t} ELSE nginxBackup[t][g]
        BY <1>2 DEF WrittenOverRead
      <4>2. file'[g] = file[g] /\ (g \in written'[t] <=> g \in written[t])
        BY <1>4, <1>6, <3>2
      <4>3. QED
        BY <4>1, <4>2
    <3>3. QED
      BY <3>1, <3>2
  <2>3. \A g \in Files : \/ file'[g] = nginxBackup[t][g]
                         \/ g \in Nginx!Changes(t) /\ file'[g] = nginxBackup[t][g] \cup {t}
    BY <1>1, <1>2, <1>6 DEF WrittenOverRead
  <2>4. \A g \in Files \ written'[t] : file'[g] = nginxBackup[t][g]
    BY <1>2, <1>4, <1>6 DEF WrittenOverRead
  <2>5. \A s \in Txs : pc'[s] \in Holding => s = t
    BY <1>4
  <2>6. /\ \A s \in Txs : Nginx!Changes(s)' = Nginx!Changes(s)
        /\ nginxBackup' = nginxBackup
        /\ pc'[t] \notin {"reload", "commit"}
        /\ wrote'[t]
    BY <1>2, <1>4 DEF Nginx!Changes
  <2>7. QED
    BY <2>1, <2>2, <2>3, <2>4, <2>5, <2>6 DEF WrittenOverRead
<1>11. Nginx!DoneTogether' /\ RowsOfDone'
  BY <1>2, <1>4, <1>7 DEF Nginx!DoneTogether, RowsOfDone, Nginx!TypeOK
<1>12. PutBack'
  BY <1>2, <1>4, <1>7 DEF PutBack
<1>13. LoadedAtCommit' /\ Nginx!DoneIsServed'
  BY <1>2, <1>4 DEF LoadedAtCommit, Nginx!DoneIsServed
<1>14. OneAtWork'
  BY <1>2, <1>4 DEF OneAtWork
<1>15. LoadedFollows'
  <2>1. ASSUME ~crossed, \A u \in Txs : clean[u] PROVE \A s \in Txs : pc'[s] \notin Recovering
    BY <1>2, <1>4, <2>1 DEF OneAtWork
  <2>2. QED
    BY <1>2, <1>4, <2>1 DEF LoadedFollows
<1>16. QED
  BY <1>8, <1>9, <1>10, <1>11, <1>12, <1>13, <1>14, <1>15

(* What goes on to the reload or the commit has written every file it      *)
(* changes; with nothing to change, the files are as they were read.       *)
LEMMA ValidateKeeps ==
  ASSUME Nginx!ConstantsOK, IInv, NEW t \in Txs, Nginx!Validate(t), Flagged
  PROVE  IInv'
<1> USE DEF Nginx!Over, Forward, Holding, Recovering, RolledBack
<1>1. /\ Nginx!TypeOK /\ Locked /\ WrittenOverRead /\ Nginx!DoneTogether /\ PutBack /\ RowsOfDone
      /\ LoadedAtCommit /\ Nginx!DoneIsServed /\ OneAtWork /\ LoadedFollows
  BY DEF IInv
<1>2. /\ UNCHANGED <<file, rows, loaded, nginxLock, holder, nginxBackup, written, wrote, asked, clean>>
      /\ pc[t] = "write" /\ pc'[t] \in {"reload", "commit", "restore"}
      /\ Nginx!Changes(t) \subseteq written[t]
      /\ pc'[t] = "commit" => ~Nginx!Changed(t) /\ t \notin AlwaysValidate
      /\ \A s \in Txs : s # t => pc'[s] = pc[s]
      /\ crossed => crossed'
  BY <1>1 DEF Nginx!Validate, Flagged, Nginx!Goto, Nginx!Unlock, Nginx!disk, Nginx!TypeOK
<1>3. ~crossed' => ~crossed /\ \A s \in Txs : s # t => pc[s] \in Nginx!Over \cup {"give-up"}
  BY <1>1, <1>2, AtWorkAlone
<1>4. /\ \A s \in Txs : Nginx!Changes(s)' = Nginx!Changes(s) /\ Nginx!HasRow(s)' = Nginx!HasRow(s)
      /\ \A s \in Txs : s # t => pc[s] \notin Holding \/ pc[t] \notin Holding
  BY <1>1, <1>2, HoldsAlone DEF Nginx!Changes, Nginx!HasRow
<1>5. Nginx!TypeOK'
  BY <1>1 DEF Nginx!Validate, Flagged, Nginx!Crosses, Nginx!Goto, Nginx!Unlock, Nginx!disk,
     Nginx!HasRow, Nginx!TypeOK
<1>6. Locked'
  BY <1>1, <1>2, <1>4 DEF Locked, Nginx!TypeOK
<1>7. WrittenOverRead'
  <2>1. \A s \in Txs : /\ pc'[s] \in Holding => pc[s] \in Holding
                       /\ pc'[s] \in Forward => pc[s] \in Forward
    BY <1>2
  <2>2. \A s \in Txs : pc'[s] \in {"reload", "commit"} => Nginx!Changes(s) \subseteq written[s]
    BY <1>1, <1>2 DEF WrittenOverRead
  <2>3. \A s \in Txs : pc'[s] = "restore" /\ clean[s]
                        => \A f \in Files \ written[s] : file[f] = nginxBackup[s][f]
    BY <1>1, <1>2 DEF WrittenOverRead
  <2>4. QED
    BY <1>1, <1>2, <1>4, <2>1, <2>2, <2>3 DEF WrittenOverRead
<1>8. Nginx!DoneTogether' /\ RowsOfDone'
  BY <1>1, <1>2, <1>4 DEF Nginx!DoneTogether, RowsOfDone, WrittenOverRead, Nginx!Changes,
     Nginx!TypeOK, Nginx!ConstantsOK
<1>9. PutBack'
  BY <1>1, <1>2, <1>4 DEF PutBack, WrittenOverRead
<1>10. LoadedAtCommit' /\ Nginx!DoneIsServed'
  BY <1>1, <1>2, <1>4 DEF LoadedAtCommit, Nginx!DoneIsServed, Nginx!Changed, WrittenOverRead,
     Nginx!Changes, RowsOfDone, Nginx!TypeOK, Nginx!ConstantsOK
<1>11. OneAtWork'
  BY <1>1, <1>2, MovesAlone
<1>12. LoadedFollows'
  <2>1. ~Nginx!Changed(t) => file = nginxBackup[t]
    <3>1. ~Nginx!Changed(t) => \A f \in Files : file[f] = nginxBackup[t][f]
      BY <1>1, <1>2 DEF Nginx!Changed, WrittenOverRead
    <3>2. QED
      BY <1>1, <3>1, SameEdits DEF Nginx!TypeOK
  <2>2. QED
    BY <1>1, <1>2, <1>3, <2>1 DEF LoadedFollows
<1>13. QED
  BY <1>5, <1>6, <1>7, <1>8, <1>9, <1>10, <1>11, <1>12 DEF IInv

(* Once loaded, what must be served is: every file is written by then.     *)
LEMMA ReloadKeeps ==
  ASSUME Nginx!ConstantsOK, IInv, NEW t \in Txs, Nginx!Reload(t), Flagged
  PROVE  IInv'
<1> USE DEF Nginx!Over, Forward, Holding, Recovering, RolledBack
<1>1. /\ Nginx!TypeOK /\ Locked /\ WrittenOverRead /\ Nginx!DoneTogether /\ PutBack /\ RowsOfDone
      /\ LoadedAtCommit /\ Nginx!DoneIsServed /\ OneAtWork /\ LoadedFollows
  BY DEF IInv
<1>2. /\ UNCHANGED <<file, rows, nginxLock, holder, nginxBackup, written, wrote, clean>>
      /\ pc[t] = "reload" /\ pc'[t] \in {"commit", "restore"}
      /\ pc'[t] = "commit" => loaded' = file
      /\ loaded' \in {loaded, file}
      /\ asked'[t]
      /\ \A s \in Txs : s # t => asked'[s] = asked[s]
      /\ \A s \in Txs : s # t => pc'[s] = pc[s]
      /\ crossed => crossed'
  BY <1>1 DEF Nginx!Reload, Flagged, Nginx!Goto, Nginx!Unlock, Nginx!disk, Nginx!TypeOK
<1>3. ~crossed' => ~crossed /\ \A s \in Txs : s # t => pc[s] \in Nginx!Over \cup {"give-up"}
  BY <1>1, <1>2, AtWorkAlone
<1>4. /\ \A s \in Txs : Nginx!Changes(s)' = Nginx!Changes(s) /\ Nginx!HasRow(s)' = Nginx!HasRow(s)
      /\ \A s \in Txs : s # t => pc[s] \notin Holding \/ pc[t] \notin Holding
  BY <1>1, <1>2, HoldsAlone DEF Nginx!Changes, Nginx!HasRow
<1>5. Nginx!TypeOK'
  BY <1>1 DEF Nginx!Reload, Flagged, Nginx!Crosses, Nginx!Goto, Nginx!Unlock, Nginx!disk,
     Nginx!HasRow, Nginx!TypeOK
<1>6. Locked'
  BY <1>1, <1>2, <1>4 DEF Locked, Nginx!TypeOK
<1>7. WrittenOverRead'
  BY <1>1, <1>2, <1>4 DEF WrittenOverRead
<1>8. Nginx!DoneTogether' /\ RowsOfDone'
  BY <1>1, <1>2, <1>4 DEF Nginx!DoneTogether, RowsOfDone, WrittenOverRead, Nginx!Changes,
     Nginx!TypeOK, Nginx!ConstantsOK
<1>9. PutBack'
  BY <1>1, <1>2, <1>4 DEF PutBack, WrittenOverRead
<1>10. LoadedAtCommit' /\ Nginx!DoneIsServed'
  <2>1. \A s \in Txs : pc[s] \in {"reload", "commit"} => \A f \in Touches[s] : s \in file[f]
    BY <1>1, WrittenIsThere
  <2>2. \A s \in Txs : pc[s] = "done" => \A f \in Touches[s] : s \in file[f]
    BY <1>1 DEF Nginx!DoneTogether
  <2>3. LoadedAtCommit'
    BY <1>1, <1>2, <1>4, <2>1 DEF LoadedAtCommit
  <2>4. Nginx!DoneIsServed'
    BY <1>1, <1>2, <1>4, <2>2 DEF Nginx!DoneIsServed
  <2>5. QED
    BY <2>3, <2>4
<1>11. OneAtWork'
  BY <1>1, <1>2, MovesAlone
<1>12. LoadedFollows'
  <2>1. ~wrote[t] => file = nginxBackup[t]
    <3>1. ~wrote[t] => \A f \in Files : file[f] = nginxBackup[t][f]
      BY <1>1, <1>2 DEF WrittenOverRead
    <3>2. QED
      BY <1>1, <3>1, SameEdits DEF Nginx!TypeOK
  <2>2. QED
    BY <1>1, <1>2, <1>3, <2>1 DEF LoadedFollows
<1>13. QED
  BY <1>5, <1>6, <1>7, <1>8, <1>9, <1>10, <1>11, <1>12 DEF IInv

(* The row is committed last, with the files written and loaded.           *)
LEMMA CommitKeeps ==
  ASSUME Nginx!ConstantsOK, IInv, NEW t \in Txs, Nginx!Commit(t), Flagged
  PROVE  IInv'
<1> USE DEF Nginx!Over, Forward, Holding, Recovering, RolledBack
<1>1. /\ Nginx!TypeOK /\ Locked /\ WrittenOverRead /\ Nginx!DoneTogether /\ PutBack /\ RowsOfDone
      /\ LoadedAtCommit /\ Nginx!DoneIsServed /\ OneAtWork /\ LoadedFollows
  BY DEF IInv
<1>2. /\ UNCHANGED <<file, loaded, nginxLock, nginxBackup, written, wrote, asked, clean>>
      /\ pc[t] = "commit" /\ pc'[t] \in {"done", "restore"}
      /\ pc'[t] = "done" => /\ rows' = rows \cup {x \in {t} : Nginx!HasRow(x)}
                            /\ holder' = IF holder = t THEN None ELSE holder
      /\ pc'[t] = "restore" => rows' = rows /\ holder' = holder
      /\ \A s \in Txs : s # t => pc'[s] = pc[s]
      /\ crossed => crossed'
  BY <1>1 DEF Nginx!Commit, Flagged, Nginx!Goto, Nginx!Unlock, Nginx!disk, Nginx!TypeOK
<1>3. ~crossed' => ~crossed /\ \A s \in Txs : s # t => pc[s] \in Nginx!Over \cup {"give-up"}
  BY <1>1, <1>2, AtWorkAlone
<1>4. /\ \A s \in Txs : Nginx!Changes(s)' = Nginx!Changes(s) /\ Nginx!HasRow(s)' = Nginx!HasRow(s)
      /\ \A s \in Txs : s # t => pc[s] \notin Holding \/ pc[t] \notin Holding
  BY <1>1, <1>2, HoldsAlone DEF Nginx!Changes, Nginx!HasRow
<1>5. Nginx!TypeOK'
  BY <1>1 DEF Nginx!Commit, Flagged, Nginx!Crosses, Nginx!Goto, Nginx!Unlock, Nginx!disk,
     Nginx!HasRow, Nginx!TypeOK
<1>6. Locked'
  BY <1>1, <1>2, <1>4 DEF Locked, Nginx!TypeOK
<1>7. WrittenOverRead'
  BY <1>1, <1>2, <1>4 DEF WrittenOverRead
<1>8. Nginx!DoneTogether' /\ RowsOfDone'
  <2>1. \A f \in Touches[t] : t \in file[f]
    BY <1>1, <1>2, WrittenIsThere
  <2>2. Nginx!DoneTogether'
    BY <1>1, <1>2, <1>4, <2>1 DEF Nginx!DoneTogether, Nginx!HasRow
  <2>3. rows' \subseteq rows \cup {t} /\ (pc'[t] = "restore" => rows' = rows)
    BY <1>2
  <2>4. RowsOfDone'
    BY <1>1, <1>2, <2>3 DEF RowsOfDone, Nginx!TypeOK, Nginx!ConstantsOK
  <2>5. QED
    BY <2>2, <2>4
<1>9. PutBack'
  BY <1>1, <1>2, <1>4 DEF PutBack, WrittenOverRead
<1>10. LoadedAtCommit' /\ Nginx!DoneIsServed'
  BY <1>1, <1>2, <1>4 DEF LoadedAtCommit, Nginx!DoneIsServed, Nginx!Changed, WrittenOverRead,
     Nginx!Changes, RowsOfDone, Nginx!TypeOK, Nginx!ConstantsOK
<1>11. OneAtWork'
  BY <1>1, <1>2, MovesAlone
<1>12. LoadedFollows'
  <2>1. pc'[t] = "restore" /\ ~wrote[t] => file = nginxBackup[t]
    <3>1. ~wrote[t] => \A f \in Files : file[f] = nginxBackup[t][f]
      BY <1>1, <1>2 DEF WrittenOverRead
    <3>2. QED
      BY <1>1, <3>1, SameEdits DEF Nginx!TypeOK
  <2>2. QED
    BY <1>1, <1>2, <1>3, <2>1 DEF LoadedFollows
<1>13. QED
  BY <1>5, <1>6, <1>7, <1>8, <1>9, <1>10, <1>11, <1>12 DEF IInv

(* A file is put back as it was read, or the operation is not clean.       *)
LEMMA RestoreFileKeeps ==
  ASSUME Nginx!ConstantsOK, IInv, NEW t \in Txs, Nginx!RestoreFile(t), Flagged
  PROVE  IInv'
<1> USE DEF IInv, Flagged, Nginx!Crosses, Nginx!ConstantsOK, Nginx!Edits, Nginx!Goto,
      Nginx!disk, Nginx!Over, Forward, Holding, Recovering, RolledBack, Nginx!HasRow
<1>1. PICK f \in written[t] :
        /\ written' = [written EXCEPT ![t] = written[t] \ {f}]
        /\ \/ file' = [file EXCEPT ![f] = nginxBackup[t][f]] /\ clean' = clean
           \/ file' = file /\ clean' = [clean EXCEPT ![t] = FALSE]
  BY DEF Nginx!RestoreFile
<1>2. pc[t] = "restore" /\ UNCHANGED <<rows, loaded, holder, pc, nginxBackup, wrote, asked, nginxLock>>
  BY DEF Nginx!RestoreFile
<1>3. /\ f \in Files
      /\ file \in [Files -> SUBSET Txs] /\ nginxBackup[t] \in [Files -> SUBSET Txs]
  BY DEF Nginx!TypeOK
<1>4. /\ \A s \in Txs : s # t => /\ pc[s] \notin Holding /\ written'[s] = written[s]
                                 /\ clean'[s] = clean[s]
      /\ written'[t] = written[t] \ {f}
      /\ clean'[t] => clean[t] /\ file'[f] = nginxBackup[t][f]
  BY <1>1, <1>2, <1>3, HoldsAlone DEF Nginx!TypeOK
<1>5. /\ \A g \in Files : g # f => file'[g] = file[g]
      /\ file'[f] \in {file[f], nginxBackup[t][f]}
      /\ file[f] \in {nginxBackup[t][f], nginxBackup[t][f] \cup {t}}
  BY <1>1, <1>2, <1>3 DEF WrittenOverRead
<1>6. \A g \in Files, s \in Txs : s # t => (s \in file'[g]) = (s \in file[g])
  BY <1>3, <1>5
<1>7. Nginx!TypeOK'
  <2>1. written' \in [Txs -> SUBSET Files]
    BY <1>1, <1>3 DEF Nginx!TypeOK
  <2>2. file' \in [Files -> SUBSET Txs]
    BY <1>1, <1>3
  <2>3. clean' \in {clean, [clean EXCEPT ![t] = FALSE]}
    BY <1>1
  <2>4. QED
    BY <1>2, <2>1, <2>2, <2>3 DEF Nginx!TypeOK
<1>8. Locked'
  BY <1>2 DEF Locked
<1>9. WrittenOverRead'
  <2>1. \A g \in Files : \/ file'[g] = nginxBackup[t][g]
                         \/ g \in Nginx!Changes(t) /\ file'[g] = nginxBackup[t][g] \cup {t}
    BY <1>2, <1>5 DEF WrittenOverRead
  <2>2. clean'[t] => \A g \in Files \ written'[t] : file'[g] = nginxBackup[t][g]
    BY <1>2, <1>4, <1>5 DEF WrittenOverRead
  <2>3. QED
    BY <1>2, <1>4, <2>1, <2>2 DEF WrittenOverRead, Nginx!Changes
<1>10. Nginx!DoneTogether' /\ RowsOfDone'
  BY <1>2, <1>6 DEF Nginx!DoneTogether, RowsOfDone, Nginx!TypeOK
<1>11. PutBack'
  BY <1>2, <1>4, <1>6 DEF PutBack
<1>12. LoadedAtCommit' /\ Nginx!DoneIsServed'
  BY <1>2 DEF LoadedAtCommit, Nginx!DoneIsServed
<1>13. OneAtWork'
  BY <1>2 DEF OneAtWork
<1>14. LoadedFollows'
  <2>1. ASSUME ~crossed, \A u \in Txs : clean[u] PROVE \A s \in Txs : pc[s] \notin Recovering
    BY <1>2, <2>1 DEF OneAtWork
  <2>2. (\A u \in Txs : clean'[u]) => \A u \in Txs : clean[u]
    BY <1>4
  <2>3. QED
    BY <1>2, <1>4, <2>1, <2>2 DEF LoadedFollows
<1>15. QED
  BY <1>7, <1>8, <1>9, <1>10, <1>11, <1>12, <1>13, <1>14

(* The lock goes with every file put back, or the operation is not clean.  *)
LEMMA RollbackKeeps ==
  ASSUME Nginx!ConstantsOK, IInv, NEW t \in Txs, Nginx!Rollback(t), Flagged
  PROVE  IInv'
<1> USE DEF Nginx!Over, Forward, Holding, Recovering, RolledBack
<1>1. /\ Nginx!TypeOK /\ Locked /\ WrittenOverRead /\ Nginx!DoneTogether /\ PutBack /\ RowsOfDone
      /\ LoadedAtCommit /\ Nginx!DoneIsServed /\ OneAtWork /\ LoadedFollows
  BY DEF IInv
<1>2. /\ UNCHANGED <<file, rows, loaded, nginxLock, nginxBackup, written, wrote, asked, clean>>
      /\ pc[t] = "restore" /\ written[t] = {}
      /\ pc'[t] = IF wrote[t] THEN "revalidate" ELSE "give-up"
      /\ holder' = IF nginxLock # "caller" /\ holder = t THEN None ELSE holder
      /\ \A s \in Txs : s # t => pc'[s] = pc[s]
      /\ crossed => crossed'
  BY <1>1 DEF Nginx!Rollback, Flagged, Nginx!Goto, Nginx!Unlock, Nginx!disk, Nginx!TypeOK
<1>3. ~crossed' => ~crossed /\ \A s \in Txs : s # t => pc[s] \in Nginx!Over \cup {"give-up"}
  BY <1>1, <1>2, AtWorkAlone
<1>4. /\ \A s \in Txs : Nginx!Changes(s)' = Nginx!Changes(s) /\ Nginx!HasRow(s)' = Nginx!HasRow(s)
      /\ \A s \in Txs : s # t => pc[s] \notin Holding \/ pc[t] \notin Holding
  BY <1>1, <1>2, HoldsAlone DEF Nginx!Changes, Nginx!HasRow
<1>5. Nginx!TypeOK'
  BY <1>1 DEF Nginx!Rollback, Flagged, Nginx!Crosses, Nginx!Goto, Nginx!Unlock, Nginx!disk,
     Nginx!HasRow, Nginx!TypeOK
<1>6. Locked'
  BY <1>1, <1>2, <1>4 DEF Locked, Nginx!TypeOK
<1>7. WrittenOverRead'
  BY <1>1, <1>2, <1>4 DEF WrittenOverRead
<1>8. Nginx!DoneTogether' /\ RowsOfDone'
  BY <1>1, <1>2, <1>4 DEF Nginx!DoneTogether, RowsOfDone, WrittenOverRead, Nginx!Changes,
     Nginx!TypeOK, Nginx!ConstantsOK
<1>9. PutBack'
  BY <1>1, <1>2, <1>4 DEF PutBack, WrittenOverRead
<1>10. LoadedAtCommit' /\ Nginx!DoneIsServed'
  BY <1>1, <1>2, <1>4 DEF LoadedAtCommit, Nginx!DoneIsServed, Nginx!Changed, WrittenOverRead,
     Nginx!Changes, RowsOfDone, Nginx!TypeOK, Nginx!ConstantsOK
<1>11. OneAtWork'
  BY <1>1, <1>2, MovesAlone
<1>12. LoadedFollows'
  <2>1. clean[t] => file = nginxBackup[t]
    <3>1. clean[t] => \A f \in Files : file[f] = nginxBackup[t][f]
      BY <1>1, <1>2 DEF WrittenOverRead
    <3>2. QED
      BY <1>1, <3>1, SameEdits DEF Nginx!TypeOK
  <2>2. QED
    BY <1>1, <1>2, <1>3, <2>1 DEF LoadedFollows
<1>13. QED
  BY <1>5, <1>6, <1>7, <1>8, <1>9, <1>10, <1>11, <1>12 DEF IInv

(* A clean one that had asked for a reload goes on to ask again.           *)
LEMMA RevalidateKeeps ==
  ASSUME Nginx!ConstantsOK, IInv, NEW t \in Txs, Nginx!Revalidate(t), Flagged
  PROVE  IInv'
<1> USE DEF Nginx!Over, Forward, Holding, Recovering, RolledBack
<1>1. /\ Nginx!TypeOK /\ Locked /\ WrittenOverRead /\ Nginx!DoneTogether /\ PutBack /\ RowsOfDone
      /\ LoadedAtCommit /\ Nginx!DoneIsServed /\ OneAtWork /\ LoadedFollows
  BY DEF IInv
<1>2. /\ UNCHANGED <<file, rows, loaded, nginxLock, holder, nginxBackup, written, wrote, asked>>
      /\ pc[t] = "revalidate" /\ pc'[t] \in {"reload-again", "give-up"}
      /\ pc'[t] = "reload-again" => asked[t]
      /\ clean'[t] => clean[t] /\ (asked[t] => pc'[t] = "reload-again")
      /\ \A s \in Txs : s # t => clean'[s] = clean[s]
      /\ \A s \in Txs : s # t => pc'[s] = pc[s]
      /\ crossed => crossed'
  BY <1>1 DEF Nginx!Revalidate, Flagged, Nginx!Goto, Nginx!Unlock, Nginx!disk, Nginx!TypeOK
<1>3. ~crossed' => ~crossed /\ \A s \in Txs : s # t => pc[s] \in Nginx!Over \cup {"give-up"}
  BY <1>1, <1>2, AtWorkAlone
<1>4. /\ \A s \in Txs : Nginx!Changes(s)' = Nginx!Changes(s) /\ Nginx!HasRow(s)' = Nginx!HasRow(s)
      /\ \A s \in Txs : s # t => pc[s] \notin Holding \/ pc[t] \notin Holding
  BY <1>1, <1>2, HoldsAlone DEF Nginx!Changes, Nginx!HasRow
<1>5. Nginx!TypeOK'
  BY <1>1 DEF Nginx!Revalidate, Flagged, Nginx!Crosses, Nginx!Goto, Nginx!Unlock, Nginx!disk,
     Nginx!HasRow, Nginx!TypeOK
<1>6. Locked'
  BY <1>1, <1>2, <1>4 DEF Locked, Nginx!TypeOK
<1>7. WrittenOverRead'
  BY <1>1, <1>2, <1>4 DEF WrittenOverRead
<1>8. Nginx!DoneTogether' /\ RowsOfDone'
  BY <1>1, <1>2, <1>4 DEF Nginx!DoneTogether, RowsOfDone, WrittenOverRead, Nginx!Changes,
     Nginx!TypeOK, Nginx!ConstantsOK
<1>9. PutBack'
  BY <1>1, <1>2, <1>4 DEF PutBack, WrittenOverRead
<1>10. LoadedAtCommit' /\ Nginx!DoneIsServed'
  BY <1>1, <1>2, <1>4 DEF LoadedAtCommit, Nginx!DoneIsServed, Nginx!Changed, WrittenOverRead,
     Nginx!Changes, RowsOfDone, Nginx!TypeOK, Nginx!ConstantsOK
<1>11. OneAtWork'
  BY <1>1, <1>2, MovesAlone
<1>12. LoadedFollows'
  BY <1>1, <1>2, <1>3 DEF LoadedFollows
<1>13. QED
  BY <1>5, <1>6, <1>7, <1>8, <1>9, <1>10, <1>11, <1>12 DEF IInv

(* What was put back is loaded, or the operation is not clean.             *)
LEMMA ReloadAgainKeeps ==
  ASSUME Nginx!ConstantsOK, IInv, NEW t \in Txs, Nginx!ReloadAgain(t), Flagged
  PROVE  IInv'
<1> USE DEF Nginx!Over, Forward, Holding, Recovering, RolledBack
<1>1. /\ Nginx!TypeOK /\ Locked /\ WrittenOverRead /\ Nginx!DoneTogether /\ PutBack /\ RowsOfDone
      /\ LoadedAtCommit /\ Nginx!DoneIsServed /\ OneAtWork /\ LoadedFollows
  BY DEF IInv
<1>2. /\ UNCHANGED <<file, rows, nginxLock, holder, nginxBackup, written, wrote, asked>>
      /\ pc[t] = "reload-again" /\ pc'[t] = "give-up"
      /\ loaded' \in {loaded, file}
      /\ clean'[t] => clean[t] /\ loaded' = file
      /\ \A s \in Txs : s # t => clean'[s] = clean[s]
      /\ \A s \in Txs : s # t => pc'[s] = pc[s]
      /\ crossed => crossed'
  BY <1>1 DEF Nginx!ReloadAgain, Flagged, Nginx!Goto, Nginx!Unlock, Nginx!disk, Nginx!TypeOK
<1>3. ~crossed' => ~crossed /\ \A s \in Txs : s # t => pc[s] \in Nginx!Over \cup {"give-up"}
  BY <1>1, <1>2, AtWorkAlone
<1>4. /\ \A s \in Txs : Nginx!Changes(s)' = Nginx!Changes(s) /\ Nginx!HasRow(s)' = Nginx!HasRow(s)
      /\ \A s \in Txs : s # t => pc[s] \notin Holding \/ pc[t] \notin Holding
  BY <1>1, <1>2, HoldsAlone DEF Nginx!Changes, Nginx!HasRow
<1>5. Nginx!TypeOK'
  BY <1>1 DEF Nginx!ReloadAgain, Flagged, Nginx!Crosses, Nginx!Goto, Nginx!Unlock, Nginx!disk,
     Nginx!HasRow, Nginx!TypeOK
<1>6. Locked'
  BY <1>1, <1>2, <1>4 DEF Locked, Nginx!TypeOK
<1>7. WrittenOverRead'
  BY <1>1, <1>2, <1>4 DEF WrittenOverRead
<1>8. Nginx!DoneTogether' /\ RowsOfDone'
  BY <1>1, <1>2, <1>4 DEF Nginx!DoneTogether, RowsOfDone, WrittenOverRead, Nginx!Changes,
     Nginx!TypeOK, Nginx!ConstantsOK
<1>9. PutBack'
  BY <1>1, <1>2, <1>4 DEF PutBack, WrittenOverRead
<1>10. LoadedAtCommit' /\ Nginx!DoneIsServed'
  <2>1. \A s \in Txs : pc[s] \in {"reload", "commit"} => \A f \in Touches[s] : s \in file[f]
    BY <1>1, WrittenIsThere
  <2>2. \A s \in Txs : pc[s] = "done" => \A f \in Touches[s] : s \in file[f]
    BY <1>1 DEF Nginx!DoneTogether
  <2>3. LoadedAtCommit'
    BY <1>1, <1>2, <1>4, <2>1 DEF LoadedAtCommit
  <2>4. Nginx!DoneIsServed'
    BY <1>1, <1>2, <1>4, <2>2 DEF Nginx!DoneIsServed
  <2>5. QED
    BY <2>3, <2>4
<1>11. OneAtWork'
  BY <1>1, <1>2, MovesAlone
<1>12. LoadedFollows'
  BY <1>1, <1>2, <1>3 DEF LoadedFollows
<1>13. QED
  BY <1>5, <1>6, <1>7, <1>8, <1>9, <1>10, <1>11, <1>12 DEF IInv

(* Only the caller's lock is still to be let go of.                        *)
LEMMA GiveUpKeeps ==
  ASSUME Nginx!ConstantsOK, IInv, NEW t \in Txs, Nginx!GiveUp(t), Flagged
  PROVE  IInv'
<1> USE DEF IInv, Nginx!GiveUp, Flagged, Nginx!Crosses, Nginx!ConstantsOK, Nginx!Edits,
      Nginx!Goto, Nginx!Unlock, Nginx!disk, Nginx!Over, Forward, Holding, Recovering,
      RolledBack, Nginx!HasRow
<1>1. Nginx!TypeOK'
  BY DEF Nginx!TypeOK, Nginx!Changes
<1>2. Locked'
  BY DEF Locked, Nginx!TypeOK
<1>3. WrittenOverRead'
  BY DEF WrittenOverRead, Nginx!TypeOK, Nginx!Changes
<1>4. Nginx!DoneTogether'
  BY DEF Nginx!DoneTogether, Nginx!TypeOK, WrittenOverRead, Nginx!Changes, Locked
<1>5. PutBack'
  BY DEF PutBack, Nginx!TypeOK, WrittenOverRead, Locked
<1>6. RowsOfDone'
  BY DEF RowsOfDone, Nginx!TypeOK
<1>7. LoadedAtCommit'
  BY DEF LoadedAtCommit, Nginx!TypeOK, Nginx!Changed, WrittenOverRead, Nginx!Changes, RowsOfDone
<1>8. Nginx!DoneIsServed'
  BY DEF Nginx!DoneIsServed, Nginx!TypeOK, Nginx!DoneTogether, LoadedAtCommit
<1>9. OneAtWork'
  BY DEF OneAtWork, Nginx!TypeOK, Locked
<1>10. LoadedFollows'
  BY DEF LoadedFollows, Nginx!TypeOK, Nginx!Changes, WrittenOverRead, OneAtWork, Locked
<1>11. QED
  BY <1>1, <1>2, <1>3, <1>4, <1>5, <1>6, <1>7, <1>8, <1>9, <1>10

(* The lock is freed, and the operation is not clean.                      *)
LEMMA KilledKeeps ==
  ASSUME Nginx!ConstantsOK, IInv, NEW t \in Txs, Nginx!Killed(t), Flagged
  PROVE  IInv'
<1> USE DEF IInv, Nginx!Killed, Flagged, Nginx!Crosses, Nginx!ConstantsOK, Nginx!Edits,
      Nginx!Goto, Nginx!Unlock, Nginx!disk, Nginx!Over, Forward, Holding, Recovering,
      RolledBack, Nginx!HasRow
<1>1. Nginx!TypeOK'
  BY DEF Nginx!TypeOK, Nginx!Changes
<1>2. Locked'
  BY DEF Locked, Nginx!TypeOK
<1>3. WrittenOverRead'
  BY DEF WrittenOverRead, Nginx!TypeOK, Nginx!Changes
<1>4. Nginx!DoneTogether'
  BY DEF Nginx!DoneTogether, Nginx!TypeOK, WrittenOverRead, Nginx!Changes, Locked
<1>5. PutBack'
  BY DEF PutBack, Nginx!TypeOK, WrittenOverRead, Locked
<1>6. RowsOfDone'
  BY DEF RowsOfDone, Nginx!TypeOK
<1>7. LoadedAtCommit'
  BY DEF LoadedAtCommit, Nginx!TypeOK, Nginx!Changed, WrittenOverRead, Nginx!Changes, RowsOfDone
<1>8. Nginx!DoneIsServed'
  BY DEF Nginx!DoneIsServed, Nginx!TypeOK, Nginx!DoneTogether, LoadedAtCommit
<1>9. OneAtWork'
  BY DEF OneAtWork, Nginx!TypeOK, Locked
<1>10. LoadedFollows'
  BY DEF LoadedFollows, Nginx!TypeOK, Nginx!Changes, WrittenOverRead, OneAtWork, Locked
<1>11. QED
  BY <1>1, <1>2, <1>3, <1>4, <1>5, <1>6, <1>7, <1>8, <1>9, <1>10

-----------------------------------------------------------------------------
(* The invariant holds at the start and after every step.                  *)
LEMMA InitHolds ==
  ASSUME Nginx!ConstantsOK, Nginx!Init
  PROVE  IInv
<1> USE DEF Nginx!ConstantsOK, Nginx!Init, Nginx!NoEdits, Nginx!Over, Holding, Forward,
      Recovering, RolledBack
<1>1. Nginx!TypeOK /\ Locked
  BY DEF Nginx!TypeOK, Locked, Nginx!Edits
<1>2. WrittenOverRead /\ PutBack /\ RowsOfDone
  BY DEF WrittenOverRead, PutBack, RowsOfDone
<1>3. Nginx!DoneTogether /\ Nginx!DoneIsServed /\ LoadedAtCommit /\ OneAtWork
  BY DEF Nginx!DoneTogether, Nginx!DoneIsServed, LoadedAtCommit, OneAtWork
<1>4. LoadedFollows
  BY DEF LoadedFollows
<1>5. QED
  BY <1>1, <1>2, <1>3, <1>4 DEF IInv

LEMMA StepHolds ==
  ASSUME Nginx!ConstantsOK, IInv, [Nginx!Next]_(Nginx!vars)
  PROVE  IInv'
<1>1. CASE Nginx!Next
  <2>1. PICK t \in Txs : Nginx!TxNext(t) \/ Nginx!Killed(t)
    BY <1>1 DEF Nginx!Next
  <2>2. Flagged
    BY <1>1 DEF Nginx!Next, Flagged
  <2>3. CASE Nginx!Begin(t)
    BY <2>2, <2>3, BeginKeeps
  <2>4. CASE Nginx!StageFails(t)
    BY <2>2, <2>4, StageFailsKeeps
  <2>5. CASE Nginx!WriteFile(t)
    BY <2>2, <2>5, WriteFileKeeps
  <2>6. CASE Nginx!Validate(t)
    BY <2>2, <2>6, ValidateKeeps
  <2>7. CASE Nginx!Reload(t)
    BY <2>2, <2>7, ReloadKeeps
  <2>8. CASE Nginx!Commit(t)
    BY <2>2, <2>8, CommitKeeps
  <2>9. CASE Nginx!RestoreFile(t)
    BY <2>2, <2>9, RestoreFileKeeps
  <2>10. CASE Nginx!Rollback(t)
    BY <2>2, <2>10, RollbackKeeps
  <2>11. CASE Nginx!Revalidate(t)
    BY <2>2, <2>11, RevalidateKeeps
  <2>12. CASE Nginx!ReloadAgain(t)
    BY <2>2, <2>12, ReloadAgainKeeps
  <2>13. CASE Nginx!GiveUp(t)
    BY <2>2, <2>13, GiveUpKeeps
  <2>14. CASE Nginx!Killed(t)
    BY <2>2, <2>14, KilledKeeps
  <2>15. QED
    BY <2>1, <2>3, <2>4, <2>5, <2>6, <2>7, <2>8, <2>9, <2>10, <2>11, <2>12, <2>13, <2>14 DEF
       Nginx!TxNext
<1>2. CASE UNCHANGED Nginx!vars
  <2>1. UNCHANGED <<file, rows, loaded, nginxLock, holder, pc, nginxBackup, written, wrote, asked, clean,
                    crossed>>
    BY <1>2 DEF Nginx!vars
  <2>2. Nginx!TypeOK' /\ Locked' /\ WrittenOverRead'
    BY <2>1 DEF IInv, Nginx!TypeOK, Locked, WrittenOverRead, Nginx!Changes
  <2>3. Nginx!DoneTogether' /\ PutBack' /\ RowsOfDone' /\ LoadedAtCommit' /\ Nginx!DoneIsServed'
    BY <2>1 DEF IInv, Nginx!DoneTogether, PutBack, RowsOfDone, LoadedAtCommit,
       Nginx!DoneIsServed, Nginx!HasRow
  <2>4. OneAtWork' /\ LoadedFollows'
    BY <2>1 DEF IInv, OneAtWork, LoadedFollows
  <2>5. QED
    BY <2>2, <2>3, <2>4 DEF IInv
<1>3. QED
  BY <1>1, <1>2

(* What the invariant says of a recovery that is over, and of all.         *)
LEMMA RecoveryIsOver ==
  ASSUME IInv
  PROVE  Nginx!RecoveredAsFound /\ Nginx!ServedIsOnDisk
<1>1. Nginx!RecoveredAsFound
  BY DEF IInv, Nginx!RecoveredAsFound, PutBack, RowsOfDone, RolledBack
<1>2. Nginx!ServedIsOnDisk
  BY DEF IInv, Nginx!ServedIsOnDisk, LoadedFollows
<1>3. QED
  BY <1>1, <1>2

(* Only a write or a restore changes a file, of the one file its operation *)
(* has read, and adds or takes no edit but its own.                        *)
LEMMA OnlyItsOwnEdit ==
  ASSUME Nginx!ConstantsOK, IInv, NEW t \in Txs, Nginx!TxNext(t) \/ Nginx!Killed(t),
         NEW s \in Txs, NEW f \in Files, s # t
  PROVE  s \in file[f] => s \in file'[f]
<1> USE DEF IInv, Nginx!Edits, Nginx!disk, Nginx!Over
<1>1. CASE Nginx!WriteFile(t)
  <2>1. pc[t] = "write"
    BY <1>1 DEF Nginx!WriteFile
  <2>2. PICK g \in Nginx!Changes(t) \ written[t] :
           file' = [file EXCEPT ![g] = nginxBackup[t][g] \cup {t}] \/ file' = file
    BY <1>1 DEF Nginx!WriteFile
  <2>3. g \in Files /\ file \in [Files -> SUBSET Txs] /\ file[g] = nginxBackup[t][g]
    BY <2>1, <2>2 DEF Nginx!TypeOK, Nginx!Changes, WrittenOverRead, Holding, Forward,
       Nginx!ConstantsOK
  <2>4. QED
    BY <2>2, <2>3
<1>2. CASE Nginx!RestoreFile(t)
  <2>1. pc[t] = "restore"
    BY <1>2 DEF Nginx!RestoreFile
  <2>2. PICK g \in written[t] : file' = [file EXCEPT ![g] = nginxBackup[t][g]] \/ file' = file
    BY <1>2 DEF Nginx!RestoreFile
  <2>3. /\ g \in Files /\ file \in [Files -> SUBSET Txs]
        /\ file[g] \in {nginxBackup[t][g], nginxBackup[t][g] \cup {t}}
    BY <2>1, <2>2 DEF Nginx!TypeOK, WrittenOverRead, Holding
  <2>4. QED
    BY <2>2, <2>3
<1>3. CASE ~Nginx!WriteFile(t) /\ ~Nginx!RestoreFile(t)
  <2>1. file' = file
    BY <1>3 DEF Nginx!TxNext, Nginx!Begin, Nginx!StageFails, Nginx!Validate, Nginx!Reload,
       Nginx!Commit, Nginx!Rollback, Nginx!Revalidate, Nginx!ReloadAgain, Nginx!GiveUp,
       Nginx!Killed
  <2>2. QED
    BY <2>1
<1>4. QED
  BY <1>1, <1>2, <1>3

(* What is committed is not its own operation's to change any more.        *)
LEMMA CommittedStays ==
  ASSUME Nginx!ConstantsOK, IInv, Nginx!Next
  PROVE  Nginx!CommittedStaysStep
<1>1. PICK t \in Txs : Nginx!TxNext(t) \/ Nginx!Killed(t)
  BY DEF Nginx!Next
<1>2. SUFFICES ASSUME NEW s \in Txs, NEW f \in Files, pc[s] = "done", s \in file[f]
               PROVE  s \in file'[f]
  BY DEF Nginx!CommittedStaysStep
<1>3. CASE s = t
  BY <1>1, <1>2, <1>3 DEF Nginx!TxNext, Nginx!Begin, Nginx!StageFails, Nginx!WriteFile,
     Nginx!Validate, Nginx!Reload, Nginx!Commit, Nginx!RestoreFile, Nginx!Rollback,
     Nginx!Revalidate, Nginx!ReloadAgain, Nginx!GiveUp, Nginx!Killed, Nginx!Over
<1>4. CASE s # t
  BY <1>1, <1>2, <1>4, OnlyItsOwnEdit
<1>5. QED
  BY <1>3, <1>4

(* Whatever the operations, their files and the lock they share, and       *)
(* however often they are killed and run again: one that is done has its   *)
(* row and every file, and is served when it must be; one that failed and  *)
(* recovered left the files and the row as it found them; and with none at *)
(* work Nginx runs what is on disk.                                        *)
THEOREM TransactionsHold ==
  ASSUME Nginx!ConstantsOK
  PROVE  Nginx!Spec => [](/\ Nginx!TypeOK /\ Nginx!DoneTogether /\ Nginx!DoneIsServed
                          /\ Nginx!RecoveredAsFound /\ Nginx!ServedIsOnDisk)
<1>1. Nginx!Init => IInv
  BY InitHolds
<1>2. IInv /\ [Nginx!Next \/ (Nginx!AllOver /\ UNCHANGED Nginx!vars)]_(Nginx!vars) => IInv'
  BY StepHolds
<1>3. IInv => /\ Nginx!TypeOK /\ Nginx!DoneTogether /\ Nginx!DoneIsServed
              /\ Nginx!RecoveredAsFound /\ Nginx!ServedIsOnDisk
  BY RecoveryIsOver DEF IInv
<1>4. QED
  BY <1>1, <1>2, <1>3, PTL DEF Nginx!Spec

(* No operation's write, recovery or death takes out of a file the edit of *)
(* another that has been committed.                                        *)
THEOREM CommittedEditsStay ==
  ASSUME Nginx!ConstantsOK
  PROVE  Nginx!Spec => [][Nginx!CommittedStaysStep]_(Nginx!vars)
<1>1. Nginx!Init => IInv
  BY InitHolds
<1>2. IInv /\ [Nginx!Next \/ (Nginx!AllOver /\ UNCHANGED Nginx!vars)]_(Nginx!vars) => IInv'
  BY StepHolds
<1>3. IInv /\ [Nginx!Next \/ (Nginx!AllOver /\ UNCHANGED Nginx!vars)]_(Nginx!vars)
        => [Nginx!CommittedStaysStep]_(Nginx!vars)
  BY CommittedStays
<1>4. QED
  BY <1>1, <1>2, <1>3, PTL DEF Nginx!Spec

-----------------------------------------------------------------------------
(* The transactions' invariant, while a behaviour is about them.           *)
NginxHolds == part = "nginx" => IInv

LEMMA NginxStarts == Init => NginxHolds
<1>1. SUFFICES ASSUME Init, part = "nginx" PROVE IInv
  BY DEF NginxHolds
<1>2. Nginx!Init
  BY <1>1 DEF Init
<1>3. QED
  BY <1>2, Constants, InitHolds

LEMMA NginxGoesOn == NginxHolds /\ [Next]_vars => NginxHolds'
<1>1. SUFFICES ASSUME NginxHolds, [Next]_vars, part' = "nginx" PROVE IInv'
  BY DEF NginxHolds
<1>2. part = "nginx" /\ (Nginx!Next \/ UNCHANGED nginxVars)
  BY <1>1 DEF Next, vars
<1>3. IInv
  BY <1>1, <1>2 DEF NginxHolds
<1>4. [Nginx!Next]_(Nginx!vars)
  BY <1>2 DEF nginxVars, Nginx!vars
<1>5. QED
  BY <1>3, <1>4, Constants, StepHolds

(* A transaction that says done has its row and every file, is served when *)
(* it must be, and Nginx runs what is on disk once all are over: of any    *)
(* operations and files the panel may have.                                *)
THEOREM DoneTogetherHolds == Spec => []DoneTogether
<1>1. Init => NginxHolds
  BY NginxStarts
<1>2. NginxHolds /\ [Next]_vars => NginxHolds'
  BY NginxGoesOn
<1>3. NginxHolds => DoneTogether
  BY RecoveryIsOver DEF NginxHolds, DoneTogether, IInv
<1>4. QED
  BY <1>1, <1>2, <1>3, PTL DEF Spec

-----------------------------------------------------------------------------
(* Maintenance mode. What a request that is replacing a list may be at.    *)
Replacing == {"stage", "clear", "place"}

(* A list or a page is asked of one scope; only lists are locked.          *)
AsksInScope == \A c \in Clients :
  /\ request[c].verb \in Mode!ListVerbs \cup {"set-template", "reset-template"}
         => request[c].scope \in Mode!Scopes
  /\ request[c].at \in Replacing \cup {"lock"} => request[c].verb \in Mode!ListVerbs

(* A list nobody is replacing is the last one given (LastListWhole), and   *)
(* an address in any other is of the last one or of the one being placed.  *)
ListIsTheLast == \A s \in Mode!Scopes : s \notin lists \cup torn => dir[s].bypass = listed[s]
AddressesAskedFor == \A s \in Mode!Scopes : \A ip \in dir[s].bypass :
  \/ s \in torn \/ ip \in listed[s]
  \/ \E c \in Clients : request[c].scope = s /\ request[c].at = "place" /\ ip \in request[c].ips

(* Whoever replaces a list holds its lock and is alone at it: while it     *)
(* stages, the list is the last one given; while it clears, part of it;    *)
(* while it places, part of the new one; and an addition is to take in     *)
(* all of the last.                                                        *)
OneReplacing == \A c \in Clients : request[c].at \in Replacing =>
  /\ request[c].scope \in lists
  /\ \A o \in Clients : o # c /\ request[o].at \in Replacing
         => request[o].scope # request[c].scope
  /\ request[c].at = "stage" /\ request[c].scope \notin torn
         => dir[request[c].scope].bypass = listed[request[c].scope]
  /\ request[c].at = "clear" /\ request[c].scope \notin torn
         => dir[request[c].scope].bypass \subseteq listed[request[c].scope]
  /\ request[c].at = "place" => dir[request[c].scope].bypass \subseteq request[c].ips
  /\ request[c].verb = "add-bypass" /\ request[c].scope \notin torn
         => listed[request[c].scope] \subseteq request[c].ips

(* One prune at a time, and the domains it has still to look at are not    *)
(* there or were created since it read the panel.                          *)
PruneSparesNew == \A c \in Clients : request[c].verb = "prune" =>
  /\ request[c].todo \cap present \subseteq recreated
  /\ \A o \in Clients : o # c => request[o].verb # "prune"

(* A page kept in Varnish is of a domain the panel has.                    *)
PagesOfPresent == \A d \in Domains : cached[d] # "none" => d \in present

(* The inductive invariant of maintenance mode.                            *)
MaintenanceInv == /\ Mode!TypeOK /\ AsksInScope /\ OneReplacing /\ ListIsTheLast
                  /\ AddressesAskedFor /\ PruneSparesNew /\ PagesOfPresent /\ Mode!NoLivePageKept

(* What is changed in an entry of a scope, or in a request, leaves one.    *)
LEMMA EntryIs ==
  ASSUME NEW e \in Mode!Entries
  PROVE  /\ e.there \in BOOLEAN /\ e.on \in BOOLEAN /\ e.bypass \in SUBSET Ips
         /\ e.stages \in SUBSET Clients
         /\ \A b \in BOOLEAN : /\ [e EXCEPT !.there = b] \in Mode!Entries
                              /\ [e EXCEPT !.on = b] \in Mode!Entries
         /\ \A p \in {"none", "passive"} : [e EXCEPT !.page = p] \in Mode!Entries
         /\ \A i \in SUBSET Ips : [e EXCEPT !.bypass = i] \in Mode!Entries
         /\ \A i \in SUBSET Clients : [e EXCEPT !.stages = i] \in Mode!Entries
  BY DEF Mode!Entries
LEMMA RequestIs ==
  ASSUME NEW r \in Mode!Asking
  PROVE  /\ r.verb \in Mode!Verbs \cup {"none"} /\ r.scope \in Mode!Scopes \cup {Mode!Many}
         /\ r.ips \in SUBSET Ips /\ r.todo \in SUBSET Domains
         /\ r.at \in {"rest", "write", "lock", "stage", "clear", "place", "domains", "purge"}
         /\ \A a \in {"rest", "write", "lock", "stage", "clear", "place", "domains", "purge"} :
              /\ [r EXCEPT !.at = a] \in Mode!Asking
              /\ \A t \in SUBSET Domains : [[r EXCEPT !.at = a] EXCEPT !.todo = t] \in Mode!Asking
              /\ \A t \in SUBSET Ips : [[r EXCEPT !.at = a] EXCEPT !.ips = t] \in Mode!Asking
         /\ \A t \in SUBSET Domains : [r EXCEPT !.todo = t] \in Mode!Asking
  BY DEF Mode!Asking

(* A switch writes one scope, and of it neither the list nor what is       *)
(* staged.                                                                 *)
LEMMA FlipIs ==
  ASSUME Mode!TypeOK, NEW s \in Mode!Scopes, NEW verb
  PROVE  /\ Mode!Flip(verb, s) \in [Mode!Scopes -> Mode!Entries]
         /\ \A r \in Mode!Scopes : r # s => Mode!Flip(verb, s)[r] = dir[r]
         /\ Mode!Flip(verb, s)[s].bypass = dir[s].bypass
         /\ Mode!Flip(verb, s)[s].stages = dir[s].stages
         /\ Mode!Flip(verb, s)[s].on = (verb = "enable")
         /\ (dir[s].there => Mode!Flip(verb, s)[s].there)
<1>1. dir \in [Mode!Scopes -> Mode!Entries] /\ dir[s] \in Mode!Entries
  BY DEF Mode!TypeOK
<1> DEFINE e == [[dir[s] EXCEPT !.on = (verb = "enable")] EXCEPT !.there = @ \/ verb = "enable"]
<1>2. /\ e \in Mode!Entries /\ e.bypass = dir[s].bypass /\ e.stages = dir[s].stages
      /\ e.on = (verb = "enable") /\ e.there = (dir[s].there \/ verb = "enable")
  BY <1>1 DEF Mode!Entries
<1>3. Mode!Flip(verb, s) = [dir EXCEPT ![s] = e]
  BY <1>1 DEF Mode!Flip
<1>4. QED
  BY <1>1, <1>2, <1>3

(* A request that goes on is still one.                                    *)
LEMMA RequestGoesOn ==
  ASSUME Mode!TypeOK, NEW c \in Clients, NEW a \in {"stage", "domains", "purge"}
  PROVE  /\ [request EXCEPT ![c].at = a] \in [Clients -> Mode!Asking]
         /\ \A t \in SUBSET Domains :
              [request EXCEPT ![c].at = a, ![c].todo = t] \in [Clients -> Mode!Asking]
         /\ \A i \in SUBSET Ips :
              [request EXCEPT ![c].at = a, ![c].ips = i] \in [Clients -> Mode!Asking]
<1>1. request \in [Clients -> Mode!Asking] /\ request[c] \in Mode!Asking
  BY DEF Mode!TypeOK
<1>2. [request[c] EXCEPT !.at = a] \in Mode!Asking
  BY <1>1 DEF Mode!Asking
<1>3. \A t \in SUBSET Domains : [[request[c] EXCEPT !.at = a] EXCEPT !.todo = t] \in Mode!Asking
  BY <1>1 DEF Mode!Asking
<1>4. \A i \in SUBSET Ips : [[request[c] EXCEPT !.at = a] EXCEPT !.ips = i] \in Mode!Asking
  BY <1>1 DEF Mode!Asking
<1>5. QED
  BY <1>1, <1>2, <1>3, <1>4

(* A switch of many, and a lock taken, by what they do to the state.       *)
SwitchedMany(c, those) ==
  /\ dir' \in [Mode!Scopes -> Mode!Entries]
  /\ \A s \in Mode!Scopes : /\ dir'[s].bypass = dir[s].bypass /\ dir'[s].stages = dir[s].stages
                            /\ dir'[s].on = IF s \in those THEN request[c].verb = "enable"
                                            ELSE dir[s].on
                            /\ (dir[s].there => dir'[s].there)
  /\ request' = [request EXCEPT ![c].at = "purge", ![c].todo = those]
  /\ request[c].verb \in Mode!Switches /\ request[c].at = "write"
  /\ UNCHANGED <<present, panelFile, lists, cached, listed, torn, stale, recreated>>
ListsTaken(c) ==
  /\ request[c].verb \in Mode!ListVerbs /\ request[c].at = "lock" /\ request[c].scope \notin lists
  /\ request' = [request EXCEPT ![c].at = "stage", ![c].ips = Mode!NextList(c)]
  /\ lists' = lists \cup {request[c].scope}
  /\ UNCHANGED <<present, panelFile, dir, cached, listed, torn, stale, recreated>>

(* They are the actions.                                                   *)
LEMMA SwitchManyIs ==
  ASSUME Mode!TypeOK, NEW c \in Clients, Mode!SwitchMany(c)
  PROVE  \E those \in SUBSET request[c].todo : SwitchedMany(c, those)
<1>1. PICK those \in SUBSET request[c].todo :
        /\ dir' = [s \in Mode!Scopes |->
                   IF s \in those THEN Mode!Flip(request[c].verb, s)[s] ELSE dir[s]]
        /\ request' = [request EXCEPT ![c].at = "purge", ![c].todo = those]
  BY DEF Mode!SwitchMany
<1>2. \A s \in Mode!Scopes : dir[s] \in Mode!Entries
  BY DEF Mode!TypeOK
<1>3. dir' \in [Mode!Scopes -> Mode!Entries]
  BY <1>1, <1>2, FlipIs
<1>4. \A s \in Mode!Scopes : /\ dir'[s].bypass = dir[s].bypass /\ dir'[s].stages = dir[s].stages
                             /\ dir'[s].on = IF s \in those THEN request[c].verb = "enable"
                                             ELSE dir[s].on
                             /\ (dir[s].there => dir'[s].there)
  BY <1>1, FlipIs
<1>5. QED
  BY <1>1, <1>3, <1>4 DEF Mode!SwitchMany, Mode!Doing, Mode!panel, Mode!ghosts, SwitchedMany
LEMMA TakeListsIs ==
  ASSUME Mode!TypeOK, NEW c \in Clients, Mode!TakeLists(c)
  PROVE  \/ ListsTaken(c)
         \/ /\ Mode!Ends(c) /\ request[c].at = "lock"
            /\ UNCHANGED <<Mode!panel, dir, lists, cached, Mode!ghosts, asks>>
  BY DEF Mode!TakeLists, Mode!Doing, Mode!Ends, Mode!panel, Mode!ghosts, ListsTaken

(* A switch of one scope, and a page written, by what they do to the       *)
(* state.                                                                  *)
LEMMA SwitchIs ==
  ASSUME Mode!TypeOK, NEW c \in Clients, Mode!Switch(c)
  PROVE  /\ \A s \in Mode!Scopes : /\ dir'[s].bypass = dir[s].bypass
                                   /\ dir'[s].stages = dir[s].stages
         /\ request'[c].at \in {"domains", "purge"} /\ request[c].at = "write"
         /\ \A o \in Clients : o # c => request'[o] = request[o]
         /\ UNCHANGED <<lists, listed, torn>>
<1>1. request[c].scope \in Mode!Scopes /\ request \in [Clients -> Mode!Asking]
  BY DEF Mode!TypeOK, Mode!Asking, Mode!Switch
<1>2. \A s \in Mode!Scopes : dir'[s].bypass = dir[s].bypass /\ dir'[s].stages = dir[s].stages
  BY <1>1, FlipIs DEF Mode!Switch
<1>3. request'[c].at \in {"domains", "purge"} /\ \A o \in Clients : o # c => request'[o] = request[o]
  BY <1>1 DEF Mode!Switch, Mode!Asking
<1>4. QED
  BY <1>2, <1>3 DEF Mode!Switch, Mode!Doing, Mode!ghosts
LEMMA TemplateIs ==
  ASSUME Mode!TypeOK, AsksInScope, NEW c \in Clients, Mode!WriteTemplate(c)
  PROVE  /\ dir' \in [Mode!Scopes -> Mode!Entries]
         /\ \A s \in Mode!Scopes : /\ dir'[s].bypass = dir[s].bypass
                                   /\ dir'[s].stages = dir[s].stages
                                   /\ dir'[s].on = dir[s].on
         /\ request' = [request EXCEPT ![c] = Mode!Resting]
         /\ \A o \in Clients : o # c => request'[o] = request[o]
         /\ request'[c] = Mode!Resting /\ request[c].at = "write"
         /\ UNCHANGED <<Mode!panel, lists, cached, Mode!ghosts, asks>>
<1> DEFINE s == request[c].scope
           e == [[dir[s] EXCEPT !.page = "passive"] EXCEPT !.there = TRUE]
           f == [dir[s] EXCEPT !.page = "none"]
<1>1. s \in Mode!Scopes /\ request \in [Clients -> Mode!Asking]
  BY DEF Mode!TypeOK, Mode!WriteTemplate, Mode!Doing, AsksInScope
<1>2. dir \in [Mode!Scopes -> Mode!Entries] /\ dir[s] \in Mode!Entries
  BY <1>1 DEF Mode!TypeOK
<1>3. /\ e \in Mode!Entries /\ e.bypass = dir[s].bypass /\ e.stages = dir[s].stages
      /\ e.on = dir[s].on
      /\ f \in Mode!Entries /\ f.bypass = dir[s].bypass /\ f.stages = dir[s].stages
      /\ f.on = dir[s].on
  BY <1>2 DEF Mode!Entries
<1>4. dir' = [dir EXCEPT ![s] = e] \/ dir' = [dir EXCEPT ![s] = f]
  BY <1>2 DEF Mode!WriteTemplate
<1>5. /\ dir' \in [Mode!Scopes -> Mode!Entries]
      /\ \A r \in Mode!Scopes : /\ dir'[r].bypass = dir[r].bypass /\ dir'[r].stages = dir[r].stages
                                /\ dir'[r].on = dir[r].on
  BY <1>1, <1>2, <1>3, <1>4
<1>6. QED
  BY <1>1, <1>5 DEF Mode!WriteTemplate, Mode!Ends, Mode!Doing

(* Each conjunct of the invariant through each step of a request.          *)
LEMMA MaintenanceTyped ==
  ASSUME Mode!ConstantsOK, MaintenanceInv, NEW c \in Clients, Mode!ClientStep(c)
  PROVE  Mode!TypeOK'
<1> USE DEF Mode!Doing, Mode!Ends, Mode!Resting, Mode!NoDir, Mode!Scopes, Mode!Verbs,
        Mode!Switches, Mode!ListVerbs, Replacing, Mode!panel, Mode!ghosts, MaintenanceInv,
        Mode!ConstantsOK, Mode!TypeOK, AsksInScope
<1>1. ASSUME NEW ask \in Asks, Mode!Begin(c, ask) PROVE Mode!TypeOK'
  <2>1. request' \in [Clients -> Mode!Asking]
    BY <1>1 DEF Mode!Begin, Mode!First, Mode!Todo, Mode!Gone, Mode!Missing, Mode!Spend,
       Mode!Asking
  <2>2. dir' \in [Mode!Scopes -> Mode!Entries]
    <3>1. ask.verb \in Mode!ListVerbs => ask.scope \in Mode!Scopes
      OBVIOUS
    <3>2. QED
      BY <1>1, <3>1, EntryIs DEF Mode!Begin
  <2>3. QED
    BY <1>1, <2>1, <2>2 DEF Mode!Begin, Mode!First, Mode!Todo, Mode!Gone, Mode!Missing,
       Mode!Spend
<1>2. ASSUME Mode!Switch(c) PROVE Mode!TypeOK'
  <2>1. request' \in [Clients -> Mode!Asking]
    <3>1. request[c].scope # Mode!Global => {request[c].scope} \in SUBSET Domains
      BY <1>2 DEF Mode!Switch, Mode!Asking
    <3>2. QED
      BY <1>2, <3>1, RequestGoesOn DEF Mode!Switch
  <2>2. dir' \in [Mode!Scopes -> Mode!Entries]
    <3>1. request[c].scope \in Mode!Scopes
      BY <1>2 DEF Mode!Switch, Mode!Asking
    <3>2. QED
      BY <1>2, <3>1, FlipIs DEF Mode!Switch
  <2>3. QED
    BY <1>2, <2>1, <2>2 DEF Mode!Switch, Mode!Flip
<1>3. ASSUME NEW those \in SUBSET request[c].todo, SwitchedMany(c, those) PROVE Mode!TypeOK'
  <2>1. request' \in [Clients -> Mode!Asking]
    <3>1. those \in SUBSET Domains
      BY DEF Mode!Asking
    <3>2. QED
      BY <1>3, <3>1, RequestGoesOn DEF SwitchedMany
  <2>2. dir' \in [Mode!Scopes -> Mode!Entries]
    BY <1>3 DEF SwitchedMany, Mode!Entries
  <2>3. QED
    BY <1>3, <2>1, <2>2 DEF SwitchedMany
<1>4. ASSUME Mode!ReadDomains(c) PROVE Mode!TypeOK'
  <2>1. request' \in [Clients -> Mode!Asking]
    <3>1. (IF panelFile = "ok" THEN present ELSE {}) \in SUBSET Domains
      OBVIOUS
    <3>2. QED
      BY <1>4, <3>1, RequestGoesOn DEF Mode!ReadDomains
  <2>2. dir' \in [Mode!Scopes -> Mode!Entries]
    BY <1>4 DEF Mode!ReadDomains, Mode!Entries
  <2>3. QED
    BY <1>4, <2>1, <2>2 DEF Mode!ReadDomains
<1>5. ASSUME Mode!Purged(c) PROVE Mode!TypeOK'
  BY <1>5 DEF Mode!Purged, Mode!Asking, Mode!Entries
<1>6. ASSUME Mode!WriteTemplate(c) PROVE Mode!TypeOK'
  <2>1. request' \in [Clients -> Mode!Asking]
    BY <1>6, TemplateIs DEF Mode!Asking
  <2>2. QED
    BY <1>6, <2>1, TemplateIs
<1>7. ASSUME NEW d \in Domains, Mode!Purge(c, d) PROVE Mode!TypeOK'
  <2>1. request' \in [Clients -> Mode!Asking]
    BY <1>7 DEF Mode!Purge, Mode!Asking
  <2>2. dir' \in [Mode!Scopes -> Mode!Entries]
    BY <1>7 DEF Mode!Purge, Mode!Entries
  <2>3. QED
    BY <1>7, <2>1, <2>2 DEF Mode!Purge
<1>8. ASSUME NEW d \in Domains, Mode!PurgeRefused(c, d) PROVE Mode!TypeOK'
  <2>1. request' \in [Clients -> Mode!Asking]
    BY <1>8 DEF Mode!PurgeRefused, Mode!Asking
  <2>2. QED
    BY <1>8, <2>1 DEF Mode!PurgeRefused, Mode!Mishap, Mode!Spend
<1>9. ASSUME NEW d \in Domains, Mode!Remove(c, d) PROVE Mode!TypeOK'
  <2>1. request' \in [Clients -> Mode!Asking]
    BY <1>9 DEF Mode!Remove, Mode!Asking
  <2>2. dir' \in [Mode!Scopes -> Mode!Entries]
    BY <1>9 DEF Mode!Remove, Mode!Entries
  <2>3. QED
    BY <1>9, <2>1, <2>2 DEF Mode!Remove
<1>10. ASSUME ListsTaken(c) PROVE Mode!TypeOK'
  <2>1. request' \in [Clients -> Mode!Asking]
    <3>1. Mode!NextList(c) \in SUBSET Ips
      BY <1>10 DEF ListsTaken, Mode!NextList, Mode!Asking, Mode!Entries
    <3>2. QED
      BY <1>10, <3>1, RequestGoesOn DEF ListsTaken
  <2>2. dir' \in [Mode!Scopes -> Mode!Entries]
    BY <1>10 DEF ListsTaken, Mode!NextList, Mode!Entries
  <2>3. QED
    BY <1>10, <2>1, <2>2 DEF ListsTaken, Mode!NextList
<1>11. ASSUME Mode!Ends(c), request[c].at = "lock",
              UNCHANGED <<Mode!panel, dir, lists, cached, Mode!ghosts, asks>>
       PROVE  Mode!TypeOK'
  BY <1>11 DEF Mode!Ends, Mode!Asking, Mode!Entries
<1>12. ASSUME Mode!Stage(c) PROVE Mode!TypeOK'
  <2>1. request' \in [Clients -> Mode!Asking]
    BY <1>12 DEF Mode!Stage, Mode!Goes, Mode!Asking
  <2>2. dir' \in [Mode!Scopes -> Mode!Entries]
    BY <1>12 DEF Mode!Stage, Mode!Entries
  <2>3. QED
    BY <1>12, <2>1, <2>2 DEF Mode!Stage
<1>13. ASSUME Mode!StageFails(c) PROVE Mode!TypeOK'
  BY <1>13 DEF Mode!StageFails, Mode!Unlock, Mode!Mishap, Mode!Spend, Mode!Asking,
     Mode!Entries
<1>14. ASSUME Mode!Cleared(c) PROVE Mode!TypeOK'
  BY <1>14 DEF Mode!Cleared, Mode!Goes, Mode!Asking, Mode!Entries
<1>15. ASSUME Mode!Placed(c) PROVE Mode!TypeOK'
  <2>1. request' \in [Clients -> Mode!Asking]
    BY <1>15 DEF Mode!Placed, Mode!Unlock, Mode!Asking
  <2>2. dir' \in [Mode!Scopes -> Mode!Entries]
    BY <1>15 DEF Mode!Placed, Mode!Unlock, Mode!Entries
  <2>3. QED
    BY <1>15, <2>1, <2>2, RequestIs DEF Mode!Placed, Mode!Unlock
<1>16. ASSUME Mode!ListFails(c) PROVE Mode!TypeOK'
  <2>1. request' \in [Clients -> Mode!Asking]
    BY <1>16 DEF Mode!ListFails, Mode!Asking
  <2>2. dir' \in [Mode!Scopes -> Mode!Entries]
    BY <1>16 DEF Mode!ListFails, Mode!Entries
  <2>3. request[c].scope \in Mode!Scopes
    BY <1>16 DEF Mode!ListFails
  <2>4. QED
    BY <1>16, <2>1, <2>2, <2>3 DEF Mode!ListFails, Mode!Unlock, Mode!Mishap, Mode!Spend
<1>17. ASSUME NEW ip \in Ips, Mode!Clear(c, ip) PROVE Mode!TypeOK'
  <2>1. dir' \in [Mode!Scopes -> Mode!Entries]
    BY <1>17 DEF Mode!Clear, Mode!Entries
  <2>2. QED
    BY <1>17, <2>1 DEF Mode!Clear
<1>18. ASSUME NEW ip \in Ips, Mode!Place(c, ip) PROVE Mode!TypeOK'
  <2>1. request' \in [Clients -> Mode!Asking]
    BY <1>18 DEF Mode!Place, Mode!Asking
  <2>2. dir' \in [Mode!Scopes -> Mode!Entries]
    BY <1>18 DEF Mode!Place, Mode!Entries
  <2>3. QED
    BY <1>18, <2>1, <2>2 DEF Mode!Place
<1>19. ASSUME Mode!Pruned(c) PROVE Mode!TypeOK'
  BY <1>19 DEF Mode!Pruned, Mode!Asking, Mode!Entries
<1>20. ASSUME Mode!Killed(c) PROVE Mode!TypeOK'
  BY <1>20 DEF Mode!Killed, Mode!Mishap, Mode!Spend, Mode!Asking, Mode!Entries
<1>21. QED
  BY SwitchManyIs, TakeListsIs, <1>1, <1>2, <1>3, <1>4, <1>5, <1>6, <1>7, <1>8, <1>9, <1>10,
     <1>11, <1>12, <1>13, <1>14, <1>15, <1>16, <1>17, <1>18, <1>19, <1>20 DEF Mode!ClientStep,
     Mode!LocksOut

LEMMA ScopesKept ==
  ASSUME Mode!ConstantsOK, MaintenanceInv, NEW c \in Clients, Mode!ClientStep(c)
  PROVE  AsksInScope'
<1> USE DEF Mode!Doing, Mode!Ends, Mode!Resting, Mode!NoDir, Mode!Scopes, Mode!Verbs,
        Mode!Switches, Mode!ListVerbs, Replacing, Mode!panel, Mode!ghosts, MaintenanceInv,
        Mode!ConstantsOK, Mode!TypeOK, AsksInScope, Mode!Entries, Mode!Asking
<1>1. ASSUME NEW ask \in Asks, Mode!Begin(c, ask) PROVE AsksInScope'
  BY <1>1 DEF Mode!Begin, Mode!First, Mode!Todo, Mode!Gone, Mode!Missing, Mode!Spend
<1>2. ASSUME Mode!Switch(c) PROVE AsksInScope'
  BY <1>2 DEF Mode!Switch, Mode!Flip
<1>3. ASSUME NEW those \in SUBSET request[c].todo, SwitchedMany(c, those) PROVE AsksInScope'
  BY <1>3 DEF SwitchedMany
<1>4. ASSUME Mode!ReadDomains(c) PROVE AsksInScope'
  BY <1>4 DEF Mode!ReadDomains
<1>5. ASSUME Mode!Purged(c) PROVE AsksInScope'
  BY <1>5 DEF Mode!Purged
<1>6. ASSUME Mode!WriteTemplate(c) PROVE AsksInScope'
  BY <1>6 DEF Mode!WriteTemplate
<1>7. ASSUME NEW d \in Domains, Mode!Purge(c, d) PROVE AsksInScope'
  BY <1>7 DEF Mode!Purge
<1>8. ASSUME NEW d \in Domains, Mode!PurgeRefused(c, d) PROVE AsksInScope'
  BY <1>8 DEF Mode!PurgeRefused, Mode!Mishap, Mode!Spend
<1>9. ASSUME NEW d \in Domains, Mode!Remove(c, d) PROVE AsksInScope'
  BY <1>9 DEF Mode!Remove
<1>10. ASSUME ListsTaken(c) PROVE AsksInScope'
  BY <1>10 DEF ListsTaken, Mode!NextList
<1>11. ASSUME Mode!Ends(c), request[c].at = "lock",
              UNCHANGED <<Mode!panel, dir, lists, cached, Mode!ghosts, asks>>
       PROVE  AsksInScope'
  BY <1>11 DEF Mode!Ends
<1>12. ASSUME Mode!Stage(c) PROVE AsksInScope'
  BY <1>12 DEF Mode!Stage, Mode!Goes
<1>13. ASSUME Mode!StageFails(c) PROVE AsksInScope'
  BY <1>13 DEF Mode!StageFails, Mode!Unlock, Mode!Mishap, Mode!Spend
<1>14. ASSUME Mode!Cleared(c) PROVE AsksInScope'
  BY <1>14 DEF Mode!Cleared, Mode!Goes
<1>15. ASSUME Mode!Placed(c) PROVE AsksInScope'
  BY <1>15 DEF Mode!Placed, Mode!Unlock
<1>16. ASSUME Mode!ListFails(c) PROVE AsksInScope'
  BY <1>16 DEF Mode!ListFails, Mode!Unlock, Mode!Mishap, Mode!Spend
<1>17. ASSUME NEW ip \in Ips, Mode!Clear(c, ip) PROVE AsksInScope'
  BY <1>17 DEF Mode!Clear
<1>18. ASSUME NEW ip \in Ips, Mode!Place(c, ip) PROVE AsksInScope'
  BY <1>18 DEF Mode!Place
<1>19. ASSUME Mode!Pruned(c) PROVE AsksInScope'
  BY <1>19 DEF Mode!Pruned
<1>20. ASSUME Mode!Killed(c) PROVE AsksInScope'
  BY <1>20 DEF Mode!Killed, Mode!Mishap, Mode!Spend
<1>21. QED
  BY SwitchManyIs, TakeListsIs, <1>1, <1>2, <1>3, <1>4, <1>5, <1>6, <1>7, <1>8, <1>9, <1>10,
     <1>11, <1>12, <1>13, <1>14, <1>15, <1>16, <1>17, <1>18, <1>19, <1>20 DEF Mode!ClientStep,
     Mode!LocksOut

LEMMA ReplacingKept ==
  ASSUME Mode!ConstantsOK, MaintenanceInv, NEW c \in Clients, Mode!ClientStep(c)
  PROVE  OneReplacing'
<1> USE DEF Mode!Doing, Mode!Ends, Mode!Resting, Mode!NoDir, Mode!Scopes, Mode!Verbs,
        Mode!Switches, Mode!ListVerbs, Replacing, Mode!panel, Mode!ghosts, MaintenanceInv,
        Mode!ConstantsOK, Mode!TypeOK, AsksInScope, Mode!Entries, Mode!Asking, OneReplacing
<1>1. ASSUME NEW ask \in Asks, Mode!Begin(c, ask) PROVE OneReplacing'
  BY <1>1 DEF Mode!Begin, Mode!First, Mode!Todo, Mode!Gone, Mode!Missing, Mode!Spend
<1>2. ASSUME Mode!Switch(c) PROVE OneReplacing'
  BY <1>2, SwitchIs
<1>3. ASSUME NEW those \in SUBSET request[c].todo, SwitchedMany(c, those) PROVE OneReplacing'
  BY <1>3 DEF SwitchedMany
<1>4. ASSUME Mode!ReadDomains(c) PROVE OneReplacing'
  BY <1>4 DEF Mode!ReadDomains
<1>5. ASSUME Mode!Purged(c) PROVE OneReplacing'
  BY <1>5 DEF Mode!Purged
<1>6. ASSUME Mode!WriteTemplate(c) PROVE OneReplacing'
  <2>1. /\ \A o \in Clients : request'[o].at \in Replacing => o # c /\ request'[o] = request[o]
        /\ \A s \in Mode!Scopes : dir'[s].bypass = dir[s].bypass
        /\ UNCHANGED <<lists, torn, listed>>
    BY <1>6, TemplateIs
  <2>2. \A o \in Clients : request[o].at \in Replacing => request[o].scope \in Mode!Scopes
    OBVIOUS
  <2>3. QED
    BY <2>1, <2>2
<1>7. ASSUME NEW d \in Domains, Mode!Purge(c, d) PROVE OneReplacing'
  BY <1>7 DEF Mode!Purge
<1>8. ASSUME NEW d \in Domains, Mode!PurgeRefused(c, d) PROVE OneReplacing'
  BY <1>8 DEF Mode!PurgeRefused, Mode!Mishap, Mode!Spend
<1>9. ASSUME NEW d \in Domains, Mode!Remove(c, d) PROVE OneReplacing'
  BY <1>9 DEF Mode!Remove
<1>10. ASSUME ListsTaken(c) PROVE OneReplacing'
  <2>1. /\ request'[c].at = "stage" /\ request'[c].scope = request[c].scope
        /\ request'[c].verb = request[c].verb
        /\ request'[c].ips = Mode!NextList(c) /\ request[c].scope \in Mode!Scopes
    BY <1>10 DEF ListsTaken
  <2>2. \A o \in Clients : o # c => request'[o] = request[o]
    BY <1>10 DEF ListsTaken
  <2>3. \A o \in Clients :
          o # c /\ request[o].at \in Replacing => request[o].scope # request[c].scope
    BY <1>10 DEF ListsTaken
  <2>4. request[c].scope \notin torn => dir[request[c].scope].bypass = listed[request[c].scope]
    BY <1>10, <2>1 DEF ListsTaken, ListIsTheLast
  <2>5. request[c].verb = "add-bypass" => dir[request[c].scope].bypass \subseteq Mode!NextList(c)
    BY DEF Mode!NextList
  <2>6. lists' = lists \cup {request[c].scope} /\ UNCHANGED <<dir, listed, torn>>
    BY <1>10 DEF ListsTaken
  <2>7. QED
    BY <2>1, <2>2, <2>3, <2>4, <2>5, <2>6
<1>11. ASSUME Mode!Ends(c), request[c].at = "lock",
              UNCHANGED <<Mode!panel, dir, lists, cached, Mode!ghosts, asks>>
       PROVE  OneReplacing'
  BY <1>11 DEF Mode!Ends
<1>12. ASSUME Mode!Stage(c) PROVE OneReplacing'
  BY <1>12 DEF Mode!Stage, Mode!Goes
<1>13. ASSUME Mode!StageFails(c) PROVE OneReplacing'
  BY <1>13 DEF Mode!StageFails, Mode!Unlock, Mode!Mishap, Mode!Spend
<1>14. ASSUME Mode!Cleared(c) PROVE OneReplacing'
  BY <1>14 DEF Mode!Cleared, Mode!Goes
<1>15. ASSUME Mode!Placed(c) PROVE OneReplacing'
  BY <1>15 DEF Mode!Placed, Mode!Unlock
<1>16. ASSUME Mode!ListFails(c) PROVE OneReplacing'
  BY <1>16 DEF Mode!ListFails, Mode!Unlock, Mode!Mishap, Mode!Spend
<1>17. ASSUME NEW ip \in Ips, Mode!Clear(c, ip) PROVE OneReplacing'
  BY <1>17 DEF Mode!Clear
<1>18. ASSUME NEW ip \in Ips, Mode!Place(c, ip) PROVE OneReplacing'
  BY <1>18 DEF Mode!Place
<1>19. ASSUME Mode!Pruned(c) PROVE OneReplacing'
  BY <1>19 DEF Mode!Pruned
<1>20. ASSUME Mode!Killed(c) PROVE OneReplacing'
  BY <1>20 DEF Mode!Killed, Mode!Mishap, Mode!Spend
<1>21. QED
  BY SwitchManyIs, TakeListsIs, <1>1, <1>2, <1>3, <1>4, <1>5, <1>6, <1>7, <1>8, <1>9, <1>10,
     <1>11, <1>12, <1>13, <1>14, <1>15, <1>16, <1>17, <1>18, <1>19, <1>20 DEF Mode!ClientStep,
     Mode!LocksOut

LEMMA ListKept ==
  ASSUME Mode!ConstantsOK, MaintenanceInv, NEW c \in Clients, Mode!ClientStep(c)
  PROVE  ListIsTheLast'
<1> USE DEF Mode!Doing, Mode!Ends, Mode!Resting, Mode!NoDir, Mode!Scopes, Mode!Verbs,
        Mode!Switches, Mode!ListVerbs, Replacing, Mode!panel, Mode!ghosts, MaintenanceInv,
        Mode!ConstantsOK, Mode!TypeOK, AsksInScope, Mode!Entries, Mode!Asking, ListIsTheLast,
        OneReplacing
<1>1. ASSUME NEW ask \in Asks, Mode!Begin(c, ask) PROVE ListIsTheLast'
  BY <1>1 DEF Mode!Begin, Mode!First, Mode!Todo, Mode!Gone, Mode!Missing, Mode!Spend
<1>2. ASSUME Mode!Switch(c) PROVE ListIsTheLast'
  BY <1>2 DEF Mode!Switch, Mode!Flip
<1>3. ASSUME NEW those \in SUBSET request[c].todo, SwitchedMany(c, those) PROVE ListIsTheLast'
  BY <1>3 DEF SwitchedMany
<1>4. ASSUME Mode!ReadDomains(c) PROVE ListIsTheLast'
  BY <1>4 DEF Mode!ReadDomains
<1>5. ASSUME Mode!Purged(c) PROVE ListIsTheLast'
  BY <1>5 DEF Mode!Purged
<1>6. ASSUME Mode!WriteTemplate(c) PROVE ListIsTheLast'
  BY <1>6, TemplateIs
<1>7. ASSUME NEW d \in Domains, Mode!Purge(c, d) PROVE ListIsTheLast'
  BY <1>7 DEF Mode!Purge
<1>8. ASSUME NEW d \in Domains, Mode!PurgeRefused(c, d) PROVE ListIsTheLast'
  BY <1>8 DEF Mode!PurgeRefused, Mode!Mishap, Mode!Spend
<1>9. ASSUME NEW d \in Domains, Mode!Remove(c, d) PROVE ListIsTheLast'
  BY <1>9 DEF Mode!Remove
<1>10. ASSUME ListsTaken(c) PROVE ListIsTheLast'
  BY <1>10 DEF ListsTaken, Mode!NextList
<1>11. ASSUME Mode!Ends(c), request[c].at = "lock",
              UNCHANGED <<Mode!panel, dir, lists, cached, Mode!ghosts, asks>>
       PROVE  ListIsTheLast'
  BY <1>11 DEF Mode!Ends
<1>12. ASSUME Mode!Stage(c) PROVE ListIsTheLast'
  BY <1>12 DEF Mode!Stage, Mode!Goes
<1>13. ASSUME Mode!StageFails(c) PROVE ListIsTheLast'
  BY <1>13 DEF Mode!StageFails, Mode!Unlock, Mode!Mishap, Mode!Spend
<1>14. ASSUME Mode!Cleared(c) PROVE ListIsTheLast'
  BY <1>14 DEF Mode!Cleared, Mode!Goes
<1>15. ASSUME Mode!Placed(c) PROVE ListIsTheLast'
  <2>1. /\ request[c].scope \in Mode!Scopes /\ request[c].at = "place"
        /\ dir[request[c].scope].bypass = request[c].ips
    BY <1>15 DEF Mode!Placed
  <2>2. \A s \in Mode!Scopes :
          /\ dir'[s].bypass = dir[s].bypass
          /\ listed'[s] = IF s = request[c].scope THEN request[c].ips ELSE listed[s]
    BY <1>15, <2>1 DEF Mode!Placed
  <2>3. lists' = lists \ {request[c].scope} /\ torn' = torn \ {request[c].scope}
    BY <1>15 DEF Mode!Placed, Mode!Unlock
  <2>4. QED
    BY <2>1, <2>2, <2>3
<1>16. ASSUME Mode!ListFails(c) PROVE ListIsTheLast'
  BY <1>16 DEF Mode!ListFails, Mode!Unlock, Mode!Mishap, Mode!Spend
<1>17. ASSUME NEW ip \in Ips, Mode!Clear(c, ip) PROVE ListIsTheLast'
  BY <1>17 DEF Mode!Clear
<1>18. ASSUME NEW ip \in Ips, Mode!Place(c, ip) PROVE ListIsTheLast'
  BY <1>18 DEF Mode!Place
<1>19. ASSUME Mode!Pruned(c) PROVE ListIsTheLast'
  BY <1>19 DEF Mode!Pruned
<1>20. ASSUME Mode!Killed(c) PROVE ListIsTheLast'
  BY <1>20 DEF Mode!Killed, Mode!Mishap, Mode!Spend
<1>21. QED
  BY SwitchManyIs, TakeListsIs, <1>1, <1>2, <1>3, <1>4, <1>5, <1>6, <1>7, <1>8, <1>9, <1>10,
     <1>11, <1>12, <1>13, <1>14, <1>15, <1>16, <1>17, <1>18, <1>19, <1>20 DEF Mode!ClientStep,
     Mode!LocksOut

LEMMA AddressesKept ==
  ASSUME Mode!ConstantsOK, MaintenanceInv, NEW c \in Clients, Mode!ClientStep(c)
  PROVE  AddressesAskedFor'
<1> USE DEF Mode!Doing, Mode!Ends, Mode!Resting, Mode!NoDir, Mode!Scopes, Mode!Verbs,
        Mode!Switches, Mode!ListVerbs, Replacing, Mode!panel, Mode!ghosts, MaintenanceInv,
        Mode!ConstantsOK, Mode!TypeOK, AsksInScope, Mode!Entries, Mode!Asking,
        AddressesAskedFor, OneReplacing
<1>1. ASSUME NEW ask \in Asks, Mode!Begin(c, ask) PROVE AddressesAskedFor'
  BY <1>1 DEF Mode!Begin, Mode!First, Mode!Todo, Mode!Gone, Mode!Missing, Mode!Spend
<1>2. ASSUME Mode!Switch(c) PROVE AddressesAskedFor'
  BY <1>2, SwitchIs
<1>3. ASSUME NEW those \in SUBSET request[c].todo, SwitchedMany(c, those) PROVE AddressesAskedFor'
  <2>1. \A o \in Clients : request[o].at = "place" => o # c /\ request'[o] = request[o]
    BY <1>3 DEF SwitchedMany
  <2>2. QED
    BY <1>3, <2>1 DEF SwitchedMany
<1>4. ASSUME Mode!ReadDomains(c) PROVE AddressesAskedFor'
  BY <1>4 DEF Mode!ReadDomains
<1>5. ASSUME Mode!Purged(c) PROVE AddressesAskedFor'
  BY <1>5 DEF Mode!Purged
<1>6. ASSUME Mode!WriteTemplate(c) PROVE AddressesAskedFor'
  <2>1. \A o \in Clients : request[o].at = "place" => o # c /\ request'[o] = request[o]
    BY <1>6 DEF Mode!WriteTemplate
  <2>2. \A s \in Mode!Scopes : dir'[s].bypass = dir[s].bypass
    BY <1>6 DEF Mode!WriteTemplate
  <2>3. QED
    BY <1>6, <2>1, <2>2 DEF Mode!WriteTemplate
<1>7. ASSUME NEW d \in Domains, Mode!Purge(c, d) PROVE AddressesAskedFor'
  BY <1>7 DEF Mode!Purge
<1>8. ASSUME NEW d \in Domains, Mode!PurgeRefused(c, d) PROVE AddressesAskedFor'
  BY <1>8 DEF Mode!PurgeRefused, Mode!Mishap, Mode!Spend
<1>9. ASSUME NEW d \in Domains, Mode!Remove(c, d) PROVE AddressesAskedFor'
  BY <1>9 DEF Mode!Remove
<1>10. ASSUME ListsTaken(c) PROVE AddressesAskedFor'
  BY <1>10 DEF ListsTaken, Mode!NextList
<1>11. ASSUME Mode!Ends(c), request[c].at = "lock",
              UNCHANGED <<Mode!panel, dir, lists, cached, Mode!ghosts, asks>>
       PROVE  AddressesAskedFor'
  BY <1>11 DEF Mode!Ends
<1>12. ASSUME Mode!Stage(c) PROVE AddressesAskedFor'
  BY <1>12 DEF Mode!Stage, Mode!Goes
<1>13. ASSUME Mode!StageFails(c) PROVE AddressesAskedFor'
  BY <1>13 DEF Mode!StageFails, Mode!Unlock, Mode!Mishap, Mode!Spend
<1>14. ASSUME Mode!Cleared(c) PROVE AddressesAskedFor'
  BY <1>14 DEF Mode!Cleared, Mode!Goes
<1>15. ASSUME Mode!Placed(c) PROVE AddressesAskedFor'
  BY <1>15 DEF Mode!Placed, Mode!Unlock
<1>16. ASSUME Mode!ListFails(c) PROVE AddressesAskedFor'
  BY <1>16 DEF Mode!ListFails, Mode!Unlock, Mode!Mishap, Mode!Spend
<1>17. ASSUME NEW ip \in Ips, Mode!Clear(c, ip) PROVE AddressesAskedFor'
  BY <1>17 DEF Mode!Clear
<1>18. ASSUME NEW ip \in Ips, Mode!Place(c, ip) PROVE AddressesAskedFor'
  BY <1>18 DEF Mode!Place
<1>19. ASSUME Mode!Pruned(c) PROVE AddressesAskedFor'
  BY <1>19 DEF Mode!Pruned
<1>20. ASSUME Mode!Killed(c) PROVE AddressesAskedFor'
  BY <1>20 DEF Mode!Killed, Mode!Mishap, Mode!Spend
<1>21. \A those \in SUBSET request[c].todo : SwitchedMany(c, those) => AddressesAskedFor'
  BY <1>3
<1>22. Mode!SwitchMany(c) => AddressesAskedFor'
  BY <1>21, SwitchManyIs
<1>23. Mode!TakeLists(c) => AddressesAskedFor'
  BY <1>10, <1>11, TakeListsIs
<1>24. Mode!LocksOut(c) => AddressesAskedFor'
  BY <1>11 DEF Mode!LocksOut
<1>25. QED
  <2> HIDE DEF Mode!Doing, Mode!Ends, Mode!Resting, Mode!NoDir, Mode!Scopes, Mode!Verbs,
           Mode!Switches, Mode!ListVerbs, Replacing, MaintenanceInv, Mode!ConstantsOK,
           Mode!TypeOK, AsksInScope, Mode!Entries, Mode!Asking, AddressesAskedFor, OneReplacing
  <2> QED
    BY <1>22, <1>23, <1>24, <1>1, <1>2, <1>4, <1>5, <1>6, <1>7, <1>8, <1>9, <1>12, <1>13, <1>14,
       <1>15, <1>16, <1>17, <1>18, <1>19, <1>20 DEF Mode!ClientStep

LEMMA PruneKept ==
  ASSUME Mode!ConstantsOK, MaintenanceInv, NEW c \in Clients, Mode!ClientStep(c)
  PROVE  PruneSparesNew'
<1> USE DEF Mode!Doing, Mode!Ends, Mode!Resting, Mode!NoDir, Mode!Scopes, Mode!Verbs,
        Mode!Switches, Mode!ListVerbs, Replacing, Mode!panel, Mode!ghosts, MaintenanceInv,
        Mode!ConstantsOK, Mode!TypeOK, AsksInScope, Mode!Entries, Mode!Asking, PruneSparesNew
<1>1. ASSUME NEW ask \in Asks, Mode!Begin(c, ask) PROVE PruneSparesNew'
  BY <1>1 DEF Mode!Begin, Mode!First, Mode!Todo, Mode!Gone, Mode!Missing, Mode!Spend
<1>2. ASSUME Mode!Switch(c) PROVE PruneSparesNew'
  BY <1>2 DEF Mode!Switch, Mode!Flip
<1>3. ASSUME NEW those \in SUBSET request[c].todo, SwitchedMany(c, those) PROVE PruneSparesNew'
  BY <1>3 DEF SwitchedMany
<1>4. ASSUME Mode!ReadDomains(c) PROVE PruneSparesNew'
  BY <1>4 DEF Mode!ReadDomains
<1>5. ASSUME Mode!Purged(c) PROVE PruneSparesNew'
  BY <1>5 DEF Mode!Purged
<1>6. ASSUME Mode!WriteTemplate(c) PROVE PruneSparesNew'
  BY <1>6 DEF Mode!WriteTemplate
<1>7. ASSUME NEW d \in Domains, Mode!Purge(c, d) PROVE PruneSparesNew'
  BY <1>7 DEF Mode!Purge
<1>8. ASSUME NEW d \in Domains, Mode!PurgeRefused(c, d) PROVE PruneSparesNew'
  BY <1>8 DEF Mode!PurgeRefused, Mode!Mishap, Mode!Spend
<1>9. ASSUME NEW d \in Domains, Mode!Remove(c, d) PROVE PruneSparesNew'
  BY <1>9 DEF Mode!Remove
<1>10. ASSUME ListsTaken(c) PROVE PruneSparesNew'
  BY <1>10 DEF ListsTaken, Mode!NextList
<1>11. ASSUME Mode!Ends(c), request[c].at = "lock",
              UNCHANGED <<Mode!panel, dir, lists, cached, Mode!ghosts, asks>>
       PROVE  PruneSparesNew'
  BY <1>11 DEF Mode!Ends
<1>12. ASSUME Mode!Stage(c) PROVE PruneSparesNew'
  BY <1>12 DEF Mode!Stage, Mode!Goes
<1>13. ASSUME Mode!StageFails(c) PROVE PruneSparesNew'
  BY <1>13 DEF Mode!StageFails, Mode!Unlock, Mode!Mishap, Mode!Spend
<1>14. ASSUME Mode!Cleared(c) PROVE PruneSparesNew'
  BY <1>14 DEF Mode!Cleared, Mode!Goes
<1>15. ASSUME Mode!Placed(c) PROVE PruneSparesNew'
  BY <1>15 DEF Mode!Placed, Mode!Unlock
<1>16. ASSUME Mode!ListFails(c) PROVE PruneSparesNew'
  BY <1>16 DEF Mode!ListFails, Mode!Unlock, Mode!Mishap, Mode!Spend
<1>17. ASSUME NEW ip \in Ips, Mode!Clear(c, ip) PROVE PruneSparesNew'
  BY <1>17 DEF Mode!Clear
<1>18. ASSUME NEW ip \in Ips, Mode!Place(c, ip) PROVE PruneSparesNew'
  BY <1>18 DEF Mode!Place
<1>19. ASSUME Mode!Pruned(c) PROVE PruneSparesNew'
  BY <1>19 DEF Mode!Pruned
<1>20. ASSUME Mode!Killed(c) PROVE PruneSparesNew'
  BY <1>20 DEF Mode!Killed, Mode!Mishap, Mode!Spend
<1>21. QED
  BY SwitchManyIs, TakeListsIs, <1>1, <1>2, <1>3, <1>4, <1>5, <1>6, <1>7, <1>8, <1>9, <1>10,
     <1>11, <1>12, <1>13, <1>14, <1>15, <1>16, <1>17, <1>18, <1>19, <1>20 DEF Mode!ClientStep,
     Mode!LocksOut

LEMMA PagesKept ==
  ASSUME Mode!ConstantsOK, MaintenanceInv, NEW c \in Clients, Mode!ClientStep(c)
  PROVE  PagesOfPresent'
<1> USE DEF Mode!Doing, Mode!Ends, Mode!Resting, Mode!NoDir, Mode!Scopes, Mode!Verbs,
        Mode!Switches, Mode!ListVerbs, Replacing, Mode!panel, Mode!ghosts, MaintenanceInv,
        Mode!ConstantsOK, Mode!TypeOK, AsksInScope, Mode!Entries, Mode!Asking, PagesOfPresent
<1>1. ASSUME NEW ask \in Asks, Mode!Begin(c, ask) PROVE PagesOfPresent'
  BY <1>1 DEF Mode!Begin, Mode!First, Mode!Todo, Mode!Gone, Mode!Missing, Mode!Spend
<1>2. ASSUME Mode!Switch(c) PROVE PagesOfPresent'
  BY <1>2 DEF Mode!Switch, Mode!Flip
<1>3. ASSUME NEW those \in SUBSET request[c].todo, SwitchedMany(c, those) PROVE PagesOfPresent'
  BY <1>3 DEF SwitchedMany
<1>4. ASSUME Mode!ReadDomains(c) PROVE PagesOfPresent'
  BY <1>4 DEF Mode!ReadDomains
<1>5. ASSUME Mode!Purged(c) PROVE PagesOfPresent'
  BY <1>5 DEF Mode!Purged
<1>6. ASSUME Mode!WriteTemplate(c) PROVE PagesOfPresent'
  BY <1>6 DEF Mode!WriteTemplate
<1>7. ASSUME NEW d \in Domains, Mode!Purge(c, d) PROVE PagesOfPresent'
  BY <1>7 DEF Mode!Purge
<1>8. ASSUME NEW d \in Domains, Mode!PurgeRefused(c, d) PROVE PagesOfPresent'
  BY <1>8 DEF Mode!PurgeRefused, Mode!Mishap, Mode!Spend
<1>9. ASSUME NEW d \in Domains, Mode!Remove(c, d) PROVE PagesOfPresent'
  BY <1>9 DEF Mode!Remove
<1>10. ASSUME ListsTaken(c) PROVE PagesOfPresent'
  BY <1>10 DEF ListsTaken, Mode!NextList
<1>11. ASSUME Mode!Ends(c), request[c].at = "lock",
              UNCHANGED <<Mode!panel, dir, lists, cached, Mode!ghosts, asks>>
       PROVE  PagesOfPresent'
  BY <1>11 DEF Mode!Ends
<1>12. ASSUME Mode!Stage(c) PROVE PagesOfPresent'
  BY <1>12 DEF Mode!Stage, Mode!Goes
<1>13. ASSUME Mode!StageFails(c) PROVE PagesOfPresent'
  BY <1>13 DEF Mode!StageFails, Mode!Unlock, Mode!Mishap, Mode!Spend
<1>14. ASSUME Mode!Cleared(c) PROVE PagesOfPresent'
  BY <1>14 DEF Mode!Cleared, Mode!Goes
<1>15. ASSUME Mode!Placed(c) PROVE PagesOfPresent'
  BY <1>15 DEF Mode!Placed, Mode!Unlock
<1>16. ASSUME Mode!ListFails(c) PROVE PagesOfPresent'
  BY <1>16 DEF Mode!ListFails, Mode!Unlock, Mode!Mishap, Mode!Spend
<1>17. ASSUME NEW ip \in Ips, Mode!Clear(c, ip) PROVE PagesOfPresent'
  BY <1>17 DEF Mode!Clear
<1>18. ASSUME NEW ip \in Ips, Mode!Place(c, ip) PROVE PagesOfPresent'
  BY <1>18 DEF Mode!Place
<1>19. ASSUME Mode!Pruned(c) PROVE PagesOfPresent'
  BY <1>19 DEF Mode!Pruned
<1>20. ASSUME Mode!Killed(c) PROVE PagesOfPresent'
  BY <1>20 DEF Mode!Killed, Mode!Mishap, Mode!Spend
<1>21. QED
  BY SwitchManyIs, TakeListsIs, <1>1, <1>2, <1>3, <1>4, <1>5, <1>6, <1>7, <1>8, <1>9, <1>10,
     <1>11, <1>12, <1>13, <1>14, <1>15, <1>16, <1>17, <1>18, <1>19, <1>20 DEF Mode!ClientStep,
     Mode!LocksOut

LEMMA LivePageKept ==
  ASSUME Mode!ConstantsOK, MaintenanceInv, NEW c \in Clients, Mode!ClientStep(c)
  PROVE  Mode!NoLivePageKept'
<1> USE DEF Mode!Doing, Mode!Ends, Mode!Resting, Mode!NoDir, Mode!Scopes, Mode!Verbs,
        Mode!Switches, Mode!ListVerbs, Replacing, Mode!panel, Mode!ghosts, MaintenanceInv,
        Mode!ConstantsOK, Mode!TypeOK, AsksInScope, Mode!Entries, Mode!Asking,
        Mode!NoLivePageKept
<1>1. ASSUME NEW ask \in Asks, Mode!Begin(c, ask) PROVE Mode!NoLivePageKept'
  BY <1>1 DEF Mode!Begin, Mode!First, Mode!Todo, Mode!Gone, Mode!Missing, Mode!Spend,
     Mode!SwitchedOn
<1>2. ASSUME Mode!Switch(c) PROVE Mode!NoLivePageKept'
  BY <1>2 DEF Mode!Switch, Mode!Flip, Mode!SwitchedOn
<1>3. ASSUME NEW those \in SUBSET request[c].todo, SwitchedMany(c, those)
      PROVE  Mode!NoLivePageKept'
  <2>1. /\ request'[c].at = "purge" /\ request'[c].todo = those
        /\ \A o \in Clients : o # c => request'[o] = request[o]
    BY <1>3 DEF SwitchedMany
  <2>2. \A s \in Mode!Scopes : dir'[s].on => dir[s].on \/ s \in those
    BY <1>3 DEF SwitchedMany
  <2>3. those \subseteq Domains /\ request[c].at = "write" /\ UNCHANGED <<cached, stale>>
    BY <1>3 DEF SwitchedMany
  <2>4. \A d \in Domains : Mode!SwitchedOn(d)' => Mode!SwitchedOn(d) \/ d \in those
    BY <2>2, <2>3 DEF Mode!SwitchedOn
  <2>5. QED
    BY <2>1, <2>3, <2>4
<1>4. ASSUME Mode!ReadDomains(c) PROVE Mode!NoLivePageKept'
  <2>1. request'[c].at = "purge" /\ \A o \in Clients : o # c => request'[o] = request[o]
    BY <1>4 DEF Mode!ReadDomains
  <2>2. panelFile = "ok" => request'[c].todo = present /\ stale' = stale
    BY <1>4 DEF Mode!ReadDomains
  <2>3. panelFile # "ok" => stale' = Domains
    BY <1>4 DEF Mode!ReadDomains
  <2>4. UNCHANGED <<cached, dir>>
    BY <1>4 DEF Mode!ReadDomains
  <2>5. \A d \in Domains : cached[d] = "live" => d \in present
    BY DEF PagesOfPresent
  <2>6. QED
    BY <2>1, <2>2, <2>3, <2>4, <2>5 DEF Mode!SwitchedOn
<1>5. ASSUME Mode!Purged(c) PROVE Mode!NoLivePageKept'
  BY <1>5 DEF Mode!Purged, Mode!SwitchedOn
<1>6. ASSUME Mode!WriteTemplate(c) PROVE Mode!NoLivePageKept'
  BY <1>6, TemplateIs DEF Mode!SwitchedOn
<1>7. ASSUME NEW d \in Domains, Mode!Purge(c, d) PROVE Mode!NoLivePageKept'
  BY <1>7 DEF Mode!Purge, Mode!SwitchedOn
<1>8. ASSUME NEW d \in Domains, Mode!PurgeRefused(c, d) PROVE Mode!NoLivePageKept'
  BY <1>8 DEF Mode!PurgeRefused, Mode!Mishap, Mode!Spend, Mode!SwitchedOn
<1>9. ASSUME NEW d \in Domains, Mode!Remove(c, d) PROVE Mode!NoLivePageKept'
  BY <1>9 DEF Mode!Remove, Mode!SwitchedOn
<1>10. ASSUME ListsTaken(c) PROVE Mode!NoLivePageKept'
  BY <1>10 DEF ListsTaken, Mode!NextList, Mode!SwitchedOn
<1>11. ASSUME Mode!Ends(c), request[c].at = "lock",
              UNCHANGED <<Mode!panel, dir, lists, cached, Mode!ghosts, asks>>
       PROVE  Mode!NoLivePageKept'
  BY <1>11 DEF Mode!Ends, Mode!SwitchedOn
<1>12. ASSUME Mode!Stage(c) PROVE Mode!NoLivePageKept'
  BY <1>12 DEF Mode!Stage, Mode!Goes, Mode!SwitchedOn
<1>13. ASSUME Mode!StageFails(c) PROVE Mode!NoLivePageKept'
  BY <1>13 DEF Mode!StageFails, Mode!Unlock, Mode!Mishap, Mode!Spend, Mode!SwitchedOn
<1>14. ASSUME Mode!Cleared(c) PROVE Mode!NoLivePageKept'
  BY <1>14 DEF Mode!Cleared, Mode!Goes, Mode!SwitchedOn
<1>15. ASSUME Mode!Placed(c) PROVE Mode!NoLivePageKept'
  BY <1>15 DEF Mode!Placed, Mode!Unlock, Mode!SwitchedOn
<1>16. ASSUME Mode!ListFails(c) PROVE Mode!NoLivePageKept'
  BY <1>16 DEF Mode!ListFails, Mode!Unlock, Mode!Mishap, Mode!Spend, Mode!SwitchedOn
<1>17. ASSUME NEW ip \in Ips, Mode!Clear(c, ip) PROVE Mode!NoLivePageKept'
  BY <1>17 DEF Mode!Clear, Mode!SwitchedOn
<1>18. ASSUME NEW ip \in Ips, Mode!Place(c, ip) PROVE Mode!NoLivePageKept'
  BY <1>18 DEF Mode!Place, Mode!SwitchedOn
<1>19. ASSUME Mode!Pruned(c) PROVE Mode!NoLivePageKept'
  BY <1>19 DEF Mode!Pruned, Mode!SwitchedOn
<1>20. ASSUME Mode!Killed(c) PROVE Mode!NoLivePageKept'
  BY <1>20 DEF Mode!Killed, Mode!Mishap, Mode!Spend, Mode!SwitchedOn
<1>21. QED
  BY SwitchManyIs, TakeListsIs, <1>1, <1>2, <1>3, <1>4, <1>5, <1>6, <1>7, <1>8, <1>9, <1>10,
     <1>11, <1>12, <1>13, <1>14, <1>15, <1>16, <1>17, <1>18, <1>19, <1>20 DEF Mode!ClientStep,
     Mode!LocksOut

(* CloudPanel, its database and the visitors disturb none of it.           *)
LEMMA VisitorsMove ==
  ASSUME Mode!ConstantsOK, MaintenanceInv, 
         Mode!SiteMoves \/ (\E d \in Domains, ip \in Ips : Mode!Visit(d, ip))
  PROVE  MaintenanceInv'
<1>1. UNCHANGED <<dir, lists, request, listed, torn, stale>>
  BY DEF Mode!SiteMoves, Mode!Visit, Mode!panel, Mode!ghosts
<1>2. Mode!TypeOK'
  <2>1. /\ present' \subseteq Domains /\ recreated' \subseteq Domains
        /\ panelFile' \in {"ok", "unreadable", "empty"}
        /\ cached' \in [Domains -> {"none", "live", "bypassed"}]
    BY DEF MaintenanceInv, Mode!TypeOK, Mode!SiteMoves, Mode!Visit, Mode!panel, Mode!ghosts
  <2>2. QED
    BY <1>1, <2>1 DEF MaintenanceInv, Mode!TypeOK
<1>3. AsksInScope' /\ OneReplacing' /\ ListIsTheLast' /\ AddressesAskedFor'
  BY <1>1 DEF MaintenanceInv, AsksInScope, OneReplacing, ListIsTheLast, AddressesAskedFor
<1>4. present' \ present \subseteq recreated' /\ recreated \subseteq recreated'
  BY DEF Mode!SiteMoves, Mode!Visit, Mode!panel, Mode!ghosts
<1>5. PruneSparesNew'
  BY <1>1, <1>4 DEF MaintenanceInv, PruneSparesNew
<1>6. \A d \in Domains : cached'[d] # "none" => d \in present'
  BY DEF MaintenanceInv, PagesOfPresent, Mode!TypeOK, Mode!SiteMoves, Mode!Visit, Mode!panel
<1>7. \A d \in Domains : cached'[d] = "live" => cached[d] = "live" \/ ~Mode!SwitchedOn(d)
  BY DEF MaintenanceInv, Mode!TypeOK, Mode!SiteMoves, Mode!Visit, Mode!Blocks
<1>8. Mode!NoLivePageKept'
  BY <1>1, <1>7 DEF MaintenanceInv, Mode!NoLivePageKept, Mode!SwitchedOn
<1>9. QED
  BY <1>2, <1>3, <1>5, <1>6, <1>8 DEF MaintenanceInv, PagesOfPresent

(* Nobody asks and nothing is on at first.                                 *)
LEMMA MaintenanceStarts == Mode!Init => MaintenanceInv
<1> SUFFICES ASSUME Mode!Init PROVE MaintenanceInv
  OBVIOUS
<1> USE DEF Mode!Init, Mode!Resting, Mode!NoDir, Mode!Scopes
<1>1. Mode!TypeOK
  BY DEF Mode!TypeOK, Mode!Entries, Mode!Asking, Mode!Verbs
<1>2. AsksInScope /\ OneReplacing /\ PruneSparesNew
  BY DEF AsksInScope, OneReplacing, PruneSparesNew, Mode!ListVerbs, Replacing
<1>3. ListIsTheLast /\ AddressesAskedFor /\ PagesOfPresent /\ Mode!NoLivePageKept
  BY DEF ListIsTheLast, AddressesAskedFor, PagesOfPresent, Mode!NoLivePageKept
<1>4. QED
  BY <1>1, <1>2, <1>3 DEF MaintenanceInv

(* Who moves.                                                              *)
LEMMA MaintenanceSteps ==
  ASSUME Mode!Next
  PROVE  \/ \E c \in Clients : Mode!ClientStep(c)
         \/ Mode!SiteMoves
         \/ \E d \in Domains, ip \in Ips : Mode!Visit(d, ip)
  BY DEF Mode!Next

(* The invariant is inductive.                                             *)
LEMMA MaintenanceGoesOn ==
  ASSUME Mode!ConstantsOK, MaintenanceInv, [Mode!Next]_(Mode!maintenanceVars)
  PROVE  MaintenanceInv'
<1>1. ASSUME NEW c \in Clients, Mode!ClientStep(c) PROVE MaintenanceInv'
  BY <1>1, MaintenanceTyped, ScopesKept, ReplacingKept, ListKept, AddressesKept, PruneKept,
     PagesKept, LivePageKept DEF MaintenanceInv
<1>2. CASE UNCHANGED Mode!maintenanceVars
  BY <1>2 DEF MaintenanceInv, Mode!TypeOK, AsksInScope, OneReplacing, ListIsTheLast,
     AddressesAskedFor, PruneSparesNew, PagesOfPresent, Mode!NoLivePageKept, Mode!SwitchedOn,
     Mode!maintenanceVars, Mode!panel, Mode!ghosts
<1>3. CASE Mode!Next
  <2>1. CASE \E c \in Clients : Mode!ClientStep(c)
    BY <1>1, <2>1
  <2>2. CASE Mode!SiteMoves \/ \E d \in Domains, ip \in Ips : Mode!Visit(d, ip)
    BY <2>2, VisitorsMove
  <2>3. QED
    BY <1>3, <2>1, <2>2, MaintenanceSteps
<1>4. QED
  BY <1>2, <1>3

(* It implies that the list is whole.                                      *)
LEMMA WholeList ==
  ASSUME MaintenanceInv
  PROVE  Mode!LastListWhole
<1> DEFINE Placing(s) == {x \in Clients : request[x].scope = s /\ request[x].at = "place"}
<1> SUFFICES ASSUME NEW s \in Mode!Scopes, NEW ip \in dir[s].bypass, s \notin torn
             PROVE  ip \in listed[s] \cup UNION {request[c].ips : c \in Placing(s)}
  BY DEF MaintenanceInv, ListIsTheLast, Mode!LastListWhole
<1>1. CASE ip \in listed[s]
  BY <1>1
<1>2. ASSUME NEW c \in Clients, request[c].scope = s, request[c].at = "place", ip \in request[c].ips
      PROVE  ip \in UNION {request[x].ips : x \in Placing(s)}
  BY <1>2
<1>3. QED
  BY <1>1, <1>2 DEF MaintenanceInv, AddressesAskedFor

(* Only placing it gives a list, or the prune an empty one.                *)
LEMMA ListedSteps ==
  ASSUME Mode!Next, listed' # listed
  PROVE  \E c \in Clients : Mode!Placed(c) \/ \E d \in Domains : Mode!Remove(c, d)
<1>1. ASSUME NEW c \in Clients, Mode!ClientStep(c)
      PROVE  Mode!Placed(c) \/ (\E d \in Domains : Mode!Remove(c, d)) \/ listed' = listed
  <2>1. ASSUME NEW ask \in Asks, Mode!Begin(c, ask) PROVE listed' = listed
    BY <2>1 DEF Mode!Begin
  <2>2. CASE \/ Mode!Switch(c) \/ Mode!SwitchMany(c) \/ Mode!ReadDomains(c) \/ Mode!Purged(c)
             \/ Mode!WriteTemplate(c)
             \/ \E d \in Domains : Mode!Purge(c, d) \/ Mode!PurgeRefused(c, d)
    BY <2>2 DEF Mode!Switch, Mode!SwitchMany, Mode!ReadDomains, Mode!Purged,
       Mode!WriteTemplate, Mode!Purge, Mode!PurgeRefused, Mode!ghosts
  <2>3. CASE \/ Mode!TakeLists(c) \/ Mode!LocksOut(c) \/ Mode!Stage(c) \/ Mode!StageFails(c)
             \/ Mode!Cleared(c)
             \/ Mode!ListFails(c)
             \/ \E ip \in Ips : Mode!Clear(c, ip) \/ Mode!Place(c, ip)
    BY <2>3 DEF Mode!TakeLists, Mode!LocksOut, Mode!Stage, Mode!StageFails, Mode!Cleared,
       Mode!ListFails, Mode!Clear, Mode!Place, Mode!ghosts
  <2>4. CASE Mode!Pruned(c) \/ Mode!Killed(c)
    BY <2>4 DEF Mode!Pruned, Mode!Killed, Mode!ghosts
  <2>5. QED
    BY <1>1, <2>1, <2>2, <2>3, <2>4 DEF Mode!ClientStep
<1>2. (Mode!SiteMoves \/ \E d \in Domains, ip \in Ips : Mode!Visit(d, ip)) => listed' = listed
  BY DEF Mode!SiteMoves, Mode!Visit, Mode!ghosts
<1>3. QED
  BY <1>1, <1>2, MaintenanceSteps

(* An addition takes no address out: what it places is the list it read    *)
(* under the lock and its own.                                             *)
LEMMA AddKeepsRest ==
  ASSUME Mode!ConstantsOK, MaintenanceInv, Mode!Next
  PROVE  Mode!AddKeepsRestStep
<1> SUFFICES ASSUME NEW c \in Clients, Mode!Doing(c, {"add-bypass"}, "place"),
                    request'[c] = Mode!Resting, listed' # listed,
                    NEW s \in Mode!Scopes \ torn
             PROVE  listed[s] \subseteq listed'[s]
  BY DEF Mode!AddKeepsRestStep
<1>1. PICK o \in Clients : Mode!Placed(o) \/ \E d \in Domains : Mode!Remove(o, d)
  BY ListedSteps
<1>2. /\ request[c] \in Mode!Asking /\ request[c].at = "place" /\ request[c].verb = "add-bypass"
      /\ request \in [Clients -> Mode!Asking] /\ request'[c] # request[c]
  BY DEF Mode!Doing, Mode!Resting, MaintenanceInv, Mode!TypeOK
<1>3. o = c
  BY <1>1, <1>2 DEF Mode!Placed, Mode!Remove, Mode!Ends
<1>4. Mode!Placed(c)
  BY <1>1, <1>2, <1>3 DEF Mode!Remove, Mode!Doing
<1>5. listed' = [listed EXCEPT ![request[c].scope] = request[c].ips]
  BY <1>4 DEF Mode!Placed
<1>6. s = request[c].scope => listed[s] \subseteq request[c].ips
  BY <1>2 DEF MaintenanceInv, OneReplacing, Replacing
<1>7. QED
  BY <1>5, <1>6 DEF MaintenanceInv, Mode!TypeOK

(* The prune takes no site that was the panel's when it read it.           *)
LEMMA LiveStateKept ==
  ASSUME Mode!ConstantsOK, MaintenanceInv, Mode!Next
  PROVE  Mode!LiveStateKeptStep
<1> SUFFICES ASSUME NEW d \in present \ recreated, dir[d].there PROVE dir'[d].there
  BY DEF Mode!LiveStateKeptStep
<1>1. /\ d \in Domains /\ d \in Mode!Scopes /\ dir \in [Mode!Scopes -> Mode!Entries]
      /\ dir[d] \in Mode!Entries
  BY DEF MaintenanceInv, Mode!TypeOK, Mode!Scopes
<1>2. CASE \E c \in Clients : Mode!ClientStep(c)
  <2>1. PICK c \in Clients : Mode!ClientStep(c)
    BY <1>2
  <2>2. ASSUME NEW e \in Domains, Mode!Remove(c, e) PROVE dir'[d].there
    <3>1. e # d
      BY <2>2 DEF Mode!Remove, Mode!Doing, MaintenanceInv, PruneSparesNew
    <3>2. QED
      BY <1>1, <2>2, <3>1 DEF Mode!Remove
  <2>3. CASE Mode!SwitchMany(c)
    BY <1>1, <2>3, SwitchManyIs DEF MaintenanceInv, SwitchedMany
  <2>4. CASE Mode!Switch(c)
    <3>1. request[c].scope \in Mode!Scopes
      BY <2>4 DEF Mode!Switch, MaintenanceInv, Mode!TypeOK, Mode!Asking
    <3>2. QED
      BY <1>1, <2>4, <3>1, FlipIs DEF Mode!Switch, MaintenanceInv
  <2>5. ASSUME NEW ask \in Asks, Mode!Begin(c, ask) PROVE dir'[d].there
    BY <1>1, <2>5 DEF Mode!Begin, Mode!Entries
  <2>6. CASE \/ Mode!Stage(c) \/ Mode!Placed(c) \/ Mode!ListFails(c) \/ Mode!WriteTemplate(c)
             \/ \E ip \in Ips : Mode!Clear(c, ip) \/ Mode!Place(c, ip)
    <3>1. CASE Mode!Stage(c) \/ Mode!Placed(c) \/ Mode!ListFails(c)
      BY <1>1, <3>1 DEF Mode!Stage, Mode!Placed, Mode!ListFails, Mode!Entries
    <3>2. CASE Mode!WriteTemplate(c)
      BY <1>1, <3>2 DEF Mode!WriteTemplate, Mode!Entries
    <3>3. ASSUME NEW ip \in Ips, Mode!Clear(c, ip) \/ Mode!Place(c, ip) PROVE dir'[d].there
      BY <1>1, <3>3 DEF Mode!Clear, Mode!Place, Mode!Entries
    <3>4. QED
      BY <2>6, <3>1, <3>2, <3>3
  <2>7. CASE \/ Mode!ReadDomains(c) \/ Mode!Purged(c)
             \/ (\E e \in Domains : Mode!Purge(c, e) \/ Mode!PurgeRefused(c, e))
             \/ Mode!TakeLists(c) \/ Mode!LocksOut(c) \/ Mode!StageFails(c)
             \/ Mode!Cleared(c) \/ Mode!Pruned(c) \/ Mode!Killed(c)
    BY <2>7 DEF Mode!ReadDomains, Mode!Purged, Mode!Purge, Mode!PurgeRefused, Mode!TakeLists,
       Mode!LocksOut, Mode!StageFails, Mode!Cleared, Mode!Pruned, Mode!Killed
  <2>8. QED
    BY <2>1, <2>2, <2>3, <2>4, <2>5, <2>6, <2>7 DEF Mode!ClientStep
<1>3. CASE ~\E c \in Clients : Mode!ClientStep(c)
  BY <1>3, MaintenanceSteps DEF Mode!SiteMoves, Mode!Visit
<1>4. QED
  BY <1>2, <1>3

-----------------------------------------------------------------------------
(* The invariant of maintenance mode, while a behaviour is about it.       *)
MaintenanceHolds == part = "maintenance" => MaintenanceInv

LEMMA MaintenanceHoldsAtFirst == Init => MaintenanceHolds
<1>1. SUFFICES ASSUME Init, part = "maintenance" PROVE MaintenanceInv
  BY DEF MaintenanceHolds
<1>2. Mode!Init
  BY <1>1 DEF Init
<1>3. QED
  BY <1>2, MaintenanceStarts

LEMMA MaintenanceMoves ==
  ASSUME [Next]_vars, part' = "maintenance"
  PROVE  part = "maintenance" /\ [Mode!Next]_(Mode!maintenanceVars)
<1>1. part = "maintenance" /\ (Mode!Next \/ UNCHANGED maintenanceVars)
  BY DEF Next, vars
<1>2. QED
  BY <1>1 DEF maintenanceVars, Mode!maintenanceVars, Mode!panel, Mode!ghosts

LEMMA MaintenanceHoldsOn == MaintenanceHolds /\ [Next]_vars => MaintenanceHolds'
<1>1. SUFFICES ASSUME MaintenanceHolds, [Next]_vars, part' = "maintenance"
               PROVE  MaintenanceInv'
  BY DEF MaintenanceHolds
<1>2. MaintenanceInv /\ [Mode!Next]_(Mode!maintenanceVars)
  BY <1>1, MaintenanceMoves DEF MaintenanceHolds
<1>3. QED
  BY <1>2, Constants, MaintenanceGoesOn

(* A bypass list nobody is replacing is the whole of the last one given,   *)
(* and no live page stays in Varnish once a switch's purge was answered:   *)
(* of any sites, addresses and requests beside each other, and wherever    *)
(* they die.                                                               *)
THEOREM MaintenanceIsWhole ==
  Spec => [](part = "maintenance" => /\ Mode!TypeOK
                                     /\ Mode!LastListWhole /\ Mode!NoLivePageKept)
<1>1. Init => MaintenanceHolds
  BY MaintenanceHoldsAtFirst
<1>2. MaintenanceHolds /\ [Next]_vars => MaintenanceHolds'
  BY MaintenanceHoldsOn
<1>3. MaintenanceHolds
        => (part = "maintenance" => /\ Mode!TypeOK
                                    /\ Mode!LastListWhole /\ Mode!NoLivePageKept)
  BY WholeList DEF MaintenanceHolds, MaintenanceInv
<1>4. QED
  BY <1>1, <1>2, <1>3, PTL DEF Spec

(* Adding an address to a list keeps every other in it, and the prune takes*)
(* the state of no site that was the panel's when it read the panel.       *)
THEOREM MaintenanceLeavesTheRest ==
  Spec => [][part = "maintenance" => /\ Mode!AddKeepsRestStep
                                     /\ Mode!LiveStateKeptStep]_vars
<1>1. Init => MaintenanceHolds
  BY MaintenanceHoldsAtFirst
<1>2. MaintenanceHolds /\ [Next]_vars => MaintenanceHolds'
  BY MaintenanceHoldsOn
<1>3. MaintenanceHolds /\ [Next]_vars
        => [part = "maintenance" => /\ Mode!AddKeepsRestStep
                                    /\ Mode!LiveStateKeptStep]_vars
  <2>1. SUFFICES ASSUME MaintenanceHolds, Next, part = "maintenance"
                 PROVE  Mode!AddKeepsRestStep /\ Mode!LiveStateKeptStep
    OBVIOUS
  <2>2. MaintenanceInv /\ Mode!Next
    BY <2>1 DEF MaintenanceHolds, Next
  <2>3. QED
    BY <2>2, Constants, AddKeepsRest, LiveStateKept
<1>4. QED
  BY <1>1, <1>2, <1>3, PTL DEF Spec

-----------------------------------------------------------------------------
(* Clone. What the record says at each step of the runner; at none, only   *)
(* a runner cut off leaves it queued or running.                           *)
CloneRecordFollows ==
  /\ at = "begin" => cloneState = "queued"
  /\ at \in Clone!Steps => cloneState = "running"
  /\ at = "unwind" => cloneState = "failed"
  /\ at = "idle" /\ cloneState \in {"queued", "running"} => cut

(* A runner knows what it has made: the site, when it says so, is the      *)
(* clone, and every copy of the live site that is left.                    *)
RunKnowsItsOwn ==
  /\ at \in {"idle", "begin"} => knows = {}
  /\ "site" \in knows => cloneSite = "clone"
  /\ at \in Clone!Steps \cup {"unwind"} => left \cap Clone!Secret \subseteq knows

(* Of the copies of the live site, at most these are left at these steps.  *)
SecretsAt(where, secrets) == at \in where => left \cap Clone!Secret \subseteq secrets

(* Which copies are left at which step, by the type of the site.           *)
SecretsLeftAt ==
  /\ hasDb => type = "php"
  /\ at \in {"add", "import"} => hasDb
  /\ at = "rewrite" => type # "proxy"
  /\ type # "proxy" => SecretsAt({"begin"} \cup (Clone!Steps \ {"add", "import"}), {})
  /\ SecretsAt({"begin"}, {"secrets"})
  /\ SecretsAt({"source"}, IF "session" \in left THEN {"session"} ELSE {"secrets"})
  /\ SecretsAt({"add", "import"}, {"dump"})
  /\ SecretsAt(Clone!Steps \ {"source", "add", "import", "copy", "record"}, {"bundle"})
  /\ SecretsAt({"copy"}, {"bundle", "session"})
  /\ SecretsAt({"record"}, {})

(* Nothing of the live site is in the files by the time the result is      *)
(* recorded.                                                               *)
CopiedFiles == at = "record" => files # "live"

(* The inductive invariant of a clone.                                     *)
CloneInv ==
  /\ Clone!TypeOK /\ CloneRecordFollows /\ RunKnowsItsOwn /\ SecretsLeftAt /\ CopiedFiles
  /\ Clone!DoneIsItsOwn /\ Clone!FailedIsUnwound

(* What a clone makes.                                                     *)
LEMMA ThingsOfClone ==
  Clone!Things = {"dump", "session", "secrets", "bundle", "db", "template", "instance", "site"}
<1>1. /\ Clone!Order[1] = "dump" /\ Clone!Order[2] = "session" /\ Clone!Order[3] = "secrets"
      /\ Clone!Order[4] = "bundle"
      /\ Clone!Order[5] = "db" /\ Clone!Order[6] = "template" /\ Clone!Order[7] = "instance"
      /\ Clone!Order[8] = "site"
  BY DEF Clone!Order
<1>2. 1..8 = {1, 2, 3, 4, 5, 6, 7, 8}
  OBVIOUS
<1>3. QED
  BY <1>1, <1>2 DEF Clone!Things

(* Each step of a clone, of its operator and of CloudPanel keeps it: what  *)
(* is made is known in the same step, and what is deleted is forgotten     *)
(* with it.                                                                *)
LEMMA CloneCmdCloneKeeps ==
  ASSUME Clone!ConstantsOK, CloneInv, Clone!cmdClone
  PROVE  CloneInv'
<1> USE ThingsOfClone DEF CloneInv, Clone!source, Clone!bound, Clone!nginx, Clone!cmdClone
<1>1. Clone!TypeOK'
  <2>1. clones' \in 0..MaxClones /\ cloneKills' \in 0..CloneMaxKills
    BY DEF Clone!ConstantsOK, Clone!TypeOK
  <2>2. left' \subseteq Clone!Things \ {"site"}
    BY DEF Clone!TypeOK, Clone!Secret
  <2>3. /\ cloneState' \in {"queued", "failed"} /\ at' \in {"begin", "idle"} /\ byTemplate' = FALSE
        /\ cut' = FALSE
    BY DEF Clone!TypeOK
  <2> HIDE DEF Clone!cmdClone
  <2>4. UNCHANGED <<type, hasDb, knows, cloneSite, vhost, row, cloneBackup, files>>
    BY DEF Clone!cmdClone
  <2>5. QED
    BY <2>1, <2>2, <2>3, <2>4 DEF Clone!TypeOK
<1>2. CloneRecordFollows'
  BY DEF CloneRecordFollows, Clone!Steps
<1>3. RunKnowsItsOwn'
  BY DEF RunKnowsItsOwn, CloneRecordFollows, Clone!Secret, Clone!Steps
<1>4. SecretsLeftAt'
  BY DEF SecretsLeftAt, SecretsAt, Clone!Steps, Clone!Secret, Clone!TypeOK, Clone!Types
<1>5. CopiedFiles' /\ Clone!DoneIsItsOwn' /\ Clone!FailedIsUnwound'
  BY DEF CopiedFiles, Clone!DoneIsItsOwn, Clone!FailedIsUnwound, SecretsLeftAt, SecretsAt,
     RunKnowsItsOwn, CloneRecordFollows, Clone!Steps, Clone!Secret
<1>6. QED
  BY <1>1, <1>2, <1>3, <1>4, <1>5

LEMMA CloneBeginKeeps ==
  ASSUME Clone!ConstantsOK, CloneInv, Clone!Begin
  PROVE  CloneInv'
<1> USE ThingsOfClone DEF CloneInv, Clone!source, Clone!bound, Clone!nginx, Clone!Begin
<1>1. Clone!TypeOK'
  BY DEF Clone!ConstantsOK, Clone!TypeOK, Clone!Steps, Clone!Secret, Clone!Types
<1>2. CloneRecordFollows'
  BY DEF CloneRecordFollows, Clone!Steps
<1>3. RunKnowsItsOwn'
  <2>1. CASE at' = "source"
    <3>1. /\ knows' = {"secrets", "session", "bundle"} \cap left /\ left' = left
          /\ cloneSite' = cloneSite /\ left \cap Clone!Secret \subseteq {"secrets"}
      BY <2>1 DEF SecretsLeftAt, SecretsAt
    <3>2. QED
      BY <2>1, <3>1 DEF RunKnowsItsOwn, Clone!Secret
  <2>2. CASE at' = "idle"
    BY <2>2 DEF RunKnowsItsOwn, Clone!Steps
  <2>3. QED
    BY <2>1, <2>2
<1>4. SecretsLeftAt'
  BY DEF SecretsLeftAt, SecretsAt, Clone!Steps, Clone!Secret, Clone!TypeOK, Clone!Types
<1>5. CopiedFiles' /\ Clone!DoneIsItsOwn' /\ Clone!FailedIsUnwound'
  BY DEF CopiedFiles, Clone!DoneIsItsOwn, Clone!FailedIsUnwound, SecretsLeftAt, SecretsAt,
     RunKnowsItsOwn, CloneRecordFollows, Clone!Steps, Clone!Secret
<1>6. QED
  BY <1>1, <1>2, <1>3, <1>4, <1>5

LEMMA CloneSignInKeeps ==
  ASSUME Clone!ConstantsOK, CloneInv, Clone!SignIn
  PROVE  CloneInv'
<1> USE ThingsOfClone DEF CloneInv, Clone!source, Clone!bound, Clone!nginx, Clone!Same, Clone!SignIn
<1>1. Clone!TypeOK'
  BY DEF Clone!ConstantsOK, Clone!TypeOK, Clone!Steps, Clone!Secret, Clone!Types
<1>2. CloneRecordFollows'
  BY DEF CloneRecordFollows, Clone!Steps
<1>3. RunKnowsItsOwn'
  BY DEF RunKnowsItsOwn, CloneRecordFollows, Clone!Secret, Clone!Steps
<1>4. SecretsLeftAt'
  BY DEF SecretsLeftAt, SecretsAt, Clone!Steps, Clone!Secret, Clone!TypeOK, Clone!Types
<1>5. CopiedFiles' /\ Clone!DoneIsItsOwn' /\ Clone!FailedIsUnwound'
  BY DEF CopiedFiles, Clone!DoneIsItsOwn, Clone!FailedIsUnwound, SecretsLeftAt, SecretsAt,
     RunKnowsItsOwn, CloneRecordFollows, Clone!Steps, Clone!Secret
<1>6. QED
  BY <1>1, <1>2, <1>3, <1>4, <1>5

LEMMA CloneReadSourceKeeps ==
  ASSUME Clone!ConstantsOK, CloneInv, Clone!ReadSource
  PROVE  CloneInv'
<1> USE ThingsOfClone DEF CloneInv, Clone!source, Clone!bound, Clone!nginx, Clone!Same,
          Clone!ReadSource
<1>1. Clone!TypeOK'
  BY DEF Clone!ConstantsOK, Clone!TypeOK, Clone!Steps, Clone!Secret, Clone!Types
<1>2. CloneRecordFollows'
  BY DEF CloneRecordFollows, Clone!Steps
<1>3. RunKnowsItsOwn'
  BY DEF RunKnowsItsOwn, CloneRecordFollows, Clone!Secret, Clone!Steps
<1>4. SecretsLeftAt'
  BY DEF SecretsLeftAt, SecretsAt, Clone!Steps, Clone!Secret, Clone!TypeOK, Clone!Types
<1>5. CopiedFiles' /\ Clone!DoneIsItsOwn' /\ Clone!FailedIsUnwound'
  BY DEF CopiedFiles, Clone!DoneIsItsOwn, Clone!FailedIsUnwound, SecretsLeftAt, SecretsAt,
     RunKnowsItsOwn, CloneRecordFollows, Clone!Steps, Clone!Secret
<1>6. QED
  BY <1>1, <1>2, <1>3, <1>4, <1>5

LEMMA CloneAddTemplateKeeps ==
  ASSUME Clone!ConstantsOK, CloneInv, Clone!AddTemplate
  PROVE  CloneInv'
<1> USE ThingsOfClone DEF CloneInv, Clone!source, Clone!bound, Clone!nginx, Clone!Same, Clone!Make,
          Clone!AddTemplate
<1>1. Clone!TypeOK'
  BY DEF Clone!ConstantsOK, Clone!TypeOK, Clone!Steps, Clone!Secret, Clone!Types
<1>2. CloneRecordFollows'
  BY DEF CloneRecordFollows, Clone!Steps
<1>3. RunKnowsItsOwn'
  BY DEF RunKnowsItsOwn, CloneRecordFollows, Clone!Secret, Clone!Steps
<1>4. SecretsLeftAt'
  BY DEF SecretsLeftAt, SecretsAt, Clone!Steps, Clone!Secret, Clone!TypeOK, Clone!Types
<1>5. CopiedFiles' /\ Clone!DoneIsItsOwn' /\ Clone!FailedIsUnwound'
  BY DEF CopiedFiles, Clone!DoneIsItsOwn, Clone!FailedIsUnwound, SecretsLeftAt, SecretsAt,
     RunKnowsItsOwn, CloneRecordFollows, Clone!Steps, Clone!Secret
<1>6. QED
  BY <1>1, <1>2, <1>3, <1>4, <1>5

LEMMA CloneCreateSiteKeeps ==
  ASSUME Clone!ConstantsOK, CloneInv, Clone!CreateSite
  PROVE  CloneInv'
<1> USE ThingsOfClone DEF CloneInv, Clone!source, Clone!bound, Clone!nginx, Clone!Same, Clone!Make,
          Clone!CreateSite
<1>1. Clone!TypeOK'
  BY DEF Clone!ConstantsOK, Clone!TypeOK, Clone!Steps, Clone!Secret, Clone!Types
<1>2. CloneRecordFollows'
  BY DEF CloneRecordFollows, Clone!Steps
<1>3. RunKnowsItsOwn'
  BY DEF RunKnowsItsOwn, CloneRecordFollows, Clone!Secret, Clone!Steps
<1>4. SecretsLeftAt'
  BY DEF SecretsLeftAt, SecretsAt, Clone!Steps, Clone!Secret, Clone!TypeOK, Clone!Types
<1>5. CopiedFiles' /\ Clone!DoneIsItsOwn' /\ Clone!FailedIsUnwound'
  BY DEF CopiedFiles, Clone!DoneIsItsOwn, Clone!FailedIsUnwound, SecretsLeftAt, SecretsAt,
     RunKnowsItsOwn, CloneRecordFollows, Clone!Steps, Clone!Secret
<1>6. QED
  BY <1>1, <1>2, <1>3, <1>4, <1>5

LEMMA CloneDropTemplateKeeps ==
  ASSUME Clone!ConstantsOK, CloneInv, Clone!DropTemplate
  PROVE  CloneInv'
<1> USE ThingsOfClone DEF CloneInv, Clone!source, Clone!bound, Clone!nginx, Clone!Same,
          Clone!DropTemplate
<1>1. Clone!TypeOK'
  BY DEF Clone!ConstantsOK, Clone!TypeOK, Clone!Steps, Clone!Secret, Clone!Types
<1>2. CloneRecordFollows'
  BY DEF CloneRecordFollows, Clone!Steps
<1>3. RunKnowsItsOwn'
  BY DEF RunKnowsItsOwn, CloneRecordFollows, Clone!Secret, Clone!Steps
<1>4. SecretsLeftAt'
  BY DEF SecretsLeftAt, SecretsAt, Clone!Steps, Clone!Secret, Clone!TypeOK, Clone!Types
<1>5. CopiedFiles' /\ Clone!DoneIsItsOwn' /\ Clone!FailedIsUnwound'
  BY DEF CopiedFiles, Clone!DoneIsItsOwn, Clone!FailedIsUnwound, SecretsLeftAt, SecretsAt,
     RunKnowsItsOwn, CloneRecordFollows, Clone!Steps, Clone!Secret
<1>6. QED
  BY <1>1, <1>2, <1>3, <1>4, <1>5

LEMMA CloneCannotCarryKeeps ==
  ASSUME Clone!ConstantsOK, CloneInv, Clone!CannotCarry
  PROVE  CloneInv'
<1> USE ThingsOfClone DEF CloneInv, Clone!source, Clone!bound, Clone!nginx, Clone!Same,
          Clone!CannotCarry
<1>1. Clone!TypeOK'
  BY DEF Clone!ConstantsOK, Clone!TypeOK, Clone!Steps, Clone!Secret, Clone!Types
<1>2. CloneRecordFollows'
  BY DEF CloneRecordFollows, Clone!Steps
<1>3. RunKnowsItsOwn'
  BY DEF RunKnowsItsOwn, CloneRecordFollows, Clone!Secret, Clone!Steps
<1>4. SecretsLeftAt'
  BY DEF SecretsLeftAt, SecretsAt, Clone!Steps, Clone!Secret, Clone!TypeOK, Clone!Types
<1>5. CopiedFiles' /\ Clone!DoneIsItsOwn' /\ Clone!FailedIsUnwound'
  BY DEF CopiedFiles, Clone!DoneIsItsOwn, Clone!FailedIsUnwound, SecretsLeftAt, SecretsAt,
     RunKnowsItsOwn, CloneRecordFollows, Clone!Steps, Clone!Secret
<1>6. QED
  BY <1>1, <1>2, <1>3, <1>4, <1>5

LEMMA CloneBackupKeeps ==
  ASSUME Clone!ConstantsOK, CloneInv, Clone!Backup
  PROVE  CloneInv'
<1> USE ThingsOfClone DEF CloneInv, Clone!source, Clone!bound, Clone!nginx, Clone!Same, Clone!Backup
<1>1. Clone!TypeOK'
  BY DEF Clone!ConstantsOK, Clone!TypeOK, Clone!Steps, Clone!Secret, Clone!Types
<1>2. CloneRecordFollows'
  BY DEF CloneRecordFollows, Clone!Steps
<1>3. RunKnowsItsOwn'
  BY DEF RunKnowsItsOwn, CloneRecordFollows, Clone!Secret, Clone!Steps
<1>4. SecretsLeftAt'
  BY DEF SecretsLeftAt, SecretsAt, Clone!Steps, Clone!Secret, Clone!TypeOK, Clone!Types
<1>5. CopiedFiles' /\ Clone!DoneIsItsOwn' /\ Clone!FailedIsUnwound'
  BY DEF CopiedFiles, Clone!DoneIsItsOwn, Clone!FailedIsUnwound, SecretsLeftAt, SecretsAt,
     RunKnowsItsOwn, CloneRecordFollows, Clone!Steps, Clone!Secret
<1>6. QED
  BY <1>1, <1>2, <1>3, <1>4, <1>5

LEMMA CloneWriteVhostKeeps ==
  ASSUME Clone!ConstantsOK, CloneInv, Clone!WriteVhost
  PROVE  CloneInv'
<1> USE ThingsOfClone DEF CloneInv, Clone!source, Clone!bound, Clone!nginx, Clone!Same,
          Clone!WriteVhost
<1>1. Clone!TypeOK'
  BY DEF Clone!ConstantsOK, Clone!TypeOK, Clone!Steps, Clone!Secret, Clone!Types
<1>2. CloneRecordFollows'
  BY DEF CloneRecordFollows, Clone!Steps
<1>3. RunKnowsItsOwn'
  BY DEF RunKnowsItsOwn, CloneRecordFollows, Clone!Secret, Clone!Steps
<1>4. SecretsLeftAt'
  BY DEF SecretsLeftAt, SecretsAt, Clone!Steps, Clone!Secret, Clone!TypeOK, Clone!Types
<1>5. CopiedFiles' /\ Clone!DoneIsItsOwn' /\ Clone!FailedIsUnwound'
  BY DEF CopiedFiles, Clone!DoneIsItsOwn, Clone!FailedIsUnwound, SecretsLeftAt, SecretsAt,
     RunKnowsItsOwn, CloneRecordFollows, Clone!Steps, Clone!Secret
<1>6. QED
  BY <1>1, <1>2, <1>3, <1>4, <1>5

LEMMA CloneTestKeeps ==
  ASSUME Clone!ConstantsOK, CloneInv, Clone!Test
  PROVE  CloneInv'
<1> USE ThingsOfClone DEF CloneInv, Clone!source, Clone!bound, Clone!nginx, Clone!Same, Clone!Test
<1>1. Clone!TypeOK'
  BY DEF Clone!ConstantsOK, Clone!TypeOK, Clone!Steps, Clone!Secret, Clone!Types
<1>2. CloneRecordFollows'
  BY DEF CloneRecordFollows, Clone!Steps
<1>3. RunKnowsItsOwn'
  BY DEF RunKnowsItsOwn, CloneRecordFollows, Clone!Secret, Clone!Steps
<1>4. SecretsLeftAt'
  BY DEF SecretsLeftAt, SecretsAt, Clone!Steps, Clone!Secret, Clone!TypeOK, Clone!Types
<1>5. CopiedFiles' /\ Clone!DoneIsItsOwn' /\ Clone!FailedIsUnwound'
  BY DEF CopiedFiles, Clone!DoneIsItsOwn, Clone!FailedIsUnwound, SecretsLeftAt, SecretsAt,
     RunKnowsItsOwn, CloneRecordFollows, Clone!Steps, Clone!Secret
<1>6. QED
  BY <1>1, <1>2, <1>3, <1>4, <1>5

LEMMA CloneWriteRowKeeps ==
  ASSUME Clone!ConstantsOK, CloneInv, Clone!WriteRow
  PROVE  CloneInv'
<1> USE ThingsOfClone DEF CloneInv, Clone!source, Clone!bound, Clone!nginx, Clone!Same,
          Clone!WriteRow
<1>1. Clone!TypeOK'
  BY DEF Clone!ConstantsOK, Clone!TypeOK, Clone!Steps, Clone!Secret, Clone!Types
<1>2. CloneRecordFollows'
  BY DEF CloneRecordFollows, Clone!Steps
<1>3. RunKnowsItsOwn'
  BY DEF RunKnowsItsOwn, CloneRecordFollows, Clone!Secret, Clone!Steps
<1>4. SecretsLeftAt'
  BY DEF SecretsLeftAt, SecretsAt, Clone!Steps, Clone!Secret, Clone!TypeOK, Clone!Types
<1>5. CopiedFiles' /\ Clone!DoneIsItsOwn' /\ Clone!FailedIsUnwound'
  BY DEF CopiedFiles, Clone!DoneIsItsOwn, Clone!FailedIsUnwound, SecretsLeftAt, SecretsAt,
     RunKnowsItsOwn, CloneRecordFollows, Clone!Steps, Clone!Secret
<1>6. QED
  BY <1>1, <1>2, <1>3, <1>4, <1>5

LEMMA CloneReloadKeeps ==
  ASSUME Clone!ConstantsOK, CloneInv, Clone!Reload
  PROVE  CloneInv'
<1> USE ThingsOfClone DEF CloneInv, Clone!source, Clone!bound, Clone!nginx, Clone!Same, Clone!Reload
<1>1. Clone!TypeOK'
  BY DEF Clone!ConstantsOK, Clone!TypeOK, Clone!Steps, Clone!Secret, Clone!Types
<1>2. CloneRecordFollows'
  BY DEF CloneRecordFollows, Clone!Steps
<1>3. RunKnowsItsOwn'
  BY DEF RunKnowsItsOwn, CloneRecordFollows, Clone!Secret, Clone!Steps
<1>4. SecretsLeftAt'
  BY DEF SecretsLeftAt, SecretsAt, Clone!Steps, Clone!Secret, Clone!TypeOK, Clone!Types
<1>5. CopiedFiles' /\ Clone!DoneIsItsOwn' /\ Clone!FailedIsUnwound'
  BY DEF CopiedFiles, Clone!DoneIsItsOwn, Clone!FailedIsUnwound, SecretsLeftAt, SecretsAt,
     RunKnowsItsOwn, CloneRecordFollows, Clone!Steps, Clone!Secret
<1>6. QED
  BY <1>1, <1>2, <1>3, <1>4, <1>5

LEMMA CloneRestoreKeeps ==
  ASSUME Clone!ConstantsOK, CloneInv, Clone!Restore
  PROVE  CloneInv'
<1> USE ThingsOfClone DEF CloneInv, Clone!source, Clone!bound, Clone!nginx, Clone!Same,
          Clone!Restore
<1>1. Clone!TypeOK'
  BY DEF Clone!ConstantsOK, Clone!TypeOK, Clone!Steps, Clone!Secret, Clone!Types
<1>2. CloneRecordFollows'
  BY DEF CloneRecordFollows, Clone!Steps
<1>3. RunKnowsItsOwn'
  BY DEF RunKnowsItsOwn, CloneRecordFollows, Clone!Secret, Clone!Steps
<1>4. SecretsLeftAt'
  BY DEF SecretsLeftAt, SecretsAt, Clone!Steps, Clone!Secret, Clone!TypeOK, Clone!Types
<1>5. CopiedFiles' /\ Clone!DoneIsItsOwn' /\ Clone!FailedIsUnwound'
  BY DEF CopiedFiles, Clone!DoneIsItsOwn, Clone!FailedIsUnwound, SecretsLeftAt, SecretsAt,
     RunKnowsItsOwn, CloneRecordFollows, Clone!Steps, Clone!Secret
<1>6. QED
  BY <1>1, <1>2, <1>3, <1>4, <1>5

LEMMA CloneStockRowKeeps ==
  ASSUME Clone!ConstantsOK, CloneInv, Clone!StockRow
  PROVE  CloneInv'
<1> USE ThingsOfClone DEF CloneInv, Clone!source, Clone!bound, Clone!nginx, Clone!Same,
          Clone!StockRow
<1>1. Clone!TypeOK'
  BY DEF Clone!ConstantsOK, Clone!TypeOK, Clone!Steps, Clone!Secret, Clone!Types
<1>2. CloneRecordFollows'
  BY DEF CloneRecordFollows, Clone!Steps
<1>3. RunKnowsItsOwn'
  BY DEF RunKnowsItsOwn, CloneRecordFollows, Clone!Secret, Clone!Steps
<1>4. SecretsLeftAt'
  BY DEF SecretsLeftAt, SecretsAt, Clone!Steps, Clone!Secret, Clone!TypeOK, Clone!Types
<1>5. CopiedFiles' /\ Clone!DoneIsItsOwn' /\ Clone!FailedIsUnwound'
  BY DEF CopiedFiles, Clone!DoneIsItsOwn, Clone!FailedIsUnwound, SecretsLeftAt, SecretsAt,
     RunKnowsItsOwn, CloneRecordFollows, Clone!Steps, Clone!Secret
<1>6. QED
  BY <1>1, <1>2, <1>3, <1>4, <1>5

LEMMA CloneExportDbKeeps ==
  ASSUME Clone!ConstantsOK, CloneInv, Clone!ExportDb
  PROVE  CloneInv'
<1> USE ThingsOfClone DEF CloneInv, Clone!source, Clone!bound, Clone!nginx, Clone!Same, Clone!Make,
          Clone!ExportDb
<1>1. Clone!TypeOK'
  BY DEF Clone!ConstantsOK, Clone!TypeOK, Clone!Steps, Clone!Secret, Clone!Types
<1>2. CloneRecordFollows'
  BY DEF CloneRecordFollows, Clone!Steps
<1>3. RunKnowsItsOwn'
  BY DEF RunKnowsItsOwn, CloneRecordFollows, Clone!Secret, Clone!Steps
<1>4. SecretsLeftAt'
  BY DEF SecretsLeftAt, SecretsAt, Clone!Steps, Clone!Secret, Clone!TypeOK, Clone!Types
<1>5. CopiedFiles' /\ Clone!DoneIsItsOwn' /\ Clone!FailedIsUnwound'
  BY DEF CopiedFiles, Clone!DoneIsItsOwn, Clone!FailedIsUnwound, SecretsLeftAt, SecretsAt,
     RunKnowsItsOwn, CloneRecordFollows, Clone!Steps, Clone!Secret
<1>6. QED
  BY <1>1, <1>2, <1>3, <1>4, <1>5

LEMMA CloneNoDbKeeps ==
  ASSUME Clone!ConstantsOK, CloneInv, Clone!NoDb
  PROVE  CloneInv'
<1> USE ThingsOfClone DEF CloneInv, Clone!source, Clone!bound, Clone!nginx, Clone!Same,
          Clone!SameBox, Clone!NoDb
<1>1. Clone!TypeOK'
  BY DEF Clone!ConstantsOK, Clone!TypeOK, Clone!Steps, Clone!Secret, Clone!Types
<1>2. CloneRecordFollows'
  BY DEF CloneRecordFollows, Clone!Steps
<1>3. RunKnowsItsOwn'
  BY DEF RunKnowsItsOwn, CloneRecordFollows, Clone!Secret, Clone!Steps
<1>4. SecretsLeftAt'
  BY DEF SecretsLeftAt, SecretsAt, Clone!Steps, Clone!Secret, Clone!TypeOK, Clone!Types
<1>5. CopiedFiles' /\ Clone!DoneIsItsOwn' /\ Clone!FailedIsUnwound'
  BY DEF CopiedFiles, Clone!DoneIsItsOwn, Clone!FailedIsUnwound, SecretsLeftAt, SecretsAt,
     RunKnowsItsOwn, CloneRecordFollows, Clone!Steps, Clone!Secret
<1>6. QED
  BY <1>1, <1>2, <1>3, <1>4, <1>5

LEMMA CloneAddDbKeeps ==
  ASSUME Clone!ConstantsOK, CloneInv, Clone!AddDb
  PROVE  CloneInv'
<1> USE ThingsOfClone DEF CloneInv, Clone!source, Clone!bound, Clone!nginx, Clone!Same, Clone!Make,
          Clone!AddDb
<1>1. Clone!TypeOK'
  BY DEF Clone!ConstantsOK, Clone!TypeOK, Clone!Steps, Clone!Secret, Clone!Types
<1>2. CloneRecordFollows'
  BY DEF CloneRecordFollows, Clone!Steps
<1>3. RunKnowsItsOwn'
  BY DEF RunKnowsItsOwn, CloneRecordFollows, Clone!Secret, Clone!Steps
<1>4. SecretsLeftAt'
  BY DEF SecretsLeftAt, SecretsAt, Clone!Steps, Clone!Secret, Clone!TypeOK, Clone!Types
<1>5. CopiedFiles' /\ Clone!DoneIsItsOwn' /\ Clone!FailedIsUnwound'
  BY DEF CopiedFiles, Clone!DoneIsItsOwn, Clone!FailedIsUnwound, SecretsLeftAt, SecretsAt,
     RunKnowsItsOwn, CloneRecordFollows, Clone!Steps, Clone!Secret
<1>6. QED
  BY <1>1, <1>2, <1>3, <1>4, <1>5

LEMMA CloneImportDbKeeps ==
  ASSUME Clone!ConstantsOK, CloneInv, Clone!ImportDb
  PROVE  CloneInv'
<1> USE ThingsOfClone DEF CloneInv, Clone!source, Clone!bound, Clone!nginx, Clone!Same, Clone!Drop,
          Clone!ImportDb
<1>1. Clone!TypeOK'
  BY DEF Clone!ConstantsOK, Clone!TypeOK, Clone!Steps, Clone!Secret, Clone!Types
<1>2. CloneRecordFollows'
  BY DEF CloneRecordFollows, Clone!Steps
<1>3. RunKnowsItsOwn'
  BY DEF RunKnowsItsOwn, CloneRecordFollows, Clone!Secret, Clone!Steps
<1>4. SecretsLeftAt'
  BY DEF SecretsLeftAt, SecretsAt, Clone!Steps, Clone!Secret, Clone!TypeOK, Clone!Types
<1>5. CopiedFiles' /\ Clone!DoneIsItsOwn' /\ Clone!FailedIsUnwound'
  BY DEF CopiedFiles, Clone!DoneIsItsOwn, Clone!FailedIsUnwound, SecretsLeftAt, SecretsAt,
     RunKnowsItsOwn, CloneRecordFollows, Clone!Steps, Clone!Secret
<1>6. QED
  BY <1>1, <1>2, <1>3, <1>4, <1>5

LEMMA CloneCopyFilesKeeps ==
  ASSUME Clone!ConstantsOK, CloneInv, Clone!CopyFiles
  PROVE  CloneInv'
<1> USE ThingsOfClone DEF CloneInv, Clone!source, Clone!bound, Clone!nginx, Clone!Same,
          Clone!CopyFiles
<1>1. Clone!TypeOK'
  BY DEF Clone!ConstantsOK, Clone!TypeOK, Clone!Steps, Clone!Secret, Clone!Types
<1>2. CloneRecordFollows'
  BY DEF CloneRecordFollows, Clone!Steps
<1>3. RunKnowsItsOwn'
  BY DEF RunKnowsItsOwn, CloneRecordFollows, Clone!Secret, Clone!Steps
<1>4. SecretsLeftAt'
  BY DEF SecretsLeftAt, SecretsAt, Clone!Steps, Clone!Secret, Clone!TypeOK, Clone!Types
<1>5. CopiedFiles' /\ Clone!DoneIsItsOwn' /\ Clone!FailedIsUnwound'
  BY DEF CopiedFiles, Clone!DoneIsItsOwn, Clone!FailedIsUnwound, SecretsLeftAt, SecretsAt,
     RunKnowsItsOwn, CloneRecordFollows, Clone!Steps, Clone!Secret
<1>6. QED
  BY <1>1, <1>2, <1>3, <1>4, <1>5

LEMMA CloneSignInToCloneKeeps ==
  ASSUME Clone!ConstantsOK, CloneInv, Clone!SignInToClone
  PROVE  CloneInv'
<1> USE ThingsOfClone DEF CloneInv, Clone!source, Clone!bound, Clone!nginx, Clone!Same, Clone!Make,
          Clone!SignInToClone
<1>1. Clone!TypeOK'
  BY DEF Clone!ConstantsOK, Clone!TypeOK, Clone!Steps, Clone!Secret, Clone!Types
<1>2. CloneRecordFollows'
  BY DEF CloneRecordFollows, Clone!Steps
<1>3. RunKnowsItsOwn'
  BY DEF RunKnowsItsOwn, CloneRecordFollows, Clone!Secret, Clone!Steps
<1>4. SecretsLeftAt'
  BY DEF SecretsLeftAt, SecretsAt, Clone!Steps, Clone!Secret, Clone!TypeOK, Clone!Types
<1>5. CopiedFiles' /\ Clone!DoneIsItsOwn' /\ Clone!FailedIsUnwound'
  BY DEF CopiedFiles, Clone!DoneIsItsOwn, Clone!FailedIsUnwound, SecretsLeftAt, SecretsAt,
     RunKnowsItsOwn, CloneRecordFollows, Clone!Steps, Clone!Secret
<1>6. QED
  BY <1>1, <1>2, <1>3, <1>4, <1>5

LEMMA CloneImportBundleKeeps ==
  ASSUME Clone!ConstantsOK, CloneInv, Clone!ImportBundle
  PROVE  CloneInv'
<1> USE ThingsOfClone DEF CloneInv, Clone!source, Clone!bound, Clone!nginx, Clone!Same, Clone!Drop,
          Clone!ImportBundle
<1>1. Clone!TypeOK'
  BY DEF Clone!ConstantsOK, Clone!TypeOK, Clone!Steps, Clone!Secret, Clone!Types
<1>2. CloneRecordFollows'
  BY DEF CloneRecordFollows, Clone!Steps
<1>3. RunKnowsItsOwn'
  BY DEF RunKnowsItsOwn, CloneRecordFollows, Clone!Secret, Clone!Steps
<1>4. SecretsLeftAt'
  BY DEF SecretsLeftAt, SecretsAt, Clone!Steps, Clone!Secret, Clone!TypeOK, Clone!Types
<1>5. CopiedFiles' /\ Clone!DoneIsItsOwn' /\ Clone!FailedIsUnwound'
  BY DEF CopiedFiles, Clone!DoneIsItsOwn, Clone!FailedIsUnwound, SecretsLeftAt, SecretsAt,
     RunKnowsItsOwn, CloneRecordFollows, Clone!Steps, Clone!Secret
<1>6. QED
  BY <1>1, <1>2, <1>3, <1>4, <1>5

LEMMA CloneRewriteConfigKeeps ==
  ASSUME Clone!ConstantsOK, CloneInv, Clone!RewriteConfig
  PROVE  CloneInv'
<1> USE ThingsOfClone DEF CloneInv, Clone!source, Clone!bound, Clone!nginx, Clone!Same,
          Clone!RewriteConfig
<1>1. Clone!TypeOK'
  BY DEF Clone!ConstantsOK, Clone!TypeOK, Clone!Steps, Clone!Secret, Clone!Types
<1>2. CloneRecordFollows'
  BY DEF CloneRecordFollows, Clone!Steps
<1>3. RunKnowsItsOwn'
  BY DEF RunKnowsItsOwn, CloneRecordFollows, Clone!Secret, Clone!Steps
<1>4. SecretsLeftAt'
  BY DEF SecretsLeftAt, SecretsAt, Clone!Steps, Clone!Secret, Clone!TypeOK, Clone!Types
<1>5. CopiedFiles' /\ Clone!DoneIsItsOwn' /\ Clone!FailedIsUnwound'
  BY DEF CopiedFiles, Clone!DoneIsItsOwn, Clone!FailedIsUnwound, SecretsLeftAt, SecretsAt,
     RunKnowsItsOwn, CloneRecordFollows, Clone!Steps, Clone!Secret
<1>6. QED
  BY <1>1, <1>2, <1>3, <1>4, <1>5

LEMMA CloneRecordResultKeeps ==
  ASSUME Clone!ConstantsOK, CloneInv, Clone!RecordResult
  PROVE  CloneInv'
<1> USE ThingsOfClone DEF CloneInv, Clone!source, Clone!bound, Clone!nginx, Clone!RecordResult
<1>1. Clone!TypeOK'
  BY DEF Clone!ConstantsOK, Clone!TypeOK, Clone!Steps, Clone!Secret, Clone!Types
<1>2. CloneRecordFollows'
  BY DEF CloneRecordFollows, Clone!Steps
<1>3. RunKnowsItsOwn'
  BY DEF RunKnowsItsOwn, CloneRecordFollows, Clone!Secret, Clone!Steps
<1>4. SecretsLeftAt'
  BY DEF SecretsLeftAt, SecretsAt, Clone!Steps, Clone!Secret, Clone!TypeOK, Clone!Types
<1>5. CopiedFiles' /\ Clone!DoneIsItsOwn' /\ Clone!FailedIsUnwound'
  BY DEF CopiedFiles, Clone!DoneIsItsOwn, Clone!FailedIsUnwound, SecretsLeftAt, SecretsAt,
     RunKnowsItsOwn, CloneRecordFollows, Clone!Steps, Clone!Secret
<1>6. QED
  BY <1>1, <1>2, <1>3, <1>4, <1>5

LEMMA CloneFailJobKeeps ==
  ASSUME Clone!ConstantsOK, CloneInv, Clone!FailJob
  PROVE  CloneInv'
<1> USE ThingsOfClone DEF CloneInv, Clone!source, Clone!bound, Clone!nginx, Clone!Failing,
          Clone!FailJob
<1>1. Clone!TypeOK'
  BY DEF Clone!ConstantsOK, Clone!TypeOK, Clone!Steps, Clone!Secret, Clone!Types
<1>2. CloneRecordFollows'
  BY DEF CloneRecordFollows, Clone!Steps
<1>3. RunKnowsItsOwn'
  BY DEF RunKnowsItsOwn, CloneRecordFollows, Clone!Secret, Clone!Steps
<1>4. SecretsLeftAt'
  BY DEF SecretsLeftAt, SecretsAt, Clone!Steps, Clone!Secret, Clone!TypeOK, Clone!Types
<1>5. CopiedFiles' /\ Clone!DoneIsItsOwn' /\ Clone!FailedIsUnwound'
  BY DEF CopiedFiles, Clone!DoneIsItsOwn, Clone!FailedIsUnwound, SecretsLeftAt, SecretsAt,
     RunKnowsItsOwn, CloneRecordFollows, Clone!Steps, Clone!Secret
<1>6. QED
  BY <1>1, <1>2, <1>3, <1>4, <1>5

LEMMA CloneKillRunnerKeeps ==
  ASSUME Clone!ConstantsOK, CloneInv, Clone!KillRunner
  PROVE  CloneInv'
<1> USE ThingsOfClone DEF CloneInv, Clone!source, Clone!bound, Clone!nginx, Clone!KillRunner
<1>1. Clone!TypeOK'
  BY DEF Clone!ConstantsOK, Clone!TypeOK, Clone!Steps, Clone!Secret, Clone!Types
<1>2. CloneRecordFollows'
  BY DEF CloneRecordFollows, Clone!Steps
<1>3. RunKnowsItsOwn'
  BY DEF RunKnowsItsOwn, CloneRecordFollows, Clone!Secret, Clone!Steps
<1>4. SecretsLeftAt'
  BY DEF SecretsLeftAt, SecretsAt, Clone!Steps, Clone!Secret, Clone!TypeOK, Clone!Types
<1>5. CopiedFiles' /\ Clone!DoneIsItsOwn' /\ Clone!FailedIsUnwound'
  BY DEF CopiedFiles, Clone!DoneIsItsOwn, Clone!FailedIsUnwound, SecretsLeftAt, SecretsAt,
     RunKnowsItsOwn, CloneRecordFollows, Clone!Steps, Clone!Secret
<1>6. QED
  BY <1>1, <1>2, <1>3, <1>4, <1>5

LEMMA ClonePruneJobsKeeps ==
  ASSUME Clone!ConstantsOK, CloneInv, Clone!pruneJobs
  PROVE  CloneInv'
<1> USE ThingsOfClone DEF CloneInv, Clone!source, Clone!bound, Clone!nginx, Clone!pruneJobs
<1>1. Clone!TypeOK'
  BY DEF Clone!ConstantsOK, Clone!TypeOK, Clone!Steps, Clone!Secret, Clone!Types
<1>2. CloneRecordFollows'
  BY DEF CloneRecordFollows, Clone!Steps
<1>3. RunKnowsItsOwn'
  BY DEF RunKnowsItsOwn, CloneRecordFollows, Clone!Secret, Clone!Steps
<1>4. SecretsLeftAt'
  BY DEF SecretsLeftAt, SecretsAt, Clone!Steps, Clone!Secret, Clone!TypeOK, Clone!Types
<1>5. CopiedFiles' /\ Clone!DoneIsItsOwn' /\ Clone!FailedIsUnwound'
  BY DEF CopiedFiles, Clone!DoneIsItsOwn, Clone!FailedIsUnwound, SecretsLeftAt, SecretsAt,
     RunKnowsItsOwn, CloneRecordFollows, Clone!Steps, Clone!Secret
<1>6. QED
  BY <1>1, <1>2, <1>3, <1>4, <1>5

LEMMA CloneRecoverCarriedVhostsKeeps ==
  ASSUME Clone!ConstantsOK, CloneInv, Clone!recoverCarriedVhosts
  PROVE  CloneInv'
<1> USE ThingsOfClone DEF CloneInv, Clone!source, Clone!bound, Clone!nginx,
          Clone!recoverCarriedVhosts
<1>1. Clone!TypeOK'
  BY DEF Clone!ConstantsOK, Clone!TypeOK, Clone!Steps, Clone!Secret, Clone!Types
<1>2. CloneRecordFollows'
  BY DEF CloneRecordFollows, Clone!Steps
<1>3. RunKnowsItsOwn'
  BY DEF RunKnowsItsOwn, CloneRecordFollows, Clone!Secret, Clone!Steps
<1>4. SecretsLeftAt'
  BY DEF SecretsLeftAt, SecretsAt, Clone!Steps, Clone!Secret, Clone!TypeOK, Clone!Types
<1>5. CopiedFiles' /\ Clone!DoneIsItsOwn' /\ Clone!FailedIsUnwound'
  BY DEF CopiedFiles, Clone!DoneIsItsOwn, Clone!FailedIsUnwound, SecretsLeftAt, SecretsAt,
     RunKnowsItsOwn, CloneRecordFollows, Clone!Steps, Clone!Secret
<1>6. QED
  BY <1>1, <1>2, <1>3, <1>4, <1>5

LEMMA CloneOperatorCreatesKeeps ==
  ASSUME Clone!ConstantsOK, CloneInv, Clone!OperatorCreates
  PROVE  CloneInv'
<1> USE ThingsOfClone DEF CloneInv, Clone!source, Clone!bound, Clone!nginx, Clone!OperatorCreates
<1>1. Clone!TypeOK'
  BY DEF Clone!ConstantsOK, Clone!TypeOK, Clone!Steps, Clone!Secret, Clone!Types
<1>2. CloneRecordFollows'
  BY DEF CloneRecordFollows, Clone!Steps
<1>3. RunKnowsItsOwn'
  BY DEF RunKnowsItsOwn, CloneRecordFollows, Clone!Secret, Clone!Steps
<1>4. SecretsLeftAt'
  BY DEF SecretsLeftAt, SecretsAt, Clone!Steps, Clone!Secret, Clone!TypeOK, Clone!Types
<1>5. CopiedFiles' /\ Clone!DoneIsItsOwn' /\ Clone!FailedIsUnwound'
  BY DEF CopiedFiles, Clone!DoneIsItsOwn, Clone!FailedIsUnwound, SecretsLeftAt, SecretsAt,
     RunKnowsItsOwn, CloneRecordFollows, Clone!Steps, Clone!Secret
<1>6. QED
  BY <1>1, <1>2, <1>3, <1>4, <1>5

LEMMA CloneOperatorDeletesKeeps ==
  ASSUME Clone!ConstantsOK, CloneInv, Clone!OperatorDeletes
  PROVE  CloneInv'
<1> USE ThingsOfClone DEF CloneInv, Clone!source, Clone!bound, Clone!nginx, Clone!Gone,
          Clone!OperatorDeletes
<1>1. Clone!TypeOK'
  BY DEF Clone!ConstantsOK, Clone!TypeOK, Clone!Steps, Clone!Secret, Clone!Types
<1>2. CloneRecordFollows'
  BY DEF CloneRecordFollows, Clone!Steps
<1>3. RunKnowsItsOwn'
  BY DEF RunKnowsItsOwn, CloneRecordFollows, Clone!Secret, Clone!Steps
<1>4. SecretsLeftAt'
  BY DEF SecretsLeftAt, SecretsAt, Clone!Steps, Clone!Secret, Clone!TypeOK, Clone!Types
<1>5. CopiedFiles' /\ Clone!DoneIsItsOwn' /\ Clone!FailedIsUnwound'
  BY DEF CopiedFiles, Clone!DoneIsItsOwn, Clone!FailedIsUnwound, SecretsLeftAt, SecretsAt,
     RunKnowsItsOwn, CloneRecordFollows, Clone!Steps, Clone!Secret
<1>6. QED
  BY <1>1, <1>2, <1>3, <1>4, <1>5

(* What the unwinding takes next: the copies of the live site come first.  *)
LEMMA UnwoundNext ==
  ASSUME NEW things \in SUBSET Clone!Things, things # {}
  PROVE  /\ Clone!NextOf(things) \in things
         /\ (Clone!NextOf(things) \notin Clone!Secret => things \cap Clone!Secret = {})
<1> DEFINE First(x) == \E i \in 1..8 :
             Clone!Order[i] = x /\ \A k \in 1..(i - 1) : Clone!Order[k] \notin things
<1>1. /\ Clone!Order[1] = "dump" /\ Clone!Order[2] = "session" /\ Clone!Order[3] = "secrets"
      /\ Clone!Order[4] = "bundle"
      /\ Clone!Order[5] = "db" /\ Clone!Order[6] = "template" /\ Clone!Order[7] = "instance"
      /\ Clone!Order[8] = "site"
  BY DEF Clone!Order
<1>2. \E x \in things : First(x)
  <2>1. /\ 1..0 = {} /\ 1..1 = {1} /\ 1..2 = {1, 2} /\ 1..3 = {1, 2, 3} /\ 1..4 = {1, 2, 3, 4}
        /\ 1..5 = {1, 2, 3, 4, 5}
        /\ 1..6 = {1, 2, 3, 4, 5, 6} /\ 1..7 = {1, 2, 3, 4, 5, 6, 7}
        /\ 1..8 = {1, 2, 3, 4, 5, 6, 7, 8}
    OBVIOUS
  <2>2. "dump" \in things => First("dump")
    BY <1>1, <2>1
  <2>3. "dump" \notin things /\ "session" \in things => First("session")
    BY <1>1, <2>1
  <2>4. things \cap {"dump", "session"} = {} /\ "secrets" \in things => First("secrets")
    BY <1>1, <2>1
  <2>5. things \cap {"dump", "session", "secrets"} = {} /\ "bundle" \in things => First("bundle")
    BY <1>1, <2>1
  <2>6. things \cap {"dump", "session", "secrets", "bundle"} = {} /\ "db" \in things => First("db")
    BY <1>1, <2>1
  <2>7. things \cap {"dump", "session", "secrets", "bundle", "db"} = {} /\ "template" \in things
          => First("template")
    BY <1>1, <2>1
  <2>8. ASSUME things \cap {"dump", "session", "secrets", "bundle", "db", "template"} = {},
               "instance" \in things
        PROVE  First("instance")
    BY <1>1, <2>1, <2>8
  <2>9. things = {"site"} => First("site")
    BY <1>1, <2>1
  <2> HIDE DEF First
  <2>10. QED
    BY ThingsOfClone, <2>2, <2>3, <2>4, <2>5, <2>6, <2>7, <2>8, <2>9
<1>3. Clone!NextOf(things) \in things /\ First(Clone!NextOf(things))
  BY <1>2 DEF Clone!NextOf
<1>4. ASSUME Clone!NextOf(things) \notin Clone!Secret PROVE things \cap Clone!Secret = {}
  <2>1. PICK i \in 1..8 : /\ Clone!Order[i] = Clone!NextOf(things)
                          /\ \A k \in 1..(i - 1) : Clone!Order[k] \notin things
    BY <1>3
  <2>2. i > 4
    BY <1>1, <1>4, <2>1 DEF Clone!Secret
  <2>3. QED
    BY <1>1, <2>1, <2>2 DEF Clone!Secret
<1>5. QED
  BY <1>3, <1>4

(* The unwinding takes one thing, or ends when it knows of none.           *)
LEMMA CloneRollbackRunKeeps ==
  ASSUME Clone!ConstantsOK, CloneInv, Clone!rollbackRun
  PROVE  CloneInv'
<1>1. /\ at = "unwind" /\ cloneState = "failed"
      /\ UNCHANGED <<type, hasDb, cloneState, clones, cloneKills, cut, cloneBackup, byTemplate>>
  BY DEF Clone!rollbackRun, CloneInv, CloneRecordFollows, Clone!source, Clone!bound,
     Clone!TypeOK, Clone!Steps
<1>2. CASE knows = {}
  <2>1. /\ at' = "idle" /\ UNCHANGED <<left, knows, cloneSite, vhost, row, files>>
        /\ left \cap Clone!Secret = {}
    BY <1>1, <1>2 DEF Clone!rollbackRun, CloneInv, RunKnowsItsOwn
  <2>2. QED
    BY <1>1, <1>2, <2>1 DEF CloneInv, Clone!TypeOK, CloneRecordFollows, RunKnowsItsOwn,
       SecretsLeftAt, SecretsAt, CopiedFiles, Clone!DoneIsItsOwn, Clone!FailedIsUnwound,
       Clone!Steps
<1>3. CASE knows # {}
  <2> DEFINE x == Clone!NextOf(knows)
  <2>1. /\ x \in knows /\ (x \notin Clone!Secret => knows \cap Clone!Secret = {})
        /\ left \cap Clone!Secret \subseteq knows
    BY <1>1, <1>3, UnwoundNext DEF CloneInv, Clone!TypeOK, RunKnowsItsOwn
  <2>2. at' = at
    BY <1>3 DEF Clone!rollbackRun
  <2>3. /\ left' \subseteq left /\ left' \cap Clone!Secret \subseteq knows'
        /\ knows' \subseteq knows
        /\ \/ UNCHANGED <<cloneSite, vhost, row, files>>
           \/ "site" \in knows /\ Clone!Gone(cloneSite) /\ knows' = {}
    <3> HIDE DEF x
    <3>1. CASE x = "site" \/ (x = "instance" /\ "site" \in knows)
      <4>1. knows' = {} /\ left \cap Clone!Secret = {}
        BY <1>3, <2>1, <3>1 DEF Clone!rollbackRun, x, Clone!Secret
      <4>2. \/ UNCHANGED <<left, cloneSite, vhost, row, files>>
            \/ Clone!Gone(cloneSite) /\ left' = left \ {"db", "instance"}
        BY <1>3, <3>1 DEF Clone!rollbackRun, x
      <4>3. QED
        BY <2>1, <3>1, <4>1, <4>2
    <3>2. CASE ~(x = "site" \/ (x = "instance" /\ "site" \in knows))
      <4>1. knows' = knows \ {x} /\ UNCHANGED <<cloneSite, vhost, row, files>>
        BY <1>3, <3>2 DEF Clone!rollbackRun, x
      <4>2. \/ x \notin Clone!Secret /\ left' = left
            \/ left' = left \ {x}
        BY <1>3, <3>2 DEF Clone!rollbackRun, x, Clone!Secret
      <4>3. QED
        BY <2>1, <4>1, <4>2
    <3>3. QED
      BY <3>1, <3>2
  <2>4. Clone!TypeOK' /\ CloneRecordFollows'
    BY <1>1, <2>2, <2>3 DEF CloneInv, Clone!TypeOK, CloneRecordFollows, Clone!Gone
  <2>5. RunKnowsItsOwn'
    BY <1>1, <2>2, <2>3 DEF CloneInv, RunKnowsItsOwn, Clone!Steps
  <2>6. SecretsLeftAt' /\ CopiedFiles' /\ Clone!DoneIsItsOwn' /\ Clone!FailedIsUnwound'
    BY <1>1, <2>2 DEF CloneInv, SecretsLeftAt, SecretsAt, CopiedFiles, Clone!DoneIsItsOwn,
       Clone!FailedIsUnwound, Clone!Steps
  <2>7. QED
    BY <2>4, <2>5, <2>6 DEF CloneInv
<1>4. QED
  BY <1>2, <1>3

(* No clone and no copy at first.                                          *)
LEMMA CloneStarts == Clone!ConstantsOK /\ Clone!Init => CloneInv
<1> SUFFICES ASSUME Clone!ConstantsOK, Clone!Init PROVE CloneInv
  OBVIOUS
<1>1. Clone!TypeOK
  <2>1. clones \in 0..MaxClones /\ cloneKills \in 0..CloneMaxKills
    BY DEF Clone!Init, Clone!ConstantsOK
  <2>2. QED
    BY <2>1 DEF Clone!Init, Clone!TypeOK
<1>2. QED
  BY <1>1 DEF Clone!Init, CloneInv, CloneRecordFollows, RunKnowsItsOwn, SecretsLeftAt,
     SecretsAt, CopiedFiles, Clone!DoneIsItsOwn, Clone!FailedIsUnwound, Clone!Steps

(* The invariant is inductive.                                             *)
LEMMA CloneGoesOn ==
  ASSUME Clone!ConstantsOK, CloneInv, [Clone!Next]_(Clone!vars)
  PROVE  CloneInv'
<1>1. ASSUME Clone!Runner PROVE CloneInv'
  BY <1>1, CloneBeginKeeps, CloneSignInKeeps, CloneReadSourceKeeps, CloneAddTemplateKeeps,
     CloneCreateSiteKeeps, CloneDropTemplateKeeps, CloneCannotCarryKeeps, CloneBackupKeeps,
     CloneWriteVhostKeeps, CloneTestKeeps, CloneWriteRowKeeps, CloneReloadKeeps,
     CloneRestoreKeeps, CloneStockRowKeeps, CloneExportDbKeeps, CloneNoDbKeeps,
     CloneAddDbKeeps, CloneImportDbKeeps, CloneCopyFilesKeeps, CloneSignInToCloneKeeps,
     CloneImportBundleKeeps, CloneRewriteConfigKeeps, CloneRecordResultKeeps,
     CloneFailJobKeeps, CloneRollbackRunKeeps DEF Clone!Runner
<1>2. CASE UNCHANGED Clone!vars
  BY <1>2 DEF Clone!vars, CloneInv, Clone!TypeOK, CloneRecordFollows, RunKnowsItsOwn,
     SecretsLeftAt, SecretsAt, CopiedFiles, Clone!DoneIsItsOwn, Clone!FailedIsUnwound
<1>3. QED
  BY <1>1, <1>2, CloneCmdCloneKeeps, CloneKillRunnerKeeps, ClonePruneJobsKeeps,
     CloneRecoverCarriedVhostsKeeps, CloneOperatorCreatesKeeps, CloneOperatorDeletesKeeps DEF
     Clone!Next

(* The site at the target is changed by the runner that made it, and by    *)
(* CloudPanel.                                                             *)
LEMMA CloneKeepsOthers ==
  ASSUME CloneInv, [Clone!Next]_(Clone!vars)
  PROVE  Clone!OthersKeptStep
<1> SUFFICES ASSUME cloneSite = "other", at # "idle" PROVE cloneSite' = "other" /\ row' = row
  BY DEF Clone!OthersKeptStep
<1>1. "site" \notin knows
  BY DEF CloneInv, RunKnowsItsOwn
<1>2. CASE Clone!rollbackRun
  BY <1>1, <1>2, UnwoundNext DEF Clone!rollbackRun, CloneInv, Clone!TypeOK
<1>3. CASE \/ Clone!cmdClone \/ Clone!Begin \/ Clone!SignIn \/ Clone!ReadSource \/ Clone!AddTemplate
           \/ Clone!CreateSite \/ Clone!DropTemplate
           \/ Clone!CannotCarry \/ Clone!Backup \/ Clone!WriteVhost \/ Clone!Test \/ Clone!WriteRow
           \/ Clone!Reload \/ Clone!Restore \/ Clone!StockRow
  BY <1>1, <1>3 DEF Clone!cmdClone, Clone!Begin, Clone!SignIn, Clone!ReadSource,
     Clone!AddTemplate, Clone!CreateSite, Clone!DropTemplate, Clone!CannotCarry, Clone!Backup,
     Clone!WriteVhost, Clone!Test, Clone!WriteRow, Clone!Reload, Clone!Restore,
     Clone!StockRow, Clone!nginx, Clone!SameBox
<1>4. CASE \/ Clone!ExportDb \/ Clone!NoDb \/ Clone!AddDb \/ Clone!ImportDb \/ Clone!CopyFiles
           \/ Clone!SignInToClone \/ Clone!ImportBundle
           \/ Clone!RewriteConfig \/ Clone!RecordResult \/ Clone!FailJob \/ Clone!KillRunner
           \/ Clone!pruneJobs \/ Clone!recoverCarriedVhosts
           \/ Clone!OperatorCreates \/ Clone!OperatorDeletes \/ UNCHANGED Clone!vars
  BY <1>4 DEF Clone!ExportDb, Clone!NoDb, Clone!AddDb, Clone!ImportDb, Clone!CopyFiles,
     Clone!SignInToClone, Clone!ImportBundle, Clone!RewriteConfig, Clone!RecordResult,
     Clone!FailJob, Clone!KillRunner, Clone!pruneJobs, Clone!recoverCarriedVhosts,
     Clone!OperatorCreates, Clone!OperatorDeletes, Clone!vars, Clone!nginx, Clone!SameBox
<1>5. QED
  BY <1>2, <1>3, <1>4 DEF Clone!Next, Clone!Runner

(* A clone that is done has no runner, which alone writes the vhost.       *)
LEMMA DoneCloneKeepsVhost ==
  ASSUME CloneInv, [Clone!Next]_(Clone!vars)
  PROVE  Clone!DoneKeepsItsVhostStep
<1> SUFFICES ASSUME cloneState = "done", cloneSite = "clone", cloneState' = "done",
                    cloneSite' = "clone"
             PROVE  vhost' = vhost
  BY DEF Clone!DoneKeepsItsVhostStep
<1>1. at = "idle"
  BY DEF CloneInv, Clone!TypeOK, CloneRecordFollows
<1>2. ~Clone!Runner
  BY <1>1 DEF Clone!Runner, Clone!Begin, Clone!SignIn, Clone!ReadSource, Clone!AddTemplate,
     Clone!CreateSite, Clone!DropTemplate, Clone!CannotCarry, Clone!Backup, Clone!WriteVhost,
     Clone!Test, Clone!WriteRow, Clone!Reload, Clone!Restore, Clone!StockRow, Clone!ExportDb,
     Clone!NoDb, Clone!AddDb, Clone!ImportDb, Clone!CopyFiles, Clone!SignInToClone,
     Clone!ImportBundle, Clone!RewriteConfig, Clone!RecordResult, Clone!FailJob,
     Clone!rollbackRun, Clone!Failing
<1>3. QED
  BY <1>1, <1>2 DEF Clone!Next, Clone!cmdClone, Clone!KillRunner, Clone!pruneJobs,
     Clone!recoverCarriedVhosts, Clone!OperatorCreates, Clone!OperatorDeletes, Clone!Gone,
     Clone!vars, Clone!nginx

(* Its invariant while a behaviour is about it.                            *)
CloneHolds == part = "clone" => CloneInv

LEMMA CloneHoldsAtFirst == Init => CloneHolds
<1>1. SUFFICES ASSUME Init, part = "clone" PROVE CloneInv
  BY DEF CloneHolds
<1>2. Clone!Init
  BY <1>1 DEF Init
<1>3. QED
  BY <1>2, Constants, CloneStarts

LEMMA CloneMoves ==
  ASSUME [Next]_vars, part' = "clone"
  PROVE  part = "clone" /\ [Clone!Next]_(Clone!vars)
<1>1. part = "clone" /\ (Clone!Next \/ UNCHANGED cloneVars)
  BY DEF Next, vars
<1>2. QED
  BY <1>1 DEF cloneVars, Clone!vars

LEMMA CloneHoldsOn == CloneHolds /\ [Next]_vars => CloneHolds'
<1>1. SUFFICES ASSUME CloneHolds, [Next]_vars, part' = "clone"
               PROVE  CloneInv'
  BY DEF CloneHolds
<1>2. CloneInv /\ [Clone!Next]_(Clone!vars)
  BY <1>1, CloneMoves DEF CloneHolds
<1>3. QED
  BY <1>2, Constants, CloneGoesOn

(* A clone that is done never runs on the live site's database or files,   *)
(* and of one that failed no copy of the live site's secrets is left,      *)
(* wherever its runner died.                                               *)
THEOREM CloneIsItsOwn ==
  Spec => [](part = "clone" => /\ Clone!TypeOK
                               /\ Clone!DoneIsItsOwn
                               /\ Clone!FailedIsUnwound)
<1>1. Init => CloneHolds
  BY CloneHoldsAtFirst
<1>2. CloneHolds /\ [Next]_vars => CloneHolds'
  BY CloneHoldsOn
<1>3. CloneHolds
        => (part = "clone" => /\ Clone!TypeOK
                              /\ Clone!DoneIsItsOwn
                              /\ Clone!FailedIsUnwound)
  BY DEF CloneHolds, CloneInv
<1>4. QED
  BY <1>1, <1>2, <1>3, PTL DEF Spec

(* A site another has made at the target domain stays as it is while a     *)
(* clone runs, and a clone that is done keeps its vhost.                   *)
THEOREM CloneLeavesOthers ==
  Spec => [][part = "clone" => /\ Clone!OthersKeptStep
                               /\ Clone!DoneKeepsItsVhostStep]_vars
<1>1. Init => CloneHolds
  BY CloneHoldsAtFirst
<1>2. CloneHolds /\ [Next]_vars => CloneHolds'
  BY CloneHoldsOn
<1>3. CloneHolds /\ [Next]_vars
        => [part = "clone" => /\ Clone!OthersKeptStep
                              /\ Clone!DoneKeepsItsVhostStep]_vars
  <2>1. SUFFICES ASSUME CloneHolds, Next, part = "clone"
                 PROVE  Clone!OthersKeptStep /\ Clone!DoneKeepsItsVhostStep
    OBVIOUS
  <2>2. CloneInv /\ Clone!Next
    BY <2>1 DEF CloneHolds, Next
  <2>3. QED
    BY <2>2, Constants, CloneKeepsOthers, DoneCloneKeepsVhost
<1>4. QED
  BY <1>1, <1>2, <1>3, PTL DEF Spec

-----------------------------------------------------------------------------
(* Where a request holds the settings' lock, and where the jobs' lock.     *)
SavesAt == {"write", "save", "prune"}
LooksAt == {"look", "queue"}

(* Each lock and the rendering are of the request that is there.           *)
LocksAreHeld ==
  \A a \in Admins : /\ tweakReq[a].at \in SavesAt <=> tweaksLock = a
                    /\ tweakReq[a].at \in LooksAt <=> jobsLock = a
                    /\ tweakReq[a].at = "rendering" <=> render.by = a

(* What a request read under the lock is still what is saved, and the      *)
(* image it will name is stored.                                           *)
ReadIsSaved ==
  /\ tweaks["disk"] => tweaks["table"]
  /\ \A a \in Admins :
       /\ tweakReq[a].at = "write" => tweakReq[a].cur = tweaks /\ tweakReq[a].was = logos
       /\ tweakReq[a].at = "save" => /\ tweakReq[a].was = logos
                                     /\ tweakReq[a].image \in images \cup {Tweaks!NoImage}

(* An image a slot names is stored.                                        *)
NamedIsKept == \A s \in Slots : logos[s] # Tweaks!NoImage => logos[s] \in images

(* A request that will render what it saved.                               *)
WillRender(r) == r.at = "reinject" \/ (r.at = "prune" /\ tweaks["branding"])
RenderingDue == \E a \in Admins : WillRender(tweakReq[a])
SavedHead == Tweaks!brandingHead(tweaks, logos)

(* The templates carry what is saved, or a rendering under way will put    *)
(* it there, or a request is about to, or it is known that nobody did.     *)
CarriedOrDue ==
  /\ render.by # Tweaks!Nobody => render.clears \/ behind
  /\ ~RenderingDue /\ render.by # Tweaks!Nobody /\ render.clears
       => Tweaks!brandingHead(render.tweaks, render.logos) = SavedHead
  /\ ~RenderingDue /\ render.by = Tweaks!Nobody /\ ~behind => page = SavedHead

(* One measurement is recorded as under way, and whoever is about to       *)
(* record one found none.                                                  *)
OneMeasureAtWork ==
  /\ \A j, k \in Tweaks!Unfinished : j = k
  /\ \A a \in Admins : tweakReq[a].at = "queue" => Tweaks!Unfinished = {}
  /\ \A j \in MeasureJobs : measureJob[j].at # "gone" => j \in Tweaks!Unfinished

(* Who sweeps holds the disk, with the newest of the sweeps begun; a job   *)
(* that waits remembers sizes no newer than those on file.                 *)
OneSweep ==
  /\ sizes <= begun
  /\ sweeper.at = "sweep" => scanLock = Tweaks!Timer /\ sweeper.sweep = begun /\ sizes < begun
  /\ \A j \in MeasureJobs :
       /\ measureJob[j].at = "sweep" =>
            /\ scanLock = "job" /\ measureJob[j].sweep = begun /\ sizes < begun
            /\ \A k \in MeasureJobs : measureJob[k].at = "sweep" => k = j
       /\ measureJob[j].at \in {"lock", "sweep"} => measureJob[j].before <= sizes
       /\ measureJob[j].at = "record" =>
            measureJob[j].before < measureJob[j].result /\ measureJob[j].result <= sizes

(* The inductive invariant of the settings and the measurements.           *)
TweaksInv == /\ Tweaks!TypeOK /\ LocksAreHeld /\ ReadIsSaved /\ NamedIsKept /\ CarriedOrDue
             /\ OneMeasureAtWork /\ OneSweep

(* What a step of one leaves alone.                                        *)
OtherChangesStay(a) == /\ tweakReq' \in [Admins -> Tweaks!Changes]
                       /\ \A b \in Admins \ {a} : tweakReq'[b] = tweakReq[b]
SameChange(r, s) == /\ r.key = s.key /\ r.value = s.value /\ r.slot = s.slot
                    /\ r.image = s.image /\ r.cur = s.cur /\ r.was = s.was
OtherJobsStay(j) == /\ measureJob' \in [MeasureJobs -> Tweaks!Measurements]
                    /\ \A k \in MeasureJobs \ {j} : measureJob'[k] = measureJob[k]
PanelStays == UNCHANGED <<tweaks, logos, images, page, render, behind>>
TweakLocksStay == UNCHANGED <<tweaksLock, jobsLock>>
SizesStay == UNCHANGED <<measureJob, scanLock, sweeper, sizes, begun>>
AsksCounted == tweakAsks' \in 0..MaxTweakAsks /\ tweakMishaps' \in 0..MaxTweakMishaps
TweakSettingsStay == UNCHANGED <<tweaks, logos, images, page, render, behind, tweaksLock,
    jobsLock, tweakReq>>

(* What the values of nothing are.                                         *)
LEMMA BlankChanges ==
  ASSUME Tweaks!ConstantsOK
  PROVE  /\ Tweaks!Rested \in Tweaks!Changes /\ Tweaks!Rested.at = "rest"
         /\ Tweaks!NotRendering \in Tweaks!Renderings
         /\ Tweaks!NotRendering.by = Tweaks!Nobody /\ Tweaks!NotRendering.clears = FALSE
         /\ Tweaks!NoSweep \in Tweaks!Sweeps /\ Tweaks!NoSweep.at = "rest"
         /\ Tweaks!NoMeasure \in Tweaks!Measurements /\ Tweaks!NoMeasure.state = "none"
         /\ Tweaks!NoMeasure.at = "gone"
         /\ Tweaks!Nobody \notin Admins /\ Tweaks!Timer \notin Admins
         /\ Tweaks!Nobody # Tweaks!Timer
         /\ Tweaks!Nobody # "job" /\ Tweaks!Timer # "job"
         /\ "table" \in TweakKeys /\ "disk" \in TweakKeys /\ "branding" \in TweakKeys
         /\ "branding" \in Tweaks!TEMPLATE_TWEAK_KEYS
         /\ Tweaks!NoImage \notin Images
<1> USE DEF Tweaks!ConstantsOK, Tweaks!Nobody, Tweaks!Timer
<1>1. Tweaks!Rested \in Tweaks!Changes /\ Tweaks!Rested.at = "rest"
  BY DEF Tweaks!Rested, Tweaks!Changes, Tweaks!Switches, Tweaks!SlotImages
<1>2. /\ Tweaks!NotRendering \in Tweaks!Renderings /\ Tweaks!NotRendering.by = Tweaks!Nobody
      /\ Tweaks!NotRendering.clears = FALSE
  BY DEF Tweaks!NotRendering, Tweaks!Renderings, Tweaks!Switches, Tweaks!SlotImages
<1>3. /\ Tweaks!NoSweep \in Tweaks!Sweeps /\ Tweaks!NoSweep.at = "rest"
      /\ Tweaks!NoMeasure \in Tweaks!Measurements /\ Tweaks!NoMeasure.state = "none"
      /\ Tweaks!NoMeasure.at = "gone"
  BY DEF Tweaks!NoSweep, Tweaks!Sweeps, Tweaks!NoMeasure, Tweaks!Measurements
<1>4. QED
  BY <1>1, <1>2, <1>3 DEF Tweaks!TEMPLATE_TWEAK_KEYS

(* What the templates carry of the settings.                               *)
LEMMA HeadTyped ==
  ASSUME Tweaks!ConstantsOK, NEW t \in Tweaks!Switches, NEW l \in Tweaks!SlotImages
  PROVE  Tweaks!brandingHead(t, l) \in [on : BOOLEAN, names : SUBSET Images]
<1>1. t["branding"] \in BOOLEAN
  BY BlankChanges DEF Tweaks!Switches
<1>2. \A s \in Slots : l[s] \in Images \cup {Tweaks!NoImage}
  BY DEF Tweaks!SlotImages
<1>3. QED
  BY <1>1, <1>2 DEF Tweaks!brandingHead

LEMMA HeadOff ==
  ASSUME Tweaks!ConstantsOK, NEW t \in Tweaks!Switches, ~t["branding"], NEW l, NEW k
  PROVE  Tweaks!brandingHead(t, l) = Tweaks!brandingHead(t, k)
BY DEF Tweaks!brandingHead

LEMMA HeadSame ==
  ASSUME NEW t, NEW u, NEW l, t["branding"] = u["branding"]
  PROVE  Tweaks!brandingHead(t, l) = Tweaks!brandingHead(u, l)
BY DEF Tweaks!brandingHead

(* The parts of the state keep their types.                                *)
LEMMA TweaksTyped ==
  ASSUME Tweaks!TypeOK
  PROVE  /\ tweaks \in Tweaks!Switches /\ logos \in Tweaks!SlotImages /\ images \subseteq Images
         /\ page \in [on : BOOLEAN, names : SUBSET Images]
         /\ tweakReq \in [Admins -> Tweaks!Changes] /\ behind \in BOOLEAN
         /\ render \in Tweaks!Renderings
         /\ render.by \in Admins \cup {Tweaks!Nobody, Tweaks!Timer}
         /\ render.clears \in BOOLEAN /\ render.tweaks \in Tweaks!Switches
         /\ render.logos \in Tweaks!SlotImages
         /\ measureJob \in [MeasureJobs -> Tweaks!Measurements] /\ sweeper \in Tweaks!Sweeps
         /\ sweeper.at \in {"rest", "lock", "sweep"} /\ sweeper.sweep \in 0..MaxSweeps
         /\ sizes \in 0..MaxSweeps /\ begun \in 0..MaxSweeps
BY DEF Tweaks!TypeOK, Tweaks!Renderings, Tweaks!Sweeps

LEMMA ChangeTyped ==
  ASSUME Tweaks!TypeOK, NEW a \in Admins
  PROVE  /\ tweakReq[a] \in Tweaks!Changes
         /\ tweakReq[a].key \in TweakKeys \cup {""} /\ tweakReq[a].value \in BOOLEAN
         /\ tweakReq[a].slot \in Slots \cup {""}
         /\ tweakReq[a].image \in Images \cup {Tweaks!NoImage}
         /\ tweakReq[a].cur \in Tweaks!Switches /\ tweakReq[a].was \in Tweaks!SlotImages
BY DEF Tweaks!TypeOK, Tweaks!Changes

LEMMA MeasureTyped ==
  ASSUME Tweaks!TypeOK, NEW j \in MeasureJobs
  PROVE  /\ measureJob[j] \in Tweaks!Measurements
         /\ measureJob[j].state \in {"none", "queued", "running", "done", "failed"}
         /\ measureJob[j].at \in {"gone", "start", "lock", "sweep", "record"}
         /\ measureJob[j].before \in 0..MaxSweeps /\ measureJob[j].sweep \in 0..MaxSweeps
         /\ measureJob[j].result \in 0..MaxSweeps
BY DEF Tweaks!TypeOK, Tweaks!Measurements

(* A request moves, ends, is asked; a record changes.                      *)
LEMMA ChangeGoes ==
  ASSUME Tweaks!TypeOK, NEW a \in Admins, NEW to, Tweaks!Goes(a, to),
         to \in {"save", "prune", "reinject", "rendering", "look", "queue"}
  PROVE  OtherChangesStay(a) /\ tweakReq'[a].at = to /\ SameChange(tweakReq'[a], tweakReq[a])
<1>1. [tweakReq[a] EXCEPT !.at = to] \in Tweaks!Changes
  BY ChangeTyped DEF Tweaks!Changes
<1>2. tweakReq' = [tweakReq EXCEPT ![a] = [tweakReq[a] EXCEPT !.at = to]]
  BY DEF Tweaks!Goes
<1>3. /\ [tweakReq[a] EXCEPT !.at = to].at = to
      /\ SameChange([tweakReq[a] EXCEPT !.at = to], tweakReq[a])
  BY ChangeTyped DEF Tweaks!Changes, SameChange
<1>4. QED
  BY <1>1, <1>2, <1>3, TweaksTyped DEF OtherChangesStay

LEMMA ChangeEnds ==
  ASSUME Tweaks!ConstantsOK, Tweaks!TypeOK, NEW a \in Admins, Tweaks!Ends(a)
  PROVE  OtherChangesStay(a) /\ tweakReq'[a].at = "rest"
BY BlankChanges, TweaksTyped DEF Tweaks!Ends, OtherChangesStay

LEMMA ChangeIsAsked ==
  ASSUME Tweaks!ConstantsOK, Tweaks!TypeOK, NEW a \in Admins, Tweaks!May(a)
  PROVE  tweakReq[a].at = "rest" /\ tweakAsks' \in 0..MaxTweakAsks
BY DEF Tweaks!May, Tweaks!TypeOK, Tweaks!ConstantsOK

LEMMA MeasureBecomes ==
  ASSUME Tweaks!TypeOK, NEW j \in MeasureJobs, NEW m \in Tweaks!Measurements,
      Tweaks!Becomes(j, m)
  PROVE  OtherJobsStay(j) /\ measureJob'[j] = m
BY TweaksTyped DEF Tweaks!Becomes, OtherJobsStay

(* What does not move keeps it.                                            *)
LEMMA SettingsRest ==
  ASSUME LocksAreHeld, ReadIsSaved, NamedIsKept, CarriedOrDue, TweakSettingsStay
  PROVE  LocksAreHeld' /\ ReadIsSaved' /\ NamedIsKept' /\ CarriedOrDue'
BY DEF TweakSettingsStay, LocksAreHeld, ReadIsSaved, NamedIsKept, CarriedOrDue, RenderingDue,
   WillRender, SavedHead

LEMMA SizesRest ==
  ASSUME OneSweep, SizesStay
  PROVE  OneSweep'
BY DEF SizesStay, OneSweep

(* A change, from the asking to the end of its saving.                     *)
LEMMA TweaksAsksKeeps ==
  ASSUME Tweaks!ConstantsOK, TweaksInv, NEW a \in Admins,
         \/ \E key \in TweakKeys, on \in BOOLEAN : Tweaks!AskSwitch(a, key, on)
         \/ \E slot \in Slots,
             image \in Images \cup {Tweaks!NoImage} : Tweaks!AskImage(a, slot, image)
  PROVE  TweaksInv'
<1> USE DEF TweaksInv
<1>0. /\ OtherChangesStay(a) /\ tweakReq[a].at = "rest" /\ tweakReq'[a].at = "lock"
      /\ PanelStays
      /\ TweakLocksStay /\ SizesStay /\ AsksCounted
  <2>1. ASSUME NEW key \in TweakKeys, NEW on \in BOOLEAN
        PROVE  [Tweaks!Rested EXCEPT !.at = "lock", !.key = key, !.value = on]
                   \in Tweaks!Changes
    BY BlankChanges DEF Tweaks!Changes
  <2>2. ASSUME NEW slot \in Slots, NEW image \in Images \cup {Tweaks!NoImage}
        PROVE  [Tweaks!Rested EXCEPT !.at = "lock", !.slot = slot, !.image = image]
                   \in Tweaks!Changes
    BY BlankChanges DEF Tweaks!Changes
  <2>3. \E r \in Tweaks!Changes : r.at = "lock" /\ tweakReq' = [tweakReq EXCEPT ![a] = r]
    BY <2>1, <2>2 DEF Tweaks!AskSwitch, Tweaks!AskImage, Tweaks!Rested
  <2>4. Tweaks!May(a) /\ PanelStays /\ TweakLocksStay /\ SizesStay /\ UNCHANGED tweakMishaps
    BY DEF Tweaks!AskSwitch, Tweaks!AskImage, Tweaks!settings, Tweaks!measuring, PanelStays,
       TweakLocksStay, SizesStay
  <2>5. QED
    BY <2>3, <2>4, ChangeIsAsked, TweaksTyped DEF OtherChangesStay, AsksCounted, Tweaks!TypeOK
<1>1. Tweaks!TypeOK'
  BY <1>0, TweaksTyped DEF Tweaks!TypeOK, PanelStays, TweakLocksStay, SizesStay, AsksCounted,
     OtherChangesStay, SameChange
<1>2. LocksAreHeld'
  BY <1>0, BlankChanges DEF LocksAreHeld, SavesAt, LooksAt, PanelStays, TweakLocksStay,
     SizesStay, AsksCounted, OtherChangesStay, SameChange
<1>3. ReadIsSaved'
  BY <1>0 DEF ReadIsSaved, LocksAreHeld, SavesAt, PanelStays, TweakLocksStay, SizesStay,
     AsksCounted, OtherChangesStay, SameChange
<1>4. NamedIsKept'
  BY <1>0 DEF NamedIsKept, PanelStays, TweakLocksStay, SizesStay, AsksCounted,
     OtherChangesStay, SameChange
<1>5. CarriedOrDue'
  BY <1>0 DEF CarriedOrDue, RenderingDue, WillRender, SavedHead, PanelStays, TweakLocksStay,
     SizesStay, AsksCounted, OtherChangesStay, SameChange
<1>6. OneMeasureAtWork'
  BY <1>0 DEF OneMeasureAtWork, Tweaks!Unfinished, PanelStays, TweakLocksStay, SizesStay,
     AsksCounted, OtherChangesStay, SameChange
<1>7. OneSweep'
  BY <1>0, SizesRest
<1>8. QED
  BY <1>1, <1>2, <1>3, <1>4, <1>5, <1>6, <1>7

LEMMA TweaksTakeLockKeeps ==
  ASSUME Tweaks!ConstantsOK, TweaksInv, NEW a \in Admins, Tweaks!TakeLock(a)
  PROVE  TweaksInv'
<1> USE DEF TweaksInv
<1>0. /\ OtherChangesStay(a) /\ tweakReq[a].at = "lock" /\ tweaksLock = Tweaks!Nobody
      /\ tweaksLock' = a
      /\ jobsLock' = jobsLock /\ tweakReq'[a].at = "write" /\ tweakReq'[a].cur = tweaks
      /\ tweakReq'[a].was = logos /\ PanelStays /\ SizesStay /\ AsksCounted
  <2>1. [tweakReq[a] EXCEPT !.at = "write", !.cur = tweaks, !.was = logos] \in Tweaks!Changes
    BY ChangeTyped, TweaksTyped DEF Tweaks!Changes
  <2>2. tweakReq' = [tweakReq EXCEPT ![a] =
                         [tweakReq[a] EXCEPT !.at = "write", !.cur = tweaks, !.was = logos]]
    BY DEF Tweaks!TakeLock
  <2>3. /\ tweakReq'[a].at = "write" /\ tweakReq'[a].cur = tweaks /\ tweakReq'[a].was = logos
        /\ OtherChangesStay(a)
    BY <2>1, <2>2, ChangeTyped, TweaksTyped DEF Tweaks!Changes, OtherChangesStay
  <2>4. QED
    BY <2>3 DEF Tweaks!TakeLock, Tweaks!measuring, Tweaks!counts, PanelStays, SizesStay,
       AsksCounted, Tweaks!TypeOK
<1>1. Tweaks!TypeOK'
  BY <1>0, TweaksTyped DEF Tweaks!TypeOK, PanelStays, TweakLocksStay, SizesStay, AsksCounted,
     OtherChangesStay, SameChange
<1>2. LocksAreHeld'
  BY <1>0, BlankChanges DEF LocksAreHeld, SavesAt, LooksAt, PanelStays, TweakLocksStay,
     SizesStay, AsksCounted, OtherChangesStay, SameChange
<1>3. ReadIsSaved'
  BY <1>0 DEF ReadIsSaved, LocksAreHeld, SavesAt, PanelStays, TweakLocksStay, SizesStay,
     AsksCounted, OtherChangesStay, SameChange
<1>4. NamedIsKept'
  BY <1>0 DEF NamedIsKept, PanelStays, TweakLocksStay, SizesStay, AsksCounted,
     OtherChangesStay, SameChange
<1>5. CarriedOrDue'
  BY <1>0 DEF CarriedOrDue, RenderingDue, WillRender, SavedHead, PanelStays, TweakLocksStay,
     SizesStay, AsksCounted, OtherChangesStay, SameChange
<1>6. OneMeasureAtWork'
  BY <1>0 DEF OneMeasureAtWork, Tweaks!Unfinished, PanelStays, TweakLocksStay, SizesStay,
     AsksCounted, OtherChangesStay, SameChange
<1>7. OneSweep'
  BY <1>0, SizesRest
<1>8. QED
  BY <1>1, <1>2, <1>3, <1>4, <1>5, <1>6, <1>7

LEMMA TweaksLockTimeoutKeeps ==
  ASSUME Tweaks!ConstantsOK, TweaksInv, NEW a \in Admins, Tweaks!LockTimeout(a)
  PROVE  TweaksInv'
<1> USE DEF TweaksInv
<1>0. /\ OtherChangesStay(a) /\ tweakReq[a].at = "lock" /\ tweakReq'[a].at = "rest"
      /\ PanelStays
      /\ TweakLocksStay /\ SizesStay /\ AsksCounted
  BY ChangeEnds DEF Tweaks!LockTimeout, Tweaks!settings, Tweaks!measuring, Tweaks!counts,
     PanelStays, TweakLocksStay, SizesStay, AsksCounted, Tweaks!TypeOK
<1>1. Tweaks!TypeOK'
  BY <1>0, TweaksTyped DEF Tweaks!TypeOK, PanelStays, TweakLocksStay, SizesStay, AsksCounted,
     OtherChangesStay, SameChange
<1>2. LocksAreHeld'
  BY <1>0, BlankChanges DEF LocksAreHeld, SavesAt, LooksAt, PanelStays, TweakLocksStay,
     SizesStay, AsksCounted, OtherChangesStay, SameChange
<1>3. ReadIsSaved'
  BY <1>0 DEF ReadIsSaved, LocksAreHeld, SavesAt, PanelStays, TweakLocksStay, SizesStay,
     AsksCounted, OtherChangesStay, SameChange
<1>4. NamedIsKept'
  BY <1>0 DEF NamedIsKept, PanelStays, TweakLocksStay, SizesStay, AsksCounted,
     OtherChangesStay, SameChange
<1>5. CarriedOrDue'
  BY <1>0 DEF CarriedOrDue, RenderingDue, WillRender, SavedHead, PanelStays, TweakLocksStay,
     SizesStay, AsksCounted, OtherChangesStay, SameChange
<1>6. OneMeasureAtWork'
  BY <1>0 DEF OneMeasureAtWork, Tweaks!Unfinished, PanelStays, TweakLocksStay, SizesStay,
     AsksCounted, OtherChangesStay, SameChange
<1>7. OneSweep'
  BY <1>0, SizesRest
<1>8. QED
  BY <1>1, <1>2, <1>3, <1>4, <1>5, <1>6, <1>7

LEMMA TweaksSetTweaksKeeps ==
  ASSUME Tweaks!ConstantsOK, TweaksInv, NEW a \in Admins, Tweaks!setTweaks(a)
  PROVE  TweaksInv'
<1> USE DEF TweaksInv
<1>0. /\ OtherChangesStay(a) /\ tweakReq[a].at = "write" /\ tweaksLock' = Tweaks!Nobody
      /\ jobsLock' = jobsLock /\ tweaks' \in Tweaks!Switches
      /\ tweaks' = Tweaks!Wanted(tweakReq[a])
      /\ (tweaks'["disk"] => tweaks'["table"])
      /\ (tweakReq'[a].at = "reinject"
             \/ (tweakReq'[a].at = "rest" /\ tweaks'["branding"] = tweaks["branding"]))
      /\ UNCHANGED <<logos, images, page, render, behind>> /\ SizesStay /\ AsksCounted
  <2> DEFINE put == [tweakReq[a].cur EXCEPT ![tweakReq[a].key] = tweakReq[a].value]
  <2>1. tweakReq[a].cur = tweaks
    BY DEF Tweaks!setTweaks, ReadIsSaved
  <2>2. /\ tweaks' = Tweaks!Wanted(tweakReq[a]) /\ tweaksLock' = Tweaks!Nobody
        /\ tweakReq[a].at = "write"
        /\ UNCHANGED <<logos, images, page, render, behind>> /\ SizesStay
        /\ jobsLock' = jobsLock
        /\ AsksCounted
    BY DEF Tweaks!setTweaks, Tweaks!measuring, Tweaks!counts, SizesStay, AsksCounted,
       Tweaks!TypeOK
  <2>3. put \in Tweaks!Switches
    BY ChangeTyped DEF Tweaks!Switches
  <2>4. Tweaks!Wanted(tweakReq[a]) \in Tweaks!Switches
    BY <2>3, BlankChanges DEF Tweaks!Wanted, Tweaks!withTweakDependencies, Tweaks!Switches
  <2>5. Tweaks!Wanted(tweakReq[a])["disk"] => Tweaks!Wanted(tweakReq[a])["table"]
    BY <2>3, BlankChanges DEF Tweaks!Wanted, Tweaks!withTweakDependencies, Tweaks!Switches
  <2>6. \/ Tweaks!Goes(a, "reinject")
        \/ Tweaks!Ends(a) /\ Tweaks!Wanted(tweakReq[a])["branding"] = tweaks["branding"]
    BY <2>1, BlankChanges DEF Tweaks!setTweaks
  <2>7. QED
    BY <2>2, <2>4, <2>5, <2>6, ChangeGoes, ChangeEnds
<1>1. Tweaks!TypeOK'
  BY <1>0, TweaksTyped DEF Tweaks!TypeOK, PanelStays, TweakLocksStay, SizesStay, AsksCounted,
     OtherChangesStay, SameChange
<1>2. LocksAreHeld'
  BY <1>0, BlankChanges DEF LocksAreHeld, SavesAt, LooksAt, PanelStays, TweakLocksStay,
     SizesStay, AsksCounted, OtherChangesStay, SameChange
<1>3. ReadIsSaved'
  BY <1>0 DEF ReadIsSaved, LocksAreHeld, SavesAt, PanelStays, TweakLocksStay, SizesStay,
     AsksCounted, OtherChangesStay, SameChange
<1>4. NamedIsKept'
  BY <1>0 DEF NamedIsKept, PanelStays, TweakLocksStay, SizesStay, AsksCounted,
     OtherChangesStay, SameChange
<1>5. CarriedOrDue'
  <2>1. CASE tweakReq'[a].at = "reinject"
    BY <1>0, <2>1 DEF CarriedOrDue, RenderingDue, WillRender
  <2>2. CASE tweakReq'[a].at = "rest" /\ tweaks'["branding"] = tweaks["branding"]
    <3>1. SavedHead' = SavedHead
      BY <1>0, <2>2, HeadSame DEF SavedHead
    <3>2. ~RenderingDue' => ~RenderingDue
      BY <1>0, <2>2 DEF RenderingDue, WillRender, OtherChangesStay
    <3>3. QED
      BY <1>0, <3>1, <3>2 DEF CarriedOrDue
  <2>3. QED
    BY <1>0, <2>1, <2>2
<1>6. OneMeasureAtWork'
  BY <1>0 DEF OneMeasureAtWork, Tweaks!Unfinished, PanelStays, TweakLocksStay, SizesStay,
     AsksCounted, OtherChangesStay, SameChange
<1>7. OneSweep'
  BY <1>0, SizesRest
<1>8. QED
  BY <1>1, <1>2, <1>3, <1>4, <1>5, <1>6, <1>7

LEMMA TweaksStoreAssetKeeps ==
  ASSUME Tweaks!ConstantsOK, TweaksInv, NEW a \in Admins, Tweaks!storeAsset(a)
  PROVE  TweaksInv'
<1> USE DEF TweaksInv
<1>0. /\ OtherChangesStay(a) /\ SameChange(tweakReq'[a], tweakReq[a])
      /\ tweakReq[a].at = "write"
      /\ tweakReq'[a].at = "save"
      /\ images' = images \cup ({tweakReq[a].image} \ {Tweaks!NoImage})
      /\ images' \subseteq Images /\ TweakLocksStay
      /\ UNCHANGED <<tweaks, logos, page, render, behind>> /\ SizesStay /\ AsksCounted
  <2>1. images' = images \cup ({tweakReq[a].image} \ {Tweaks!NoImage}) /\ Tweaks!Goes(a, "save")
    BY DEF Tweaks!storeAsset
  <2>2. images' \subseteq Images
    BY <2>1, ChangeTyped, TweaksTyped
  <2>3. QED
    BY <2>1, <2>2, ChangeGoes DEF Tweaks!storeAsset, Tweaks!measuring, Tweaks!counts,
       TweakLocksStay, SizesStay, AsksCounted, Tweaks!TypeOK
<1>1. Tweaks!TypeOK'
  BY <1>0, TweaksTyped DEF Tweaks!TypeOK, PanelStays, TweakLocksStay, SizesStay, AsksCounted,
     OtherChangesStay, SameChange
<1>2. LocksAreHeld'
  BY <1>0, BlankChanges DEF LocksAreHeld, SavesAt, LooksAt, PanelStays, TweakLocksStay,
     SizesStay, AsksCounted, OtherChangesStay, SameChange
<1>3. ReadIsSaved'
  BY <1>0 DEF ReadIsSaved, LocksAreHeld, SavesAt, PanelStays, TweakLocksStay, SizesStay,
     AsksCounted, OtherChangesStay, SameChange
<1>4. NamedIsKept'
  BY <1>0 DEF NamedIsKept, PanelStays, TweakLocksStay, SizesStay, AsksCounted,
     OtherChangesStay, SameChange
<1>5. CarriedOrDue'
  BY <1>0 DEF CarriedOrDue, RenderingDue, WillRender, SavedHead, PanelStays, TweakLocksStay,
     SizesStay, AsksCounted, OtherChangesStay, SameChange
<1>6. OneMeasureAtWork'
  BY <1>0 DEF OneMeasureAtWork, Tweaks!Unfinished, PanelStays, TweakLocksStay, SizesStay,
     AsksCounted, OtherChangesStay, SameChange
<1>7. OneSweep'
  BY <1>0, SizesRest
<1>8. QED
  BY <1>1, <1>2, <1>3, <1>4, <1>5, <1>6, <1>7

LEMMA TweaksWriteBrandingKeeps ==
  ASSUME Tweaks!ConstantsOK, TweaksInv, NEW a \in Admins, Tweaks!writeBranding(a)
  PROVE  TweaksInv'
<1> USE DEF TweaksInv
<1>0. /\ OtherChangesStay(a) /\ tweakReq[a].at = "save" /\ tweakReq'[a].at = "prune"
      /\ logos' \in Tweaks!SlotImages
      /\ \A s \in Slots : logos'[s] = logos[s] \/ logos'[s] = tweakReq[a].image
      /\ tweakReq[a].image \in images \cup {Tweaks!NoImage} /\ TweakLocksStay
      /\ UNCHANGED <<tweaks, images, page, render, behind>> /\ SizesStay /\ AsksCounted
  <2>1. tweakReq[a].was = logos /\ tweakReq[a].image \in images \cup {Tweaks!NoImage}
    BY DEF Tweaks!writeBranding, ReadIsSaved
  <2>2. /\ logos' = [logos EXCEPT ![tweakReq[a].slot] = tweakReq[a].image]
        /\ Tweaks!Goes(a, "prune")
    BY <2>1 DEF Tweaks!writeBranding, Tweaks!Branded
  <2>3. logos' \in Tweaks!SlotImages /\ \A s \in Slots : logos'[s] = logos[s]
            \/ logos'[s] = tweakReq[a].image
    BY <2>2, ChangeTyped, TweaksTyped DEF Tweaks!SlotImages
  <2>4. QED
    BY <2>1, <2>2, <2>3, ChangeGoes DEF Tweaks!writeBranding, Tweaks!measuring,
       Tweaks!counts, TweakLocksStay, SizesStay, AsksCounted, Tweaks!TypeOK
<1>1. Tweaks!TypeOK'
  BY <1>0, TweaksTyped DEF Tweaks!TypeOK, PanelStays, TweakLocksStay, SizesStay, AsksCounted,
     OtherChangesStay, SameChange
<1>2. LocksAreHeld'
  BY <1>0, BlankChanges DEF LocksAreHeld, SavesAt, LooksAt, PanelStays, TweakLocksStay,
     SizesStay, AsksCounted, OtherChangesStay, SameChange
<1>3. ReadIsSaved'
  BY <1>0 DEF ReadIsSaved, LocksAreHeld, SavesAt, PanelStays, TweakLocksStay, SizesStay,
     AsksCounted, OtherChangesStay, SameChange
<1>4. NamedIsKept'
  BY <1>0 DEF NamedIsKept, PanelStays, TweakLocksStay, SizesStay, AsksCounted,
     OtherChangesStay, SameChange
<1>5. CarriedOrDue'
  <2>1. CASE tweaks["branding"]
    BY <1>0, <2>1 DEF CarriedOrDue, RenderingDue, WillRender
  <2>2. CASE ~tweaks["branding"]
    <3>1. SavedHead' = SavedHead
      BY <1>0, <2>2, HeadOff, TweaksTyped DEF SavedHead
    <3>2. ~RenderingDue' => ~RenderingDue
      BY <1>0, <2>2 DEF RenderingDue, WillRender, OtherChangesStay
    <3>3. QED
      BY <1>0, <3>1, <3>2 DEF CarriedOrDue
  <2>3. QED
    BY <2>1, <2>2
<1>6. OneMeasureAtWork'
  BY <1>0 DEF OneMeasureAtWork, Tweaks!Unfinished, PanelStays, TweakLocksStay, SizesStay,
     AsksCounted, OtherChangesStay, SameChange
<1>7. OneSweep'
  BY <1>0, SizesRest
<1>8. QED
  BY <1>1, <1>2, <1>3, <1>4, <1>5, <1>6, <1>7

LEMMA TweaksPruneAssetsKeeps ==
  ASSUME Tweaks!ConstantsOK, TweaksInv, NEW a \in Admins, Tweaks!pruneAssets(a)
  PROVE  TweaksInv'
<1> USE DEF TweaksInv
<1>0. /\ OtherChangesStay(a) /\ tweakReq[a].at = "prune" /\ tweaksLock' = Tweaks!Nobody
      /\ jobsLock' = jobsLock /\ images' = images \cap {logos[s] : s \in Slots}
      /\ (tweakReq'[a].at = "reinject" \/ (tweakReq'[a].at = "rest" /\ ~tweaks["branding"]))
      /\ UNCHANGED <<tweaks, logos, page, render, behind>> /\ SizesStay /\ AsksCounted
  <2>1. Tweaks!Goes(a, "reinject") \/ (Tweaks!Ends(a) /\ ~tweaks["branding"])
    BY DEF Tweaks!pruneAssets
  <2>2. QED
    BY <2>1, ChangeGoes, ChangeEnds DEF Tweaks!pruneAssets, Tweaks!measuring, Tweaks!counts,
       SizesStay, AsksCounted, Tweaks!TypeOK
<1>1. Tweaks!TypeOK'
  BY <1>0, TweaksTyped DEF Tweaks!TypeOK, PanelStays, TweakLocksStay, SizesStay, AsksCounted,
     OtherChangesStay, SameChange
<1>2. LocksAreHeld'
  BY <1>0, BlankChanges DEF LocksAreHeld, SavesAt, LooksAt, PanelStays, TweakLocksStay,
     SizesStay, AsksCounted, OtherChangesStay, SameChange
<1>3. ReadIsSaved'
  BY <1>0 DEF ReadIsSaved, LocksAreHeld, SavesAt, PanelStays, TweakLocksStay, SizesStay,
     AsksCounted, OtherChangesStay, SameChange
<1>4. NamedIsKept'
  BY <1>0 DEF NamedIsKept, PanelStays, TweakLocksStay, SizesStay, AsksCounted,
     OtherChangesStay, SameChange
<1>5. CarriedOrDue'
  BY <1>0 DEF CarriedOrDue, RenderingDue, WillRender, SavedHead, PanelStays, TweakLocksStay,
     SizesStay, AsksCounted, OtherChangesStay, SameChange
<1>6. OneMeasureAtWork'
  BY <1>0 DEF OneMeasureAtWork, Tweaks!Unfinished, PanelStays, TweakLocksStay, SizesStay,
     AsksCounted, OtherChangesStay, SameChange
<1>7. OneSweep'
  BY <1>0, SizesRest
<1>8. QED
  BY <1>1, <1>2, <1>3, <1>4, <1>5, <1>6, <1>7

(* The rendering, refused or not, and a kill.                              *)
LEMMA TweaksReinjectTemplatesKeeps ==
  ASSUME Tweaks!ConstantsOK, TweaksInv, NEW a \in Admins, Tweaks!reinjectTemplates(a)
  PROVE  TweaksInv'
<1> USE DEF TweaksInv
<1>0. /\ OtherChangesStay(a) /\ tweakReq[a].at = "reinject" /\ tweakReq'[a].at = "rendering"
      /\ render.by = Tweaks!Nobody /\ render' \in Tweaks!Renderings /\ render'.by = a
      /\ render'.clears = TRUE /\ render'.tweaks = tweaks /\ render'.logos = logos
      /\ UNCHANGED <<tweaks, logos, images, page, behind>> /\ TweakLocksStay /\ SizesStay
      /\ AsksCounted
  <2>1. /\ render' = [by |-> a, clears |-> TRUE, tweaks |-> tweaks, logos |-> logos]
        /\ Tweaks!Goes(a, "rendering")
    BY DEF Tweaks!reinjectTemplates
  <2>2. render' \in Tweaks!Renderings
    BY <2>1, TweaksTyped DEF Tweaks!Renderings
  <2>3. QED
    BY <2>1, <2>2, ChangeGoes DEF Tweaks!reinjectTemplates, Tweaks!settings,
       Tweaks!measuring, Tweaks!counts, TweakLocksStay, SizesStay, AsksCounted, Tweaks!TypeOK
<1>1. Tweaks!TypeOK'
  BY <1>0, TweaksTyped DEF Tweaks!TypeOK, PanelStays, TweakLocksStay, SizesStay, AsksCounted,
     OtherChangesStay, SameChange
<1>2. LocksAreHeld'
  BY <1>0, BlankChanges DEF LocksAreHeld, SavesAt, LooksAt, PanelStays, TweakLocksStay,
     SizesStay, AsksCounted, OtherChangesStay, SameChange
<1>3. ReadIsSaved'
  BY <1>0 DEF ReadIsSaved, LocksAreHeld, SavesAt, PanelStays, TweakLocksStay, SizesStay,
     AsksCounted, OtherChangesStay, SameChange
<1>4. NamedIsKept'
  BY <1>0 DEF NamedIsKept, PanelStays, TweakLocksStay, SizesStay, AsksCounted,
     OtherChangesStay, SameChange
<1>5. CarriedOrDue'
  BY <1>0, BlankChanges DEF CarriedOrDue, SavedHead
<1>6. OneMeasureAtWork'
  BY <1>0 DEF OneMeasureAtWork, Tweaks!Unfinished, PanelStays, TweakLocksStay, SizesStay,
     AsksCounted, OtherChangesStay, SameChange
<1>7. OneSweep'
  BY <1>0, SizesRest
<1>8. QED
  BY <1>1, <1>2, <1>3, <1>4, <1>5, <1>6, <1>7

LEMMA TweaksRenderBusyKeeps ==
  ASSUME Tweaks!ConstantsOK, TweaksInv, NEW a \in Admins, Tweaks!RenderBusy(a)
  PROVE  TweaksInv'
<1> USE DEF TweaksInv
<1>0. /\ OtherChangesStay(a) /\ tweakReq[a].at = "reinject" /\ tweakReq'[a].at = "rest"
      /\ render' \in Tweaks!Renderings /\ render'.by = render.by /\ render'.clears = FALSE
      /\ behind' = TRUE /\ UNCHANGED <<tweaks, logos, images, page>> /\ TweakLocksStay
      /\ SizesStay /\ AsksCounted
  <2>1. render' = [render EXCEPT !.clears = FALSE] /\ Tweaks!Ends(a)
    BY DEF Tweaks!RenderBusy
  <2>2. render' \in Tweaks!Renderings /\ render'.by = render.by /\ render'.clears = FALSE
    BY <2>1, TweaksTyped DEF Tweaks!Renderings
  <2>3. QED
    BY <2>1, <2>2, ChangeEnds DEF Tweaks!RenderBusy, Tweaks!settings, Tweaks!measuring,
       Tweaks!counts, TweakLocksStay, SizesStay, AsksCounted, Tweaks!TypeOK
<1>1. Tweaks!TypeOK'
  BY <1>0, TweaksTyped DEF Tweaks!TypeOK, PanelStays, TweakLocksStay, SizesStay, AsksCounted,
     OtherChangesStay, SameChange
<1>2. LocksAreHeld'
  BY <1>0, BlankChanges DEF LocksAreHeld, SavesAt, LooksAt, PanelStays, TweakLocksStay,
     SizesStay, AsksCounted, OtherChangesStay, SameChange
<1>3. ReadIsSaved'
  BY <1>0 DEF ReadIsSaved, LocksAreHeld, SavesAt, PanelStays, TweakLocksStay, SizesStay,
     AsksCounted, OtherChangesStay, SameChange
<1>4. NamedIsKept'
  BY <1>0 DEF NamedIsKept, PanelStays, TweakLocksStay, SizesStay, AsksCounted,
     OtherChangesStay, SameChange
<1>5. CarriedOrDue'
  BY <1>0 DEF CarriedOrDue
<1>6. OneMeasureAtWork'
  BY <1>0 DEF OneMeasureAtWork, Tweaks!Unfinished, PanelStays, TweakLocksStay, SizesStay,
     AsksCounted, OtherChangesStay, SameChange
<1>7. OneSweep'
  BY <1>0, SizesRest
<1>8. QED
  BY <1>1, <1>2, <1>3, <1>4, <1>5, <1>6, <1>7

LEMMA TweaksAdminDiesKeeps ==
  ASSUME Tweaks!ConstantsOK, TweaksInv, NEW a \in Admins, Tweaks!AdminDies(a)
  PROVE  TweaksInv'
<1> USE DEF TweaksInv
<1>0. /\ OtherChangesStay(a) /\ tweakReq[a].at \notin {"rest", "lock"}
      /\ tweakReq'[a].at = "rest"
      /\ render' \in Tweaks!Renderings
      /\ render'.by = IF render.by = a THEN Tweaks!Nobody ELSE render.by
      /\ render'.clears = FALSE /\ behind' = TRUE
      /\ tweaksLock' = IF tweaksLock = a THEN Tweaks!Nobody ELSE tweaksLock
      /\ jobsLock' = IF jobsLock = a THEN Tweaks!Nobody ELSE jobsLock
      /\ UNCHANGED <<tweaks, logos, images, page>> /\ SizesStay /\ AsksCounted
  <2>1. /\ render' = (IF render.by = a THEN Tweaks!NotRendering
               ELSE [render EXCEPT !.clears = FALSE])
        /\ Tweaks!Ends(a)
    BY DEF Tweaks!AdminDies
  <2>2. /\ render' \in Tweaks!Renderings /\ render'.clears = FALSE
        /\ render'.by = IF render.by = a THEN Tweaks!Nobody ELSE render.by
    BY <2>1, TweaksTyped, BlankChanges DEF Tweaks!Renderings
  <2>3. tweakMishaps' \in 0..MaxTweakMishaps
    BY DEF Tweaks!AdminDies, Tweaks!TypeOK, Tweaks!ConstantsOK
  <2>4. QED
    BY <2>1, <2>2, <2>3, ChangeEnds DEF Tweaks!AdminDies, SizesStay, AsksCounted, Tweaks!TypeOK
<1>1. Tweaks!TypeOK'
  BY <1>0, TweaksTyped DEF Tweaks!TypeOK, PanelStays, TweakLocksStay, SizesStay, AsksCounted,
     OtherChangesStay, SameChange
<1>2. LocksAreHeld'
  BY <1>0, BlankChanges DEF LocksAreHeld, SavesAt, LooksAt, PanelStays, TweakLocksStay,
     SizesStay, AsksCounted, OtherChangesStay, SameChange
<1>3. ReadIsSaved'
  BY <1>0 DEF ReadIsSaved, LocksAreHeld, SavesAt, PanelStays, TweakLocksStay, SizesStay,
     AsksCounted, OtherChangesStay, SameChange
<1>4. NamedIsKept'
  BY <1>0 DEF NamedIsKept, PanelStays, TweakLocksStay, SizesStay, AsksCounted,
     OtherChangesStay, SameChange
<1>5. CarriedOrDue'
  BY <1>0 DEF CarriedOrDue
<1>6. OneMeasureAtWork'
  BY <1>0 DEF OneMeasureAtWork, Tweaks!Unfinished, PanelStays, TweakLocksStay, SizesStay,
     AsksCounted, OtherChangesStay, SameChange
<1>7. OneSweep'
  BY <1>0, SizesRest
<1>8. QED
  BY <1>1, <1>2, <1>3, <1>4, <1>5, <1>6, <1>7

(* A measurement is asked for and recorded.                                *)
LEMMA TweaksAskMeasureKeeps ==
  ASSUME Tweaks!ConstantsOK, TweaksInv, NEW a \in Admins, Tweaks!AskMeasure(a)
  PROVE  TweaksInv'
<1> USE DEF TweaksInv
<1>0. /\ OtherChangesStay(a) /\ tweakReq[a].at = "rest" /\ tweakReq'[a].at = "look"
      /\ jobsLock = Tweaks!Nobody /\ jobsLock' = a /\ tweaksLock' = tweaksLock /\ PanelStays
      /\ SizesStay /\ AsksCounted
  BY ChangeGoes, ChangeIsAsked DEF Tweaks!AskMeasure, Tweaks!settings, PanelStays, SizesStay,
     AsksCounted, Tweaks!TypeOK
<1>1. Tweaks!TypeOK'
  BY <1>0, TweaksTyped DEF Tweaks!TypeOK, PanelStays, TweakLocksStay, SizesStay, AsksCounted,
     OtherChangesStay, SameChange
<1>2. LocksAreHeld'
  BY <1>0, BlankChanges DEF LocksAreHeld, SavesAt, LooksAt, PanelStays, TweakLocksStay,
     SizesStay, AsksCounted, OtherChangesStay, SameChange
<1>3. ReadIsSaved'
  BY <1>0 DEF ReadIsSaved, LocksAreHeld, SavesAt, PanelStays, TweakLocksStay, SizesStay,
     AsksCounted, OtherChangesStay, SameChange
<1>4. NamedIsKept'
  BY <1>0 DEF NamedIsKept, PanelStays, TweakLocksStay, SizesStay, AsksCounted,
     OtherChangesStay, SameChange
<1>5. CarriedOrDue'
  BY <1>0 DEF CarriedOrDue, RenderingDue, WillRender, SavedHead, PanelStays, TweakLocksStay,
     SizesStay, AsksCounted, OtherChangesStay, SameChange
<1>6. OneMeasureAtWork'
  BY <1>0 DEF OneMeasureAtWork, Tweaks!Unfinished, PanelStays, TweakLocksStay, SizesStay,
     AsksCounted, OtherChangesStay, SameChange
<1>7. OneSweep'
  BY <1>0, SizesRest
<1>8. QED
  BY <1>1, <1>2, <1>3, <1>4, <1>5, <1>6, <1>7

LEMMA TweaksActiveMeasurementKeeps ==
  ASSUME Tweaks!ConstantsOK, TweaksInv, NEW a \in Admins, Tweaks!activeMeasurement(a)
  PROVE  TweaksInv'
<1> USE DEF TweaksInv
<1>0. /\ OtherChangesStay(a) /\ tweakReq[a].at = "look"
      /\ \/ tweakReq'[a].at = "rest" /\ jobsLock' = Tweaks!Nobody
         \/ tweakReq'[a].at = "queue" /\ jobsLock' = jobsLock /\ Tweaks!Unfinished = {}
      /\ tweaksLock' = tweaksLock /\ PanelStays /\ SizesStay /\ AsksCounted
  <2>1. \/ Tweaks!Ends(a) /\ jobsLock' = Tweaks!Nobody
        \/ Tweaks!Goes(a, "queue") /\ jobsLock' = jobsLock /\ Tweaks!Unfinished = {}
    BY DEF Tweaks!activeMeasurement
  <2>2. QED
    BY <2>1, ChangeGoes, ChangeEnds DEF Tweaks!activeMeasurement, Tweaks!settings,
       Tweaks!counts, PanelStays, SizesStay, AsksCounted, Tweaks!TypeOK
<1>1. Tweaks!TypeOK'
  BY <1>0, TweaksTyped DEF Tweaks!TypeOK, PanelStays, TweakLocksStay, SizesStay, AsksCounted,
     OtherChangesStay, SameChange
<1>2. LocksAreHeld'
  BY <1>0, BlankChanges DEF LocksAreHeld, SavesAt, LooksAt, PanelStays, TweakLocksStay,
     SizesStay, AsksCounted, OtherChangesStay, SameChange
<1>3. ReadIsSaved'
  BY <1>0 DEF ReadIsSaved, LocksAreHeld, SavesAt, PanelStays, TweakLocksStay, SizesStay,
     AsksCounted, OtherChangesStay, SameChange
<1>4. NamedIsKept'
  BY <1>0 DEF NamedIsKept, PanelStays, TweakLocksStay, SizesStay, AsksCounted,
     OtherChangesStay, SameChange
<1>5. CarriedOrDue'
  BY <1>0 DEF CarriedOrDue, RenderingDue, WillRender, SavedHead, PanelStays, TweakLocksStay,
     SizesStay, AsksCounted, OtherChangesStay, SameChange
<1>6. OneMeasureAtWork'
  BY <1>0 DEF OneMeasureAtWork, Tweaks!Unfinished, PanelStays, TweakLocksStay, SizesStay,
     AsksCounted, OtherChangesStay, SameChange
<1>7. OneSweep'
  BY <1>0, SizesRest
<1>8. QED
  BY <1>1, <1>2, <1>3, <1>4, <1>5, <1>6, <1>7

LEMMA TweaksStartMeasurementKeeps ==
  ASSUME Tweaks!ConstantsOK, TweaksInv, NEW a \in Admins, Tweaks!startMeasurement(a)
  PROVE  TweaksInv'
<1> USE DEF TweaksInv
<1>0. /\ OtherChangesStay(a) /\ tweakReq[a].at = "queue" /\ tweakReq'[a].at = "rest"
      /\ jobsLock' = Tweaks!Nobody
      /\ \E j \in MeasureJobs :
           /\ measureJob[j].state = "none" /\ OtherJobsStay(j)
           /\ measureJob'[j].at \in {"start", measureJob[j].at}
           /\ measureJob'[j].at = "start" => measureJob'[j].state = "queued"
           /\ measureJob'[j].state \in {"queued", "failed"}
      /\ UNCHANGED <<scanLock, sweeper, sizes, begun, tweaksLock>> /\ PanelStays
      /\ AsksCounted
  <2>1. PICK j \in MeasureJobs :
          /\ measureJob[j].state = "none"
          /\ \/ /\ measureJob' = [measureJob EXCEPT ![j].state = "queued", ![j].at = "start"]
                /\ UNCHANGED tweakMishaps
             \/ /\ tweakMishaps < MaxTweakMishaps /\ tweakMishaps' = tweakMishaps + 1
                /\ measureJob' = [measureJob EXCEPT ![j].state = "failed"]
    BY DEF Tweaks!startMeasurement
  <2>2. PICK m \in Tweaks!Measurements :
          /\ measureJob' = [measureJob EXCEPT ![j] = m] /\ m.at \in {"start", measureJob[j].at}
          /\ m.at = "start" => m.state = "queued" \/ m.at = measureJob[j].at
          /\ m.state \in {"queued", "failed"}
    <3>1. CASE measureJob' = [measureJob EXCEPT ![j].state = "queued", ![j].at = "start"]
      <4>1. /\ [measureJob[j] EXCEPT !.state = "queued", !.at = "start"] \in Tweaks!Measurements
            /\ measureJob' =
                   [measureJob EXCEPT ![j] =
                   [measureJob[j] EXCEPT !.state = "queued", !.at = "start"]]
        BY <3>1, MeasureTyped DEF Tweaks!Measurements
      <4>2. QED
        BY <4>1, MeasureTyped DEF Tweaks!Measurements
    <3>2. CASE measureJob' = [measureJob EXCEPT ![j].state = "failed"]
      <4>1. /\ [measureJob[j] EXCEPT !.state = "failed"] \in Tweaks!Measurements
            /\ measureJob' =
                   [measureJob EXCEPT ![j] = [measureJob[j] EXCEPT !.state = "failed"]]
        BY <3>2, MeasureTyped DEF Tweaks!Measurements
      <4>2. QED
        BY <4>1, MeasureTyped DEF Tweaks!Measurements
    <3>3. QED
      BY <2>1, <3>1, <3>2
  <2>3. measureJob[j].at = "gone"
    BY <2>1, MeasureTyped DEF OneMeasureAtWork, Tweaks!Unfinished
  <2>4. OtherJobsStay(j) /\ measureJob'[j] = m
    BY <2>2, TweaksTyped DEF OtherJobsStay
  <2>5. tweakMishaps' \in 0..MaxTweakMishaps
    BY <2>1 DEF Tweaks!TypeOK, Tweaks!ConstantsOK
  <2>6. QED
    BY <2>1, <2>2, <2>3, <2>4, <2>5, ChangeEnds DEF Tweaks!startMeasurement, Tweaks!settings,
       PanelStays, AsksCounted, Tweaks!TypeOK
<1>1. Tweaks!TypeOK'
  <2>1. measureJob' \in [MeasureJobs -> Tweaks!Measurements]
    BY <1>0 DEF OtherJobsStay
  <2>2. QED
    BY <1>0, <2>1, TweaksTyped DEF Tweaks!TypeOK, PanelStays, AsksCounted, OtherChangesStay
<1>2. LocksAreHeld'
  BY <1>0, BlankChanges DEF LocksAreHeld, SavesAt, LooksAt, PanelStays, TweakLocksStay,
     SizesStay, AsksCounted, OtherChangesStay, SameChange
<1>3. ReadIsSaved'
  BY <1>0 DEF ReadIsSaved, LocksAreHeld, SavesAt, PanelStays, TweakLocksStay, SizesStay,
     AsksCounted, OtherChangesStay, SameChange
<1>4. NamedIsKept'
  BY <1>0 DEF NamedIsKept, PanelStays, TweakLocksStay, SizesStay, AsksCounted,
     OtherChangesStay, SameChange
<1>5. CarriedOrDue'
  BY <1>0 DEF CarriedOrDue, RenderingDue, WillRender, SavedHead, PanelStays, TweakLocksStay,
     SizesStay, AsksCounted, OtherChangesStay, SameChange
<1>6. OneMeasureAtWork'
  <2>1. PICK j \in MeasureJobs :
          /\ measureJob[j].state = "none" /\ OtherJobsStay(j)
          /\ measureJob'[j].at \in {"start", measureJob[j].at}
          /\ measureJob'[j].at = "start" => measureJob'[j].state = "queued"
          /\ measureJob'[j].state \in {"queued", "failed"}
    BY <1>0
  <2>2. measureJob[j].at = "gone"
    BY <2>1 DEF OneMeasureAtWork, Tweaks!Unfinished
  <2>3. Tweaks!Unfinished = {} /\ Tweaks!Unfinished' \subseteq {j}
    BY <1>0, <2>1 DEF OneMeasureAtWork, Tweaks!Unfinished, OtherJobsStay
  <2>4. \A b \in Admins : tweakReq'[b].at # "queue"
    BY <1>0, BlankChanges DEF LocksAreHeld, LooksAt, OtherChangesStay
  <2>5. \A k \in MeasureJobs : measureJob'[k].at # "gone" => k \in Tweaks!Unfinished'
    BY <1>0, <2>1, <2>2 DEF OneMeasureAtWork, Tweaks!Unfinished, OtherJobsStay
  <2>6. QED
    BY <2>3, <2>4, <2>5 DEF OneMeasureAtWork
<1>7. OneSweep'
  <2>1. \A j \in MeasureJobs : measureJob'[j].at = "start" \/ measureJob'[j] = measureJob[j]
                                \/ measureJob'[j].at = "gone"
    BY <1>0, MeasureTyped DEF OtherJobsStay, OneMeasureAtWork, Tweaks!Unfinished
  <2>2. QED
    BY <1>0, <2>1 DEF OneSweep
<1>8. QED
  BY <1>1, <1>2, <1>3, <1>4, <1>5, <1>6, <1>7

LEMMA TweaksRepairsKeeps ==
  ASSUME Tweaks!ConstantsOK, TweaksInv, Tweaks!repairs
  PROVE  TweaksInv'
<1> USE DEF TweaksInv
<1>0. /\ render.by = Tweaks!Nobody /\ render' \in Tweaks!Renderings /\ render'.by = Tweaks!Timer
      /\ render'.clears = TRUE /\ render'.tweaks = tweaks /\ render'.logos = logos
      /\ tweakReq' = tweakReq /\ UNCHANGED <<tweaks, logos, images, page, behind>>
      /\ TweakLocksStay /\ SizesStay /\ AsksCounted
  <2>1. render' = [by |-> Tweaks!Timer, clears |-> TRUE, tweaks |-> tweaks, logos |-> logos]
    BY DEF Tweaks!repairs
  <2>2. render' \in Tweaks!Renderings
    BY <2>1, TweaksTyped DEF Tweaks!Renderings
  <2>3. QED
    BY <2>1, <2>2 DEF Tweaks!repairs, Tweaks!settings, Tweaks!measuring, Tweaks!counts,
       TweakLocksStay, SizesStay, AsksCounted, Tweaks!TypeOK
<1>1. Tweaks!TypeOK'
  BY <1>0, TweaksTyped DEF Tweaks!TypeOK, PanelStays, TweakLocksStay, SizesStay, AsksCounted,
     OtherChangesStay, SameChange
<1>2. LocksAreHeld'
  BY <1>0, BlankChanges DEF LocksAreHeld, SavesAt, LooksAt, PanelStays, TweakLocksStay,
     SizesStay, AsksCounted, OtherChangesStay, SameChange
<1>3. ReadIsSaved'
  BY <1>0 DEF ReadIsSaved, LocksAreHeld, SavesAt, PanelStays, TweakLocksStay, SizesStay,
     AsksCounted, OtherChangesStay, SameChange
<1>4. NamedIsKept'
  BY <1>0 DEF NamedIsKept, PanelStays, TweakLocksStay, SizesStay, AsksCounted,
     OtherChangesStay, SameChange
<1>5. CarriedOrDue'
  BY <1>0, BlankChanges DEF CarriedOrDue, SavedHead
<1>6. OneMeasureAtWork'
  BY <1>0 DEF OneMeasureAtWork, Tweaks!Unfinished, PanelStays, TweakLocksStay, SizesStay,
     AsksCounted, OtherChangesStay, SameChange
<1>7. OneSweep'
  BY <1>0, SizesRest
<1>8. QED
  BY <1>1, <1>2, <1>3, <1>4, <1>5, <1>6, <1>7

LEMMA TweaksRenderedKeeps ==
  ASSUME Tweaks!ConstantsOK, TweaksInv, Tweaks!Rendered
  PROVE  TweaksInv'
<1> USE DEF TweaksInv
<1>0. /\ render.by # Tweaks!Nobody /\ render' = Tweaks!NotRendering
      /\ page' = Tweaks!brandingHead(render.tweaks, render.logos)
      /\ page' \in [on : BOOLEAN, names : SUBSET Images]
      /\ behind' = (behind /\ ~render.clears) /\ tweakReq' \in [Admins -> Tweaks!Changes]
      /\ \A b \in Admins : \/ tweakReq'[b] = tweakReq[b] /\ render.by # b
                           \/ render.by = b /\ tweakReq'[b] = Tweaks!Rested
      /\ UNCHANGED <<tweaks, logos, images>> /\ TweakLocksStay /\ SizesStay /\ AsksCounted
  <2>1. tweakReq' = [b \in Admins |-> IF render.by = b THEN Tweaks!Rested ELSE tweakReq[b]]
    BY DEF Tweaks!Rendered
  <2>2. tweakReq' \in [Admins -> Tweaks!Changes]
    BY <2>1, TweaksTyped, BlankChanges
  <2>3. page' = Tweaks!brandingHead(render.tweaks, render.logos)
    BY DEF Tweaks!Rendered
  <2>4. page' \in [on : BOOLEAN, names : SUBSET Images]
    BY <2>3, HeadTyped, TweaksTyped
  <2>5. QED
    BY <2>1, <2>2, <2>3, <2>4 DEF Tweaks!Rendered, Tweaks!settings, Tweaks!measuring,
       Tweaks!counts, TweakLocksStay, SizesStay, AsksCounted, Tweaks!TypeOK
<1>1. Tweaks!TypeOK'
  <2>1. behind' \in BOOLEAN /\ render' \in Tweaks!Renderings
    BY <1>0, BlankChanges, TweaksTyped
  <2>2. QED
    BY <1>0, <2>1 DEF Tweaks!TypeOK, TweakLocksStay, SizesStay, AsksCounted
<1>2. LocksAreHeld'
  BY <1>0, BlankChanges DEF LocksAreHeld, SavesAt, LooksAt, TweakLocksStay
<1>3. ReadIsSaved'
  BY <1>0, BlankChanges DEF ReadIsSaved
<1>4. NamedIsKept'
  BY <1>0 DEF NamedIsKept, PanelStays, TweakLocksStay, SizesStay, AsksCounted,
     OtherChangesStay, SameChange
<1>5. CarriedOrDue'
  <2>1. ~RenderingDue' => ~RenderingDue
    BY <1>0 DEF RenderingDue, WillRender, LocksAreHeld
  <2>2. SavedHead' = SavedHead
    BY <1>0 DEF SavedHead
  <2>3. /\ behind' \in BOOLEAN /\ (~behind' => ~behind \/ render.clears)
        /\ render'.by = Tweaks!Nobody
    BY <1>0, BlankChanges, TweaksTyped
  <2>4. QED
    BY <1>0, <2>1, <2>2, <2>3 DEF CarriedOrDue
<1>6. OneMeasureAtWork'
  BY <1>0, BlankChanges DEF OneMeasureAtWork, Tweaks!Unfinished, SizesStay
<1>7. OneSweep'
  BY <1>0, SizesRest
<1>8. QED
  BY <1>1, <1>2, <1>3, <1>4, <1>5, <1>6, <1>7

(* The runner of a measurement.                                            *)
LEMMA TweaksRunMeasurementKeeps ==
  ASSUME Tweaks!ConstantsOK, TweaksInv, NEW j \in MeasureJobs, Tweaks!runMeasurement(j)
  PROVE  TweaksInv'
<1> USE DEF TweaksInv
<1>0. /\ measureJob[j].at = "start" /\ measureJob[j].state = "queued" /\ OtherJobsStay(j)
      /\ measureJob'[j].state = "running" /\ measureJob'[j].at = "lock"
      /\ measureJob'[j].before = sizes /\ measureJob'[j].sweep = measureJob[j].sweep
      /\ measureJob'[j].result = measureJob[j].result
      /\ UNCHANGED <<scanLock, sweeper, sizes, begun>> /\ TweakSettingsStay /\ AsksCounted
  <2> DEFINE m == [measureJob[j] EXCEPT !.state = "running", !.at = "lock", !.before = sizes]
  <2>1. Tweaks!Becomes(j, m)
    BY DEF Tweaks!runMeasurement
  <2>2. /\ m \in Tweaks!Measurements /\ m.state = "running" /\ m.at = "lock"
        /\ m.before = sizes /\ m.sweep = measureJob[j].sweep
        /\ m.result = measureJob[j].result
    BY MeasureTyped, TweaksTyped DEF Tweaks!Measurements
  <2>3. OtherJobsStay(j) /\ measureJob'[j] = m
    BY <2>1, <2>2, MeasureBecomes
  <2> HIDE DEF m
  <2>4. QED
    BY <2>2, <2>3 DEF Tweaks!runMeasurement, Tweaks!Runs, Tweaks!Still, Tweaks!settings,
       Tweaks!counts, TweakSettingsStay, AsksCounted, Tweaks!TypeOK, Tweaks!ConstantsOK
<1>1. Tweaks!TypeOK'
  BY <1>0, TweaksTyped DEF Tweaks!TypeOK, TweakSettingsStay, AsksCounted, OtherJobsStay
<1>2. LocksAreHeld'
  BY <1>0, SettingsRest
<1>3. ReadIsSaved'
  BY <1>0, SettingsRest
<1>4. NamedIsKept'
  BY <1>0, SettingsRest
<1>5. CarriedOrDue'
  BY <1>0, SettingsRest
<1>6. OneMeasureAtWork'
  BY <1>0 DEF OneMeasureAtWork, Tweaks!Unfinished, TweakSettingsStay, OtherJobsStay
<1>7. OneSweep'
  BY <1>0, TweaksTyped, MeasureTyped, BlankChanges DEF OneSweep, OtherJobsStay
<1>8. QED
  BY <1>1, <1>2, <1>3, <1>4, <1>5, <1>6, <1>7

LEMMA TweaksAlreadyOverKeeps ==
  ASSUME Tweaks!ConstantsOK, TweaksInv, NEW j \in MeasureJobs, Tweaks!AlreadyOver(j)
  PROVE  TweaksInv'
<1> USE DEF TweaksInv
<1>0. /\ measureJob[j].at = "start" /\ OtherJobsStay(j)
      /\ measureJob'[j].state = measureJob[j].state /\ measureJob'[j].at = "gone"
      /\ measureJob'[j].before = measureJob[j].before
      /\ measureJob'[j].sweep = measureJob[j].sweep
      /\ measureJob'[j].result = measureJob[j].result
      /\ UNCHANGED <<scanLock, sweeper, sizes, begun>> /\ TweakSettingsStay /\ AsksCounted
  <2> DEFINE m == [measureJob[j] EXCEPT !.at = "gone"]
  <2>1. Tweaks!Becomes(j, m)
    BY DEF Tweaks!AlreadyOver
  <2>2. /\ m \in Tweaks!Measurements /\ m.state = measureJob[j].state /\ m.at = "gone"
        /\ m.before = measureJob[j].before /\ m.sweep = measureJob[j].sweep
        /\ m.result = measureJob[j].result
    BY MeasureTyped, TweaksTyped DEF Tweaks!Measurements
  <2>3. OtherJobsStay(j) /\ measureJob'[j] = m
    BY <2>1, <2>2, MeasureBecomes
  <2> HIDE DEF m
  <2>4. QED
    BY <2>2, <2>3 DEF Tweaks!AlreadyOver, Tweaks!Runs, Tweaks!Still, Tweaks!settings,
       Tweaks!counts, TweakSettingsStay, AsksCounted, Tweaks!TypeOK, Tweaks!ConstantsOK
<1>1. Tweaks!TypeOK'
  BY <1>0, TweaksTyped DEF Tweaks!TypeOK, TweakSettingsStay, AsksCounted, OtherJobsStay
<1>2. LocksAreHeld'
  BY <1>0, SettingsRest
<1>3. ReadIsSaved'
  BY <1>0, SettingsRest
<1>4. NamedIsKept'
  BY <1>0, SettingsRest
<1>5. CarriedOrDue'
  BY <1>0, SettingsRest
<1>6. OneMeasureAtWork'
  BY <1>0 DEF OneMeasureAtWork, Tweaks!Unfinished, TweakSettingsStay, OtherJobsStay
<1>7. OneSweep'
  BY <1>0, TweaksTyped, MeasureTyped, BlankChanges DEF OneSweep, OtherJobsStay
<1>8. QED
  BY <1>1, <1>2, <1>3, <1>4, <1>5, <1>6, <1>7

LEMMA TweaksWaitedTooLongKeeps ==
  ASSUME Tweaks!ConstantsOK, TweaksInv, NEW j \in MeasureJobs, Tweaks!WaitedTooLong(j)
  PROVE  TweaksInv'
<1> USE DEF TweaksInv
<1>0. /\ measureJob[j].at = "lock" /\ OtherJobsStay(j) /\ measureJob'[j].state = "failed"
      /\ measureJob'[j].at = "gone" /\ measureJob'[j].before = measureJob[j].before
      /\ measureJob'[j].sweep = measureJob[j].sweep
      /\ measureJob'[j].result = measureJob[j].result
      /\ UNCHANGED <<scanLock, sweeper, sizes, begun>> /\ TweakSettingsStay /\ AsksCounted
  <2> DEFINE m == [measureJob[j] EXCEPT !.state = "failed", !.at = "gone"]
  <2>1. Tweaks!Becomes(j, m)
    BY DEF Tweaks!WaitedTooLong
  <2>2. /\ m \in Tweaks!Measurements /\ m.state = "failed" /\ m.at = "gone"
        /\ m.before = measureJob[j].before /\ m.sweep = measureJob[j].sweep
        /\ m.result = measureJob[j].result
    BY MeasureTyped, TweaksTyped DEF Tweaks!Measurements
  <2>3. OtherJobsStay(j) /\ measureJob'[j] = m
    BY <2>1, <2>2, MeasureBecomes
  <2> HIDE DEF m
  <2>4. QED
    BY <2>2, <2>3 DEF Tweaks!WaitedTooLong, Tweaks!Runs, Tweaks!Still, Tweaks!settings,
       Tweaks!counts, TweakSettingsStay, AsksCounted, Tweaks!TypeOK, Tweaks!ConstantsOK
<1>1. Tweaks!TypeOK'
  BY <1>0, TweaksTyped DEF Tweaks!TypeOK, TweakSettingsStay, AsksCounted, OtherJobsStay
<1>2. LocksAreHeld'
  BY <1>0, SettingsRest
<1>3. ReadIsSaved'
  BY <1>0, SettingsRest
<1>4. NamedIsKept'
  BY <1>0, SettingsRest
<1>5. CarriedOrDue'
  BY <1>0, SettingsRest
<1>6. OneMeasureAtWork'
  BY <1>0 DEF OneMeasureAtWork, Tweaks!Unfinished, TweakSettingsStay, OtherJobsStay
<1>7. OneSweep'
  BY <1>0, TweaksTyped, MeasureTyped, BlankChanges DEF OneSweep, OtherJobsStay
<1>8. QED
  BY <1>1, <1>2, <1>3, <1>4, <1>5, <1>6, <1>7

LEMMA TweaksScanDiskKeeps ==
  ASSUME Tweaks!ConstantsOK, TweaksInv, NEW j \in MeasureJobs, Tweaks!scanDisk(j)
  PROVE  TweaksInv'
<1> USE DEF TweaksInv
<1>0. /\ measureJob[j].at = "sweep" /\ OtherJobsStay(j)
      /\ measureJob'[j].state = measureJob[j].state /\ measureJob'[j].at = "record"
      /\ measureJob'[j].before = measureJob[j].before
      /\ measureJob'[j].sweep = measureJob[j].sweep
      /\ measureJob'[j].result = measureJob[j].sweep /\ sizes' = measureJob[j].sweep
      /\ scanLock' = Tweaks!Nobody /\ UNCHANGED <<sweeper, begun>> /\ TweakSettingsStay
      /\ AsksCounted
  <2> DEFINE m == [measureJob[j] EXCEPT !.at = "record", !.result = measureJob[j].sweep]
  <2>1. Tweaks!Becomes(j, m)
    BY DEF Tweaks!scanDisk
  <2>2. /\ m \in Tweaks!Measurements /\ m.state = measureJob[j].state /\ m.at = "record"
        /\ m.before = measureJob[j].before /\ m.sweep = measureJob[j].sweep
        /\ m.result = measureJob[j].sweep
    BY MeasureTyped, TweaksTyped DEF Tweaks!Measurements
  <2>3. OtherJobsStay(j) /\ measureJob'[j] = m
    BY <2>1, <2>2, MeasureBecomes
  <2> HIDE DEF m
  <2>4. QED
    BY <2>2, <2>3 DEF Tweaks!scanDisk, Tweaks!Runs, Tweaks!Still, Tweaks!settings,
       Tweaks!counts, TweakSettingsStay, AsksCounted, Tweaks!TypeOK, Tweaks!ConstantsOK
<1>1. Tweaks!TypeOK'
  BY <1>0, TweaksTyped, MeasureTyped DEF Tweaks!TypeOK, TweakSettingsStay, AsksCounted,
     OtherJobsStay
<1>2. LocksAreHeld'
  BY <1>0, SettingsRest
<1>3. ReadIsSaved'
  BY <1>0, SettingsRest
<1>4. NamedIsKept'
  BY <1>0, SettingsRest
<1>5. CarriedOrDue'
  BY <1>0, SettingsRest
<1>6. OneMeasureAtWork'
  BY <1>0 DEF OneMeasureAtWork, Tweaks!Unfinished, TweakSettingsStay, OtherJobsStay
<1>7. OneSweep'
  BY <1>0, TweaksTyped, MeasureTyped, BlankChanges DEF OneSweep, OtherJobsStay
<1>8. QED
  BY <1>1, <1>2, <1>3, <1>4, <1>5, <1>6, <1>7

LEMMA TweaksScanFailsKeeps ==
  ASSUME Tweaks!ConstantsOK, TweaksInv, NEW j \in MeasureJobs, Tweaks!ScanFails(j)
  PROVE  TweaksInv'
<1> USE DEF TweaksInv
<1>0. /\ measureJob[j].at = "sweep" /\ OtherJobsStay(j) /\ measureJob'[j].state = "failed"
      /\ measureJob'[j].at = "gone" /\ measureJob'[j].before = measureJob[j].before
      /\ measureJob'[j].sweep = measureJob[j].sweep
      /\ measureJob'[j].result = measureJob[j].result /\ scanLock' = Tweaks!Nobody
      /\ UNCHANGED <<sweeper, sizes, begun>> /\ TweakSettingsStay /\ AsksCounted
  <2> DEFINE m == [measureJob[j] EXCEPT !.state = "failed", !.at = "gone"]
  <2>1. Tweaks!Becomes(j, m)
    BY DEF Tweaks!ScanFails
  <2>2. /\ m \in Tweaks!Measurements /\ m.state = "failed" /\ m.at = "gone"
        /\ m.before = measureJob[j].before /\ m.sweep = measureJob[j].sweep
        /\ m.result = measureJob[j].result
    BY MeasureTyped, TweaksTyped DEF Tweaks!Measurements
  <2>3. OtherJobsStay(j) /\ measureJob'[j] = m
    BY <2>1, <2>2, MeasureBecomes
  <2> HIDE DEF m
  <2>4. QED
    BY <2>2, <2>3 DEF Tweaks!ScanFails, Tweaks!Runs, Tweaks!Still, Tweaks!settings,
       Tweaks!counts, TweakSettingsStay, AsksCounted, Tweaks!TypeOK, Tweaks!ConstantsOK
<1>1. Tweaks!TypeOK'
  BY <1>0, TweaksTyped DEF Tweaks!TypeOK, TweakSettingsStay, AsksCounted, OtherJobsStay
<1>2. LocksAreHeld'
  BY <1>0, SettingsRest
<1>3. ReadIsSaved'
  BY <1>0, SettingsRest
<1>4. NamedIsKept'
  BY <1>0, SettingsRest
<1>5. CarriedOrDue'
  BY <1>0, SettingsRest
<1>6. OneMeasureAtWork'
  BY <1>0 DEF OneMeasureAtWork, Tweaks!Unfinished, TweakSettingsStay, OtherJobsStay
<1>7. OneSweep'
  BY <1>0, TweaksTyped, MeasureTyped, BlankChanges DEF OneSweep, OtherJobsStay
<1>8. QED
  BY <1>1, <1>2, <1>3, <1>4, <1>5, <1>6, <1>7

LEMMA TweaksRecordedKeeps ==
  ASSUME Tweaks!ConstantsOK, TweaksInv, NEW j \in MeasureJobs, Tweaks!Recorded(j)
  PROVE  TweaksInv'
<1> USE DEF TweaksInv
<1>0. /\ measureJob[j].at = "record" /\ OtherJobsStay(j) /\ measureJob'[j].state = "done"
      /\ measureJob'[j].at = "gone" /\ measureJob'[j].before = measureJob[j].before
      /\ measureJob'[j].sweep = measureJob[j].sweep
      /\ measureJob'[j].result = measureJob[j].result
      /\ UNCHANGED <<scanLock, sweeper, sizes, begun>> /\ TweakSettingsStay /\ AsksCounted
  <2> DEFINE m == [measureJob[j] EXCEPT !.state = "done", !.at = "gone"]
  <2>1. Tweaks!Becomes(j, m)
    BY DEF Tweaks!Recorded
  <2>2. /\ m \in Tweaks!Measurements /\ m.state = "done" /\ m.at = "gone"
        /\ m.before = measureJob[j].before /\ m.sweep = measureJob[j].sweep
        /\ m.result = measureJob[j].result
    BY MeasureTyped, TweaksTyped DEF Tweaks!Measurements
  <2>3. OtherJobsStay(j) /\ measureJob'[j] = m
    BY <2>1, <2>2, MeasureBecomes
  <2> HIDE DEF m
  <2>4. QED
    BY <2>2, <2>3 DEF Tweaks!Recorded, Tweaks!Runs, Tweaks!Still, Tweaks!settings,
       Tweaks!counts, TweakSettingsStay, AsksCounted, Tweaks!TypeOK, Tweaks!ConstantsOK
<1>1. Tweaks!TypeOK'
  BY <1>0, TweaksTyped DEF Tweaks!TypeOK, TweakSettingsStay, AsksCounted, OtherJobsStay
<1>2. LocksAreHeld'
  BY <1>0, SettingsRest
<1>3. ReadIsSaved'
  BY <1>0, SettingsRest
<1>4. NamedIsKept'
  BY <1>0, SettingsRest
<1>5. CarriedOrDue'
  BY <1>0, SettingsRest
<1>6. OneMeasureAtWork'
  BY <1>0 DEF OneMeasureAtWork, Tweaks!Unfinished, TweakSettingsStay, OtherJobsStay
<1>7. OneSweep'
  BY <1>0, TweaksTyped, MeasureTyped, BlankChanges DEF OneSweep, OtherJobsStay
<1>8. QED
  BY <1>1, <1>2, <1>3, <1>4, <1>5, <1>6, <1>7

LEMMA TweaksRunnerDiesKeeps ==
  ASSUME Tweaks!ConstantsOK, TweaksInv, NEW j \in MeasureJobs, Tweaks!RunnerDies(j)
  PROVE  TweaksInv'
<1> USE DEF TweaksInv
<1>0. /\ measureJob[j].at # "gone" /\ OtherJobsStay(j)
      /\ measureJob'[j].state = measureJob[j].state /\ measureJob'[j].at = "gone"
      /\ measureJob'[j].before = measureJob[j].before
      /\ measureJob'[j].sweep = measureJob[j].sweep
      /\ measureJob'[j].result = measureJob[j].result
      /\ scanLock' = IF measureJob[j].at = "sweep" THEN Tweaks!Nobody ELSE scanLock
      /\ UNCHANGED <<sweeper, sizes, begun>> /\ TweakSettingsStay /\ AsksCounted
  <2> DEFINE m == [measureJob[j] EXCEPT !.at = "gone"]
  <2>1. Tweaks!Becomes(j, m)
    BY DEF Tweaks!RunnerDies
  <2>2. /\ m \in Tweaks!Measurements /\ m.state = measureJob[j].state /\ m.at = "gone"
        /\ m.before = measureJob[j].before /\ m.sweep = measureJob[j].sweep
        /\ m.result = measureJob[j].result
    BY MeasureTyped, TweaksTyped DEF Tweaks!Measurements
  <2>3. OtherJobsStay(j) /\ measureJob'[j] = m
    BY <2>1, <2>2, MeasureBecomes
  <2> HIDE DEF m
  <2>4. QED
    BY <2>2, <2>3 DEF Tweaks!RunnerDies, Tweaks!Runs, Tweaks!Still, Tweaks!settings,
       Tweaks!counts, TweakSettingsStay, AsksCounted, Tweaks!TypeOK, Tweaks!ConstantsOK
<1>1. Tweaks!TypeOK'
  BY <1>0, TweaksTyped DEF Tweaks!TypeOK, TweakSettingsStay, AsksCounted, OtherJobsStay
<1>2. LocksAreHeld'
  BY <1>0, SettingsRest
<1>3. ReadIsSaved'
  BY <1>0, SettingsRest
<1>4. NamedIsKept'
  BY <1>0, SettingsRest
<1>5. CarriedOrDue'
  BY <1>0, SettingsRest
<1>6. OneMeasureAtWork'
  BY <1>0 DEF OneMeasureAtWork, Tweaks!Unfinished, TweakSettingsStay, OtherJobsStay
<1>7. OneSweep'
  BY <1>0, TweaksTyped, MeasureTyped, BlankChanges DEF OneSweep, OtherJobsStay
<1>8. QED
  BY <1>1, <1>2, <1>3, <1>4, <1>5, <1>6, <1>7

LEMMA TweaksScanLockedKeeps ==
  ASSUME Tweaks!ConstantsOK, TweaksInv, NEW j \in MeasureJobs, Tweaks!scanLocked(j)
  PROVE  TweaksInv'
<1> USE DEF TweaksInv
<1>0. /\ measureJob[j].at = "lock" /\ scanLock = Tweaks!Nobody /\ OtherJobsStay(j)
      /\ measureJob'[j].before = measureJob[j].before
      /\ \/ /\ sizes # 0 /\ sizes # measureJob[j].before /\ measureJob'[j].state = "done"
            /\ measureJob'[j].at = "gone" /\ measureJob'[j].result = sizes
            /\ UNCHANGED <<scanLock, begun>>
         \/ /\ begun < MaxSweeps /\ begun' = begun + 1 /\ scanLock' = "job"
            /\ measureJob'[j].state = measureJob[j].state /\ measureJob'[j].at = "sweep"
            /\ measureJob'[j].sweep = begun'
      /\ UNCHANGED <<sweeper, sizes>> /\ TweakSettingsStay /\ AsksCounted
  <2> DEFINE taken == [measureJob[j] EXCEPT !.state = "done", !.at = "gone", !.result = sizes]
             swept == [measureJob[j] EXCEPT !.at = "sweep", !.sweep = begun + 1]
  <2>1. CASE sizes # 0 /\ sizes # measureJob[j].before
    <3>1. Tweaks!Becomes(j, taken) /\ UNCHANGED <<scanLock, begun>>
      BY <2>1 DEF Tweaks!scanLocked
    <3>2. /\ taken \in Tweaks!Measurements /\ taken.state = "done" /\ taken.at = "gone"
          /\ taken.result = sizes
          /\ taken.before = measureJob[j].before
      BY MeasureTyped, TweaksTyped DEF Tweaks!Measurements
    <3>3. OtherJobsStay(j) /\ measureJob'[j] = taken
      BY <3>1, <3>2, MeasureBecomes
    <3> HIDE DEF taken
    <3>4. QED
      BY <2>1, <3>1, <3>2, <3>3 DEF Tweaks!scanLocked, Tweaks!Runs, Tweaks!Still,
         Tweaks!settings, Tweaks!counts, TweakSettingsStay, AsksCounted, Tweaks!TypeOK
  <2>2. CASE ~(sizes # 0 /\ sizes # measureJob[j].before)
    <3>1. /\ Tweaks!Becomes(j, swept) /\ begun < MaxSweeps /\ begun' = begun + 1
          /\ scanLock' = "job"
      BY <2>2 DEF Tweaks!scanLocked
    <3>5. begun + 1 \in 0..MaxSweeps
      BY <3>1, TweaksTyped DEF Tweaks!ConstantsOK
    <3>2. /\ swept \in Tweaks!Measurements /\ swept.state = measureJob[j].state
          /\ swept.at = "sweep" /\ swept.sweep = begun + 1
          /\ swept.before = measureJob[j].before
      BY <3>5, MeasureTyped DEF Tweaks!Measurements
    <3>3. OtherJobsStay(j) /\ measureJob'[j] = swept
      BY <3>1, <3>2, MeasureBecomes
    <3> HIDE DEF swept
    <3>4. QED
      BY <2>2, <3>1, <3>2, <3>3 DEF Tweaks!scanLocked, Tweaks!Runs, Tweaks!Still,
         Tweaks!settings, Tweaks!counts, TweakSettingsStay, AsksCounted, Tweaks!TypeOK
  <2>3. QED
    BY <2>1, <2>2
<1>1. Tweaks!TypeOK'
  <2>1. begun' \in 0..MaxSweeps /\ scanLock' \in {Tweaks!Nobody, Tweaks!Timer, "job"}
    BY <1>0 DEF Tweaks!TypeOK, Tweaks!ConstantsOK
  <2>2. QED
    BY <1>0, <2>1, TweaksTyped DEF Tweaks!TypeOK, TweakSettingsStay, AsksCounted, OtherJobsStay
<1>2. LocksAreHeld'
  BY <1>0, SettingsRest
<1>3. ReadIsSaved'
  BY <1>0, SettingsRest
<1>4. NamedIsKept'
  BY <1>0, SettingsRest
<1>5. CarriedOrDue'
  BY <1>0, SettingsRest
<1>6. OneMeasureAtWork'
  BY <1>0 DEF OneMeasureAtWork, Tweaks!Unfinished, TweakSettingsStay, OtherJobsStay
<1>7. OneSweep'
  BY <1>0, TweaksTyped, MeasureTyped, BlankChanges DEF OneSweep, OtherJobsStay
<1>8. QED
  BY <1>1, <1>2, <1>3, <1>4, <1>5, <1>6, <1>7

(* The repair timer's part.                                                *)
LEMMA TweaksPruneMeasurementsKeeps ==
  ASSUME Tweaks!ConstantsOK, TweaksInv, Tweaks!pruneMeasurements
  PROVE  TweaksInv'
<1> USE DEF TweaksInv
<1>0. /\ \E j \in MeasureJobs : /\ measureJob[j].at = "gone" /\ OtherJobsStay(j)
                              /\ measureJob'[j].at = "gone" /\ measureJob'[j].state = "failed"
      /\ UNCHANGED <<scanLock, sweeper, sizes, begun>> /\ TweakSettingsStay /\ AsksCounted
  <2>1. PICK j \in MeasureJobs : /\ measureJob[j].at = "gone"
                                 /\ Tweaks!Becomes(j, [measureJob[j] EXCEPT !.state = "failed"])
    BY DEF Tweaks!pruneMeasurements, Tweaks!Unfinished
  <2> DEFINE m == [measureJob[j] EXCEPT !.state = "failed"]
  <2>2. m \in Tweaks!Measurements /\ m.at = "gone" /\ m.state = "failed"
    BY <2>1, MeasureTyped DEF Tweaks!Measurements
  <2>3. OtherJobsStay(j) /\ measureJob'[j] = m
    BY <2>1, <2>2, MeasureBecomes
  <2> HIDE DEF m
  <2>4. QED
    BY <2>1, <2>2, <2>3 DEF Tweaks!pruneMeasurements, Tweaks!Still, Tweaks!settings,
       Tweaks!counts, TweakSettingsStay, AsksCounted, Tweaks!TypeOK
<1>1. Tweaks!TypeOK'
  BY <1>0, TweaksTyped DEF Tweaks!TypeOK, TweakSettingsStay, AsksCounted, OtherJobsStay
<1>2. LocksAreHeld'
  BY <1>0, SettingsRest
<1>3. ReadIsSaved'
  BY <1>0, SettingsRest
<1>4. NamedIsKept'
  BY <1>0, SettingsRest
<1>5. CarriedOrDue'
  BY <1>0, SettingsRest
<1>6. OneMeasureAtWork'
  BY <1>0 DEF OneMeasureAtWork, Tweaks!Unfinished, TweakSettingsStay, OtherJobsStay
<1>7. OneSweep'
  BY <1>0, TweaksTyped, MeasureTyped, BlankChanges DEF OneSweep, OtherJobsStay
<1>8. QED
  BY <1>1, <1>2, <1>3, <1>4, <1>5, <1>6, <1>7

LEMMA TweaksScanDiskUsageKeeps ==
  ASSUME Tweaks!ConstantsOK, TweaksInv, Tweaks!scanDiskUsage
  PROVE  TweaksInv'
<1> USE DEF TweaksInv
<1>0. /\ sweeper.at = "rest" /\ sweeper' \in Tweaks!Sweeps /\ sweeper'.at = "lock"
      /\ UNCHANGED <<measureJob, scanLock, sizes, begun>> /\ TweakSettingsStay /\ AsksCounted
  <2>1. sweeper' = [sweeper EXCEPT !.at = "lock"]
    BY DEF Tweaks!scanDiskUsage
  <2>2. sweeper' \in Tweaks!Sweeps /\ sweeper'.at = "lock"
    BY <2>1, TweaksTyped DEF Tweaks!Sweeps
  <2>3. QED
    BY <2>2 DEF Tweaks!scanDiskUsage, Tweaks!Still, Tweaks!settings, Tweaks!counts,
       TweakSettingsStay, AsksCounted, Tweaks!TypeOK
<1>1. Tweaks!TypeOK'
  BY <1>0, TweaksTyped DEF Tweaks!TypeOK, TweakSettingsStay, AsksCounted
<1>2. LocksAreHeld'
  BY <1>0, SettingsRest
<1>3. ReadIsSaved'
  BY <1>0, SettingsRest
<1>4. NamedIsKept'
  BY <1>0, SettingsRest
<1>5. CarriedOrDue'
  BY <1>0, SettingsRest
<1>6. OneMeasureAtWork'
  BY <1>0 DEF OneMeasureAtWork, Tweaks!Unfinished, TweakSettingsStay, OtherJobsStay
<1>7. OneSweep'
  BY <1>0, TweaksTyped, MeasureTyped, BlankChanges DEF OneSweep, OtherJobsStay
<1>8. QED
  BY <1>1, <1>2, <1>3, <1>4, <1>5, <1>6, <1>7

LEMMA TweaksTimerSweepsKeeps ==
  ASSUME Tweaks!ConstantsOK, TweaksInv, Tweaks!TimerSweeps
  PROVE  TweaksInv'
<1> USE DEF TweaksInv
<1>0. /\ sweeper.at = "lock" /\ scanLock = Tweaks!Nobody /\ scanLock' = Tweaks!Timer
      /\ begun < MaxSweeps
      /\ begun' = begun + 1 /\ sweeper' \in Tweaks!Sweeps /\ sweeper'.at = "sweep"
      /\ sweeper'.sweep = begun' /\ UNCHANGED <<measureJob, sizes>> /\ TweakSettingsStay
      /\ AsksCounted
  <2>1. sweeper' = [at |-> "sweep", sweep |-> begun + 1] /\ begun < MaxSweeps
    BY DEF Tweaks!TimerSweeps
  <2>2. sweeper' \in Tweaks!Sweeps /\ sweeper'.at = "sweep" /\ sweeper'.sweep = begun + 1
    BY <2>1, TweaksTyped DEF Tweaks!Sweeps, Tweaks!ConstantsOK
  <2>3. QED
    BY <2>2 DEF Tweaks!TimerSweeps, Tweaks!Still, Tweaks!settings, Tweaks!counts,
       TweakSettingsStay, AsksCounted, Tweaks!TypeOK
<1>1. Tweaks!TypeOK'
  <2>1. begun' \in 0..MaxSweeps
    BY <1>0 DEF Tweaks!TypeOK, Tweaks!ConstantsOK
  <2>2. QED
    BY <1>0, <2>1, TweaksTyped DEF Tweaks!TypeOK, TweakSettingsStay, AsksCounted
<1>2. LocksAreHeld'
  BY <1>0, SettingsRest
<1>3. ReadIsSaved'
  BY <1>0, SettingsRest
<1>4. NamedIsKept'
  BY <1>0, SettingsRest
<1>5. CarriedOrDue'
  BY <1>0, SettingsRest
<1>6. OneMeasureAtWork'
  BY <1>0 DEF OneMeasureAtWork, Tweaks!Unfinished, TweakSettingsStay, OtherJobsStay
<1>7. OneSweep'
  BY <1>0, TweaksTyped, MeasureTyped, BlankChanges DEF OneSweep, OtherJobsStay
<1>8. QED
  BY <1>1, <1>2, <1>3, <1>4, <1>5, <1>6, <1>7

LEMMA TweaksTimerGivesUpKeeps ==
  ASSUME Tweaks!ConstantsOK, TweaksInv, Tweaks!TimerGivesUp
  PROVE  TweaksInv'
<1> USE DEF TweaksInv
<1>0. /\ sweeper.at = "lock" /\ sweeper' = Tweaks!NoSweep
      /\ UNCHANGED <<measureJob, scanLock, sizes, begun>> /\ TweakSettingsStay /\ AsksCounted
  BY DEF Tweaks!TimerGivesUp, Tweaks!Still, Tweaks!settings, Tweaks!counts,
     TweakSettingsStay, AsksCounted, Tweaks!TypeOK
<1>1. Tweaks!TypeOK'
  BY <1>0, TweaksTyped, BlankChanges DEF Tweaks!TypeOK, TweakSettingsStay, AsksCounted
<1>2. LocksAreHeld'
  BY <1>0, SettingsRest
<1>3. ReadIsSaved'
  BY <1>0, SettingsRest
<1>4. NamedIsKept'
  BY <1>0, SettingsRest
<1>5. CarriedOrDue'
  BY <1>0, SettingsRest
<1>6. OneMeasureAtWork'
  BY <1>0 DEF OneMeasureAtWork, Tweaks!Unfinished, TweakSettingsStay, OtherJobsStay
<1>7. OneSweep'
  BY <1>0, TweaksTyped, MeasureTyped, BlankChanges DEF OneSweep, OtherJobsStay
<1>8. QED
  BY <1>1, <1>2, <1>3, <1>4, <1>5, <1>6, <1>7

LEMMA TweaksTimerEndsKeeps ==
  ASSUME Tweaks!ConstantsOK, TweaksInv, Tweaks!TimerEnds
  PROVE  TweaksInv'
<1> USE DEF TweaksInv
<1>0. /\ sweeper.at = "sweep" /\ sweeper' = Tweaks!NoSweep
      /\ scanLock' = IF scanLock = Tweaks!Timer THEN Tweaks!Nobody ELSE scanLock
      /\ sizes' \in {sizes, sweeper.sweep} /\ UNCHANGED <<measureJob, begun>>
      /\ TweakSettingsStay
      /\ AsksCounted
  BY DEF Tweaks!TimerEnds, Tweaks!Still, Tweaks!settings, Tweaks!counts, TweakSettingsStay,
     AsksCounted, Tweaks!TypeOK
<1>1. Tweaks!TypeOK'
  BY <1>0, TweaksTyped, BlankChanges DEF Tweaks!TypeOK, TweakSettingsStay, AsksCounted
<1>2. LocksAreHeld'
  BY <1>0, SettingsRest
<1>3. ReadIsSaved'
  BY <1>0, SettingsRest
<1>4. NamedIsKept'
  BY <1>0, SettingsRest
<1>5. CarriedOrDue'
  BY <1>0, SettingsRest
<1>6. OneMeasureAtWork'
  BY <1>0 DEF OneMeasureAtWork, Tweaks!Unfinished, TweakSettingsStay, OtherJobsStay
<1>7. OneSweep'
  BY <1>0, TweaksTyped, MeasureTyped, BlankChanges DEF OneSweep, OtherJobsStay
<1>8. QED
  BY <1>1, <1>2, <1>3, <1>4, <1>5, <1>6, <1>7

LEMMA TweaksStart ==
  ASSUME Tweaks!ConstantsOK, Tweaks!Init
  PROVE  TweaksInv
<1>1. /\ tweaks = Tweaks!DEFAULT_TWEAKS /\ logos = [s \in Slots |-> Tweaks!NoImage]
      /\ images = {}
      /\ page = Tweaks!brandingHead(tweaks, logos) /\ tweaksLock = Tweaks!Nobody
      /\ tweakReq = [a \in Admins |-> Tweaks!Rested] /\ render = Tweaks!NotRendering
      /\ measureJob = [j \in MeasureJobs |-> Tweaks!NoMeasure] /\ jobsLock = Tweaks!Nobody
      /\ scanLock = Tweaks!Nobody /\ sweeper = Tweaks!NoSweep /\ sizes = 0 /\ begun = 0
      /\ tweakAsks = 0 /\ tweakMishaps = 0 /\ behind = FALSE
  BY DEF Tweaks!Init
<1>2. /\ tweaks \in Tweaks!Switches /\ logos \in Tweaks!SlotImages /\ tweaks["disk"] = FALSE
      /\ \A s \in Slots : logos[s] = Tweaks!NoImage
  BY <1>1, BlankChanges DEF Tweaks!DEFAULT_TWEAKS, Tweaks!Switches, Tweaks!SlotImages
<1>3. Tweaks!TypeOK
  <2>1. page \in [on : BOOLEAN, names : SUBSET Images]
    BY <1>1, <1>2, HeadTyped
  <2>2. 0 \in 0..MaxTweakAsks /\ 0 \in 0..MaxSweeps /\ 0 \in 0..MaxTweakMishaps
    BY DEF Tweaks!ConstantsOK
  <2>3. /\ tweakReq \in [Admins -> Tweaks!Changes] /\ render \in Tweaks!Renderings
        /\ sweeper \in Tweaks!Sweeps
        /\ measureJob \in [MeasureJobs -> Tweaks!Measurements]
    BY <1>1, BlankChanges
  <2>4. QED
    BY <1>1, <1>2, <2>1, <2>2, <2>3 DEF Tweaks!TypeOK
<1>4. \A a \in Admins : tweakReq[a].at = "rest"
  BY <1>1, BlankChanges
<1>5. LocksAreHeld
  BY <1>1, <1>4, BlankChanges DEF LocksAreHeld, SavesAt, LooksAt
<1>6. ReadIsSaved /\ NamedIsKept
  BY <1>2, <1>4 DEF ReadIsSaved, NamedIsKept
<1>7. CarriedOrDue
  BY <1>1, BlankChanges DEF CarriedOrDue, SavedHead
<1>8. \A j \in MeasureJobs : measureJob[j].at = "gone" /\ measureJob[j].state = "none"
  BY <1>1, BlankChanges
<1>9. OneMeasureAtWork
  BY <1>4, <1>8 DEF OneMeasureAtWork, Tweaks!Unfinished
<1>10. OneSweep
  BY <1>1, <1>8, BlankChanges DEF OneSweep
<1>11. QED
  BY <1>3, <1>5, <1>6, <1>7, <1>9, <1>10 DEF TweaksInv

LEMMA TweaksRest ==
  ASSUME TweaksInv, UNCHANGED (Tweaks!tweakVars)
  PROVE  TweaksInv'
<1> USE DEF TweaksInv, Tweaks!tweakVars, Tweaks!settings, Tweaks!measuring, Tweaks!counts
<1>1. Tweaks!TypeOK'
  BY DEF Tweaks!TypeOK
<1>2. LocksAreHeld' /\ ReadIsSaved' /\ NamedIsKept' /\ CarriedOrDue'
  BY SettingsRest DEF TweakSettingsStay
<1>3. OneMeasureAtWork'
  BY DEF OneMeasureAtWork, Tweaks!Unfinished
<1>4. OneSweep'
  BY SizesRest DEF SizesStay
<1>5. QED
  BY <1>1, <1>2, <1>3, <1>4

LEMMA TweaksGoOn ==
  ASSUME Tweaks!ConstantsOK, TweaksInv, [Tweaks!Next]_(Tweaks!tweakVars)
  PROVE  TweaksInv'
<1>1. CASE UNCHANGED (Tweaks!tweakVars)
  BY <1>1, TweaksRest
<1>2. CASE Tweaks!Next
  BY <1>2, TweaksAsksKeeps, TweaksTakeLockKeeps, TweaksLockTimeoutKeeps,
     TweaksSetTweaksKeeps, TweaksStoreAssetKeeps,
     TweaksWriteBrandingKeeps, TweaksPruneAssetsKeeps, TweaksReinjectTemplatesKeeps,
     TweaksRenderBusyKeeps,
     TweaksAdminDiesKeeps, TweaksAskMeasureKeeps, TweaksActiveMeasurementKeeps,
     TweaksStartMeasurementKeeps,
     TweaksRepairsKeeps, TweaksRenderedKeeps, TweaksRunMeasurementKeeps, TweaksAlreadyOverKeeps,
     TweaksWaitedTooLongKeeps, TweaksScanDiskKeeps, TweaksScanFailsKeeps,
     TweaksRecordedKeeps, TweaksRunnerDiesKeeps,
     TweaksScanLockedKeeps, TweaksPruneMeasurementsKeeps, TweaksScanDiskUsageKeeps,
     TweaksTimerSweepsKeeps,
     TweaksTimerGivesUpKeeps, TweaksTimerEndsKeeps
     DEF Tweaks!Next
<1>3. QED
  BY <1>1, <1>2

LEMMA TweaksAreCarried ==
  ASSUME Tweaks!ConstantsOK, TweaksInv
  PROVE  Tweaks!NamedIsServed /\ Tweaks!PageCarriesWhatIsSaved /\ Tweaks!OneMeasurement
<1>1. Tweaks!NamedIsServed
  BY DEF TweaksInv, NamedIsKept, Tweaks!NamedIsServed, Tweaks!brandingAsset
<1>2. Tweaks!PageCarriesWhatIsSaved
  <2>1. SUFFICES ASSUME Tweaks!Quiet, ~behind
                 PROVE  /\ page = Tweaks!brandingHead(tweaks, logos)
                        /\ page.names \subseteq Tweaks!brandingAsset
    BY DEF Tweaks!PageCarriesWhatIsSaved
  <2>2. render.by = Tweaks!Nobody /\ ~RenderingDue
    BY <2>1 DEF Tweaks!Quiet, RenderingDue, WillRender
  <2>3. page = Tweaks!brandingHead(tweaks, logos)
    BY <2>1, <2>2 DEF TweaksInv, CarriedOrDue, SavedHead
  <2>4. page.names \subseteq {logos[s] : s \in Slots} \ {Tweaks!NoImage}
    BY <2>3 DEF Tweaks!brandingHead
  <2>5. QED
    BY <1>1, <2>3, <2>4 DEF Tweaks!NamedIsServed
<1>3. Tweaks!OneMeasurement
  BY DEF TweaksInv, OneMeasureAtWork, Tweaks!OneMeasurement
<1>4. QED
  BY <1>1, <1>2, <1>3

LEMMA TweaksChangeTheirOwn ==
  ASSUME Tweaks!ConstantsOK, TweaksInv, Tweaks!Next
  PROVE  Tweaks!ChangesOnlyItsOwnStep
<1> USE DEF TweaksInv
<1> DEFINE moved == {s \in TweakKeys : tweaks'[s] # tweaks[s]}
           renamed == {s \in Slots : logos'[s] # logos[s]}
<1>1. SUFFICES /\ \A r, s \in moved \ {"disk"} : r = s
               /\ "disk" \in moved => moved \subseteq {"disk", "table"}
               /\ \A r, s \in renamed : r = s
               /\ \A a \in Admins :
                    tweakReq[a].at = "write" /\ tweakReq'[a].at # "write" =>
                      moved \subseteq {tweakReq[a].key, "disk"}
  <2>1. /\ \A r, s \in TweakKeys \ {"disk"} : tweaks'[r] # tweaks[r] /\ tweaks'[s] # tweaks[s]
               => r = s
        /\ \A r, s \in Slots : logos'[r] # logos[r] /\ logos'[s] # logos[s] => r = s
    BY <1>1
  <2>2. tweaks'["disk"] # tweaks["disk"] => moved \subseteq {"disk", "table"}
    BY <1>1, BlankChanges
  <2>3. ASSUME NEW a \in Admins, tweakReq[a].at = "write", tweakReq'[a].at # "write",
               NEW s \in TweakKeys \ {tweakReq[a].key, "disk"}
        PROVE  tweaks'[s] = tweaks[s]
    BY <1>1, <2>3
  <2>4. QED
    BY <2>1, <2>2, <2>3 DEF Tweaks!ChangesOnlyItsOwnStep
<1>2. ASSUME NEW a \in Admins, Tweaks!setTweaks(a)
      PROVE  /\ \A r, s \in moved \ {"disk"} : r = s
             /\ "disk" \in moved => moved \subseteq {"disk", "table"}
             /\ renamed = {}
             /\ \A b \in Admins :
                  tweakReq[b].at = "write" /\ tweakReq'[b].at # "write" =>
                    moved \subseteq {tweakReq[b].key, "disk"}
  <2> DEFINE key == tweakReq[a].key
             put == [tweaks EXCEPT ![key] = tweakReq[a].value]
  <2>1. /\ tweaks' = Tweaks!withTweakDependencies(put) /\ renamed = {}
        /\ (tweaks["disk"] => tweaks["table"])
    BY <1>2 DEF Tweaks!setTweaks, ReadIsSaved, Tweaks!Wanted
  <2>2. /\ put \in Tweaks!Switches
        /\ \A s \in TweakKeys : s # key => put[s] = tweaks[s]
    BY ChangeTyped, TweaksTyped DEF Tweaks!Switches
  <2>3. /\ \A s \in TweakKeys \ {"disk"} : tweaks'[s] = put[s]
        /\ tweaks'["disk"] = (put["disk"] /\ put["table"])
    BY <2>1, <2>2, BlankChanges DEF Tweaks!withTweakDependencies, Tweaks!Switches
  <2>4. moved \subseteq {key, "disk"}
    BY <2>2, <2>3
  <2>5. "disk" \in moved => key \in {"disk", "table"}
    <3>1. put["disk"] \in BOOLEAN /\ put["table"] \in BOOLEAN /\ tweaks["disk"] \in BOOLEAN
      BY <2>2, BlankChanges, TweaksTyped DEF Tweaks!Switches
    <3>2. SUFFICES ASSUME key \notin {"disk", "table"} PROVE tweaks'["disk"] = tweaks["disk"]
      OBVIOUS
    <3>3. put["disk"] = tweaks["disk"] /\ put["table"] = tweaks["table"]
      BY <2>2, <3>2, BlankChanges
    <3>4. QED
      BY <2>1, <2>3, <3>1, <3>3
  <2>6. ASSUME NEW b \in Admins, tweakReq[b].at = "write" /\ tweakReq'[b].at # "write"
        PROVE  b = a
    <3>1. \A c \in Admins \ {a} : tweakReq'[c] = tweakReq[c]
      BY <1>2, TweaksTyped DEF Tweaks!setTweaks, Tweaks!Goes, Tweaks!Ends
    <3>2. QED
      BY <2>6, <3>1
  <2> HIDE DEF put, key
  <2>7. \A r, s \in moved \ {"disk"} : r = s
    BY <2>4
  <2>8. QED
    BY <2>1, <2>4, <2>5, <2>6, <2>7 DEF key
<1>3. ASSUME NEW a \in Admins, Tweaks!writeBranding(a)
      PROVE  moved = {} /\ \A r, s \in renamed : r = s
  <2>1. moved = {} /\ logos' = [logos EXCEPT ![tweakReq[a].slot] = tweakReq[a].image]
    BY <1>3 DEF Tweaks!writeBranding, Tweaks!Branded, ReadIsSaved
  <2>2. renamed \subseteq {tweakReq[a].slot}
    BY <2>1, TweaksTyped DEF Tweaks!SlotImages
  <2>3. QED
    BY <2>1, <2>2
<1>4. CASE UNCHANGED <<tweaks, logos>>
  BY <1>4
<1>5. (\E a \in Admins : Tweaks!setTweaks(a) \/ Tweaks!writeBranding(a))
          \/ UNCHANGED <<tweaks, logos>>
  BY DEF Tweaks!Next, Tweaks!settings, Tweaks!Still, Tweaks!AskSwitch, Tweaks!AskImage,
     Tweaks!TakeLock, Tweaks!LockTimeout, Tweaks!storeAsset, Tweaks!pruneAssets,
     Tweaks!reinjectTemplates, Tweaks!RenderBusy, Tweaks!AdminDies, Tweaks!AskMeasure,
     Tweaks!activeMeasurement, Tweaks!startMeasurement,
     Tweaks!repairs, Tweaks!Rendered, Tweaks!pruneMeasurements, Tweaks!scanDiskUsage,
     Tweaks!TimerSweeps, Tweaks!TimerGivesUp, Tweaks!TimerEnds,
     Tweaks!runMeasurement, Tweaks!AlreadyOver, Tweaks!scanLocked, Tweaks!WaitedTooLong,
     Tweaks!scanDisk, Tweaks!ScanFails, Tweaks!Recorded,
     Tweaks!RunnerDies
<1> HIDE DEF moved, renamed
<1>6. CASE \E a \in Admins : Tweaks!setTweaks(a)
  BY <1>2, <1>6
<1>7. CASE \E a \in Admins : Tweaks!writeBranding(a)
  BY <1>3, <1>7
<1>8. QED
  BY <1>4, <1>5, <1>6, <1>7

LEMMA SizesKeepNewest ==
  ASSUME Tweaks!ConstantsOK, TweaksInv, Tweaks!Next
  PROVE  Tweaks!NewestSizesStep
<1> USE DEF TweaksInv
<1> DEFINE Newest == /\ sizes' >= sizes
                     /\ \A j \in MeasureJobs :
                          measureJob'[j].state = "done" /\ measureJob[j].state # "done" =>
                            /\ measureJob'[j].result > measureJob[j].before
                            /\ measureJob'[j].result <= sizes'
<1>1. SUFFICES Newest
  BY DEF Tweaks!NewestSizesStep
<1>2. sizes \in Nat /\ sizes <= begun /\ sweeper.sweep \in Nat /\ begun \in Nat
  BY TweaksTyped DEF OneSweep, Tweaks!ConstantsOK
<1>3. CASE UNCHANGED <<measureJob, sizes>>
  BY <1>2, <1>3
<1>4. ASSUME NEW a \in Admins, Tweaks!startMeasurement(a) PROVE Newest
  <2>1. sizes' = sizes /\ \A j \in MeasureJobs : measureJob'[j].state = "done"
            => measureJob'[j] = measureJob[j]
    BY <1>4, TweaksTyped, MeasureTyped DEF Tweaks!startMeasurement, Tweaks!Measurements
  <2>2. QED
    BY <1>2, <2>1
<1>5. ASSUME NEW j \in MeasureJobs, NEW m, Tweaks!Becomes(j, m), m.state = "done"
          => measureJob[j].state = "done",
             sizes' = sizes
      PROVE  Newest
  <2>1. \A k \in MeasureJobs : measureJob'[k] = IF k = j THEN m ELSE measureJob[k]
    BY <1>5, TweaksTyped DEF Tweaks!Becomes
  <2>2. QED
    BY <1>2, <1>5, <2>1
<1>6. ASSUME NEW j \in MeasureJobs,
             Tweaks!runMeasurement(j) \/ Tweaks!AlreadyOver(j) \/ Tweaks!WaitedTooLong(j)
                 \/ Tweaks!ScanFails(j) \/ Tweaks!RunnerDies(j)
      PROVE  Newest
  <2>1. sizes' = sizes
    BY <1>6 DEF Tweaks!runMeasurement, Tweaks!AlreadyOver, Tweaks!WaitedTooLong,
       Tweaks!ScanFails, Tweaks!RunnerDies
  <2>2. \E m : Tweaks!Becomes(j, m) /\ (m.state = "done" => measureJob[j].state = "done")
    <3>1. /\ [measureJob[j] EXCEPT !.state = "running", !.at = "lock", !.before = sizes].state
                 = "running"
          /\ [measureJob[j] EXCEPT !.at = "gone"].state = measureJob[j].state
          /\ [measureJob[j] EXCEPT !.state = "failed", !.at = "gone"].state = "failed"
      BY MeasureTyped DEF Tweaks!Measurements
    <3>2. QED
      BY <1>6, <3>1 DEF Tweaks!runMeasurement, Tweaks!AlreadyOver, Tweaks!WaitedTooLong,
         Tweaks!ScanFails, Tweaks!RunnerDies
  <2>3. QED
    BY <1>5, <2>1, <2>2
<1>7. ASSUME NEW j \in MeasureJobs, Tweaks!scanLocked(j) PROVE Newest
  <2>1. CASE sizes # 0 /\ sizes # measureJob[j].before
    <3> DEFINE m == [measureJob[j] EXCEPT !.state = "done", !.at = "gone", !.result = sizes]
    <3>1. m.result = sizes
      BY MeasureTyped DEF Tweaks!Measurements
    <3>2. \A k \in MeasureJobs : measureJob'[k] = IF k = j THEN m ELSE measureJob[k]
      BY <1>7, <2>1, TweaksTyped DEF Tweaks!scanLocked, Tweaks!Becomes
    <3>3. sizes' = sizes /\ sizes > measureJob[j].before
      BY <1>2, <1>7, <2>1, MeasureTyped DEF Tweaks!scanLocked, Tweaks!Runs, OneSweep
    <3> HIDE DEF m
    <3>4. QED
      BY <1>2, <3>1, <3>2, <3>3
  <2>2. CASE ~(sizes # 0 /\ sizes # measureJob[j].before)
    <3>1. [measureJob[j] EXCEPT !.at = "sweep", !.sweep = begun + 1].state = measureJob[j].state
      BY MeasureTyped DEF Tweaks!Measurements
    <3>2. /\ Tweaks!Becomes(j, [measureJob[j] EXCEPT !.at = "sweep", !.sweep = begun + 1])
          /\ sizes' = sizes
      BY <1>7, <2>2 DEF Tweaks!scanLocked
    <3>3. QED
      BY <1>5, <3>1, <3>2
  <2>3. QED
    BY <2>1, <2>2
<1>8. ASSUME NEW j \in MeasureJobs, Tweaks!scanDisk(j) PROVE Newest
  <2> DEFINE m == [measureJob[j] EXCEPT !.at = "record", !.result = measureJob[j].sweep]
  <2>1. m.state = measureJob[j].state
    BY MeasureTyped DEF Tweaks!Measurements
  <2>2. \A k \in MeasureJobs : measureJob'[k] = IF k = j THEN m ELSE measureJob[k]
    BY <1>8, TweaksTyped DEF Tweaks!scanDisk, Tweaks!Becomes
  <2>3. sizes' = begun /\ sizes < begun
    BY <1>8 DEF Tweaks!scanDisk, Tweaks!Runs, OneSweep
  <2> HIDE DEF m
  <2>4. QED
    BY <1>2, <2>1, <2>2, <2>3
<1>9. ASSUME NEW j \in MeasureJobs, Tweaks!Recorded(j) PROVE Newest
  <2> DEFINE m == [measureJob[j] EXCEPT !.state = "done", !.at = "gone"]
  <2>1. m.result = measureJob[j].result
    BY MeasureTyped DEF Tweaks!Measurements
  <2>2. \A k \in MeasureJobs : measureJob'[k] = IF k = j THEN m ELSE measureJob[k]
    BY <1>9, TweaksTyped DEF Tweaks!Recorded, Tweaks!Becomes
  <2>3. /\ sizes' = sizes /\ measureJob[j].before < measureJob[j].result
        /\ measureJob[j].result <= sizes
    BY <1>9 DEF Tweaks!Recorded, Tweaks!Runs, OneSweep
  <2> HIDE DEF m
  <2>4. QED
    BY <1>2, <2>1, <2>2, <2>3, MeasureTyped
<1>10. ASSUME Tweaks!pruneMeasurements PROVE Newest
  <2>1. PICK j \in MeasureJobs : Tweaks!Becomes(j,
            [measureJob[j] EXCEPT !.state = "failed"]) /\ sizes' = sizes
    BY <1>10 DEF Tweaks!pruneMeasurements, Tweaks!Unfinished
  <2>2. [measureJob[j] EXCEPT !.state = "failed"].state = "failed"
    BY MeasureTyped DEF Tweaks!Measurements
  <2>3. QED
    BY <1>5, <2>1, <2>2
<1>11. ASSUME Tweaks!TimerEnds PROVE Newest
  <2>1. measureJob' = measureJob /\ sizes' \in {sizes, sweeper.sweep} /\ sweeper.sweep = begun
    BY <1>11 DEF Tweaks!TimerEnds, OneSweep
  <2>2. QED
    BY <1>2, <2>1
<1>12. \/ UNCHANGED <<measureJob, sizes>> \/ Tweaks!pruneMeasurements \/ Tweaks!TimerEnds
       \/ \E a \in Admins : Tweaks!startMeasurement(a)
       \/ \E j \in MeasureJobs : \/ Tweaks!runMeasurement(j) \/ Tweaks!AlreadyOver(j)
           \/ Tweaks!WaitedTooLong(j)
                                 \/ Tweaks!ScanFails(j) \/ Tweaks!RunnerDies(j)
                                     \/ Tweaks!scanLocked(j) \/ Tweaks!scanDisk(j)
                                 \/ Tweaks!Recorded(j)
  BY DEF Tweaks!Next, Tweaks!measuring, Tweaks!AskSwitch, Tweaks!AskImage, Tweaks!TakeLock,
     Tweaks!LockTimeout, Tweaks!setTweaks, Tweaks!storeAsset,
     Tweaks!writeBranding, Tweaks!pruneAssets, Tweaks!reinjectTemplates, Tweaks!RenderBusy,
     Tweaks!AdminDies, Tweaks!AskMeasure,
     Tweaks!activeMeasurement, Tweaks!repairs, Tweaks!Rendered, Tweaks!scanDiskUsage,
     Tweaks!TimerSweeps, Tweaks!TimerGivesUp
<1> HIDE DEF Newest
<1>13. QED
  BY <1>3, <1>4, <1>6, <1>7, <1>8, <1>9, <1>10, <1>11, <1>12

(* Its invariant while a behaviour is about it.                            *)
TweaksHolds == part = "tweaks" => TweaksInv

LEMMA TweaksHoldsAtFirst == Init => TweaksHolds
<1>1. SUFFICES ASSUME Init, part = "tweaks" PROVE TweaksInv
  BY DEF TweaksHolds
<1>2. Tweaks!Init
  BY <1>1 DEF Init
<1>3. QED
  BY <1>2, Constants, TweaksStart

LEMMA TweaksMoves ==
  ASSUME [Next]_vars, part' = "tweaks"
  PROVE  part = "tweaks" /\ [Tweaks!Next]_(Tweaks!tweakVars)
<1>1. part = "tweaks" /\ (Tweaks!Next \/ UNCHANGED tweakVars)
  BY DEF Next, vars
<1>2. QED
  BY <1>1 DEF tweakVars, Tweaks!tweakVars, Tweaks!settings, Tweaks!measuring, Tweaks!counts

LEMMA TweaksHoldsOn == TweaksHolds /\ [Next]_vars => TweaksHolds'
<1>1. SUFFICES ASSUME TweaksHolds, [Next]_vars, part' = "tweaks"
               PROVE  TweaksInv'
  BY DEF TweaksHolds
<1>2. TweaksInv /\ [Tweaks!Next]_(Tweaks!tweakVars)
  BY <1>1, TweaksMoves DEF TweaksHolds
<1>3. QED
  BY <1>2, Constants, TweaksGoOn

(* Once no change is under way CloudPanel's templates carry the switches   *)
(* and the images that are saved, unless a rendering was refused or        *)
(* killed and no repair has come by, every image named is served, and one  *)
(* measurement runs at a time: of any administrators, switches, slots,     *)
(* images and measurements, and wherever a request or a runner is killed.  *)
THEOREM TemplatesCarryWhatIsSaved ==
  Spec => [](part = "tweaks" => /\ Tweaks!TypeOK
                                /\ Tweaks!NamedIsServed
                                /\ Tweaks!PageCarriesWhatIsSaved
                                /\ Tweaks!OneMeasurement)
<1>1. Init => TweaksHolds
  BY TweaksHoldsAtFirst
<1>2. TweaksHolds /\ [Next]_vars => TweaksHolds'
  BY TweaksHoldsOn
<1>3. TweaksHolds
        => (part = "tweaks" => /\ Tweaks!TypeOK
                               /\ Tweaks!NamedIsServed
                               /\ Tweaks!PageCarriesWhatIsSaved
                               /\ Tweaks!OneMeasurement)
  BY Constants, TweaksAreCarried DEF TweaksHolds, TweaksInv
<1>4. QED
  BY <1>1, <1>2, <1>3, PTL DEF Spec

(* A change moves the switch or the image it names and nothing another     *)
(* administrator saved; the sizes on file are never replaced by older      *)
(* ones, and a measurement that says done reports a sweep that ended       *)
(* after it began.                                                         *)
THEOREM TweaksLeaveTheRest ==
  Spec => [][part = "tweaks" => /\ Tweaks!ChangesOnlyItsOwnStep
                                /\ Tweaks!NewestSizesStep]_vars
<1>1. Init => TweaksHolds
  BY TweaksHoldsAtFirst
<1>2. TweaksHolds /\ [Next]_vars => TweaksHolds'
  BY TweaksHoldsOn
<1>3. TweaksHolds /\ [Next]_vars
        => [part = "tweaks" => /\ Tweaks!ChangesOnlyItsOwnStep
                               /\ Tweaks!NewestSizesStep]_vars
  <2>1. SUFFICES ASSUME TweaksHolds, Next, part = "tweaks"
                 PROVE  Tweaks!ChangesOnlyItsOwnStep /\ Tweaks!NewestSizesStep
    OBVIOUS
  <2>2. TweaksInv /\ Tweaks!Next
    BY <2>1 DEF TweaksHolds, Next
  <2>3. QED
    BY <2>2, Constants, TweaksChangeTheirOwn, SizesKeepNewest
<1>4. QED
  BY <1>1, <1>2, <1>3, PTL DEF Spec

-----------------------------------------------------------------------------
(* A request past the lock holds it.                                       *)
KeyLocked == \A r \in KeyRequests :
  /\ keyReq[r].at \in {"spent", "stored"} => keyLock = r
  /\ keyReq[r].at = "free" => keyReq[r].verb = "none"

(* An account that is active has a number.                                 *)
ActiveIsKnown == \A u \in KeyUsers : account[u].active => account[u].id # 0

(* A registered key is in one entry, of the account it was made for.       *)
EntriesOwned ==
  /\ \A u \in KeyUsers, k \in Keys :
       SecKeys!Registered(u, k) => credentials[u].id # 0 /\ device[k].id = credentials[u].id
  /\ \A u, v \in KeyUsers, k \in Keys : SecKeys!Registered(u, k) /\ SecKeys!Registered(v, k)
         => u = v

(* A challenge to register is for a known account.                         *)
ChallengesNamed == \A c \in DOMAIN challenge : challenge[c].for = "register"
    => challenge[c].id # 0

(* What the keys have signed: a made key for its account, a count above    *)
(* none.                                                                   *)
AnswersMade == \A a \in answers :
  /\ challenge[a.c].for = "register" => device[a.key].id = challenge[a.c].id
  /\ challenge[a.c].for = "login" /\ a.key \notin SyncedKeys => a.count > 0

(* What a request under way carries.                                       *)
Asked == \A r \in KeyRequests : keyReq[r].at # "free" =>
  /\ keyReq[r].key \in Keys /\ keyReq[r].now <= keyClock
  /\ \/ /\ keyReq[r].verb = "sign-in" /\ keyReq[r].c \in {0} \cup DOMAIN challenge
        /\ keyReq[r].c # 0 /\ keyReq[r].key \notin SyncedKeys => keyReq[r].count > 0
     \/ /\ keyReq[r].verb = "register" /\ keyReq[r].c \in DOMAIN challenge
        /\ keyReq[r].user \in KeyUsers
        /\ keyReq[r].id # 0 /\ device[keyReq[r].key].id = keyReq[r].id

(* Under the lock, with its challenge spent: the key is as it was looked   *)
(* up.                                                                     *)
Spending == \A r \in KeyRequests : keyReq[r].at = "spent" =>
  /\ keyReq[r].c \in spent /\ keyReq[r].user \in KeyUsers
  /\ \/ /\ keyReq[r].verb = "sign-in" /\ SecKeys!Registered(keyReq[r].user, keyReq[r].key)
        /\ keyReq[r].key \notin SyncedKeys
               => keyReq[r].count > credentials[keyReq[r].user].keys[keyReq[r].key]
     \/ keyReq[r].verb = "register" /\ \A u \in KeyUsers : ~SecKeys!Registered(u, keyReq[r].key)

(* With the count stored: above what was accepted before.                  *)
Storing == \A r \in KeyRequests : keyReq[r].at = "stored" =>
  /\ keyReq[r].c \in spent /\ keyReq[r].user \in KeyUsers /\ keyReq[r].verb = "sign-in"
  /\ SecKeys!Registered(keyReq[r].user, keyReq[r].key)
  /\ credentials[keyReq[r].user].keys[keyReq[r].key] = keyReq[r].count
  /\ keyReq[r].key \notin SyncedKeys => best[keyReq[r].key] < keyReq[r].count

(* The count on file is no lower than any accepted.                        *)
Counted == \A u \in KeyUsers, k \in Keys :
  SecKeys!Registered(u, k) /\ k \notin SyncedKeys => best[k] <= credentials[u].keys[k]

(* A challenge that was answered is in the list of the spent, or over.     *)
TakenIsSpent == \A c \in accepted : c \in spent \/ challenge[c].ends <= keyClock

(* The inductive invariant of the keys.                                    *)
KeysInv ==
  /\ SecKeys!TypeOK /\ KeyLocked /\ ActiveIsKnown /\ EntriesOwned /\ ChallengesNamed
  /\ AnswersMade /\ Asked
  /\ Spending /\ Storing /\ Counted /\ TakenIsSpent

(* The first state has it.                                                 *)
LEMMA KeysStart == SecKeys!Init => KeysInv
<1> SUFFICES ASSUME SecKeys!Init PROVE KeysInv
  OBVIOUS
<1> USE Constants DEF SecKeys!ConstantsOK, SecKeys!Init, SecKeys!Registered, SecKeys!Absent,
    SecKeys!NoEntry, SecKeys!NoAccount, SecKeys!Idle, SecKeys!NoFind, SecKeys!Counts,
    SecKeys!Users, SecKeys!Ids, SecKeys!Roles
<1>1. SecKeys!TypeOK
  BY DEF SecKeys!TypeOK, SecKeys!Request, SecKeys!Challenge
<1>2. /\ KeyLocked /\ ActiveIsKnown /\ ChallengesNamed /\ AnswersMade /\ Asked /\ Spending
      /\ Storing /\ TakenIsSpent
  BY DEF KeyLocked, ActiveIsKnown, ChallengesNamed, AnswersMade, Asked, Spending, Storing,
     TakenIsSpent
<1>3. EntriesOwned /\ Counted
  BY DEF EntriesOwned, Counted
<1> QED
  BY <1>1, <1>2, <1>3 DEF KeysInv

-----------------------------------------------------------------------------
(* Find gives the entry a key is in, which is one at most.                 *)
LEMMA FindsTheEntry ==
  ASSUME SecKeys!TypeOK, EntriesOwned, NEW k \in Keys
  PROVE  /\ SecKeys!Find(k) # SecKeys!NoFind =>
              /\ SecKeys!Find(k).user \in KeyUsers
              /\ SecKeys!Registered(SecKeys!Find(k).user, k)
              /\ SecKeys!Find(k).id = credentials[SecKeys!Find(k).user].id
              /\ SecKeys!Find(k).count = credentials[SecKeys!Find(k).user].keys[k]
         /\ SecKeys!Find(k) = SecKeys!NoFind => \A u \in KeyUsers : ~SecKeys!Registered(u, k)
         /\ SecKeys!Find(k) \in [user : SecKeys!Users, id : SecKeys!Ids, count : SecKeys!Counts]
<1>1. CASE \E u \in KeyUsers : SecKeys!Registered(u, k)
  <2> DEFINE u == CHOOSE v \in KeyUsers : SecKeys!Registered(v, k)
  <2>1. u \in KeyUsers /\ SecKeys!Registered(u, k)
    BY <1>1
  <2>2. SecKeys!Find(k) =
            [user |-> u, id |-> credentials[u].id, count |-> credentials[u].keys[k]]
    BY <1>1 DEF SecKeys!Find
  <2> HIDE DEF u
  <2>3. /\ credentials[u].id \in SecKeys!Ids /\ credentials[u].keys[k] \in SecKeys!Counts
        /\ credentials[u].id # 0
    BY <2>1 DEF SecKeys!TypeOK, SecKeys!Registered, EntriesOwned
  <2>4. SecKeys!Find(k) # SecKeys!NoFind
    BY <2>2, <2>3 DEF SecKeys!NoFind
  <2>5. SecKeys!Find(k) \in [user : SecKeys!Users, id : SecKeys!Ids, count : SecKeys!Counts]
    BY <2>1, <2>2, <2>3 DEF SecKeys!Users
  <2>6. /\ SecKeys!Find(k).user = u /\ SecKeys!Find(k).id = credentials[u].id
        /\ SecKeys!Find(k).count = credentials[u].keys[k]
    BY <2>2
  <2> QED
    BY <2>1, <2>4, <2>5, <2>6
<1>2. CASE ~\E u \in KeyUsers : SecKeys!Registered(u, k)
  <2>1. SecKeys!Find(k) = SecKeys!NoFind
    BY <1>2 DEF SecKeys!Find
  <2> QED
    BY <1>2, <2>1, Constants DEF SecKeys!NoFind, SecKeys!Users, SecKeys!Ids, SecKeys!Counts,
       SecKeys!ConstantsOK
<1> QED
  BY <1>1, <1>2

(* The fields of a request, of a challenge, an entry and an answer, one    *)
(* by one.                                                                 *)
LEMMA RequestsTyped ==
  ASSUME SecKeys!TypeOK, NEW r \in KeyRequests
  PROVE  /\ keyReq[r].at \in {"free", "wait", "spent", "stored"}
         /\ keyReq[r].verb \in {"none", "sign-in", "register"}
         /\ keyReq[r].user \in SecKeys!Users /\ keyReq[r].id \in SecKeys!Ids
         /\ keyReq[r].key \in Keys \cup {"none"}
         /\ keyReq[r].c \in 0..MaxChallenges /\ keyReq[r].count \in SecKeys!Counts
         /\ keyReq[r].now \in 0..MaxKeyClock
         /\ keyReq[r].c \in Int /\ keyReq[r].count \in Int /\ keyReq[r].now \in Int
         /\ keyClock \in Int
         /\ keyReq[r] \in SecKeys!Request
<1>1. keyReq[r] \in SecKeys!Request /\ keyClock \in 0..MaxKeyClock
  BY DEF SecKeys!TypeOK
<1> QED
  BY <1>1, Constants DEF SecKeys!Request, SecKeys!Counts, SecKeys!ConstantsOK

LEMMA ChallengesTyped ==
  ASSUME SecKeys!TypeOK, NEW c \in DOMAIN challenge
  PROVE  /\ challenge[c] \in SecKeys!Challenge /\ challenge[c].ends \in Int
         /\ challenge[c].id \in SecKeys!Ids
         /\ challenge[c].for \in {"login", "register"} /\ challenge[c].ends > 0
         /\ c \in 1..Len(challenge) /\ c # 0 /\ c \in 0..MaxChallenges /\ c \in Int
<1>1. challenge \in Seq(SecKeys!Challenge) /\ c \in 1..Len(challenge) /\ Len(challenge) <=
          MaxChallenges
      /\ Len(challenge) \in Nat
  BY DEF SecKeys!TypeOK
<1>2. challenge[c] \in SecKeys!Challenge
  BY <1>1
<1> QED
  BY <1>1, <1>2, Constants DEF SecKeys!Challenge, SecKeys!ConstantsOK

LEMMA EntriesTyped ==
  ASSUME SecKeys!TypeOK, NEW u \in KeyUsers, NEW k \in Keys
  PROVE  /\ credentials[u]
                \in [id : SecKeys!Ids, keys : [Keys -> SecKeys!Counts \cup {SecKeys!Absent}]]
         /\ credentials[u].keys[k] \in Int
         /\ (SecKeys!Registered(u, k) => credentials[u].keys[k] \in SecKeys!Counts)
         /\ device[k] \in [id : SecKeys!Ids, count : SecKeys!Counts] /\ best[k] \in Int
         /\ account[u] \in [id : SecKeys!Ids, active : BOOLEAN, role : SecKeys!Roles]
BY Constants DEF SecKeys!TypeOK, SecKeys!Counts, SecKeys!Registered, SecKeys!Absent,
   SecKeys!ConstantsOK

LEMMA AnswersTyped ==
  ASSUME SecKeys!TypeOK, NEW a \in answers
  PROVE  /\ a.c \in DOMAIN challenge /\ a.key \in Keys /\ a.count \in SecKeys!Counts
         /\ a.count \in Int
BY Constants DEF SecKeys!TypeOK, SecKeys!Counts, SecKeys!ConstantsOK

LEMMA IdleIsRequest == SecKeys!Idle \in SecKeys!Request /\ SecKeys!Idle.at =
    "free" /\ SecKeys!Idle.verb = "none"
BY Constants DEF SecKeys!Idle, SecKeys!Request, SecKeys!NoFind, SecKeys!Users, SecKeys!Ids,
   SecKeys!Counts, SecKeys!ConstantsOK

KeyCounts ==
    [ids : 1..MaxAccountIds, runs : 0..MaxKeyRuns, moves : 0..MaxKeyMoves,
    kills : 0..MaxKeyKills]

(* What is counted stays in its bounds.                                    *)
LEMMA CountSpent ==
  ASSUME SecKeys!TypeOK, \/ SecKeys!Spend("runs", MaxKeyRuns)
      \/ SecKeys!Spend("moves", MaxKeyMoves) \/ SecKeys!Spend("kills", MaxKeyKills)
  PROVE  keyCount' \in KeyCounts
<1>1. keyCount \in KeyCounts
  BY DEF SecKeys!TypeOK, KeyCounts
<1> QED
  BY <1>1, Constants DEF SecKeys!Spend, SecKeys!ConstantsOK, KeyCounts

(* One request's record goes from one value to another.                    *)
LEMMA RequestSet ==
  ASSUME SecKeys!TypeOK, NEW r \in KeyRequests, NEW q \in SecKeys!Request,
      keyReq' = [keyReq EXCEPT ![r] = q]
  PROVE  /\ keyReq' \in [KeyRequests -> SecKeys!Request] /\ keyReq'[r] = q
         /\ \A s \in KeyRequests : s # r => keyReq'[s] = keyReq[s]
BY DEF SecKeys!TypeOK

(* What CloudPanel, the clock and the settings do beside.                  *)
LEMMA TickKeeps ==
  ASSUME KeysInv, SecKeys!Tick
  PROVE  KeysInv'
<1> USE DEF KeysInv, SecKeys!Tick
<1>1. SecKeys!TypeOK'
  BY Constants DEF SecKeys!TypeOK, SecKeys!ConstantsOK
<1>2. KeyLocked' /\ ActiveIsKnown' /\ ChallengesNamed' /\ AnswersMade'
  BY DEF KeyLocked, ActiveIsKnown, ChallengesNamed, AnswersMade
<1>3. EntriesOwned' /\ Spending' /\ Storing' /\ Counted'
  BY DEF EntriesOwned, Spending, Storing, Counted, SecKeys!Registered
<1>4. Asked'
  BY RequestsTyped DEF Asked
<1>5. TakenIsSpent'
  <2> SUFFICES ASSUME NEW c \in accepted, c \notin spent PROVE challenge[c].ends <= keyClock + 1
    BY DEF TakenIsSpent
  <2>1. c \in DOMAIN challenge /\ keyClock \in Int
    BY Constants DEF SecKeys!TypeOK, SecKeys!ConstantsOK
  <2> QED
    BY <2>1, ChallengesTyped DEF TakenIsSpent
<1> QED
  BY <1>1, <1>2, <1>3, <1>4, <1>5

LEMMA SettingsKeep ==
  ASSUME KeysInv, NEW roles \in SUBSET SecKeys!Roles, NEW synced \in BOOLEAN,
      SecKeys!SaveSettings(roles, synced)
  PROVE  KeysInv'
<1> USE DEF KeysInv, SecKeys!SaveSettings
<1>1. SecKeys!TypeOK'
  BY CountSpent DEF SecKeys!TypeOK, KeyCounts
<1>2. /\ KeyLocked' /\ ActiveIsKnown' /\ ChallengesNamed' /\ AnswersMade' /\ Asked'
      /\ TakenIsSpent'
  BY DEF KeyLocked, ActiveIsKnown, ChallengesNamed, AnswersMade, Asked, TakenIsSpent
<1>3. EntriesOwned' /\ Spending' /\ Storing' /\ Counted'
  BY DEF EntriesOwned, Spending, Storing, Counted, SecKeys!Registered
<1> QED
  BY <1>1, <1>2, <1>3

LEMMA PanelKeeps ==
  ASSUME KeysInv, NEW u \in KeyUsers, SecKeys!PanelMoves(u)
  PROVE  KeysInv'
<1> USE DEF KeysInv
<1>1. /\ UNCHANGED <<credentials, keySettings, challenge, spent, device, answers, cookie,
             keyReq, keyLock, keyClock, best, accepted>>
      /\ keyCount' \in KeyCounts
      /\ account' \in [KeyUsers -> [id : SecKeys!Ids, active : BOOLEAN, role : SecKeys!Roles]]
      /\ \A v \in KeyUsers : account'[v].active => account'[v].id # 0
  <2>1. account[u] \in [id : SecKeys!Ids, active : BOOLEAN, role : SecKeys!Roles] /\ account
            \in [KeyUsers -> [id : SecKeys!Ids, active : BOOLEAN, role : SecKeys!Roles]]
        /\ keyCount \in KeyCounts /\ 0 \in SecKeys!Ids
    BY Constants DEF SecKeys!TypeOK, KeyCounts, SecKeys!Ids, SecKeys!ConstantsOK
  <2>2. CASE /\ account[u].id = 0 /\ keyCount.ids < MaxAccountIds
             /\ account' =
                    [account EXCEPT ![u] =
                    [id |-> keyCount.ids + 1, active |-> TRUE, role |-> "user"]]
             /\ keyCount' = [keyCount EXCEPT !.ids = @ + 1]
    <3>1. keyCount.ids \in 1..MaxAccountIds /\ keyCount' \in KeyCounts
      BY <2>1, <2>2, Constants DEF KeyCounts, SecKeys!ConstantsOK
    <3>2. [id |-> keyCount.ids + 1, active |-> TRUE, role |-> "user"]
              \in [id : SecKeys!Ids, active : BOOLEAN, role : SecKeys!Roles]
          /\ keyCount.ids + 1 # 0
      BY <2>2, <3>1, Constants DEF SecKeys!Ids, SecKeys!Roles, SecKeys!ConstantsOK
    <3> QED
      BY <2>1, <2>2, <3>1, <3>2 DEF SecKeys!PanelMoves, ActiveIsKnown
  <2>3. CASE /\ account[u].id # 0 /\ SecKeys!Spend("moves", MaxKeyMoves)
             /\ account' = [account EXCEPT ![u] = SecKeys!NoAccount]
    <3>1. /\ SecKeys!NoAccount \in [id : SecKeys!Ids, active : BOOLEAN, role : SecKeys!Roles]
          /\ ~SecKeys!NoAccount.active
      BY <2>1 DEF SecKeys!NoAccount, SecKeys!Roles
    <3> QED
      BY <2>1, <2>3, <3>1, CountSpent DEF SecKeys!PanelMoves, ActiveIsKnown
  <2>4. CASE /\ account[u].id # 0 /\ SecKeys!Spend("moves", MaxKeyMoves)
             /\ account' = [account EXCEPT ![u].active = ~@]
    BY <2>1, <2>4, CountSpent DEF SecKeys!PanelMoves, ActiveIsKnown
  <2>5. CASE account[u].id # 0 /\ SecKeys!Spend("moves", MaxKeyMoves)
             /\ account' =
                    [account EXCEPT ![u].role = CHOOSE x
                    \in SecKeys!Roles : x # account[u].role]
    <3>1. (CHOOSE x \in SecKeys!Roles : x # account[u].role) \in SecKeys!Roles
      <4>1. \E x \in SecKeys!Roles : x # account[u].role
        BY DEF SecKeys!Roles
      <4> QED
        BY <4>1
    <3> DEFINE x0 == CHOOSE x \in SecKeys!Roles : x # account[u].role
    <3> HIDE DEF x0
    <3> QED
      BY <2>1, <2>5, <3>1, CountSpent DEF SecKeys!PanelMoves, ActiveIsKnown, x0
  <2> QED
    BY <2>2, <2>3, <2>4, <2>5 DEF SecKeys!PanelMoves
<1>2. SecKeys!TypeOK'
  BY <1>1 DEF SecKeys!TypeOK, KeyCounts
<1>3. /\ KeyLocked' /\ ActiveIsKnown' /\ ChallengesNamed' /\ AnswersMade' /\ Asked'
      /\ TakenIsSpent'
  BY <1>1 DEF KeyLocked, ActiveIsKnown, ChallengesNamed, AnswersMade, Asked, TakenIsSpent
<1>4. EntriesOwned' /\ Spending' /\ Storing' /\ Counted'
  BY <1>1 DEF EntriesOwned, Spending, Storing, Counted, SecKeys!Registered
<1> QED
  BY <1>2, <1>3, <1>4

(* The browser and the keys: a challenge asked for, one signed.            *)
LEMMA OptionsKeep ==
  ASSUME KeysInv, SecKeys!LoginOptions \/ \E u \in KeyUsers : SecKeys!RegisterOptions(u)
  PROVE  KeysInv'
<1> USE DEF KeysInv
<1>1. PICK p \in {"login", "register"}, u \in SecKeys!Users, id \in SecKeys!Ids :
        /\ SecKeys!Issue(p, u, id) /\ (p = "register" => id # 0)
        /\ cookie' \in {cookie, SecKeys!Fresh}
        /\ UNCHANGED <<account, credentials, keySettings, spent, device, answers, keyReq,
               keyLock, keyClock, keyCount, best, accepted>>
  <2>1. CASE SecKeys!LoginOptions
    BY <2>1, Constants DEF SecKeys!LoginOptions, SecKeys!Users, SecKeys!Ids, SecKeys!ConstantsOK
  <2>2. CASE \E u \in KeyUsers : SecKeys!RegisterOptions(u)
    <3>1. PICK u \in KeyUsers : SecKeys!RegisterOptions(u)
      BY <2>2
    <3>2. account[u].id \in SecKeys!Ids /\ account[u].id # 0
      BY <3>1 DEF SecKeys!TypeOK, SecKeys!RegisterOptions, ActiveIsKnown
    <3> QED
      BY <3>1, <3>2 DEF SecKeys!RegisterOptions, SecKeys!Users
  <2> QED
    BY <2>1, <2>2
<1> DEFINE n == [for |-> p, user |-> u, id |-> id, ends |-> keyClock + 1]
<1>2. /\ n \in SecKeys!Challenge /\ challenge \in Seq(SecKeys!Challenge) /\ n.id = id
      /\ n.for = p /\ n.ends = keyClock + 1
  BY Constants DEF SecKeys!TypeOK, SecKeys!Challenge, SecKeys!ConstantsOK
<1>3. /\ challenge' = Append(challenge, n) /\ SecKeys!Fresh <= MaxChallenges
      /\ SecKeys!Fresh = Len(challenge) + 1
  BY <1>1 DEF SecKeys!Issue, SecKeys!Fresh
<1> HIDE DEF n
<1>4. /\ challenge' \in Seq(SecKeys!Challenge) /\ Len(challenge') = SecKeys!Fresh
      /\ SecKeys!Fresh \in Nat
      /\ DOMAIN challenge' = 1..SecKeys!Fresh /\ DOMAIN challenge = 1..(SecKeys!Fresh - 1)
      /\ \A c \in DOMAIN challenge : c \in DOMAIN challenge' /\ challenge'[c] = challenge[c]
      /\ challenge'[SecKeys!Fresh] = n
  BY <1>2, <1>3
<1>5. SecKeys!TypeOK'
  <2>1. /\ challenge' \in Seq(SecKeys!Challenge) /\ Len(challenge') <= MaxChallenges
        /\ DOMAIN challenge \subseteq DOMAIN challenge'
        /\ cookie' \in {0} \cup DOMAIN challenge'
    BY <1>1, <1>3, <1>4 DEF SecKeys!TypeOK
  <2>2. answers' \subseteq [c : DOMAIN challenge', key : Keys, count : SecKeys!Counts]
    BY <1>1, <2>1 DEF SecKeys!TypeOK
  <2> QED
    BY <1>1, <2>1, <2>2 DEF SecKeys!TypeOK
<1>6. KeyLocked' /\ ActiveIsKnown'
  BY <1>1 DEF KeyLocked, ActiveIsKnown
<1>7. EntriesOwned' /\ Spending' /\ Storing' /\ Counted'
  <2>1. UNCHANGED <<credentials, device, best, keyReq, spent>>
    BY <1>1
  <2> QED
    BY <2>1 DEF EntriesOwned, Spending, Storing, Counted, SecKeys!Registered
<1>8. ChallengesNamed'
  BY <1>1, <1>2, <1>4 DEF ChallengesNamed
<1>9. AnswersMade'
  <2> SUFFICES ASSUME NEW a \in answers
               PROVE  /\ challenge'[a.c].for = "register"
                             => device[a.key].id = challenge'[a.c].id
                      /\ challenge'[a.c].for = "login" /\ a.key \notin SyncedKeys => a.count > 0
    BY <1>1 DEF AnswersMade
  <2> QED
    BY <1>4, AnswersTyped DEF AnswersMade
<1>10. Asked'
  BY <1>1, <1>4 DEF Asked
<1>11. TakenIsSpent'
  <2>1. accepted \subseteq DOMAIN challenge
    BY DEF SecKeys!TypeOK
  <2> QED
    BY <1>1, <1>4, <2>1 DEF TakenIsSpent
<1> QED
  BY <1>5, <1>6, <1>7, <1>8, <1>9, <1>10, <1>11

LEMMA TouchKeeps ==
  ASSUME KeysInv, NEW k \in Keys, NEW c \in DOMAIN challenge, SecKeys!Touch(k, c)
  PROVE  KeysInv'
<1> USE DEF KeysInv
<1>1. PICK n \in SecKeys!Counts :
        /\ answers' = answers \cup {[c |-> c, key |-> k, count |-> n]}
        /\ \/ /\ challenge[c].for = "register" /\ device[k].id = 0
              /\ device' = [device EXCEPT ![k].id = challenge[c].id]
           \/ /\ challenge[c].for # "register" /\ (k \notin SyncedKeys => n > 0)
              /\ device' = [device EXCEPT ![k].count = IF n > @ THEN n ELSE @]
        /\ UNCHANGED <<account, credentials, keySettings, challenge, spent, cookie, keyReq,
               keyLock, keyClock, keyCount, best, accepted>>
  <2>1. CASE challenge[c].for = "register"
    BY <2>1, Constants DEF SecKeys!Touch, SecKeys!Counts, SecKeys!ConstantsOK
  <2>2. CASE challenge[c].for # "register"
    <3>1. PICK n \in (IF k \in SyncedKeys THEN {0}
              ELSE 1..(device[k].count + 1) \cap SecKeys!Counts) :
            /\ answers' = answers \cup {[c |-> c, key |-> k, count |-> n]}
            /\ device' = [device EXCEPT ![k].count = IF n > @ THEN n ELSE @]
      BY <2>2 DEF SecKeys!Touch
    <3>2. n \in SecKeys!Counts /\ (k \notin SyncedKeys => n > 0)
      BY <3>1, EntriesTyped, Constants DEF SecKeys!Counts, SecKeys!ConstantsOK
    <3> QED
      BY <2>2, <3>1, <3>2 DEF SecKeys!Touch
  <2> QED
    BY <2>1, <2>2
<1>2. /\ device \in [Keys -> [id : SecKeys!Ids, count : SecKeys!Counts]]
      /\ challenge[c].id \in SecKeys!Ids
  BY ChallengesTyped DEF SecKeys!TypeOK
<1>3. /\ device' \in [Keys -> [id : SecKeys!Ids, count : SecKeys!Counts]]
      /\ \A l \in Keys : device[l].id # 0 => device'[l].id = device[l].id
      /\ challenge[c].for = "register" => device'[k].id = challenge[c].id
  BY <1>1, <1>2
<1>4. SecKeys!TypeOK'
  <2>1. [c |-> c, key |-> k, count |-> n]
            \in [c : DOMAIN challenge, key : Keys, count : SecKeys!Counts]
    OBVIOUS
  <2> QED
    BY <1>1, <1>3, <2>1 DEF SecKeys!TypeOK
<1>5. KeyLocked' /\ ActiveIsKnown' /\ ChallengesNamed' /\ TakenIsSpent'
  BY <1>1 DEF KeyLocked, ActiveIsKnown, ChallengesNamed, TakenIsSpent
<1>6. Spending' /\ Storing' /\ Counted'
  BY <1>1 DEF Spending, Storing, Counted, SecKeys!Registered
<1>7. EntriesOwned'
  BY <1>1, <1>3 DEF EntriesOwned, SecKeys!Registered
<1>8. Asked'
  BY <1>1, <1>3 DEF Asked
<1>9. AnswersMade'
  <2> SUFFICES ASSUME NEW a \in answers'
               PROVE  /\ challenge[a.c].for = "register"
                             => device'[a.key].id = challenge[a.c].id
                      /\ challenge[a.c].for = "login" /\ a.key \notin SyncedKeys => a.count > 0
    BY <1>1 DEF AnswersMade
  <2>1. CASE a \in answers
    <3>1. a.c \in DOMAIN challenge /\ a.key \in Keys
      BY <2>1, AnswersTyped
    <3> QED
      BY <1>3, <2>1, <3>1 DEF AnswersMade, ChallengesNamed
  <2>2. CASE a = [c |-> c, key |-> k, count |-> n]
    BY <1>1, <1>3, <2>2
  <2> QED
    BY <1>1, <2>1, <2>2
<1> QED
  BY <1>4, <1>5, <1>6, <1>7, <1>8, <1>9

(* A key taken out.                                                        *)
LEMMA RemoveKeeps ==
  ASSUME KeysInv, NEW u \in KeyUsers, NEW k \in Keys, SecKeys!RemoveKey(u, k)
  PROVE  KeysInv'
<1> USE DEF KeysInv
<1>1. /\ keyLock = "none" /\ keyCount' \in KeyCounts
      /\ UNCHANGED <<account, keySettings, challenge, spent, device, answers, cookie, keyReq,
             keyLock, keyClock, best, accepted>>
  BY CountSpent DEF SecKeys!RemoveKey
<1> DEFINE e == [credentials[u] EXCEPT !.keys[k] = SecKeys!Absent]
           w == IF \A l \in Keys : e.keys[l] = SecKeys!Absent THEN SecKeys!NoEntry ELSE e
<1>2. credentials' = [credentials EXCEPT ![u] = w]
  BY DEF SecKeys!RemoveKey, SecKeys!Written
<1>3. /\ w \in [id : SecKeys!Ids, keys : [Keys -> SecKeys!Counts \cup {SecKeys!Absent}]]
      /\ \A l \in Keys : w.keys[l] # SecKeys!Absent =>
           l # k /\ w.keys[l] = credentials[u].keys[l] /\ w.id = credentials[u].id
  <2>1. credentials[u]
            \in [id : SecKeys!Ids, keys : [Keys -> SecKeys!Counts \cup {SecKeys!Absent}]]
    BY EntriesTyped
  <2>2. SecKeys!NoEntry
            \in [id : SecKeys!Ids,
            keys : [Keys -> SecKeys!Counts \cup {SecKeys!Absent}]] /\ \A l
            \in Keys : SecKeys!NoEntry.keys[l] = SecKeys!Absent
    BY Constants DEF SecKeys!NoEntry, SecKeys!Ids, SecKeys!ConstantsOK
  <2>3. /\ e \in [id : SecKeys!Ids, keys : [Keys -> SecKeys!Counts \cup {SecKeys!Absent}]]
        /\ e.id = credentials[u].id
        /\ e.keys[k] = SecKeys!Absent /\ \A l \in Keys : l # k
               => e.keys[l] = credentials[u].keys[l]
    BY <2>1
  <2> HIDE DEF e
  <2> QED
    BY <2>2, <2>3
<1> HIDE DEF w
<1>4. /\ credentials'
             \in [KeyUsers -> [id : SecKeys!Ids,
             keys : [Keys -> SecKeys!Counts \cup {SecKeys!Absent}]]]
      /\ \A v \in KeyUsers, l \in Keys : SecKeys!Registered(v, l)' =>
           SecKeys!Registered(v, l) /\ credentials'[v].keys[l] =
               credentials[v].keys[l] /\ credentials'[v].id = credentials[v].id
  <2>1. credentials
            \in [KeyUsers -> [id : SecKeys!Ids,
            keys : [Keys -> SecKeys!Counts \cup {SecKeys!Absent}]]]
    BY DEF SecKeys!TypeOK
  <2> QED
    BY <1>2, <1>3, <2>1 DEF SecKeys!Registered
<1>5. SecKeys!TypeOK'
  BY <1>1, <1>4 DEF SecKeys!TypeOK, KeyCounts
<1>6. /\ KeyLocked' /\ ActiveIsKnown' /\ ChallengesNamed' /\ AnswersMade' /\ Asked'
      /\ TakenIsSpent'
  BY <1>1 DEF KeyLocked, ActiveIsKnown, ChallengesNamed, AnswersMade, Asked, TakenIsSpent
<1>7. EntriesOwned' /\ Counted'
  BY <1>1, <1>4 DEF EntriesOwned, Counted
<1>8. \A r \in KeyRequests : keyReq[r].at \notin {"spent", "stored"}
  BY <1>1, Constants DEF KeyLocked, SecKeys!ConstantsOK
<1>9. Spending' /\ Storing'
  BY <1>1, <1>8 DEF Spending, Storing
<1> QED
  BY <1>5, <1>6, <1>7, <1>9

(* A request that begins waits: nothing it looked up is written yet.       *)
LEMMA KeyRunBegins ==
  ASSUME KeysInv, NEW r \in KeyRequests, NEW q \in SecKeys!Request, SecKeys!Begin(r, q),
      q.at = "wait",
         q.key \in Keys, q.now = keyClock,
         \/ /\ q.verb = "sign-in" /\ q.c \in {0} \cup DOMAIN challenge
            /\ q.c # 0 /\ q.key \notin SyncedKeys => q.count > 0
         \/ /\ q.verb = "register" /\ q.c \in DOMAIN challenge /\ q.user \in KeyUsers
            /\ q.id # 0 /\ device[q.key].id = q.id
  PROVE  KeysInv'
<1> USE DEF KeysInv
<1>1. /\ UNCHANGED <<account, credentials, keySettings, challenge, spent, device, answers,
             cookie, keyLock, keyClock, best, accepted>>
      /\ keyCount' \in KeyCounts /\ keyReq' = [keyReq EXCEPT ![r] = q]
  BY CountSpent DEF SecKeys!Begin
<1>2. /\ keyReq' \in [KeyRequests -> SecKeys!Request] /\ keyReq'[r] = q
      /\ \A s \in KeyRequests : s # r => keyReq'[s] = keyReq[s]
  BY <1>1, RequestSet
<1>3. SecKeys!TypeOK'
  BY <1>1, <1>2 DEF SecKeys!TypeOK, KeyCounts
<1>4. /\ ActiveIsKnown' /\ ChallengesNamed' /\ AnswersMade' /\ TakenIsSpent' /\ EntriesOwned'
      /\ Counted'
  BY <1>1 DEF ActiveIsKnown, ChallengesNamed, AnswersMade, TakenIsSpent, EntriesOwned,
     Counted, SecKeys!Registered
<1>5. KeyLocked' /\ Spending' /\ Storing'
  BY <1>1, <1>2 DEF KeyLocked, Spending, Storing, SecKeys!Registered
<1>6. Asked'
  <2> SUFFICES ASSUME NEW s \in KeyRequests, keyReq'[s].at # "free"
               PROVE  /\ keyReq'[s].key \in Keys /\ keyReq'[s].now <= keyClock
                      /\ \/ /\ keyReq'[s].verb = "sign-in"
                            /\ keyReq'[s].c \in {0} \cup DOMAIN challenge
                            /\ keyReq'[s].c # 0 /\ keyReq'[s].key \notin SyncedKeys
                                   => keyReq'[s].count > 0
                         \/ /\ keyReq'[s].verb = "register"
                            /\ keyReq'[s].c \in DOMAIN challenge
                            /\ keyReq'[s].user \in KeyUsers
                            /\ keyReq'[s].id # 0 /\ device[keyReq'[s].key].id = keyReq'[s].id
    BY <1>1 DEF Asked
  <2>1. CASE s = r
    BY <1>2, <2>1, RequestsTyped
  <2>2. CASE s # r
    BY <1>2, <2>2 DEF Asked
  <2> QED
    BY <2>1, <2>2
<1> QED
  BY <1>3, <1>4, <1>5, <1>6

(* A request, from its start to the lock, to its end.                      *)
LEMMA SignInKeeps ==
  ASSUME KeysInv, NEW r \in KeyRequests, NEW a \in answers, SecKeys!SignIn(r, a)
  PROVE  KeysInv'
<1> USE DEF KeysInv
<1> DEFINE q ==
    [SecKeys!Idle EXCEPT !.at = "wait", !.verb = "sign-in", !.key = a.key, !.now = keyClock,
                                     !.c = IF a.c = cookie THEN cookie
                                         ELSE 0, !.count = a.count,
                                         !.found = SecKeys!Find(a.key)]
<1>1. SecKeys!Begin(r, q) /\ cookie \in DOMAIN challenge /\ challenge[cookie].for = "login"
  BY DEF SecKeys!SignIn, SecKeys!Expected
<1>2. /\ a.c \in DOMAIN challenge /\ a.key \in Keys /\ a.count \in SecKeys!Counts
      /\ a.count \in Int
  BY AnswersTyped
<1>3. SecKeys!Find(a.key) \in [user : SecKeys!Users, id : SecKeys!Ids, count : SecKeys!Counts]
  BY <1>2, FindsTheEntry
<1>4. cookie \in 0..MaxChallenges /\ keyClock \in 0..MaxKeyClock /\ cookie # 0
  BY <1>1, ChallengesTyped DEF SecKeys!TypeOK
<1>5. /\ q \in SecKeys!Request /\ q.at = "wait" /\ q.verb = "sign-in" /\ q.key = a.key
      /\ q.now = keyClock
      /\ q.c = (IF a.c = cookie THEN cookie ELSE 0) /\ q.count = a.count
  <2>1. (IF a.c = cookie THEN cookie ELSE 0) \in 0..MaxChallenges
    BY <1>4, Constants DEF SecKeys!ConstantsOK
  <2> HIDE DEF KeysInv
  <2> QED
    BY <1>2, <1>3, <1>4, <2>1, IdleIsRequest DEF SecKeys!Request
<1> HIDE DEF q
<1>6. q.c \in {0} \cup DOMAIN challenge /\ (q.c # 0 /\ q.key \notin SyncedKeys => q.count > 0)
  BY <1>1, <1>2, <1>5 DEF AnswersMade
<1> QED
  BY <1>1, <1>2, <1>5, <1>6, KeyRunBegins

LEMMA RegisterKeeps ==
  ASSUME KeysInv, NEW r \in KeyRequests, NEW a \in answers, NEW u \in KeyUsers,
      SecKeys!Register(r, u, a)
  PROVE  KeysInv'
<1> USE DEF KeysInv
<1> DEFINE q ==
    [SecKeys!Idle EXCEPT !.at = "wait", !.verb = "register", !.user = u, !.id = account[u].id,
                                     !.key = a.key, !.c = a.c, !.now = keyClock]
<1>1. /\ SecKeys!Begin(r, q) /\ account[u].active
      /\ challenge[a.c].for = "register" /\ challenge[a.c].id = account[u].id
  BY DEF SecKeys!Register, SecKeys!Expected
<1>2. a.c \in DOMAIN challenge /\ a.key \in Keys /\ a.c \in 0..MaxChallenges
  BY AnswersTyped, ChallengesTyped
<1>3. keyClock \in 0..MaxKeyClock /\ account[u].id \in SecKeys!Ids /\ account[u].id # 0
  BY <1>1, EntriesTyped DEF SecKeys!TypeOK, ActiveIsKnown
<1>4. /\ q \in SecKeys!Request /\ q.at = "wait" /\ q.verb = "register" /\ q.key = a.key
      /\ q.now = keyClock
      /\ q.c = a.c /\ q.user = u /\ q.id = account[u].id
  <2>1. u \in SecKeys!Users
    BY DEF SecKeys!Users
  <2> HIDE DEF KeysInv
  <2> QED
    BY <1>2, <1>3, <2>1, IdleIsRequest DEF SecKeys!Request
<1> HIDE DEF q
<1>5. device[q.key].id = q.id
  BY <1>1, <1>4 DEF AnswersMade
<1> QED
  BY <1>1, <1>2, <1>3, <1>4, <1>5, KeyRunBegins

LEMMA EndKeeps ==
  ASSUME KeysInv, NEW r \in KeyRequests, SecKeys!Malformed(r) \/ SecKeys!Refused(r)
      \/ SecKeys!Killed(r)
  PROVE  KeysInv'
<1> USE DEF KeysInv
<1>1. /\ UNCHANGED <<account, credentials, keySettings, challenge, spent, device, answers,
             keyClock, best, accepted>>
      /\ keyCount' \in KeyCounts /\ cookie' \in {0, cookie}
      /\ keyReq' = [keyReq EXCEPT ![r] = SecKeys!Idle]
      /\ (keyLock' = keyLock \/ (keyLock = r /\ keyLock' = "none"))
  <2>1. keyCount \in KeyCounts
    BY DEF SecKeys!TypeOK, KeyCounts
  <2> QED
    BY <2>1, CountSpent DEF SecKeys!Malformed, SecKeys!Refused, SecKeys!Killed, SecKeys!Ends,
       SecKeys!Forgets
<1>2. /\ keyReq' \in [KeyRequests -> SecKeys!Request] /\ keyReq'[r].at = "free"
      /\ keyReq'[r].verb = "none"
      /\ \A s \in KeyRequests : s # r => keyReq'[s] = keyReq[s]
  BY <1>1, RequestSet, IdleIsRequest
<1>3. SecKeys!TypeOK'
  BY <1>1, <1>2 DEF SecKeys!TypeOK, KeyCounts
<1>4. /\ ActiveIsKnown' /\ ChallengesNamed' /\ AnswersMade' /\ TakenIsSpent' /\ EntriesOwned'
      /\ Counted'
  BY <1>1 DEF ActiveIsKnown, ChallengesNamed, AnswersMade, TakenIsSpent, EntriesOwned,
     Counted, SecKeys!Registered
<1>5. KeyLocked' /\ Spending' /\ Storing'
  BY <1>1, <1>2 DEF KeyLocked, Spending, Storing, SecKeys!Registered
<1>6. Asked'
  BY <1>1, <1>2 DEF Asked
<1> QED
  BY <1>3, <1>4, <1>5, <1>6

(* Nobody else is past the lock when a request takes it.                   *)
LEMMA TakeKeeps ==
  ASSUME KeysInv, NEW r \in KeyRequests, SecKeys!Take(r)
  PROVE  KeysInv'
<1> USE DEF KeysInv
<1> DEFINE q == keyReq[r]
           u == IF q.verb = "sign-in" THEN SecKeys!foundNow(r).user ELSE q.user
<1>1. /\ UNCHANGED <<account, credentials, keySettings, challenge, device, answers, cookie,
             keyClock, keyCount, best, accepted>>
      /\ q.at = "wait" /\ keyLock = "none" /\ keyLock' = r
      /\ spent' = SecKeys!Live(q.now) \cup {q.c} /\ SecKeys!Accepts(r)
      /\ keyReq' = [keyReq EXCEPT ![r].at = "spent", ![r].user = u, ![r].id = account[u].id]
  BY DEF SecKeys!Take, SecKeys!Spent
<1>2. /\ q \in SecKeys!Request /\ q.key \in Keys /\ q.now <= keyClock /\ q.now \in Int
      /\ keyClock \in Int
  BY <1>1, RequestsTyped DEF Asked
<1>3. /\ u \in KeyUsers /\ q.c \in DOMAIN challenge /\ q.c \notin SecKeys!Live(q.now)
      /\ \/ /\ q.verb = "sign-in" /\ SecKeys!Registered(u, q.key)
            /\ q.key \notin SyncedKeys => q.count > credentials[u].keys[q.key]
         \/ /\ q.verb = "register" /\ (\A v \in KeyUsers : ~SecKeys!Registered(v, q.key))
            /\ account[u].id = q.id /\ q.id # 0 /\ device[q.key].id = q.id /\ u = q.user
  <2>1. CASE q.verb = "sign-in"
    <3>1. /\ SecKeys!foundNow(r) = SecKeys!Find(q.key) /\ SecKeys!Find(q.key) # SecKeys!NoFind
          /\ q.c # 0 /\ q.c \notin SecKeys!Live(q.now)
          /\ SecKeys!CountsUp(q.count, SecKeys!Find(q.key).count)
      BY <1>1, <2>1 DEF SecKeys!Accepts, SecKeys!Unspent, SecKeys!foundNow
    <3>2. u = SecKeys!Find(q.key).user /\ u \in KeyUsers /\ SecKeys!Registered(u, q.key)
          /\ SecKeys!Find(q.key).count = credentials[u].keys[q.key]
      BY <1>2, <2>1, <3>1, FindsTheEntry
    <3>3. q.c \in DOMAIN challenge /\ (q.key \notin SyncedKeys => q.count > 0)
      BY <1>1, <2>1, <3>1 DEF Asked
    <3> QED
      BY <2>1, <3>1, <3>2, <3>3 DEF SecKeys!CountsUp
  <2>2. CASE q.verb # "sign-in"
    <3>1. /\ q.verb = "register" /\ q.c \in DOMAIN challenge /\ q.user \in KeyUsers
          /\ q.id # 0 /\ device[q.key].id = q.id
      BY <1>1, <2>2 DEF Asked
    <3>2. /\ SecKeys!Find(q.key) = SecKeys!NoFind /\ q.c \notin SecKeys!Live(q.now)
          /\ account[q.user].id = q.id
      BY <1>1, <2>2 DEF SecKeys!Accepts, SecKeys!Unspent, SecKeys!sameAccount
    <3> QED
      BY <1>2, <2>2, <3>1, <3>2, FindsTheEntry
  <2> QED
    BY <2>1, <2>2
<1> DEFINE p == [q EXCEPT !.at = "spent", !.user = u, !.id = account[u].id]
<1>4. u \in SecKeys!Users /\ account[u].id \in SecKeys!Ids
  BY <1>3, EntriesTyped, Constants DEF SecKeys!Users, SecKeys!TypeOK
<1> HIDE DEF u
<1>5. /\ p \in SecKeys!Request /\ p.at = "spent" /\ p.user = u /\ p.id = account[u].id
      /\ p.c = q.c /\ p.verb = q.verb
      /\ p.key = q.key /\ p.now = q.now /\ p.count = q.count
  <2> HIDE DEF KeysInv
  <2> QED
    BY <1>2, <1>4 DEF SecKeys!Request
<1>6. keyReq' = [keyReq EXCEPT ![r] = p]
  BY <1>1 DEF SecKeys!TypeOK
<1> HIDE DEF p
<1>7. /\ keyReq' \in [KeyRequests -> SecKeys!Request] /\ keyReq'[r] = p
      /\ \A s \in KeyRequests : s # r => keyReq'[s] = keyReq[s]
  BY <1>5, <1>6, RequestSet
<1>8. \A s \in KeyRequests : s # r => keyReq'[s].at \notin {"spent", "stored"}
  BY <1>1, <1>7, Constants DEF KeyLocked, SecKeys!ConstantsOK
<1>9. spent' \subseteq DOMAIN challenge
  BY <1>1, <1>3 DEF SecKeys!Live, SecKeys!TypeOK
<1>10. SecKeys!TypeOK'
  BY <1>1, <1>7, <1>9 DEF SecKeys!TypeOK
<1>11. ActiveIsKnown' /\ ChallengesNamed' /\ AnswersMade' /\ EntriesOwned' /\ Counted'
  BY <1>1 DEF ActiveIsKnown, ChallengesNamed, AnswersMade, EntriesOwned, Counted,
     SecKeys!Registered
<1>12. KeyLocked' /\ Storing'
  BY <1>1, <1>5, <1>7, <1>8 DEF KeyLocked, Storing
<1>13. Spending'
  <2> SUFFICES ASSUME NEW s \in KeyRequests, keyReq'[s].at = "spent"
               PROVE  /\ keyReq'[s].c \in spent' /\ keyReq'[s].user \in KeyUsers
                      /\ \/ /\ keyReq'[s].verb = "sign-in"
                            /\ SecKeys!Registered(keyReq'[s].user, keyReq'[s].key)
                            /\ keyReq'[s].key \notin SyncedKeys
                                     => keyReq'[s].count > credentials[keyReq'[s].user].keys[keyReq'[s].key]
                         \/ keyReq'[s].verb = "register" /\ \A v
                             \in KeyUsers : ~SecKeys!Registered(v, keyReq'[s].key)
    BY <1>1 DEF Spending, SecKeys!Registered
  <2>1. s = r
    BY <1>8
  <2> QED
    BY <1>1, <1>3, <1>5, <1>7, <2>1
<1>14. Asked'
  <2> SUFFICES ASSUME NEW s \in KeyRequests, keyReq'[s].at # "free"
               PROVE  /\ keyReq'[s].key \in Keys /\ keyReq'[s].now <= keyClock
                      /\ \/ /\ keyReq'[s].verb = "sign-in"
                            /\ keyReq'[s].c \in {0} \cup DOMAIN challenge
                            /\ keyReq'[s].c # 0 /\ keyReq'[s].key \notin SyncedKeys
                                   => keyReq'[s].count > 0
                         \/ /\ keyReq'[s].verb = "register"
                            /\ keyReq'[s].c \in DOMAIN challenge
                            /\ keyReq'[s].user \in KeyUsers
                            /\ keyReq'[s].id # 0 /\ device[keyReq'[s].key].id = keyReq'[s].id
    BY <1>1 DEF Asked
  <2>1. CASE s = r
    BY <1>1, <1>2, <1>3, <1>5, <1>7, <2>1 DEF Asked
  <2>2. CASE s # r
    BY <1>7, <2>2 DEF Asked
  <2> QED
    BY <2>1, <2>2
<1>15. TakenIsSpent'
  <2> SUFFICES ASSUME NEW c \in accepted, c \notin spent' PROVE challenge[c].ends <= keyClock
    BY <1>1 DEF TakenIsSpent
  <2>1. c \in DOMAIN challenge /\ challenge[c].ends \in Int
    BY ChallengesTyped DEF SecKeys!TypeOK
  <2>2. c \in spent => challenge[c].ends <= q.now
    BY <1>1, <1>2, <2>1 DEF SecKeys!Live
  <2> QED
    BY <1>2, <2>1, <2>2 DEF TakenIsSpent
<1> QED
  BY <1>10, <1>11, <1>12, <1>13, <1>14, <1>15

(* Who stores is alone past the lock: the others keep what they know.      *)
LEMMA OneStores ==
  ASSUME KeysInv, NEW r \in KeyRequests, keyReq[r].at \in {"spent", "stored"}
  PROVE  keyLock = r /\ \A s \in KeyRequests : s # r => keyReq[s].at \notin {"spent", "stored"}
BY DEF KeysInv, KeyLocked

(* A sign-in that is stored brings its key to the number it was signed     *)
(* with; one that is refused then leaves everything.                       *)
LEMMA SignInStored ==
  ASSUME KeysInv, NEW r \in KeyRequests, SecKeys!Store(r), keyReq[r].verb = "sign-in",
         SecKeys!AllowedRole(keyReq[r].user) /\ SecKeys!AllowedKey(keyReq[r].key)
  PROVE  KeysInv'
<1> USE DEF KeysInv
<1> DEFINE q == keyReq[r]
           u == keyReq[r].user
           k == keyReq[r].key
<1>1. /\ UNCHANGED <<account, keySettings, challenge, spent, device, answers, cookie, keyLock,
             keyClock, keyCount, best, accepted>>
      /\ q.at = "spent" /\ keyReq' = [keyReq EXCEPT ![r].at = "stored"]
      /\ credentials' = [credentials EXCEPT ![u].keys[k] = q.count]
  BY DEF SecKeys!Store
<1>2. /\ u \in KeyUsers /\ k \in Keys /\ SecKeys!Registered(u, k) /\ q.c \in spent
      /\ q.count \in SecKeys!Counts /\ q.count \in Int
      /\ k \notin SyncedKeys => q.count > credentials[u].keys[k]
      /\ q \in SecKeys!Request
  BY <1>1, RequestsTyped DEF Spending, Asked
<1> DEFINE p == [q EXCEPT !.at = "stored"]
<1>3. /\ p \in SecKeys!Request /\ p.at = "stored" /\ p.verb = "sign-in" /\ p.user = u
      /\ p.key = k /\ p.c = q.c
      /\ p.count = q.count /\ p.now = q.now
  <2> HIDE DEF KeysInv
  <2> QED
    BY <1>2 DEF SecKeys!Request
<1>4. keyReq' = [keyReq EXCEPT ![r] = p]
  BY <1>1 DEF SecKeys!TypeOK
<1> HIDE DEF p
<1>5. /\ keyReq' \in [KeyRequests -> SecKeys!Request] /\ keyReq'[r] = p
      /\ \A s \in KeyRequests : s # r
             => keyReq'[s] = keyReq[s] /\ keyReq'[s].at \notin {"spent", "stored"}
  BY <1>1, <1>3, <1>4, RequestSet, OneStores
<1>6. /\ credentials'
             \in [KeyUsers -> [id : SecKeys!Ids,
             keys : [Keys -> SecKeys!Counts \cup {SecKeys!Absent}]]]
      /\ \A v \in KeyUsers : credentials'[v].id = credentials[v].id
      /\ credentials'[u].keys[k] = q.count
      /\ \A v \in KeyUsers, l \in Keys : v # u \/ l # k
             => credentials'[v].keys[l] = credentials[v].keys[l]
  <2>1. credentials
            \in [KeyUsers -> [id : SecKeys!Ids,
            keys : [Keys -> SecKeys!Counts \cup {SecKeys!Absent}]]]
    BY DEF SecKeys!TypeOK
  <2> HIDE DEF KeysInv
  <2> QED
    BY <1>1, <1>2, <2>1
<1>7. q.count # SecKeys!Absent
  BY <1>2, Constants DEF SecKeys!Counts, SecKeys!Absent, SecKeys!ConstantsOK
<1>8. \A v \in KeyUsers, l \in Keys : SecKeys!Registered(v, l)' <=> SecKeys!Registered(v, l)
  BY <1>2, <1>6, <1>7 DEF SecKeys!Registered
<1>9. SecKeys!TypeOK'
  BY <1>1, <1>5, <1>6 DEF SecKeys!TypeOK
<1>10. KeyLocked'
  BY <1>1, <1>5, OneStores DEF KeyLocked
<1>11. ActiveIsKnown' /\ ChallengesNamed' /\ AnswersMade' /\ TakenIsSpent'
  BY <1>1 DEF ActiveIsKnown, ChallengesNamed, AnswersMade, TakenIsSpent
<1>12. EntriesOwned'
  BY <1>1, <1>6, <1>8 DEF EntriesOwned
<1>13. k \notin SyncedKeys => best[k] < q.count
  BY <1>2, EntriesTyped DEF Counted
<1>14. Counted'
  <2> SUFFICES ASSUME NEW v \in KeyUsers, NEW l \in Keys, SecKeys!Registered(v, l),
      l \notin SyncedKeys
               PROVE  best[l] <= credentials'[v].keys[l]
    BY <1>1, <1>8 DEF Counted
  <2>1. CASE v = u /\ l = k
    BY <1>2, <1>6, <1>13, <2>1, EntriesTyped
  <2>2. CASE ~(v = u /\ l = k)
    BY <1>6, <2>2 DEF Counted
  <2> QED
    BY <2>1, <2>2
<1>15. Spending'
  BY <1>3, <1>5 DEF Spending
<1>16. Storing'
  <2>1. SecKeys!Registered(u, k)' /\ spent' = spent /\ best' = best
    BY <1>1, <1>2, <1>8
  <2> SUFFICES ASSUME NEW s \in KeyRequests, keyReq'[s].at = "stored" PROVE s = r
    BY <1>2, <1>3, <1>5, <1>6, <1>13, <2>1 DEF Storing
  <2> QED
    BY <1>5
<1>17. Asked'
  BY <1>1, <1>2, <1>3, <1>5 DEF Asked
<1> QED
  BY <1>9, <1>10, <1>11, <1>12, <1>14, <1>15, <1>16, <1>17

(* Where every request is idle or waits, what is left is of the others.    *)
LEMMA EndsAlone ==
  ASSUME KeysInv, NEW r \in KeyRequests, keyReq[r].at \in {"spent", "stored"},
      SecKeys!Ends(r), keyLock' = "none",
         UNCHANGED <<account, keySettings, challenge, spent, device, answers, keyClock,
             keyCount>>,
         cookie' \in {0, cookie},
         credentials' \in [KeyUsers -> [id : SecKeys!Ids,
             keys : [Keys -> SecKeys!Counts \cup {SecKeys!Absent}]]],
         best' \in [Keys -> SecKeys!Counts], accepted' \subseteq accepted \cup {keyReq[r].c},
             EntriesOwned', Counted'
  PROVE  KeysInv'
<1> USE DEF KeysInv
<1>1. /\ keyReq' \in [KeyRequests -> SecKeys!Request] /\ keyReq'[r].at = "free"
      /\ keyReq'[r].verb = "none"
      /\ \A s \in KeyRequests : s # r => keyReq'[s] = keyReq[s]
  BY RequestSet, IdleIsRequest DEF SecKeys!Ends
<1>2. \A s \in KeyRequests : keyReq'[s].at \notin {"spent", "stored"}
  BY <1>1, OneStores
<1>3. keyReq[r].c \in spent /\ spent \subseteq DOMAIN challenge
  BY DEF Spending, Storing, SecKeys!TypeOK
<1>4. SecKeys!TypeOK'
  BY <1>1, <1>3 DEF SecKeys!TypeOK
<1>5. KeyLocked' /\ Spending' /\ Storing'
  BY <1>1, <1>2 DEF KeyLocked, Spending, Storing
<1>6. ActiveIsKnown' /\ ChallengesNamed' /\ AnswersMade'
  BY DEF ActiveIsKnown, ChallengesNamed, AnswersMade
<1>7. TakenIsSpent'
  BY <1>3 DEF TakenIsSpent
<1>8. Asked'
  BY <1>1 DEF Asked
<1> QED
  BY <1>4, <1>5, <1>6, <1>7, <1>8

(* The store after the challenge is spent, and the token.                  *)
LEMMA StoreKeeps ==
  ASSUME KeysInv, NEW r \in KeyRequests, SecKeys!Store(r)
  PROVE  KeysInv'
<1> USE DEF KeysInv
<1> DEFINE q == keyReq[r]
           u == keyReq[r].user
           k == keyReq[r].key
<1>1. q.at = "spent" /\ u \in KeyUsers /\ k \in Keys
  BY DEF SecKeys!Store, Spending, Asked
<1>2. CASE q.verb = "sign-in" /\ SecKeys!AllowedRole(u) /\ SecKeys!AllowedKey(k)
  BY <1>2, SignInStored
<1>3. CASE q.verb = "sign-in" /\ ~(SecKeys!AllowedRole(u) /\ SecKeys!AllowedKey(k))
  <2>1. /\ UNCHANGED <<account, keySettings, challenge, spent, device, answers, keyClock,
               keyCount, credentials, best, accepted>>
        /\ SecKeys!Ends(r) /\ keyLock' = "none" /\ cookie' = 0
    BY <1>3 DEF SecKeys!Store, SecKeys!Forgets
  <2>2. EntriesOwned' /\ Counted'
    BY <2>1 DEF EntriesOwned, Counted, SecKeys!Registered
  <2>3. /\ credentials'
               \in [KeyUsers -> [id : SecKeys!Ids,
               keys : [Keys -> SecKeys!Counts \cup {SecKeys!Absent}]]]
        /\ best' \in [Keys -> SecKeys!Counts]
    BY <2>1 DEF SecKeys!TypeOK
  <2> QED
    BY <1>1, <2>1, <2>2, <2>3, EndsAlone
<1>4. CASE q.verb # "sign-in"
  <2>1. /\ q.verb = "register" /\ q.id # 0 /\ device[k].id = q.id
        /\ \A v \in KeyUsers : ~SecKeys!Registered(v, k)
    BY <1>1, <1>4 DEF Asked, Spending
  <2> DEFINE own == IF credentials[u].id = q.id THEN credentials[u].keys
      ELSE SecKeys!NoEntry.keys
             e == [id |-> q.id, keys |-> [own EXCEPT ![k] = 0]]
  <2>2. /\ UNCHANGED <<account, keySettings, challenge, spent, device, answers, keyClock,
               keyCount, cookie>>
        /\ credentials' = [credentials EXCEPT ![u] = e] /\ best' = [best EXCEPT ![k] = 0]
        /\ SecKeys!Ends(r) /\ keyLock' = "none" /\ accepted' = accepted \cup {q.c}
    BY <1>4 DEF SecKeys!Store
  <2>3. /\ own \in [Keys -> SecKeys!Counts \cup {SecKeys!Absent}]
        /\ \A l \in Keys : own[l] # SecKeys!Absent
               => own[l] = credentials[u].keys[l] /\ credentials[u].id = q.id
    <3>1. credentials[u].keys \in [Keys -> SecKeys!Counts \cup {SecKeys!Absent}]
      BY <1>1 DEF SecKeys!TypeOK
    <3>2. SecKeys!NoEntry.keys \in [Keys -> SecKeys!Counts \cup {SecKeys!Absent}] /\ \A l
              \in Keys : SecKeys!NoEntry.keys[l] = SecKeys!Absent
      BY DEF SecKeys!NoEntry
    <3> QED
      BY <3>1, <3>2
  <2> HIDE DEF own
  <2>4. /\ e \in [id : SecKeys!Ids, keys : [Keys -> SecKeys!Counts \cup {SecKeys!Absent}]]
        /\ e.id = q.id /\ e.keys[k] = 0
        /\ \A l \in Keys : l # k => e.keys[l] = own[l]
    <3>1. q.id \in SecKeys!Ids /\ 0 \in SecKeys!Counts
      BY RequestsTyped, Constants DEF SecKeys!Counts, SecKeys!ConstantsOK
    <3> QED
      BY <1>1, <2>3, <3>1
  <2> HIDE DEF e
  <2>5. /\ credentials'
               \in [KeyUsers -> [id : SecKeys!Ids,
               keys : [Keys -> SecKeys!Counts \cup {SecKeys!Absent}]]]
        /\ credentials'[u] = e /\ \A v \in KeyUsers : v # u => credentials'[v] = credentials[v]
    <3>1. credentials
              \in [KeyUsers -> [id : SecKeys!Ids,
              keys : [Keys -> SecKeys!Counts \cup {SecKeys!Absent}]]]
      BY DEF SecKeys!TypeOK
    <3> HIDE DEF KeysInv
    <3> QED
      BY <1>1, <2>2, <2>4, <3>1
  <2>6. best' \in [Keys -> SecKeys!Counts] /\ best'[k] = 0 /\ \A l \in Keys : l # k
            => best'[l] = best[l]
    <3>1. best \in [Keys -> SecKeys!Counts] /\ 0 \in SecKeys!Counts
      BY Constants DEF SecKeys!TypeOK, SecKeys!Counts, SecKeys!ConstantsOK
    <3> HIDE DEF KeysInv
    <3> QED
      BY <1>1, <2>2, <3>1
  <2>7. \A v \in KeyUsers, l \in Keys : SecKeys!Registered(v, l)' =>
          IF l = k THEN v = u /\ credentials'[v].keys[l] = 0 /\ credentials'[v].id =
              device[l].id
          ELSE SecKeys!Registered(v, l) /\ credentials'[v].keys[l] =
              credentials[v].keys[l] /\ credentials'[v].id = credentials[v].id
    <3> SUFFICES ASSUME NEW v \in KeyUsers, NEW l \in Keys, SecKeys!Registered(v, l)'
                 PROVE IF l = k
                     THEN v = u /\ credentials'[v].keys[l] = 0 /\ credentials'[v].id =
                     device[l].id
                       ELSE SecKeys!Registered(v, l) /\ credentials'[v].keys[l] =
                           credentials[v].keys[l] /\ credentials'[v].id = credentials[v].id
      OBVIOUS
    <3>1. CASE v = u
      BY <2>1, <2>3, <2>4, <2>5, <3>1 DEF SecKeys!Registered
    <3>2. CASE v # u
      BY <2>1, <2>5, <3>2 DEF SecKeys!Registered
    <3> QED
      BY <3>1, <3>2
  <2>8. EntriesOwned'
    <3>1. device' = device /\ device[k].id = q.id /\ q.id # 0
      BY <2>1, <2>2
    <3> QED
      BY <2>7, <3>1 DEF EntriesOwned
  <2>9. Counted'
    BY <2>6, <2>7 DEF Counted
  <2> QED
    BY <1>1, <2>2, <2>5, <2>6, <2>8, <2>9, EndsAlone
<1> QED
  BY <1>2, <1>3, <1>4

LEMMA MintKeeps ==
  ASSUME KeysInv, NEW r \in KeyRequests, SecKeys!MintPanelToken(r)
  PROVE  KeysInv'
<1> USE DEF KeysInv
<1> DEFINE q == keyReq[r]
           k == keyReq[r].key
<1>1. /\ q.at = "stored" /\ k \in Keys /\ q.user \in KeyUsers /\ SecKeys!Registered(q.user, k)
      /\ credentials[q.user].keys[k] = q.count /\ q.count \in SecKeys!Counts /\ q.count \in Int
  BY RequestsTyped DEF SecKeys!MintPanelToken, Storing, Asked
<1>2. /\ UNCHANGED <<account, keySettings, challenge, spent, device, answers, keyClock,
             keyCount, credentials>>
      /\ SecKeys!Ends(r) /\ keyLock' = "none" /\ cookie' \in {0, cookie}
      /\ accepted' = accepted \cup {q.c}
      /\ best' = [best EXCEPT ![k] = IF q.count > @ THEN q.count ELSE @]
  BY DEF SecKeys!MintPanelToken, SecKeys!Forgets
<1>3. best' \in [Keys -> SecKeys!Counts] /\ best'[k] = (IF q.count > best[k] THEN q.count
          ELSE best[k])
      /\ \A l \in Keys : l # k => best'[l] = best[l]
  BY <1>1, <1>2 DEF SecKeys!TypeOK
<1>4. EntriesOwned'
  BY <1>2 DEF EntriesOwned, SecKeys!Registered
<1>5. Counted'
  <2> SUFFICES ASSUME NEW v \in KeyUsers, NEW l \in Keys, SecKeys!Registered(v, l),
      l \notin SyncedKeys
               PROVE  best'[l] <= credentials[v].keys[l]
    BY <1>2 DEF Counted, SecKeys!Registered
  <2>1. CASE l = k
    <3>1. v = q.user
      BY <1>1, <2>1 DEF EntriesOwned
    <3> QED
      BY <1>1, <1>3, <2>1, <3>1, EntriesTyped DEF Counted
  <2>2. CASE l # k
    BY <1>3, <2>2 DEF Counted
  <2> QED
    BY <2>1, <2>2
<1>6. credentials'
          \in [KeyUsers -> [id : SecKeys!Ids,
          keys : [Keys -> SecKeys!Counts \cup {SecKeys!Absent}]]]
  BY <1>2 DEF SecKeys!TypeOK
<1> QED
  BY <1>1, <1>2, <1>3, <1>4, <1>5, <1>6, EndsAlone

(* Every step keeps it.                                                    *)
LEMMA KeysGoOn == KeysInv /\ [SecKeys!Next]_(SecKeys!keyVars) => KeysInv'
<1> SUFFICES ASSUME KeysInv, [SecKeys!Next]_(SecKeys!keyVars) PROVE KeysInv'
  OBVIOUS
<1>1. CASE SecKeys!Next
  <2>1. CASE SecKeys!LoginOptions \/ \E u \in KeyUsers : SecKeys!RegisterOptions(u)
    BY <2>1, OptionsKeep
  <2>2. CASE SecKeys!Tick
    BY <2>2, TickKeeps
  <2>3. CASE \E u \in KeyUsers : SecKeys!PanelMoves(u)
                 \/ \E k \in Keys : SecKeys!RemoveKey(u, k)
    BY <2>3, PanelKeeps, RemoveKeeps
  <2>4. CASE \E k \in Keys, c \in DOMAIN challenge : SecKeys!Touch(k, c)
    BY <2>4, TouchKeeps
  <2>5. CASE \E roles \in {{"admin"}, SecKeys!Roles},
                 synced \in BOOLEAN : SecKeys!SaveSettings(roles, synced)
    BY <2>5, SettingsKeep DEF SecKeys!Roles
  <2>6. CASE \E r \in KeyRequests : SecKeys!Take(r) \/ SecKeys!Refused(r)
                 \/ SecKeys!Malformed(r) \/ SecKeys!Store(r) \/ SecKeys!MintPanelToken(r)
                 \/ SecKeys!Killed(r)
    BY <2>6, TakeKeeps, EndKeeps, StoreKeeps, MintKeeps
  <2>7. CASE \E r \in KeyRequests, a \in answers : SecKeys!SignIn(r, a)
                 \/ \E u \in KeyUsers : SecKeys!Register(r, u, a)
    BY <2>7, SignInKeeps, RegisterKeeps
  <2> QED
    BY <1>1, <2>1, <2>2, <2>3, <2>4, <2>5, <2>6, <2>7 DEF SecKeys!Next
<1>2. CASE UNCHANGED (SecKeys!keyVars)
  <2>1. UNCHANGED <<account, credentials, keySettings, challenge, spent, device, answers,
            cookie, keyReq,
             keyLock, keyClock, keyCount, best, accepted>>
    BY <1>2 DEF SecKeys!keyVars
  <2>2. /\ SecKeys!TypeOK' /\ KeyLocked' /\ ActiveIsKnown' /\ ChallengesNamed' /\ AnswersMade'
        /\ Asked' /\ TakenIsSpent'
    BY <2>1 DEF KeysInv, SecKeys!TypeOK, KeyLocked, ActiveIsKnown, ChallengesNamed,
       AnswersMade, Asked, TakenIsSpent
  <2>3. EntriesOwned' /\ Spending' /\ Storing' /\ Counted'
    BY <2>1 DEF KeysInv, EntriesOwned, Spending, Storing, Counted, SecKeys!Registered
  <2> QED
    BY <2>2, <2>3 DEF KeysInv
<1> QED
  BY <1>1, <1>2

(* What it says.                                                           *)
LEMMA KeysAreOwned == KeysInv => SecKeys!TypeOK /\ SecKeys!KeysOfTheirAccount
BY DEF KeysInv, EntriesOwned, SecKeys!KeysOfTheirAccount

(* Which step a request's place moves in.                                  *)
LEMMA PlacesMove ==
  ASSUME KeysInv, SecKeys!Next, NEW r \in KeyRequests, keyReq'[r].at # keyReq[r].at
  PROVE  \/ keyReq[r].at = "free"
         \/ SecKeys!Take(r) \/ SecKeys!Store(r) \/ SecKeys!MintPanelToken(r)
         \/ keyReq'[r].at = "free" /\ accepted' = accepted
<1> USE DEF KeysInv
<1>1. ASSUME UNCHANGED keyReq PROVE FALSE
  BY <1>1
<1>2. CASE SecKeys!LoginOptions \/ \E u \in KeyUsers : SecKeys!RegisterOptions(u)
  BY <1>1, <1>2 DEF SecKeys!LoginOptions, SecKeys!RegisterOptions
<1>3. CASE SecKeys!Tick
               \/ \E roles \in {{"admin"}, SecKeys!Roles},
               synced \in BOOLEAN : SecKeys!SaveSettings(roles, synced)
  BY <1>1, <1>3 DEF SecKeys!Tick, SecKeys!SaveSettings
<1>4. CASE \E u \in KeyUsers : SecKeys!PanelMoves(u) \/ \E k \in Keys : SecKeys!RemoveKey(u, k)
  BY <1>1, <1>4 DEF SecKeys!PanelMoves, SecKeys!RemoveKey
<1>5. CASE \E k \in Keys, c \in DOMAIN challenge : SecKeys!Touch(k, c)
  BY <1>1, <1>5 DEF SecKeys!Touch
<1>6. ASSUME NEW s \in KeyRequests, NEW q, keyReq' = [keyReq EXCEPT ![s] = q], s # r PROVE FALSE
  BY <1>6 DEF SecKeys!TypeOK
<1>7. CASE \E s \in KeyRequests : SecKeys!Take(s) \/ SecKeys!Refused(s)
               \/ SecKeys!Malformed(s) \/ SecKeys!Store(s) \/ SecKeys!MintPanelToken(s)
               \/ SecKeys!Killed(s)
  <2>1. PICK s \in KeyRequests : SecKeys!Take(s) \/ SecKeys!Refused(s) \/ SecKeys!Malformed(s)
            \/ SecKeys!Store(s) \/ SecKeys!MintPanelToken(s) \/ SecKeys!Killed(s)
    BY <1>7
  <2>2. s # r => keyReq'[r] = keyReq[r]
    <3>1. keyReq \in [KeyRequests -> SecKeys!Request]
      BY DEF SecKeys!TypeOK
    <3>2. ASSUME s # r, SecKeys!Take(s) PROVE keyReq'[r] = keyReq[r]
      BY <3>1, <3>2 DEF SecKeys!Take
    <3>3. ASSUME s # r, SecKeys!Store(s) PROVE keyReq'[r] = keyReq[r]
      BY <3>1, <3>3 DEF SecKeys!Store, SecKeys!Ends
    <3>4. ASSUME s # r, SecKeys!Refused(s) \/ SecKeys!Malformed(s)
              \/ SecKeys!MintPanelToken(s) \/ SecKeys!Killed(s) PROVE keyReq'[r] = keyReq[r]
      BY <3>1, <3>4 DEF SecKeys!Refused, SecKeys!Malformed, SecKeys!MintPanelToken,
         SecKeys!Killed, SecKeys!Ends
    <3> QED
      BY <2>1, <3>2, <3>3, <3>4
  <2>3. s = r
    BY <2>2
  <2>4. SecKeys!Refused(r) \/ SecKeys!Malformed(r) \/ SecKeys!Killed(r)
            => keyReq'[r].at = "free" /\ accepted' = accepted
    BY IdleIsRequest DEF SecKeys!Refused, SecKeys!Malformed, SecKeys!Killed, SecKeys!Ends,
       SecKeys!TypeOK
  <2> QED
    BY <2>1, <2>3, <2>4
<1>8. CASE \E s \in KeyRequests, a \in answers : SecKeys!SignIn(s, a)
               \/ \E u \in KeyUsers : SecKeys!Register(s, u, a)
  <2>1. PICK s \in KeyRequests : \E a \in answers : SecKeys!SignIn(s, a)
            \/ \E u \in KeyUsers : SecKeys!Register(s, u, a)
    BY <1>8
  <2>2. keyReq[s].at = "free" /\ \E q : keyReq' = [keyReq EXCEPT ![s] = q]
    BY <2>1, IdleIsRequest DEF SecKeys!SignIn, SecKeys!Register, SecKeys!Begin
  <2>3. s = r
    BY <1>6, <2>2
  <2> QED
    BY <2>2, <2>3
<1> QED
  BY <1>2, <1>3, <1>4, <1>5, <1>7, <1>8 DEF SecKeys!Next

(* A token is minted for a key that is registered; storing a sign-in       *)
(* brings none back.                                                       *)
LEMMA RegisteredSignsIn == KeysInv /\ SecKeys!Next => SecKeys!RegisteredSignsInStep
<1> SUFFICES ASSUME KeysInv, SecKeys!Next, NEW r \in KeyRequests
             PROVE  /\ SecKeys!Minted(r) => SecKeys!Registered(keyReq[r].user, keyReq[r].key)
                    /\ keyReq[r].verb = "sign-in" /\ keyReq'[r].at = "stored"
                         => \A u \in KeyUsers,
                             k \in Keys : credentials'[u].keys[k] # SecKeys!Absent
                             => SecKeys!Registered(u, k)
  BY DEF SecKeys!RegisteredSignsInStep
<1>1. SecKeys!Minted(r) => SecKeys!Registered(keyReq[r].user, keyReq[r].key)
  BY DEF SecKeys!Minted, KeysInv, Storing
<1>2. ASSUME keyReq[r].verb = "sign-in", keyReq'[r].at = "stored", NEW u \in KeyUsers,
          NEW k \in Keys,
             credentials'[u].keys[k] # SecKeys!Absent
      PROVE  SecKeys!Registered(u, k)
  <2>1. CASE SecKeys!Store(r)
    <3>1. credentials
              \in [KeyUsers -> [id : SecKeys!Ids,
              keys : [Keys -> SecKeys!Counts \cup {SecKeys!Absent}]]]
          /\ keyReq[r].user \in KeyUsers /\ keyReq[r].key \in Keys
          /\ SecKeys!Registered(keyReq[r].user, keyReq[r].key)
      BY <1>2, <2>1 DEF SecKeys!Store, KeysInv, SecKeys!TypeOK, Spending, Asked
    <3>2. credentials'
              \in {credentials,
              [credentials EXCEPT ![keyReq[r].user].keys[keyReq[r].key] = keyReq[r].count]}
      BY <1>2, <2>1 DEF SecKeys!Store
    <3>3. ~(u = keyReq[r].user /\ k = keyReq[r].key)
              => credentials'[u].keys[k] = credentials[u].keys[k]
      BY <3>1, <3>2
    <3> QED
      BY <1>2, <3>1, <3>3 DEF SecKeys!Registered
  <2>2. CASE keyReq'[r].at = keyReq[r].at
    <3>1. keyLock = r /\ keyReq[r].at = "stored" /\ r # "none" /\ \A s \in KeyRequests : s # r
              => keyReq[s].at # "spent"
      BY <1>2, <2>2, OneStores, Constants DEF SecKeys!ConstantsOK
    <3>2. ASSUME NEW v \in KeyUsers, NEW l \in Keys, SecKeys!RemoveKey(v, l) PROVE FALSE
      BY <3>1, <3>2 DEF SecKeys!RemoveKey
    <3>3. ASSUME NEW s \in KeyRequests, SecKeys!Store(s) PROVE FALSE
      BY <3>1, <3>3 DEF SecKeys!Store
    <3>4. credentials' = credentials
      BY <3>2, <3>3 DEF SecKeys!Next, SecKeys!LoginOptions, SecKeys!Tick,
         SecKeys!RegisterOptions, SecKeys!PanelMoves, SecKeys!Touch, SecKeys!SaveSettings,
         SecKeys!Take,
         SecKeys!Refused, SecKeys!Malformed, SecKeys!MintPanelToken, SecKeys!Killed,
         SecKeys!SignIn, SecKeys!Register, SecKeys!Begin
    <3> QED
      BY <1>2, <3>4 DEF SecKeys!Registered
  <2>3. CASE keyReq'[r].at # keyReq[r].at /\ ~SecKeys!Store(r)
    <3>1. keyReq[r] \in SecKeys!Request /\ keyReq \in [KeyRequests -> SecKeys!Request]
      BY DEF KeysInv, SecKeys!TypeOK
    <3>2. SecKeys!Take(r) => keyReq'[r].at = "spent"
      BY <3>1 DEF SecKeys!Take, SecKeys!Request
    <3>3. SecKeys!MintPanelToken(r) => keyReq'[r].at = "free"
      BY <3>1, IdleIsRequest DEF SecKeys!MintPanelToken, SecKeys!Ends
    <3>4. keyReq[r].at = "free"
      BY <1>2, <2>3, <3>2, <3>3, PlacesMove
    <3>5. keyReq[r].verb = "none"
      BY <3>4 DEF KeysInv, KeyLocked
    <3> QED
      BY <1>2, <3>5
  <2> QED
    BY <2>1, <2>2, <2>3
<1> QED
  BY <1>1, <1>2

(* An answer whose challenge is current is not among those taken.          *)
LEMMA AcceptedOnce == KeysInv /\ SecKeys!Next => SecKeys!AcceptedOnceStep
<1> SUFFICES ASSUME KeysInv, SecKeys!Next, NEW r \in KeyRequests, keyReq[r].at = "wait",
    keyReq'[r].at = "spent",
                    challenge[keyReq[r].c].ends > keyClock, keyReq[r].c \in accepted
             PROVE  FALSE
  BY DEF SecKeys!AcceptedOnceStep
<1>1. SecKeys!Take(r)
  BY PlacesMove DEF SecKeys!Store, SecKeys!MintPanelToken
<1>2. keyReq[r].c \notin SecKeys!Live(keyReq[r].now)
  BY <1>1 DEF SecKeys!Take, SecKeys!Accepts, SecKeys!Unspent
<1>3. keyReq[r].c \in DOMAIN challenge /\ keyReq[r].now <= keyClock /\ keyReq[r].now
          \in Int /\ keyClock \in Int
      /\ challenge[keyReq[r].c].ends \in Int
  BY RequestsTyped, ChallengesTyped DEF KeysInv, Asked, SecKeys!TypeOK
<1>4. keyReq[r].c \notin spent
  BY <1>2, <1>3 DEF SecKeys!Live
<1> QED
  BY <1>3, <1>4 DEF KeysInv, TakenIsSpent

(* The number is higher than any since the key was registered.             *)
LEMMA CountsGoUp == KeysInv /\ SecKeys!Next => SecKeys!CountsUpStep
<1> SUFFICES ASSUME KeysInv, NEW r \in KeyRequests, SecKeys!Minted(r),
    keyReq[r].key \notin SyncedKeys
             PROVE  keyReq[r].count > best[keyReq[r].key]
  BY DEF SecKeys!CountsUpStep
<1>1. keyReq[r].at = "stored" /\ keyReq[r].key \in Keys /\ best[keyReq[r].key] < keyReq[r].count
  BY DEF SecKeys!Minted, KeysInv, Storing, Asked
<1>2. keyReq[r].count \in Int /\ best[keyReq[r].key] \in Int
  <2>1. SecKeys!TypeOK
    BY DEF KeysInv
  <2>2. best[keyReq[r].key] \in SecKeys!Counts
    BY <1>1, <2>1 DEF SecKeys!TypeOK
  <2> QED
    BY <2>1, <2>2, RequestsTyped, Constants DEF SecKeys!Counts, SecKeys!ConstantsOK
<1> QED
  BY <1>1, <1>2

(* Its invariant while a behaviour is about it.                            *)
KeysHolds == part = "keys" => KeysInv

LEMMA KeysHoldsAtFirst == Init => KeysHolds
<1>1. SUFFICES ASSUME Init, part = "keys" PROVE KeysInv
  BY DEF KeysHolds
<1>2. SecKeys!Init
  BY <1>1 DEF Init
<1>3. QED
  BY <1>2, Constants, KeysStart

LEMMA KeysMoves ==
  ASSUME [Next]_vars, part' = "keys"
  PROVE  part = "keys" /\ [SecKeys!Next]_(SecKeys!keyVars)
<1>1. part = "keys" /\ (SecKeys!Next \/ UNCHANGED keyVars)
  BY DEF Next, vars
<1>2. QED
  BY <1>1 DEF keyVars, SecKeys!keyVars

LEMMA KeysHoldsOn == KeysHolds /\ [Next]_vars => KeysHolds'
<1>1. SUFFICES ASSUME KeysHolds, [Next]_vars, part' = "keys"
               PROVE  KeysInv'
  BY DEF KeysHolds
<1>2. KeysInv /\ [SecKeys!Next]_(SecKeys!keyVars)
  BY <1>1, KeysMoves DEF KeysHolds
<1>3. QED
  BY <1>2, Constants, KeysGoOn

(* A key in an account's entry was made for that account: of any accounts  *)
(* and keys, however requests are interleaved or killed between two files, *)
(* and accounts are deleted and created beside.                            *)
THEOREM KeysOfTheirAccountHold ==
  Spec => [](part = "keys" => /\ SecKeys!TypeOK
                              /\ SecKeys!KeysOfTheirAccount)
<1>1. Init => KeysHolds
  BY KeysHoldsAtFirst
<1>2. KeysHolds /\ [Next]_vars => KeysHolds'
  BY KeysHoldsOn
<1>3. KeysHolds
        => (part = "keys" => /\ SecKeys!TypeOK
                             /\ SecKeys!KeysOfTheirAccount)
  BY KeysAreOwned DEF KeysHolds
<1>4. QED
  BY <1>1, <1>2, <1>3, PTL DEF Spec

(* A sign-in hands out a token for an account only by a key that is        *)
(* registered to it; no challenge's answer is taken twice while the        *)
(* challenge runs, and a key that counts is taken at a higher number than  *)
(* ever since it was registered.                                           *)
THEOREM KeysSignInOnce ==
  Spec => [][part = "keys" => /\ SecKeys!RegisteredSignsInStep
                              /\ SecKeys!AcceptedOnceStep
                              /\ SecKeys!CountsUpStep]_vars
<1>1. Init => KeysHolds
  BY KeysHoldsAtFirst
<1>2. KeysHolds /\ [Next]_vars => KeysHolds'
  BY KeysHoldsOn
<1>3. KeysHolds /\ [Next]_vars
        => [part = "keys" => /\ SecKeys!RegisteredSignsInStep
                             /\ SecKeys!AcceptedOnceStep
                             /\ SecKeys!CountsUpStep]_vars
  <2>1. SUFFICES ASSUME KeysHolds, Next, part = "keys"
                 PROVE  /\ SecKeys!RegisteredSignsInStep /\ SecKeys!AcceptedOnceStep
                        /\ SecKeys!CountsUpStep
    OBVIOUS
  <2>2. KeysInv /\ SecKeys!Next
    BY <2>1 DEF KeysHolds, Next
  <2>3. QED
    BY <2>2, Constants, RegisteredSignsIn, AcceptedOnce, CountsGoUp
<1>4. QED
  BY <1>1, <1>2, <1>3, PTL DEF Spec

-----------------------------------------------------------------------------
(* A request, what root does for it, and how long that has taken.          *)
RequestGoes(w) ==
  /\ web[w].at \in {"free", "gate", "in", "asked"} => web[w].said = "nothing"
  /\ web[w].at \in {"free", "gate", "in"} => conn[w] = "none"
  /\ conn[w] \in {"none", "request"} => proc[w].state = "none"
  /\ proc[w].state = "none" => proc[w] = Gate!NoProc
  /\ proc[w].state = "running"
         => conn[w] = "run" /\ proc[w].began <= age[w] /\ age[w] <= proc[w].began + 1
  /\ conn[w] # "none" => web[w].role = "admin" \/ Gate!callerMay(web[w].verb, web[w].role)
  /\ proc[w].state # "none" => Gate!callerMay(web[w].verb, web[w].role)
  /\ proc[w].state # "none" /\ web[w].verb = "own-account"
         => proc[w].for = web[w].cookie /\ proc[w].for # 0
  /\ web[w].said = "late" => /\ conn[w] = "request" => age[w] >= 3
                             /\ proc[w].began = 0 => proc[w].state # "running"
RequestsGo == \A w \in WebRequests : RequestGoes(w)

(* Accounts are numbered, and no number comes again.                       *)
AccountsNumbered == /\ sess.who <= reqCount + 1 /\ look.saw.who <= reqCount + 1
                    /\ \A w \in WebRequests : web[w].cookie <= reqCount + 1
LookIsOfOne ==
  /\ look.of = "nobody" => look = Gate!NoLook
  /\ look.of # "nobody"
         => web[look.of].at \notin {"free", "in"} /\ look.saw.who \in {0, web[look.of].cookie}
  /\ look.saw.who # 0 /\ look.saw.who = sess.who => look.saw.idle = sess.idle
  /\ look.stamp <= phpIni.stamp
  /\ lifeCache.stamp = phpIni.stamp => lifeCache.secs = phpIni.secs
(* What the ghosts have of a request that is open.                         *)
GhostsSince(w) ==
  /\ phpIni.secs \in lives[w]
  /\ \A l \in lives[w] : ~(Gate!IsOf(sess, w) /\ Gate!Valid(sess, keysOn, l, userRows))
         => wasLapsed[w]
  /\ Gate!AccountOf(w, userRows) => wasActive[w]
  /\ Gate!IsOf(sess, w) /\ Gate!Sound(sess, keysOn) => leastIdle[w] <= sess.idle
GhostsOfOpen == \A w \in WebRequests : Gate!Open(w) => GhostsSince(w)
(* And of the one root looks at.                                           *)
GhostsOfLook(w) ==
  /\ look.secs # 0 => look.secs \in lives[w]
  /\ ~Gate!Sound(look.saw, look.keys) => wasLapsed[w]
  /\ Gate!Sound(look.saw, look.keys) => leastIdle[w] <= look.saw.idle
GhostsOfSeen == \A w \in WebRequests : look.of = w /\ web[w].at = "gate" => GhostsOfLook(w)
GateTruth(w) ==
  /\ web[w].said = "login" => wasLapsed[w]
  /\ web[w].role # "none" => wasActive[w] /\ \E l \in lives[w] : leastIdle[w] < l

(* The inductive invariant of the requests.                                *)
RequestsInv ==
    /\ Gate!TypeOK /\ RequestsGo /\ AccountsNumbered /\ LookIsOfOne
    /\ GhostsOfOpen /\ GhostsOfSeen /\ Gate!GateSaysTrue

(* What the values of nothing are.                                         *)
LEMMA RestTyped == Gate!NoWeb \in Gate!Webs /\ Gate!NoProc \in Gate!Procs /\ Gate!Signed
    \in Gate!Sessions /\ Gate!NoSession \in Gate!Sessions /\ Gate!NoLook \in Gate!Looks
<1> USE Constants DEF Gate!ConstantsOK, Gate!Roles, Gate!PanelRoles, Gate!AccessNames,
    Gate!MaxAge
<1>1. MaxWebMoves + 1 \in Nat /\ 0 \in 0..(MaxWebMoves + 1) /\ 1 \in 0..(MaxWebMoves + 1)
  OBVIOUS
<1>2. Gate!NoWeb \in Gate!Webs
  BY <1>1 DEF Gate!NoWeb, Gate!Webs
<1>3. Gate!NoProc \in Gate!Procs
  BY <1>1 DEF Gate!NoProc, Gate!Procs
<1>4. Gate!NoSession \in Gate!Sessions /\ Gate!Signed \in Gate!Sessions
  <2>1. Gate!NoSession \in Gate!Sessions
    BY <1>1 DEF Gate!NoSession, Gate!Sessions
  <2> HIDE DEF Gate!NoSession
  <2>2. Gate!Signed \in Gate!Sessions
    BY <1>1, <2>1 DEF Gate!Signed, Gate!Sessions
  <2> QED
    BY <2>1, <2>2
<1>5. Gate!NoLook \in Gate!Looks
  BY <1>4 DEF Gate!NoLook, Gate!Looks
<1> QED
  BY <1>2, <1>3, <1>4, <1>5

(* The first state has it.                                                 *)
LEMMA RequestsStart == Gate!Init => RequestsInv
<1> SUFFICES ASSUME Gate!Init PROVE RequestsInv
  OBVIOUS
<1> USE Constants DEF Gate!ConstantsOK, Gate!Init, Gate!NoWeb, Gate!NoProc, Gate!NoLook,
    Gate!NoSession, Gate!Signed
<1>1. Gate!TypeOK
  <2> USE DEF Gate!Webs, Gate!Procs, Gate!Looks, Gate!Sessions, Gate!Roles, Gate!PanelRoles,
      Gate!AccessNames, Gate!Never, Gate!MaxAge, Gate!Whos
  <2>1. /\ Gate!NoWeb \in Gate!Webs /\ Gate!NoProc \in Gate!Procs
        /\ Gate!Signed \in Gate!Sessions /\ Gate!NoSession \in Gate!Sessions
    BY RestTyped
  <2>2. Gate!NoLook \in Gate!Looks
    BY <2>1
  <2>3. userRows \in [Gate!Whos -> Gate!Roles]
    OBVIOUS
  <2>4. /\ phpIni \in [stamp : Nat \ {0}, secs : 1..2]
        /\ lifeCache \in [stamp : Nat, secs : 0..2]
        /\ lifeCache.stamp <= phpIni.stamp /\ reqCount \in 0..MaxWebMoves
        /\ age \in [WebRequests -> 0..Gate!MaxAge]
        /\ leastIdle \in [WebRequests -> 0..Gate!Never]
    OBVIOUS
  <2> HIDE DEF Gate!NoWeb, Gate!NoProc, Gate!NoLook, Gate!NoSession, Gate!Signed, Gate!Webs,
      Gate!Procs, Gate!Looks, Gate!Sessions, Gate!Roles, Gate!Whos, Gate!MaxAge, Gate!Never
  <2> QED
    BY <2>1, <2>2, <2>3, <2>4 DEF Gate!TypeOK
<1>2. RequestsGo /\ Gate!GateSaysTrue
  BY DEF RequestsGo, RequestGoes, Gate!callerMay, Gate!GateSaysTrue
<1>3. AccountsNumbered /\ LookIsOfOne /\ GhostsOfOpen /\ GhostsOfSeen
  BY DEF AccountsNumbered, LookIsOfOne, GhostsOfOpen, GhostsOfSeen, Gate!Open
<1> QED
  BY <1>1, <1>2, <1>3 DEF RequestsInv

-----------------------------------------------------------------------------
(* The fields of a request and of its process, one by one.                 *)
LEMMA WebTyped ==
  ASSUME Gate!TypeOK, NEW w \in WebRequests
  PROVE  /\ web[w] \in Gate!Webs /\ proc[w] \in Gate!Procs /\ age[w] \in Int
         /\ proc[w].began \in Int
         /\ web[w].cookie \in Int /\ web[w].role \in Gate!Roles /\ age[w] \in 0..Gate!MaxAge
BY Constants DEF Gate!TypeOK, Gate!Webs, Gate!Procs, Gate!ConstantsOK, Gate!MaxAge

(* What answering a request does.                                          *)
LEMMA SaysDoes ==
  ASSUME Gate!TypeOK, NEW w \in WebRequests,
      NEW what \in {"login", "503", "403", "refused", "reply", "lost", "late"},
         Gate!Says(w, what)
  PROVE  /\ web' \in [WebRequests -> Gate!Webs]
         /\ web'[w].at = "answered" /\ web'[w].said = what /\ web'[w].cookie = web[w].cookie
         /\ web'[w].role = web[w].role /\ web'[w].verb = web[w].verb
         /\ web'[w].sends = web[w].sends
         /\ \A v \in WebRequests : v # w => web'[v] = web[v]
<1> DEFINE q == [web[w] EXCEPT !.at = "answered", !.said = what]
<1>1. web \in [WebRequests -> Gate!Webs] /\ web[w] \in Gate!Webs
  BY DEF Gate!TypeOK
<1>2. q \in Gate!Webs /\ q.at = "answered" /\ q.said = what /\ q.cookie =
          web[w].cookie /\ q.role = web[w].role
      /\ q.verb = web[w].verb /\ q.sends = web[w].sends
  BY <1>1 DEF Gate!Webs
<1>3. web' = [web EXCEPT ![w] = q]
  BY <1>1 DEF Gate!Says, Gate!Webs
<1> HIDE DEF q
<1> QED
  BY <1>1, <1>2, <1>3

(* What leaves root's look, the sessions and the ghosts alone, and opens    *)
(* nothing, keeps what is known of them.                                   *)
WebGoes == \A v \in WebRequests :
  /\ web'[v].cookie = web[v].cookie /\ web'[v].role = web[v].role
  /\ web'[v].at \in {"gate", "in", "asked"} => Gate!Open(v)
  /\ web'[v].at \in {"free", "in"} => web[v].at = web'[v].at
  /\ web'[v].at = "gate" => web[v].at \in {"gate", "in"}
  /\ web'[v].said = "login" => web[v].said = "login"
LEMMA LookKept ==
  ASSUME RequestsInv, WebGoes, UNCHANGED <<look, lifeCache, Gate!panelSide>>,
      reqCount' \in Int, reqCount' >= reqCount
  PROVE  /\ AccountsNumbered' /\ LookIsOfOne' /\ GhostsOfOpen' /\ GhostsOfSeen'
         /\ Gate!GateSaysTrue'
<1> USE DEF RequestsInv, WebGoes, Gate!panelSide
<1>1. AccountsNumbered'
  <2>1. reqCount \in Int /\ sess.who \in Int /\ look.saw.who \in Int /\ \A w
            \in WebRequests : web[w].cookie \in Int
    BY Constants, WebTyped DEF Gate!TypeOK, Gate!Sessions, Gate!Looks, Gate!ConstantsOK
  <2> QED
    BY <2>1 DEF AccountsNumbered
<1>2. LookIsOfOne'
  BY DEF LookIsOfOne, Gate!TypeOK, Gate!Looks
<1>3. GhostsOfOpen'
  BY DEF GhostsOfOpen, GhostsSince, Gate!Open, Gate!IsOf, Gate!Valid, Gate!Sound,
     Gate!Present, Gate!Whole, Gate!Marked, Gate!Active, Gate!TokenOf, Gate!AccountOf
<1>4. GhostsOfSeen'
  <2> SUFFICES ASSUME NEW w \in WebRequests, look.of = w,
      web'[w].at = "gate" PROVE GhostsOfLook(w)'
    BY DEF GhostsOfSeen
  <2>1. look.of # "nobody" /\ web[w].at = "gate"
    BY Constants DEF LookIsOfOne, Gate!ConstantsOK
  <2> QED
    BY <2>1 DEF GhostsOfSeen, GhostsOfLook, Gate!Sound, Gate!Present, Gate!Whole, Gate!Marked
<1>5. Gate!GateSaysTrue'
  BY DEF Gate!GateSaysTrue
<1> QED
  BY <1>1, <1>2, <1>3, <1>4, <1>5

(* The manager, the verb that is asked for and the process root starts     *)
(* for it.                                                                 *)
LEMMA PassesOn ==
  ASSUME RequestsInv, NEW w \in WebRequests, Gate!Passes(w)
  PROVE  RequestsInv'
<1> USE DEF Gate!Passes, Gate!panelSide, Gate!gatewaySide
<1>1. Gate!TypeOK'
  <2> USE DEF RequestsInv
  <2>1. web' \in [WebRequests -> Gate!Webs]
    <3> PICK route \in Accesses \ {"pre-gate", "root-only"} : web' =
        [web EXCEPT ![w].at = "gate", ![w].route = route]
      OBVIOUS
    <3> DEFINE q == [web[w] EXCEPT !.at = "gate", !.route = route]
    <3>1. web \in [WebRequests -> Gate!Webs] /\ web[w] \in Gate!Webs
      BY DEF Gate!TypeOK
    <3>2. q \in Gate!Webs
      BY <3>1, Constants DEF Gate!Webs, Gate!ConstantsOK, Gate!AccessNames
    <3>3. web' = [web EXCEPT ![w] = q]
      BY <3>1 DEF Gate!Webs
    <3> HIDE DEF q
    <3> QED
      BY <3>1, <3>2, <3>3
  <2>2. /\ conn' \in [WebRequests -> {"none", "request", "run", "over"}]
        /\ age' \in [WebRequests -> 0..Gate!MaxAge]
    BY DEF Gate!TypeOK, Gate!MaxAge
  <2>3. proc' \in [WebRequests -> Gate!Procs]
    BY DEF Gate!TypeOK, Gate!Procs
  <2> QED
    BY <2>1, <2>2, <2>3 DEF Gate!TypeOK
<1>2. RequestsGo'
  <2> SUFFICES ASSUME NEW v \in WebRequests PROVE RequestGoes(v)'
    BY DEF RequestsGo
  <2>1. RequestGoes(v) /\ Gate!TypeOK
    BY DEF RequestsInv, RequestsGo
  <2>2. CASE v = w
    BY <2>1, <2>2, WebTyped DEF RequestGoes, Gate!callerMay, Gate!TypeOK, Gate!NoProc, Gate!Open
  <2>3. CASE v # w
    BY <2>1, <2>3 DEF RequestGoes, Gate!callerMay, Gate!TypeOK
  <2> QED
    BY <2>2, <2>3
<1>3. WebGoes
  BY SaysDoes DEF WebGoes, RequestsInv, Gate!TypeOK, Gate!Open, RequestsGo, RequestGoes
<1>4. reqCount \in Int /\ reqCount' = reqCount
  BY Constants DEF RequestsInv, Gate!TypeOK, Gate!ConstantsOK
<1> QED
  BY <1>1, <1>2, <1>3, <1>4, LookKept DEF RequestsInv

LEMMA UnavailableOn ==
  ASSUME RequestsInv, NEW w \in WebRequests, Gate!Unavailable(w)
  PROVE  RequestsInv'
<1> USE DEF Gate!Unavailable, Gate!unavailable, Gate!panelSide, Gate!gatewaySide
<1>1. Gate!TypeOK'
  <2> USE DEF RequestsInv
  <2>1. web' \in [WebRequests -> Gate!Webs]
    BY SaysDoes DEF Gate!TypeOK
  <2>2. /\ conn' \in [WebRequests -> {"none", "request", "run", "over"}]
        /\ age' \in [WebRequests -> 0..Gate!MaxAge]
    BY DEF Gate!TypeOK, Gate!MaxAge
  <2>3. proc' \in [WebRequests -> Gate!Procs]
    BY DEF Gate!TypeOK, Gate!Procs
  <2> QED
    BY <2>1, <2>2, <2>3 DEF Gate!TypeOK
<1>2. RequestsGo'
  <2> SUFFICES ASSUME NEW v \in WebRequests PROVE RequestGoes(v)'
    BY DEF RequestsGo
  <2>1. RequestGoes(v) /\ Gate!TypeOK
    BY DEF RequestsInv, RequestsGo
  <2>2. CASE v = w
    BY <2>1, <2>2, WebTyped, SaysDoes DEF RequestGoes, Gate!callerMay, Gate!TypeOK,
       Gate!NoProc, Gate!Open
  <2>3. CASE v # w
    BY <2>1, <2>3, SaysDoes DEF RequestGoes, Gate!callerMay, Gate!TypeOK
  <2> QED
    BY <2>2, <2>3
<1>3. WebGoes
  BY SaysDoes DEF WebGoes, RequestsInv, Gate!TypeOK, Gate!Open, RequestsGo, RequestGoes
<1>4. reqCount \in Int /\ reqCount' = reqCount
  BY Constants DEF RequestsInv, Gate!TypeOK, Gate!ConstantsOK
<1> QED
  BY <1>1, <1>2, <1>3, <1>4, LookKept DEF RequestsInv

LEMMA CallOn ==
  ASSUME RequestsInv, NEW w \in WebRequests, NEW a \in Accesses, NEW sends \in BOOLEAN,
      Gate!callGatewayAction(w, a, sends)
  PROVE  RequestsInv'
<1> USE DEF Gate!callGatewayAction, Gate!refusedForCaller, Gate!panelSide, Gate!gatewaySide
<1>1. Gate!TypeOK'
  <2> USE DEF RequestsInv
  <2>1. web' \in [WebRequests -> Gate!Webs]
    <3>0. CASE Gate!refusedForCaller(w, a)
      BY <3>0, SaysDoes DEF Gate!TypeOK
    <3>9. CASE ~Gate!refusedForCaller(w, a)
      <4> DEFINE q == [web[w] EXCEPT !.at = "asked", !.verb = a, !.sends = sends]
      <4>1. web \in [WebRequests -> Gate!Webs] /\ web[w] \in Gate!Webs
        BY DEF Gate!TypeOK
      <4>2. q \in Gate!Webs
        BY <4>1, Constants DEF Gate!Webs, Gate!ConstantsOK, Gate!AccessNames
      <4>3. web' = [web EXCEPT ![w] = q]
        BY <4>1, <3>9 DEF Gate!Webs
      <4> HIDE DEF q
      <4> QED
        BY <4>1, <4>2, <4>3
    <3> QED
      BY <3>0, <3>9
  <2>2. /\ conn' \in [WebRequests -> {"none", "request", "run", "over"}]
        /\ age' \in [WebRequests -> 0..Gate!MaxAge]
    BY DEF Gate!TypeOK, Gate!MaxAge
  <2>3. proc' \in [WebRequests -> Gate!Procs]
    BY DEF Gate!TypeOK, Gate!Procs
  <2> QED
    BY <2>1, <2>2, <2>3 DEF Gate!TypeOK
<1>2. RequestsGo'
  <2> SUFFICES ASSUME NEW v \in WebRequests PROVE RequestGoes(v)'
    BY DEF RequestsGo
  <2>1. RequestGoes(v) /\ Gate!TypeOK
    BY DEF RequestsInv, RequestsGo
  <2>2. CASE v = w
    <3>0. CASE Gate!refusedForCaller(w, a)
      BY <2>1, <2>2, <3>0, SaysDoes DEF RequestGoes, Gate!callerMay, Gate!TypeOK
    <3>1. CASE ~Gate!refusedForCaller(w, a)
      <4>1. /\ web'[w].role = web[w].role /\ web'[w].verb = a /\ web'[w].said = web[w].said
            /\ web'[w].at = "asked"
        BY <2>1, <3>1 DEF Gate!TypeOK, Gate!Webs
      <4>2. conn'[w] = "request" /\ age'[w] = 0 /\ proc'[w] = proc[w]
        BY <2>1, <3>1 DEF Gate!TypeOK
      <4> QED
        BY <2>1, <2>2, <3>1, <4>1, <4>2 DEF RequestGoes, Gate!callerMay
    <3> QED
      BY <3>0, <3>1
  <2>3. CASE v # w
    BY <2>1, <2>3, SaysDoes DEF RequestGoes, Gate!callerMay, Gate!TypeOK
  <2> QED
    BY <2>2, <2>3
<1>3. WebGoes
  <2> USE DEF RequestsInv
  <2>1. CASE Gate!refusedForCaller(w, a)
    BY <2>1, SaysDoes DEF WebGoes, Gate!Open, Gate!TypeOK
  <2>2. CASE ~Gate!refusedForCaller(w, a)
    <3>1. /\ web'[w].role = web[w].role /\ web'[w].said = web[w].said /\ web'[w].at = "asked"
          /\ web'[w].cookie = web[w].cookie /\ \A v \in WebRequests : v # w => web'[v] = web[v]
      BY <2>2 DEF Gate!TypeOK, Gate!Webs
    <3> QED
      BY <3>1, <2>2 DEF WebGoes, Gate!Open
  <2> QED
    BY <2>1, <2>2
<1>4. reqCount \in Int /\ reqCount' = reqCount
  BY Constants DEF RequestsInv, Gate!TypeOK, Gate!ConstantsOK
<1> QED
  BY <1>1, <1>2, <1>3, <1>4, LookKept DEF RequestsInv

LEMMA LeavesOn ==
  ASSUME RequestsInv, NEW w \in WebRequests, Gate!Leaves(w)
  PROVE  RequestsInv'
<1> USE DEF Gate!Leaves, Gate!panelSide, Gate!gatewaySide
<1>1. Gate!TypeOK'
  <2> USE DEF RequestsInv
  <2>1. web' \in [WebRequests -> Gate!Webs]
    BY SaysDoes DEF Gate!TypeOK
  <2>2. /\ conn' \in [WebRequests -> {"none", "request", "run", "over"}]
        /\ age' \in [WebRequests -> 0..Gate!MaxAge]
    BY DEF Gate!TypeOK, Gate!MaxAge
  <2>3. proc' \in [WebRequests -> Gate!Procs]
    BY DEF Gate!TypeOK, Gate!Procs
  <2> QED
    BY <2>1, <2>2, <2>3 DEF Gate!TypeOK
<1>2. RequestsGo'
  <2> SUFFICES ASSUME NEW v \in WebRequests PROVE RequestGoes(v)'
    BY DEF RequestsGo
  <2>1. RequestGoes(v) /\ Gate!TypeOK
    BY DEF RequestsInv, RequestsGo
  <2>2. CASE v = w
    BY <2>1, <2>2, WebTyped, SaysDoes DEF RequestGoes, Gate!callerMay, Gate!TypeOK,
       Gate!NoProc, Gate!Open
  <2>3. CASE v # w
    BY <2>1, <2>3, SaysDoes DEF RequestGoes, Gate!callerMay, Gate!TypeOK
  <2> QED
    BY <2>2, <2>3
<1>3. WebGoes
  BY SaysDoes DEF WebGoes, RequestsInv, Gate!TypeOK, Gate!Open, RequestsGo, RequestGoes
<1>4. reqCount \in Int /\ reqCount' = reqCount
  BY Constants DEF RequestsInv, Gate!TypeOK, Gate!ConstantsOK
<1> QED
  BY <1>1, <1>2, <1>3, <1>4, LookKept DEF RequestsInv

LEMMA RefuseOn ==
  ASSUME RequestsInv, NEW w \in WebRequests, Gate!Refuse(w)
  PROVE  RequestsInv'
<1> USE DEF Gate!Refuse, Gate!Accepted, Gate!webVerb, Gate!SessionFits, Gate!panelSide,
    Gate!gatewaySide
<1>1. Gate!TypeOK'
  <2> USE DEF RequestsInv
  <2>1. web' \in [WebRequests -> Gate!Webs]
    BY SaysDoes DEF Gate!TypeOK
  <2>2. /\ conn' \in [WebRequests -> {"none", "request", "run", "over"}]
        /\ age' \in [WebRequests -> 0..Gate!MaxAge]
    BY DEF Gate!TypeOK, Gate!MaxAge
  <2>3. proc' \in [WebRequests -> Gate!Procs]
    BY DEF Gate!TypeOK, Gate!Procs
  <2> QED
    BY <2>1, <2>2, <2>3 DEF Gate!TypeOK
<1>2. RequestsGo'
  <2> SUFFICES ASSUME NEW v \in WebRequests PROVE RequestGoes(v)'
    BY DEF RequestsGo
  <2>1. RequestGoes(v) /\ Gate!TypeOK
    BY DEF RequestsInv, RequestsGo
  <2>2. CASE v = w
    BY <2>1, <2>2, WebTyped, SaysDoes DEF RequestGoes, Gate!callerMay, Gate!TypeOK,
       Gate!NoProc, Gate!Open
  <2>3. CASE v # w
    BY <2>1, <2>3, SaysDoes DEF RequestGoes, Gate!callerMay, Gate!TypeOK
  <2> QED
    BY <2>2, <2>3
<1>3. WebGoes
  BY SaysDoes DEF WebGoes, RequestsInv, Gate!TypeOK, Gate!Open, RequestsGo, RequestGoes
<1>4. reqCount \in Int /\ reqCount' = reqCount
  BY Constants DEF RequestsInv, Gate!TypeOK, Gate!ConstantsOK
<1> QED
  BY <1>1, <1>2, <1>3, <1>4, LookKept DEF RequestsInv

LEMMA SpawnOn ==
  ASSUME RequestsInv, NEW w \in WebRequests, Gate!Spawn(w)
  PROVE  RequestsInv'
<1> USE DEF Gate!Spawn, Gate!Accepted, Gate!webVerb, Gate!SessionFits, Gate!ForAccount,
    Gate!panelSide, Gate!gatewaySide
<1>1. Gate!TypeOK'
  <2> USE DEF RequestsInv
  <2>1. web' \in [WebRequests -> Gate!Webs]
    BY DEF Gate!TypeOK
  <2>2. /\ conn' \in [WebRequests -> {"none", "request", "run", "over"}]
        /\ age' \in [WebRequests -> 0..Gate!MaxAge]
    BY DEF Gate!TypeOK, Gate!MaxAge
  <2>3. proc' \in [WebRequests -> Gate!Procs]
    <3> DEFINE q == [proc[w] EXCEPT !.state = "running", !.began = age[w]]
    <3>1. /\ proc \in [WebRequests -> Gate!Procs] /\ proc[w] \in Gate!Procs
          /\ age[w] \in 0..Gate!MaxAge
      BY DEF Gate!TypeOK
    <3>2. q \in Gate!Procs
      BY <3>1 DEF Gate!Procs
    <3>3. proc' = [proc EXCEPT ![w] = q]
      BY <3>1 DEF Gate!Procs
    <3> HIDE DEF q
    <3> QED
      BY <3>1, <3>2, <3>3
  <2> QED
    BY <2>1, <2>2, <2>3 DEF Gate!TypeOK
<1>2. RequestsGo'
  <2> SUFFICES ASSUME NEW v \in WebRequests PROVE RequestGoes(v)'
    BY DEF RequestsGo
  <2>1. RequestGoes(v) /\ Gate!TypeOK
    BY DEF RequestsInv, RequestsGo
  <2>2. CASE v = w
    <3>1. /\ conn'[w] = "run" /\ proc'[w].state = "running" /\ proc'[w].began = age[w]
          /\ proc'[w].for = proc[w].for
      BY <2>1 DEF Gate!TypeOK, Gate!Procs
    <3>2. Gate!callerMay(web[w].verb, web[w].role) /\ web[w].verb # "own-account"
      BY <2>1, <2>2 DEF RequestGoes, Gate!callerMay
    <3>3. web[w].at \in {"asked", "answered", "gone"} /\ age[w] \in Int
      BY <2>1, <2>2, WebTyped DEF RequestGoes, Gate!Webs
    <3>4. web[w].said = "late" => age[w] # 0
      BY <2>1, <2>2, WebTyped DEF RequestGoes
    <3> QED
      BY <2>1, <2>2, <3>1, <3>2, <3>3, <3>4 DEF RequestGoes
  <2>3. CASE v # w
    BY <2>1, <2>3 DEF RequestGoes, Gate!callerMay, Gate!TypeOK
  <2> QED
    BY <2>2, <2>3
<1>3. WebGoes
  BY SaysDoes DEF WebGoes, RequestsInv, Gate!TypeOK, Gate!Open, RequestsGo, RequestGoes
<1>4. reqCount \in Int /\ reqCount' = reqCount
  BY Constants DEF RequestsInv, Gate!TypeOK, Gate!ConstantsOK
<1> QED
  BY <1>1, <1>2, <1>3, <1>4, LookKept DEF RequestsInv

(* The process ends, or one of the three deadlines comes.                  *)
LEMMA EndsOn ==
  ASSUME RequestsInv, NEW w \in WebRequests, Gate!Ends(w)
  PROVE  RequestsInv'
<1> USE DEF Gate!Ends, Gate!Answered, Gate!panelSide, Gate!gatewaySide
<1>1. Gate!TypeOK'
  <2> USE DEF RequestsInv
  <2>1. web' \in [WebRequests -> Gate!Webs]
    BY SaysDoes DEF Gate!TypeOK
  <2>2. /\ conn' \in [WebRequests -> {"none", "request", "run", "over"}]
        /\ age' \in [WebRequests -> 0..Gate!MaxAge]
    BY DEF Gate!TypeOK, Gate!MaxAge
  <2>3. proc' \in [WebRequests -> Gate!Procs]
    BY DEF Gate!TypeOK, Gate!Procs
  <2> QED
    BY <2>1, <2>2, <2>3 DEF Gate!TypeOK
<1>2. RequestsGo'
  <2> SUFFICES ASSUME NEW v \in WebRequests PROVE RequestGoes(v)'
    BY DEF RequestsGo
  <2>1. RequestGoes(v) /\ Gate!TypeOK
    BY DEF RequestsInv, RequestsGo
  <2>2. CASE v = w
    BY <2>1, <2>2, WebTyped, SaysDoes DEF RequestGoes, Gate!callerMay, Gate!TypeOK,
       Gate!NoProc, Gate!Open
  <2>3. CASE v # w
    BY <2>1, <2>3, SaysDoes DEF RequestGoes, Gate!callerMay, Gate!TypeOK
  <2> QED
    BY <2>2, <2>3
<1>3. WebGoes
  BY SaysDoes DEF WebGoes, RequestsInv, Gate!TypeOK, Gate!Open, RequestsGo, RequestGoes
<1>4. reqCount \in Int /\ reqCount' = reqCount
  BY Constants DEF RequestsInv, Gate!TypeOK, Gate!ConstantsOK
<1> QED
  BY <1>1, <1>2, <1>3, <1>4, LookKept DEF RequestsInv

LEMMA OverrunOn ==
  ASSUME RequestsInv, NEW w \in WebRequests, Gate!Overrun(w)
  PROVE  RequestsInv'
<1> USE DEF Gate!Overrun, Gate!Answered, Gate!Ran, Gate!panelSide, Gate!gatewaySide
<1>1. Gate!TypeOK'
  <2> USE DEF RequestsInv
  <2>1. web' \in [WebRequests -> Gate!Webs]
    BY SaysDoes DEF Gate!TypeOK
  <2>2. /\ conn' \in [WebRequests -> {"none", "request", "run", "over"}]
        /\ age' \in [WebRequests -> 0..Gate!MaxAge]
    BY DEF Gate!TypeOK, Gate!MaxAge
  <2>3. proc' \in [WebRequests -> Gate!Procs]
    <3>1. PICK st \in {"gone", "held"} : proc' = [proc EXCEPT ![w].state = st]
      OBVIOUS
    <3> DEFINE q == [proc[w] EXCEPT !.state = st]
    <3>2. /\ proc \in [WebRequests -> Gate!Procs] /\ proc[w] \in Gate!Procs
          /\ age[w] \in 0..Gate!MaxAge
      BY DEF Gate!TypeOK
    <3>3. q \in Gate!Procs
      BY <3>2 DEF Gate!Procs
    <3>4. proc' = [proc EXCEPT ![w] = q]
      BY <3>1, <3>2 DEF Gate!Procs
    <3> HIDE DEF q
    <3> QED
      BY <3>2, <3>3, <3>4
  <2> QED
    BY <2>1, <2>2, <2>3 DEF Gate!TypeOK
<1>2. RequestsGo'
  <2> SUFFICES ASSUME NEW v \in WebRequests PROVE RequestGoes(v)'
    BY DEF RequestsGo
  <2>1. RequestGoes(v) /\ Gate!TypeOK
    BY DEF RequestsInv, RequestsGo
  <2>2. CASE v = w
    <3>1. CASE proc' = [proc EXCEPT ![w].state = "gone"] /\ Gate!Answered(w, "reply")
      <4>1. /\ proc'[w].state = "gone" /\ proc'[w].for = proc[w].for
            /\ proc'[w].began = proc[w].began /\ conn'[w] = "over"
        BY <3>1 DEF Gate!TypeOK, Gate!Procs, RequestsInv
      <4> QED
        BY <2>1, <2>2, <3>1, <4>1, SaysDoes DEF RequestGoes, Gate!callerMay, Gate!TypeOK
    <3>2. CASE proc' = [proc EXCEPT ![w].state = "held"] /\ UNCHANGED <<web, conn>>
      <4>1. /\ proc'[w].state = "held" /\ proc'[w].for = proc[w].for
            /\ proc'[w].began = proc[w].began
        BY <3>2 DEF Gate!TypeOK, Gate!Procs, RequestsInv
      <4> QED
        BY <2>1, <2>2, <3>2, <4>1 DEF RequestGoes, Gate!callerMay
    <3> QED
      BY <3>1, <3>2
  <2>3. CASE v # w
    BY <2>1, <2>3, SaysDoes DEF RequestGoes, Gate!callerMay, Gate!TypeOK
  <2> QED
    BY <2>2, <2>3
<1>3. WebGoes
  BY SaysDoes DEF WebGoes, RequestsInv, Gate!TypeOK, Gate!Open, RequestsGo, RequestGoes
<1>4. reqCount \in Int /\ reqCount' = reqCount
  BY Constants DEF RequestsInv, Gate!TypeOK, Gate!ConstantsOK
<1> QED
  BY <1>1, <1>2, <1>3, <1>4, LookKept DEF RequestsInv

LEMMA RootLateOn ==
  ASSUME RequestsInv, NEW w \in WebRequests, Gate!RootLate(w)
  PROVE  RequestsInv'
<1> USE DEF Gate!RootLate, Gate!Answered, Gate!Ran, Gate!panelSide, Gate!gatewaySide
<1>1. Gate!TypeOK'
  <2> USE DEF RequestsInv
  <2>1. web' \in [WebRequests -> Gate!Webs]
    BY SaysDoes DEF Gate!TypeOK
  <2>2. /\ conn' \in [WebRequests -> {"none", "request", "run", "over"}]
        /\ age' \in [WebRequests -> 0..Gate!MaxAge]
    BY DEF Gate!TypeOK, Gate!MaxAge
  <2>3. proc' \in [WebRequests -> Gate!Procs]
    BY DEF Gate!TypeOK, Gate!Procs
  <2> QED
    BY <2>1, <2>2, <2>3 DEF Gate!TypeOK
<1>2. RequestsGo'
  <2> SUFFICES ASSUME NEW v \in WebRequests PROVE RequestGoes(v)'
    BY DEF RequestsGo
  <2>1. RequestGoes(v) /\ Gate!TypeOK
    BY DEF RequestsInv, RequestsGo
  <2>2. CASE v = w
    BY <2>1, <2>2, WebTyped, SaysDoes DEF RequestGoes, Gate!callerMay, Gate!TypeOK,
       Gate!NoProc, Gate!Open
  <2>3. CASE v # w
    BY <2>1, <2>3, SaysDoes DEF RequestGoes, Gate!callerMay, Gate!TypeOK
  <2> QED
    BY <2>2, <2>3
<1>3. WebGoes
  BY SaysDoes DEF WebGoes, RequestsInv, Gate!TypeOK, Gate!Open, RequestsGo, RequestGoes
<1>4. reqCount \in Int /\ reqCount' = reqCount
  BY Constants DEF RequestsInv, Gate!TypeOK, Gate!ConstantsOK
<1> QED
  BY <1>1, <1>2, <1>3, <1>4, LookKept DEF RequestsInv

LEMMA ClientLateOn ==
  ASSUME RequestsInv, NEW w \in WebRequests, Gate!ClientLate(w)
  PROVE  RequestsInv'
<1> USE DEF Gate!ClientLate, Gate!clientTimeout, Gate!panelSide, Gate!gatewaySide
<1>1. Gate!TypeOK'
  <2> USE DEF RequestsInv
  <2>1. web' \in [WebRequests -> Gate!Webs]
    BY SaysDoes DEF Gate!TypeOK
  <2>2. /\ conn' \in [WebRequests -> {"none", "request", "run", "over"}]
        /\ age' \in [WebRequests -> 0..Gate!MaxAge]
    BY DEF Gate!TypeOK, Gate!MaxAge
  <2>3. proc' \in [WebRequests -> Gate!Procs]
    BY DEF Gate!TypeOK, Gate!Procs
  <2> QED
    BY <2>1, <2>2, <2>3 DEF Gate!TypeOK
<1>2. RequestsGo'
  <2> SUFFICES ASSUME NEW v \in WebRequests PROVE RequestGoes(v)'
    BY DEF RequestsGo
  <2>1. RequestGoes(v) /\ Gate!TypeOK
    BY DEF RequestsInv, RequestsGo
  <2>2. CASE v = w
    BY <2>1, <2>2, WebTyped, SaysDoes DEF RequestGoes, Gate!callerMay, Gate!TypeOK,
       Gate!NoProc, Gate!Open
  <2>3. CASE v # w
    BY <2>1, <2>3, SaysDoes DEF RequestGoes, Gate!callerMay, Gate!TypeOK
  <2> QED
    BY <2>2, <2>3
<1>3. WebGoes
  BY SaysDoes DEF WebGoes, RequestsInv, Gate!TypeOK, Gate!Open, RequestsGo, RequestGoes
<1>4. reqCount \in Int /\ reqCount' = reqCount
  BY Constants DEF RequestsInv, Gate!TypeOK, Gate!ConstantsOK
<1> QED
  BY <1>1, <1>2, <1>3, <1>4, LookKept DEF RequestsInv

LEMMA TickOn ==
  ASSUME RequestsInv, NEW w \in WebRequests, Gate!Tick(w)
  PROVE  RequestsInv'
<1> USE DEF Gate!Tick, Gate!Due, Gate!Ran, Gate!clientTimeout, Gate!panelSide, Gate!gatewaySide
<1>1. Gate!TypeOK'
  <2> USE DEF RequestsInv
  <2>1. web' \in [WebRequests -> Gate!Webs]
    BY DEF Gate!TypeOK
  <2>2. /\ conn' \in [WebRequests -> {"none", "request", "run", "over"}]
        /\ age' \in [WebRequests -> 0..Gate!MaxAge]
    BY DEF Gate!TypeOK, Gate!MaxAge
  <2>3. proc' \in [WebRequests -> Gate!Procs]
    BY DEF Gate!TypeOK, Gate!Procs
  <2> QED
    BY <2>1, <2>2, <2>3 DEF Gate!TypeOK
<1>2. RequestsGo'
  <2> SUFFICES ASSUME NEW v \in WebRequests PROVE RequestGoes(v)'
    BY DEF RequestsGo
  <2>1. RequestGoes(v) /\ Gate!TypeOK
    BY DEF RequestsInv, RequestsGo
  <2>2. CASE v = w
    BY <2>1, <2>2, WebTyped DEF RequestGoes, Gate!callerMay, Gate!TypeOK, Gate!NoProc, Gate!Open
  <2>3. CASE v # w
    BY <2>1, <2>3 DEF RequestGoes, Gate!callerMay, Gate!TypeOK
  <2> QED
    BY <2>2, <2>3
<1>3. WebGoes
  BY SaysDoes DEF WebGoes, RequestsInv, Gate!TypeOK, Gate!Open, RequestsGo, RequestGoes
<1>4. reqCount \in Int /\ reqCount' = reqCount
  BY Constants DEF RequestsInv, Gate!TypeOK, Gate!ConstantsOK
<1> QED
  BY <1>1, <1>2, <1>3, <1>4, LookKept DEF RequestsInv

-----------------------------------------------------------------------------
(* What changes the session, the accounts, the lifetime or what is enabled *)
(* is seen by the ghosts of every open request.                            *)
webSide == <<web, conn, proc, age>>
SideTyped == sess' \in Gate!Sessions /\ userRows' \in [Gate!Whos -> Gate!Roles] /\ keysOn'
    \in BOOLEAN
             /\ phpIni' \in [stamp : Nat \ {0}, secs : 1..2]

(* The session, the accounts and php.ini change, and the ghosts with       *)
(* them.                                                                   *)
LEMMA SessionTyped ==
  ASSUME Gate!TypeOK
  PROVE  /\ sess.who \in Int /\ sess.idle \in 0..2 /\ sess.idle \in Int
         /\ look.saw \in Gate!Sessions /\ look.saw.idle \in 0..2
         /\ look.saw.idle \in Int /\ look.saw.who \in Int /\ reqCount \in Int
         /\ phpIni.secs \in 1..2
         /\ phpIni.stamp \in Nat /\ lifeCache.stamp \in Nat /\ look.stamp \in Nat
         /\ look.secs \in 0..2
BY Constants DEF Gate!TypeOK, Gate!Sessions, Gate!Looks, Gate!ConstantsOK

LEMMA GhostsTyped ==
  ASSUME Gate!TypeOK, SideTyped, Gate!Notes
  PROVE  /\ leastIdle' \in [WebRequests -> 0..Gate!Never]
         /\ wasActive' \in [WebRequests -> BOOLEAN]
         /\ wasLapsed' \in [WebRequests -> BOOLEAN] /\ lives' \in [WebRequests -> SUBSET (1..2)]
<1>1. phpIni'.secs \in 1..2 /\ sess'.idle \in 0..2
  BY DEF SideTyped, Gate!Sessions
<1>2. leastIdle' \in [WebRequests -> 0..Gate!Never]
  BY <1>1 DEF Gate!Notes, Gate!TypeOK, Gate!Least, Gate!Never
<1>3. wasActive' \in [WebRequests -> BOOLEAN] /\ wasLapsed' \in [WebRequests -> BOOLEAN]
  BY DEF Gate!Notes, Gate!TypeOK
<1>4. lives' \in [WebRequests -> SUBSET (1..2)]
  BY <1>1 DEF Gate!Notes, Gate!TypeOK
<1> QED
  BY <1>2, <1>3, <1>4

LEMMA GhostsNoted ==
  ASSUME RequestsInv, SideTyped, Gate!Notes, UNCHANGED webSide
  PROVE  /\ GhostsOfOpen' /\ Gate!GateSaysTrue' /\ RequestsGo'
         /\ \A w \in WebRequests : /\ lives[w] \subseteq lives'[w]
                                   /\ leastIdle'[w] <= leastIdle[w]
                                   /\ wasLapsed[w] => wasLapsed'[w]
<1> USE DEF RequestsInv, webSide
<1>1. \A w \in WebRequests : leastIdle[w] \in Int /\ leastIdle'[w] \in Int
  BY GhostsTyped DEF Gate!TypeOK, Gate!Never
<1>2. sess'.idle \in Int
  BY DEF SideTyped, Gate!Sessions
<1>3. \A w \in WebRequests : /\ lives[w] \subseteq lives'[w] /\ leastIdle'[w] <= leastIdle[w]
                             /\ (wasLapsed[w] => wasLapsed'[w])
                             /\ (wasActive[w] => wasActive'[w])
  <2>1. \A w \in WebRequests : lives[w] \subseteq lives'[w] /\ (wasLapsed[w]
            => wasLapsed'[w]) /\ (wasActive[w] => wasActive'[w])
    BY DEF Gate!Notes
  <2>2. \A w \in WebRequests : leastIdle'[w] <= leastIdle[w]
    BY <1>1, <1>2 DEF Gate!Notes, Gate!Least
  <2> QED
    BY <2>1, <2>2
<1>4. GhostsOfOpen'
  <2> SUFFICES ASSUME NEW w \in WebRequests, Gate!Open(w)' PROVE GhostsSince(w)'
    BY DEF GhostsOfOpen
  <2>1. Gate!Open(w)
    BY DEF Gate!Open
  <2>2. phpIni'.secs \in lives'[w]
    BY <2>1 DEF Gate!Notes
  <2>3. Gate!AccountOf(w, userRows)' => wasActive'[w]
    BY <2>1 DEF Gate!Notes, Gate!AccountOf
  <2>4. Gate!IsOf(sess', w) /\ Gate!Sound(sess', keysOn') => leastIdle'[w] <= sess'.idle
    BY <2>1, <1>1, <1>2 DEF Gate!Notes, Gate!Least, Gate!IsOf
  <2>5. \A l \in lives'[w] : ~(Gate!IsOf(sess', w)
            /\ Gate!Valid(sess', keysOn', l, userRows')) => wasLapsed'[w]
    BY <2>1 DEF Gate!Notes, Gate!IsOf
  <2> QED
    BY <2>2, <2>3, <2>4, <2>5 DEF GhostsSince, Gate!IsOf
<1>5. Gate!GateSaysTrue'
  <2> SUFFICES ASSUME NEW w \in WebRequests
               PROVE  /\ web[w].said = "login" => wasLapsed'[w]
                      /\ web[w].role # "none"
                             => wasActive'[w] /\ \E l \in lives'[w] : leastIdle'[w] < l
    BY DEF Gate!GateSaysTrue
  <2>1. \A l \in lives[w] : l \in Int
    BY DEF Gate!TypeOK
  <2> QED
    BY <1>1, <1>3, <2>1 DEF Gate!GateSaysTrue
<1>6. RequestsGo'
  BY DEF RequestsGo, RequestGoes, Gate!callerMay
<1> QED
  BY <1>3, <1>4, <1>5, <1>6

(* And root's look stays as it was, or ages with the session.              *)
LEMMA LookNoted ==
  ASSUME RequestsInv, SideTyped, Gate!Notes, UNCHANGED webSide, UNCHANGED look
  PROVE  GhostsOfSeen'
<1> SUFFICES ASSUME NEW w \in WebRequests, look.of = w,
    web[w].at = "gate" PROVE GhostsOfLook(w)'
  BY DEF GhostsOfSeen, webSide
<1>1. GhostsOfLook(w)
  BY DEF RequestsInv, GhostsOfSeen
<1>2. look.saw.idle \in Int /\ leastIdle[w] \in Int /\ leastIdle'[w] \in Int
  BY SessionTyped, GhostsTyped DEF RequestsInv, Gate!TypeOK, Gate!Never
<1> QED
  BY <1>1, <1>2, GhostsNoted DEF GhostsOfLook, Gate!Sound, Gate!Present, Gate!Whole, Gate!Marked

LEMMA SessionSet ==
  ASSUME NEW s \in Gate!Sessions
  PROVE  /\ [s EXCEPT !.torn = TRUE] \in Gate!Sessions
         /\ [s EXCEPT !.torn = FALSE] \in Gate!Sessions
         /\ [s EXCEPT !.mark = "passed"] \in Gate!Sessions
         /\ s.idle < 2 => [s EXCEPT !.idle = s.idle + 1] \in Gate!Sessions
<1>1. s.idle < 2 => s.idle + 1 \in 0..2
  BY DEF Gate!Sessions
<1> QED
  BY <1>1 DEF Gate!Sessions

(* Whoever signs in has a number no request came with.                     *)
LEMMA SignedIn ==
  ASSUME NEW n \in 0..(MaxWebMoves + 1), NEW m \in {"none", "pending", "unmarked"}
  PROVE  /\ [Gate!NoSession EXCEPT !.who = n, !.mark = m] \in Gate!Sessions
         /\ [Gate!NoSession EXCEPT !.who = n, !.mark = m].who = n
<1>1. Gate!NoSession \in Gate!Sessions
  BY RestTyped
<1> HIDE DEF Gate!NoSession
<1> QED
  BY <1>1 DEF Gate!Sessions

LEMMA WhoSignsIn ==
  ASSUME RequestsInv, Gate!SignInOut
  PROVE  \/ sess'.who \in {0, reqCount + 2}
         \/ sess'.who = sess.who /\ sess'.idle = sess.idle
<1>1. sess' = Gate!NoSession \/ sess' = sess \/ sess' = [sess EXCEPT !.torn = TRUE]
      \/ \E m \in {"none", "pending", "unmarked"} : sess' =
          [Gate!NoSession EXCEPT !.who = reqCount + 2, !.mark = m]
  BY DEF Gate!SignInOut
<1>2. reqCount + 2 \in 0..(MaxWebMoves + 1) /\ sess \in Gate!Sessions
  BY Constants DEF Gate!SignInOut, Gate!Spend, RequestsInv, Gate!TypeOK, Gate!ConstantsOK
<1>3. \A m \in {"none", "pending", "unmarked"} : [Gate!NoSession EXCEPT !.who = reqCount + 2,
          !.mark = m].who = reqCount + 2
  BY <1>2, SignedIn
<1>4. [sess EXCEPT !.torn = TRUE].who = sess.who /\ [sess EXCEPT !.torn = TRUE].idle = sess.idle
  BY <1>2 DEF Gate!Sessions
<1>5. Gate!NoSession.who = 0
  BY DEF Gate!NoSession
<1> HIDE DEF Gate!NoSession
<1> QED
  BY <1>1, <1>3, <1>4, <1>5

(* A sign-in, a sign-out, an account, the file, the clock, an edit.        *)
LEMMA SignInOutOn ==
  ASSUME RequestsInv, Gate!SignInOut
  PROVE  RequestsInv'
<1>1. SideTyped /\ reqCount' \in 0..MaxWebMoves /\ reqCount \in Int /\ reqCount' >= reqCount
  <2> USE DEF RequestsInv
  <2>1. /\ reqCount \in 0..MaxWebMoves /\ reqCount < MaxWebMoves /\ reqCount' = reqCount + 1
        /\ MaxWebMoves \in Nat
    BY Constants DEF Gate!SignInOut, Gate!Spend, Gate!TypeOK, Gate!ConstantsOK
  <2>2. reqCount + 2 \in 0..(MaxWebMoves + 1) /\ reqCount + 2 \in Gate!Whos /\ 1 \in Gate!Whos
    BY <2>1 DEF Gate!Whos
  <2>3. sess' \in Gate!Sessions
    <3>1. sess' = Gate!NoSession \/ sess' = sess \/ sess' = [sess EXCEPT !.torn = TRUE]
          \/ \E m \in {"none", "pending", "unmarked"} : sess' =
              [Gate!NoSession EXCEPT !.who = reqCount + 2, !.mark = m]
      BY DEF Gate!SignInOut
    <3>2. sess \in Gate!Sessions
      BY DEF Gate!TypeOK
    <3>3. \A m \in {"none", "pending",
              "unmarked"} : [Gate!NoSession EXCEPT !.who = reqCount + 2, !.mark = m]
              \in Gate!Sessions
      BY <2>2, SignedIn
    <3> QED
      BY <3>1, <3>2, <3>3, SessionSet, RestTyped
  <2>4. userRows' \in [Gate!Whos -> Gate!Roles]
    <3>1. WebRoles \subseteq Gate!PanelRoles
      BY Constants DEF Gate!ConstantsOK
    <3> QED
      BY <2>2, <3>1 DEF Gate!SignInOut, Gate!TypeOK, Gate!Roles
  <2> QED
    BY <2>1, <2>3, <2>4 DEF SideTyped, Gate!SignInOut, Gate!TypeOK
<1>2. Gate!Notes /\ UNCHANGED webSide
  BY DEF Gate!SignInOut, webSide
<1>3. UNCHANGED <<look, lifeCache, gatewayUp>>
  BY DEF Gate!SignInOut, Gate!gatewaySide
<1>4. Gate!TypeOK'
  <2>1. /\ phpIni'.stamp >= phpIni.stamp /\ phpIni'.stamp \in Int /\ phpIni.stamp \in Int
        /\ lifeCache.stamp \in Int
    BY SessionTyped DEF Gate!SignInOut, RequestsInv
  <2> QED
    BY <1>1, <1>2, <1>3, <2>1, GhostsTyped DEF RequestsInv, Gate!TypeOK, webSide, SideTyped
<1>5. AccountsNumbered'
  <2> USE DEF RequestsInv
  <2>1. reqCount' = reqCount + 1 /\ reqCount + 2 \in 0..(MaxWebMoves + 1) /\ sess.who \in Int
    BY Constants, SessionTyped DEF Gate!SignInOut, Gate!Spend, Gate!TypeOK, Gate!ConstantsOK
  <2>2. sess'.who \in {0, sess.who, reqCount + 2}
    BY WhoSignsIn
  <2>3. look.saw.who \in Int /\ \A w \in WebRequests : web[w].cookie \in Int
    BY SessionTyped, WebTyped
  <2> QED
    BY <1>1, <1>2, <1>3, <2>1, <2>2, <2>3 DEF AccountsNumbered, webSide
<1>6. LookIsOfOne'
  <2> USE DEF RequestsInv
  <2>1. /\ reqCount + 2 \in 0..(MaxWebMoves + 1) /\ phpIni' = phpIni /\ look.saw.who \in Int
        /\ reqCount \in Int /\ sess.who \in Int
    BY Constants, SessionTyped DEF Gate!SignInOut, Gate!Spend, Gate!TypeOK, Gate!ConstantsOK
  <2>2. \/ sess'.who \in {0, reqCount + 2}
        \/ sess'.who = sess.who /\ sess'.idle = sess.idle
    BY WhoSignsIn
  <2>3. look.saw.who # 0 /\ look.saw.who = sess'.who => look.saw.idle = sess'.idle
    BY <2>1, <2>2 DEF AccountsNumbered, LookIsOfOne
  <2> QED
    BY <1>2, <1>3, <2>1, <2>3 DEF LookIsOfOne, webSide
<1> QED
  BY <1>1, <1>2, <1>3, <1>4, <1>5, <1>6, GhostsNoted, LookNoted DEF RequestsInv

LEMMA SessionSettlesOn ==
  ASSUME RequestsInv, Gate!Settles
  PROVE  RequestsInv'
<1>1. SideTyped /\ reqCount' \in 0..MaxWebMoves /\ reqCount \in Int /\ reqCount' >= reqCount
  <2> USE DEF RequestsInv
  <2>1. sess' \in Gate!Sessions
    BY SessionSet DEF Gate!Settles, Gate!TypeOK
  <2> QED
    BY <2>1, SessionTyped, Constants DEF SideTyped, Gate!Settles, Gate!TypeOK, Gate!ConstantsOK
<1>2. Gate!Notes /\ UNCHANGED webSide
  BY DEF Gate!Settles, webSide
<1>3. UNCHANGED <<look, lifeCache, gatewayUp>>
  BY DEF Gate!Settles, Gate!gatewaySide
<1>4. Gate!TypeOK'
  <2>1. /\ phpIni'.stamp >= phpIni.stamp /\ phpIni'.stamp \in Int /\ phpIni.stamp \in Int
        /\ lifeCache.stamp \in Int
    BY SessionTyped DEF Gate!Settles, RequestsInv
  <2> QED
    BY <1>1, <1>2, <1>3, <2>1, GhostsTyped DEF RequestsInv, Gate!TypeOK, webSide, SideTyped
<1>5. AccountsNumbered'
  BY <1>2, <1>3 DEF AccountsNumbered, webSide, Gate!Settles, RequestsInv, Gate!TypeOK,
     Gate!Sessions
<1>6. LookIsOfOne'
  <2>1. sess'.who = sess.who /\ sess'.idle = sess.idle /\ phpIni' = phpIni
    BY DEF Gate!Settles, RequestsInv, Gate!TypeOK, Gate!Sessions
  <2> QED
    BY <1>2, <1>3, <2>1 DEF LookIsOfOne, webSide, RequestsInv
<1> QED
  BY <1>1, <1>2, <1>3, <1>4, <1>5, <1>6, GhostsNoted, LookNoted DEF RequestsInv

LEMMA EditsOn ==
  ASSUME RequestsInv, Gate!Edits
  PROVE  RequestsInv'
<1>1. SideTyped /\ reqCount' \in 0..MaxWebMoves /\ reqCount \in Int /\ reqCount' >= reqCount
  <2> USE DEF RequestsInv
  <2>1. phpIni' \in [stamp : Nat \ {0}, secs : 1..2]
    BY DEF Gate!Edits, Gate!TypeOK
  <2>2. sess' = sess /\ userRows' = userRows /\ keysOn' \in BOOLEAN
    BY DEF Gate!Edits, Gate!TypeOK
  <2>3. /\ reqCount \in 0..MaxWebMoves /\ reqCount < MaxWebMoves /\ reqCount' = reqCount + 1
        /\ MaxWebMoves \in Nat
    BY Constants DEF Gate!Edits, Gate!Spend, Gate!TypeOK, Gate!ConstantsOK
  <2> QED
    BY <2>1, <2>2, <2>3 DEF SideTyped, Gate!TypeOK
<1>2. Gate!Notes /\ UNCHANGED webSide
  BY DEF Gate!Edits, webSide
<1>3. UNCHANGED <<look, lifeCache, gatewayUp>>
  BY DEF Gate!Edits, Gate!gatewaySide
<1>4. Gate!TypeOK'
  <2>1. /\ phpIni'.stamp >= phpIni.stamp /\ phpIni'.stamp \in Int /\ phpIni.stamp \in Int
        /\ lifeCache.stamp \in Int
    BY SessionTyped DEF Gate!Edits, RequestsInv
  <2> QED
    BY <1>1, <1>2, <1>3, <2>1, GhostsTyped DEF RequestsInv, Gate!TypeOK, webSide, SideTyped
<1>5. AccountsNumbered'
  <2>1. sess' = sess /\ sess.who \in Int /\ look.saw.who \in Int /\ \A w
            \in WebRequests : web[w].cookie \in Int
    BY SessionTyped, WebTyped DEF Gate!Edits, RequestsInv
  <2> QED
    BY <1>1, <1>2, <1>3, <2>1 DEF AccountsNumbered, webSide, RequestsInv
<1>6. LookIsOfOne'
  <2>1. sess' = sess /\ (phpIni' = phpIni \/ phpIni'.stamp = phpIni.stamp + 1)
    BY DEF Gate!Edits
  <2>2. /\ phpIni.stamp \in Int /\ lifeCache.stamp \in Int /\ look.stamp \in Int
        /\ lifeCache.stamp <= phpIni.stamp
    BY SessionTyped DEF RequestsInv, Gate!TypeOK
  <2> QED
    BY <1>2, <1>3, <2>1, <2>2 DEF LookIsOfOne, webSide, RequestsInv
<1> QED
  BY <1>1, <1>2, <1>3, <1>4, <1>5, <1>6, GhostsNoted, LookNoted DEF RequestsInv

LEMMA IdlesOn ==
  ASSUME RequestsInv, Gate!Idles
  PROVE  RequestsInv'
<1> USE DEF RequestsInv
<1>1. /\ sess' \in Gate!Sessions /\ sess'.who = sess.who /\ sess'.idle = sess.idle + 1
      /\ sess'.torn = sess.torn
      /\ sess'.mark = sess.mark
      /\ UNCHANGED <<phpIni, userRows, keysOn, reqCount, lifeCache, gatewayUp>>
  BY SessionSet DEF Gate!Idles, Gate!TypeOK, Gate!Sessions
<1>2. /\ look' \in Gate!Looks /\ look'.of = look.of /\ look'.stamp = look.stamp
      /\ look'.secs = look.secs
      /\ look'.keys = look.keys /\ look'.saw \in Gate!Sessions /\ look'.saw.who = look.saw.who
      /\ look'.saw.torn = look.saw.torn /\ look'.saw.mark = look.saw.mark
      /\ look'.saw.idle = (IF look.saw.who # 0 /\ look.saw.idle < 2 THEN look.saw.idle + 1
             ELSE look.saw.idle)
  <2>1. look \in Gate!Looks /\ look.saw \in Gate!Sessions
    BY SessionTyped DEF Gate!TypeOK
  <2>2. CASE look.saw.who # 0 /\ look.saw.idle < 2
    <3> DEFINE s == [look.saw EXCEPT !.idle = @ + 1]
    <3>1. /\ s \in Gate!Sessions /\ s.who = look.saw.who /\ s.torn = look.saw.torn
          /\ s.mark = look.saw.mark
          /\ s.idle = look.saw.idle + 1
      BY <2>1, <2>2, SessionSet DEF Gate!Sessions
    <3>2. look' = [look EXCEPT !.saw = s]
      BY <2>2 DEF Gate!Idles
    <3> HIDE DEF s
    <3> QED
      BY <2>1, <2>2, <3>1, <3>2 DEF Gate!Looks
  <2>3. CASE ~(look.saw.who # 0 /\ look.saw.idle < 2)
    BY <2>1, <2>3 DEF Gate!Idles
  <2> QED
    BY <2>2, <2>3
<1>3. SideTyped /\ Gate!Notes /\ UNCHANGED webSide
  BY <1>1 DEF SideTyped, Gate!TypeOK, Gate!Idles, webSide
<1>4. Gate!TypeOK'
  BY <1>1, <1>2, <1>3, GhostsTyped DEF Gate!TypeOK, webSide
<1>5. AccountsNumbered'
  BY <1>1, <1>2, <1>3 DEF AccountsNumbered, webSide
<1>6. LookIsOfOne'
  <2>1. look.of = "nobody" => look' = look
    BY DEF Gate!Idles, LookIsOfOne, Gate!NoLook, Gate!NoSession
  <2>2. look.saw.who # 0 /\ look.saw.who = sess.who => look'.saw.idle = sess'.idle
    BY <1>1, <1>2 DEF LookIsOfOne, Gate!Idles
  <2> QED
    BY <1>1, <1>2, <1>3, <2>1, <2>2 DEF LookIsOfOne, webSide
<1>7. GhostsOfSeen'
  <2> SUFFICES ASSUME NEW w \in WebRequests, look.of = w,
      web[w].at = "gate" PROVE GhostsOfLook(w)'
    BY <1>2, <1>3 DEF GhostsOfSeen, webSide
  <2>1. GhostsOfLook(w)
    BY DEF GhostsOfSeen
  <2>2. /\ look.saw.idle \in Int /\ look'.saw.idle >= look.saw.idle /\ leastIdle[w] \in Int
        /\ leastIdle'[w] \in Int
    BY <1>2, <1>3, SessionTyped, GhostsTyped DEF Gate!TypeOK, Gate!Never
  <2>3. Gate!Sound(look.saw, look.keys)' <=> Gate!Sound(look.saw, look.keys)
    BY <1>2 DEF Gate!Sound, Gate!Present, Gate!Whole, Gate!Marked
  <2> QED
    BY <1>2, <1>3, <2>1, <2>2, <2>3, GhostsNoted DEF GhostsOfLook
<1> QED
  BY <1>3, <1>4, <1>5, <1>6, <1>7, GhostsNoted

-----------------------------------------------------------------------------
(* A request comes; and what restarts.                                     *)
LEMMA ArriveOn ==
  ASSUME RequestsInv, NEW w \in WebRequests, NEW a \in Accesses \ {"root-only"},
      Gate!Arrive(w, a)
  PROVE  RequestsInv'
<1> USE DEF RequestsInv
<1>1. /\ web[w].at = "free" /\ web[w].said = "nothing" /\ web[w].role = "none"
      /\ web[w] \in Gate!Webs
      /\ sess \in Gate!Sessions /\ phpIni.secs \in 1..2 /\ phpIni.secs \in Int
      /\ sess.idle \in 0..2 /\ sess.idle \in Int
  <2>1. web[w].at = "free" /\ web[w].said = "nothing" /\ web[w].role = "none"
    BY DEF Gate!Arrive, Gate!NoWeb
  <2>2. web[w] \in Gate!Webs /\ sess \in Gate!Sessions
    BY DEF Gate!TypeOK
  <2> QED
    BY <2>1, <2>2, SessionTyped
<1> DEFINE q == [web[w] EXCEPT !.at = IF a = "pre-gate" THEN "in"
    ELSE "gate", !.route = a, !.cookie = sess.who]
<1>2. /\ q \in Gate!Webs /\ q.at \in {"in", "gate"} /\ q.said = "nothing" /\ q.role = "none"
      /\ q.cookie = sess.who
      /\ q.verb = web[w].verb
  BY <1>1, Constants DEF Gate!Webs, Gate!Sessions, Gate!ConstantsOK, Gate!AccessNames
<1>3. web' = [web EXCEPT ![w] = q]
  BY DEF Gate!Arrive
<1> HIDE DEF q
<1>4. /\ web' \in [WebRequests -> Gate!Webs] /\ web'[w] = q /\ \A v \in WebRequests : v # w
             => web'[v] = web[v]
      /\ UNCHANGED <<conn, proc, age, sess, userRows, keysOn, phpIni, Gate!gatewaySide,
             reqCount>>
  <2>1. web \in [WebRequests -> Gate!Webs]
    BY DEF Gate!TypeOK
  <2>2. UNCHANGED <<conn, proc, age, sess, userRows, keysOn, phpIni, Gate!gatewaySide,
            reqCount>>
    BY DEF Gate!Arrive
  <2> QED
    BY <1>2, <1>3, <2>1, <2>2
<1>5. /\ lives' = [lives EXCEPT ![w] = {phpIni.secs}]
      /\ leastIdle' = [leastIdle EXCEPT ![w] = IF Gate!Sound(sess, keysOn) THEN sess.idle
             ELSE Gate!Never]
      /\ wasActive' = [wasActive EXCEPT ![w] = Gate!Present(sess)
             /\ Gate!Active(sess, userRows)]
      /\ wasLapsed' = [wasLapsed EXCEPT ![w] = ~Gate!Valid(sess, keysOn, phpIni.secs, userRows)]
  BY DEF Gate!Arrive
<1>6. Gate!TypeOK'
  <2>1. /\ lives' \in [WebRequests -> SUBSET (1..2)]
        /\ leastIdle' \in [WebRequests -> 0..Gate!Never]
    BY <1>1, <1>5 DEF Gate!TypeOK, Gate!Never
  <2>2. wasActive' \in [WebRequests -> BOOLEAN]
    BY <1>5 DEF Gate!TypeOK, Gate!Present, Gate!Active
  <2>3. wasLapsed' \in [WebRequests -> BOOLEAN]
    BY <1>5 DEF Gate!TypeOK, Gate!Valid
  <2> QED
    BY <1>4, <2>1, <2>2, <2>3 DEF Gate!TypeOK, Gate!gatewaySide
<1>7. RequestsGo'
  <2> SUFFICES ASSUME NEW v \in WebRequests PROVE RequestGoes(v)'
    BY DEF RequestsGo
  <2>1. RequestGoes(v)
    BY DEF RequestsGo
  <2>2. CASE v = w
    BY <1>1, <1>2, <1>4, <2>1, <2>2 DEF RequestGoes, Gate!callerMay
  <2>3. CASE v # w
    BY <1>4, <2>1, <2>3 DEF RequestGoes, Gate!callerMay
  <2> QED
    BY <2>2, <2>3
<1>8. AccountsNumbered' /\ LookIsOfOne'
  <2>1. look.of # w
    BY <1>1, Constants DEF LookIsOfOne, Gate!ConstantsOK
  <2>2. AccountsNumbered'
    BY <1>2, <1>4 DEF AccountsNumbered, Gate!gatewaySide
  <2> QED
    BY <1>4, <2>1, <2>2, Constants DEF LookIsOfOne, Gate!gatewaySide, Gate!TypeOK,
       Gate!Looks, Gate!ConstantsOK
<1>9. GhostsOfOpen'
  <2> SUFFICES ASSUME NEW v \in WebRequests, Gate!Open(v)' PROVE GhostsSince(v)'
    BY DEF GhostsOfOpen
  <2>1. CASE v = w
    <3>1. lives'[w] = {phpIni.secs} /\ leastIdle'[w] = (IF Gate!Sound(sess, keysOn)
              THEN sess.idle ELSE Gate!Never)
          /\ wasActive'[w] = (Gate!Present(sess) /\ Gate!Active(sess, userRows))
          /\ wasLapsed'[w] = (~Gate!Valid(sess, keysOn, phpIni.secs, userRows))
      BY <1>5 DEF Gate!TypeOK
    <3>2. /\ web'[w].cookie = sess.who /\ sess' = sess /\ userRows' = userRows
          /\ keysOn' = keysOn /\ phpIni' = phpIni
      BY <1>2, <1>4
    <3>3. phpIni'.secs \in lives'[w]
      BY <3>1, <3>2
    <3>4. Gate!AccountOf(w, userRows)' => wasActive'[w]
      BY <3>1, <3>2 DEF Gate!AccountOf, Gate!Present, Gate!Active, Gate!TokenOf
    <3>5. Gate!Sound(sess, keysOn)' => leastIdle'[w] <= sess'.idle
      BY <1>1, <3>1, <3>2 DEF Gate!Sound, Gate!Present, Gate!Whole, Gate!Marked
    <3>6. \A l \in lives'[w] : ~(Gate!IsOf(sess, w)'
              /\ Gate!Valid(sess', keysOn', l, userRows')) => wasLapsed'[w]
      BY <3>1, <3>2 DEF Gate!IsOf
    <3> QED
      BY <2>1, <3>3, <3>4, <3>5, <3>6 DEF GhostsSince
  <2>2. CASE v # w
    <3>1. lives'[v] = lives[v] /\ leastIdle'[v] = leastIdle[v] /\ wasActive'[v] =
              wasActive[v] /\ wasLapsed'[v] = wasLapsed[v]
          /\ web'[v] = web[v]
      BY <1>4, <1>5, <2>2 DEF Gate!TypeOK
    <3>2. GhostsSince(v)
      BY <3>1 DEF GhostsOfOpen, Gate!Open
    <3> QED
      BY <1>4, <3>1, <3>2 DEF GhostsSince, Gate!IsOf, Gate!AccountOf, Gate!Valid, Gate!Sound,
         Gate!Present, Gate!Whole, Gate!Marked, Gate!Active, Gate!TokenOf
  <2> QED
    BY <2>1, <2>2
<1>10. GhostsOfSeen' /\ Gate!GateSaysTrue'
  <2>1. look.of # w
    BY <1>1, Constants DEF LookIsOfOne, Gate!ConstantsOK
  <2>2. \A v \in WebRequests : v # w
            => lives'[v] = lives[v] /\ leastIdle'[v] = leastIdle[v] /\ wasActive'[v] =
            wasActive[v]
                                        /\ wasLapsed'[v] = wasLapsed[v]
    BY <1>5 DEF Gate!TypeOK
  <2>3. GhostsOfSeen'
    BY <1>4, <2>1, <2>2 DEF GhostsOfSeen, GhostsOfLook, Gate!gatewaySide, Gate!Sound,
       Gate!Present, Gate!Whole, Gate!Marked
  <2>4. Gate!GateSaysTrue'
    BY <1>2, <1>4, <2>2 DEF Gate!GateSaysTrue
  <2> QED
    BY <2>3, <2>4
<1> QED
  BY <1>6, <1>7, <1>8, <1>9, <1>10

(* Restarts of the gateway and of the manager.                             *)
LEMMA GatewayStopsOn ==
  ASSUME RequestsInv, Gate!GatewayStops
  PROVE  RequestsInv'
<1> USE DEF RequestsInv
<1>1. \A w \in WebRequests :
        /\ web'[w] \in Gate!Webs /\ web'[w].cookie = web[w].cookie
        /\ web'[w].role = web[w].role /\ web'[w].verb = web[w].verb
        /\ \/ web'[w] = web[w] /\ web[w].at # "asked"
           \/ web'[w].at = "answered" /\ web'[w].said \in {"lost", "503"} /\ web[w].at
               \in {"asked", "gate"}
  <2> SUFFICES ASSUME NEW w \in WebRequests
               PROVE  /\ web'[w] \in Gate!Webs /\ web'[w].cookie = web[w].cookie
                      /\ web'[w].role = web[w].role /\ web'[w].verb = web[w].verb
                      /\ \/ web'[w] = web[w] /\ web[w].at # "asked"
                         \/ web'[w].at = "answered" /\ web'[w].said
                             \in {"lost", "503"} /\ web[w].at \in {"asked", "gate"}
    OBVIOUS
  <2>1. web[w] \in Gate!Webs
    BY DEF Gate!TypeOK
  <2> QED
    BY <2>1 DEF Gate!GatewayStops, Gate!Webs, Gate!unavailable
<1>2. web' \in [WebRequests -> Gate!Webs]
  BY <1>1 DEF Gate!GatewayStops
<1>3. /\ conn' \in [WebRequests -> {"none", "over"}] /\ proc' \in [WebRequests -> Gate!Procs]
      /\ \A w \in WebRequests : /\ conn'[w] = "none" <=> conn[w] = "none"
                                /\ \/ proc'[w] = Gate!NoProc /\ proc[w] = Gate!NoProc
                                   \/ proc[w].state # "none" /\ proc'[w].state = "gone"
                                        /\ proc'[w].for = proc[w].for
                                        /\ proc'[w].began = proc[w].began
  <2>1. conn' \in [WebRequests -> {"none", "over"}] /\ \A w \in WebRequests : conn'[w] =
            "none" <=> conn[w] = "none"
    BY DEF Gate!GatewayStops
  <2>2. \A w \in WebRequests : proc[w].state = "none" => proc[w] = Gate!NoProc
    BY DEF RequestsGo, RequestGoes
  <2>3. \A w \in WebRequests : proc[w] \in Gate!Procs
    BY DEF Gate!TypeOK
  <2>4. \A w \in WebRequests :
           /\ proc'[w] \in Gate!Procs
           /\ \/ proc'[w] = Gate!NoProc /\ proc[w] = Gate!NoProc
              \/ proc[w].state # "none" /\ proc'[w].state = "gone"
                   /\ proc'[w].for = proc[w].for /\ proc'[w].began = proc[w].began
    BY <2>2, <2>3 DEF Gate!GatewayStops, Gate!Procs
  <2>5. proc' \in [WebRequests -> Gate!Procs]
    BY <2>4 DEF Gate!GatewayStops
  <2> QED
    BY <2>1, <2>4, <2>5
<1>4. /\ reqCount' = reqCount + 1 /\ reqCount \in 0..MaxWebMoves /\ reqCount' \in 0..MaxWebMoves
      /\ look' = Gate!NoLook /\ lifeCache' = [stamp |-> 0, secs |-> 0] /\ gatewayUp' = FALSE
      /\ UNCHANGED <<age, Gate!panelSide>>
  <2>1. reqCount' = reqCount + 1 /\ reqCount < MaxWebMoves
    BY DEF Gate!GatewayStops, Gate!Spend
  <2>2. reqCount \in 0..MaxWebMoves /\ MaxWebMoves \in Nat
    BY Constants DEF Gate!TypeOK, Gate!ConstantsOK
  <2>3. reqCount' \in 0..MaxWebMoves
    BY <2>1, <2>2
  <2> QED
    BY <2>1, <2>2, <2>3 DEF Gate!GatewayStops
<1>5. Gate!TypeOK'
  <2>1. /\ lifeCache' \in [stamp : Nat, secs : 0..2] /\ lifeCache'.stamp = 0
        /\ look' \in Gate!Looks
    BY <1>4, RestTyped
  <2>2. phpIni' = phpIni /\ phpIni.stamp \in Nat
    BY <1>4, SessionTyped DEF Gate!panelSide
  <2>3. conn' \in [WebRequests -> {"none", "request", "run", "over"}]
    BY <1>3
  <2>4. lifeCache'.stamp <= phpIni'.stamp
    BY <2>1, <2>2
  <2> QED
    BY <1>2, <1>3, <1>4, <2>1, <2>3, <2>4 DEF Gate!TypeOK, Gate!panelSide
<1>6. RequestsGo'
  <2> SUFFICES ASSUME NEW w \in WebRequests PROVE RequestGoes(w)'
    BY DEF RequestsGo
  <2>1. RequestGoes(w)
    BY DEF RequestsGo
  <2>2. conn'[w] \in {"none", "over"}
    BY <1>3
  <2> QED
    BY <1>1, <1>3, <1>4, <2>1, <2>2 DEF RequestGoes, Gate!callerMay, Gate!NoProc
<1>7. AccountsNumbered'
  <2>1. \A w \in WebRequests : web[w].cookie \in Int
    BY WebTyped
  <2>2. sess' = sess /\ look'.saw.who = 0 /\ sess.who \in Int
    BY <1>4, SessionTyped DEF Gate!panelSide, Gate!NoLook, Gate!NoSession
  <2> QED
    BY <1>1, <1>4, <2>1, <2>2 DEF AccountsNumbered
<1>8. LookIsOfOne' /\ GhostsOfSeen'
  <2>1. look'.of = "nobody" /\ look'.saw.who = 0 /\ look'.stamp = 0 /\ lifeCache'.stamp =
            0 /\ phpIni' = phpIni
        /\ phpIni.stamp \in Nat \ {0} /\ look' = Gate!NoLook
    BY <1>4 DEF Gate!NoLook, Gate!NoSession, Gate!panelSide, Gate!TypeOK
  <2> QED
    BY <2>1, Constants DEF LookIsOfOne, GhostsOfSeen, Gate!ConstantsOK
<1>9. GhostsOfOpen' /\ Gate!GateSaysTrue'
  <2>1. Gate!GateSaysTrue'
    BY <1>1, <1>4 DEF Gate!GateSaysTrue, Gate!panelSide
  <2>2. GhostsOfOpen'
    BY <1>1, <1>4 DEF GhostsOfOpen, GhostsSince, Gate!Open, Gate!panelSide, Gate!IsOf,
       Gate!AccountOf, Gate!Valid, Gate!Sound, Gate!Present, Gate!Whole, Gate!Marked,
       Gate!Active, Gate!TokenOf
  <2> QED
    BY <2>1, <2>2
<1> QED
  BY <1>5, <1>6, <1>7, <1>8, <1>9

LEMMA GatewayStartsOn ==
  ASSUME RequestsInv, Gate!GatewayStarts
  PROVE  RequestsInv'
<1> USE DEF RequestsInv, Gate!GatewayStarts
<1>1. Gate!TypeOK'
  BY DEF Gate!TypeOK, Gate!panelSide
<1>2. RequestsGo'
  BY DEF RequestsGo, RequestGoes, Gate!callerMay
<1>3. WebGoes
  BY DEF WebGoes, Gate!Open
<1>4. reqCount' \in Int /\ reqCount' >= reqCount
  BY SessionTyped
<1> QED
  BY <1>1, <1>2, <1>3, <1>4, LookKept

LEMMA ManagerStopsOn ==
  ASSUME RequestsInv, Gate!ManagerStops
  PROVE  RequestsInv'
<1> USE DEF RequestsInv
<1>1. \A w \in WebRequests :
        /\ web'[w] \in Gate!Webs /\ web'[w].cookie = web[w].cookie
        /\ web'[w].role = web[w].role /\ web'[w].verb = web[w].verb
        /\ web'[w].said = web[w].said
        /\ (web'[w] = web[w] /\ ~Gate!Open(w)) \/ (web'[w].at = "gone" /\ Gate!Open(w))
  <2> SUFFICES ASSUME NEW w \in WebRequests
               PROVE  /\ web'[w] \in Gate!Webs /\ web'[w].cookie = web[w].cookie
                      /\ web'[w].role = web[w].role /\ web'[w].verb = web[w].verb
                      /\ web'[w].said = web[w].said
                      /\ (web'[w] = web[w] /\ ~Gate!Open(w))
                             \/ (web'[w].at = "gone" /\ Gate!Open(w))
    OBVIOUS
  <2>1. web[w] \in Gate!Webs
    BY DEF Gate!TypeOK
  <2>2. web'[w] = IF Gate!Open(w) THEN [web[w] EXCEPT !.at = "gone"] ELSE web[w]
    BY DEF Gate!ManagerStops
  <2>3. CASE Gate!Open(w)
    <3> DEFINE q == [web[w] EXCEPT !.at = "gone"]
    <3>1. q \in Gate!Webs /\ q.cookie = web[w].cookie /\ q.role = web[w].role /\ q.verb =
              web[w].verb /\ q.said = web[w].said
          /\ q.at = "gone"
      BY <2>1 DEF Gate!Webs
    <3>2. web'[w] = q
      BY <2>2, <2>3
    <3> HIDE DEF q
    <3> QED
      BY <2>3, <3>1, <3>2
  <2>4. CASE ~Gate!Open(w)
    <3>1. web'[w] = web[w]
      BY <2>2, <2>4
    <3> QED
      BY <2>1, <2>4, <3>1
  <2> QED
    BY <2>3, <2>4
<1>2. web' \in [WebRequests -> Gate!Webs]
  BY <1>1 DEF Gate!ManagerStops
<1>3. /\ reqCount' = reqCount + 1 /\ reqCount \in 0..MaxWebMoves /\ reqCount' \in 0..MaxWebMoves
      /\ UNCHANGED <<conn, proc, age, Gate!panelSide, Gate!gatewaySide>>
  BY Constants DEF Gate!ManagerStops, Gate!Spend, Gate!TypeOK, Gate!ConstantsOK
<1>4. Gate!TypeOK'
  BY <1>2, <1>3 DEF Gate!TypeOK, Gate!panelSide, Gate!gatewaySide
<1>5. RequestsGo'
  <2> SUFFICES ASSUME NEW w \in WebRequests PROVE RequestGoes(w)'
    BY DEF RequestsGo
  <2>1. RequestGoes(w)
    BY DEF RequestsGo
  <2> QED
    BY <1>1, <1>3, <2>1 DEF RequestGoes, Gate!callerMay, Gate!Open
<1>6. WebGoes
  BY <1>1 DEF WebGoes, Gate!Open
<1>7. reqCount' \in Int /\ reqCount' >= reqCount
  BY <1>3
<1> QED
  BY <1>3, <1>4, <1>5, <1>6, <1>7, LookKept DEF Gate!gatewaySide

-----------------------------------------------------------------------------
(* Root's look: the file, the stamp of php.ini, its lifetime, the row.      *)
LEMMA LookIs == ASSUME RequestsInv, look # Gate!NoLook
                PROVE  /\ look.of \in WebRequests /\ web[look.of].at \notin {"free", "in"}
                       /\ look.saw.who \in {0, web[look.of].cookie}
BY DEF RequestsInv, Gate!TypeOK, Gate!Looks, LookIsOfOne

(* The fields of the session and of the look, one by one.                  *)
LEMMA SessTyped == ASSUME RequestsInv
                   PROVE  /\ sess \in Gate!Sessions /\ look \in Gate!Looks
                          /\ look.saw \in Gate!Sessions /\ sess.who \in Int
                          /\ look.saw.who \in Int
                          /\ sess.idle \in Int /\ look.saw.idle \in Int /\ look.secs \in Int
                          /\ look.stamp \in Nat
                          /\ phpIni.stamp \in Nat \ {0} /\ phpIni.secs \in 1..2
                          /\ lifeCache.stamp \in Nat /\ lifeCache.secs \in 0..2
                          /\ reqCount \in Int /\ \A w \in WebRequests : leastIdle[w]
                                 \in Int /\ lives[w] \subseteq 1..2
<1>1. /\ sess \in Gate!Sessions /\ look \in Gate!Looks /\ reqCount \in 0..MaxWebMoves
      /\ MaxWebMoves \in Nat
  BY Constants DEF RequestsInv, Gate!TypeOK, Gate!ConstantsOK
<1>2. look.saw \in Gate!Sessions /\ look.secs \in 0..2 /\ look.stamp \in Nat
  BY <1>1 DEF Gate!Looks
<1>3. sess.who \in Int /\ sess.idle \in Int /\ look.saw.who \in Int /\ look.saw.idle \in Int
  BY <1>1, <1>2 DEF Gate!Sessions
<1>4. phpIni \in [stamp : Nat \ {0}, secs : 1..2] /\ lifeCache \in [stamp : Nat, secs : 0..2]
  BY DEF RequestsInv, Gate!TypeOK
<1>5. \A w \in WebRequests : leastIdle[w] \in 0..Gate!Never /\ lives[w] \subseteq 1..2
  BY DEF RequestsInv, Gate!TypeOK
<1> QED
  BY <1>1, <1>2, <1>3, <1>4, <1>5 DEF Gate!Never

LEMMA LookAtFileOn ==
  ASSUME RequestsInv, NEW w \in WebRequests, Gate!LookAtFile(w)
  PROVE  RequestsInv'
<1> DEFINE seen == IF sess.who = web[w].cookie THEN sess ELSE Gate!NoSession
           q == [Gate!NoLook EXCEPT !.of = w, !.keys = keysOn, !.saw = seen]
<1>0. /\ Gate!TypeOK /\ RequestsGo /\ AccountsNumbered /\ LookIsOfOne /\ GhostsOfOpen
      /\ GhostsOfSeen /\ Gate!GateSaysTrue /\ keysOn \in BOOLEAN
  BY DEF RequestsInv, Gate!TypeOK
<1>1. seen \in Gate!Sessions /\ Gate!NoSession \in Gate!Sessions
  BY RestTyped, SessTyped
<1>2. /\ q \in Gate!Looks /\ q.of = w /\ q.keys = keysOn /\ q.saw = seen /\ q.stamp = 0
      /\ q.secs = 0
  <2> HIDE DEF seen
  <2>1. Gate!NoLook \in Gate!Looks /\ Gate!NoLook.stamp = 0 /\ Gate!NoLook.secs = 0
    BY RestTyped DEF Gate!NoLook
  <2> QED
    BY <1>0, <1>1, <2>1 DEF Gate!Looks
<1>3. /\ look' = q
      /\ UNCHANGED <<web, conn, proc, age, Gate!panelSide, lifeCache, gatewayUp, reqCount>>
  BY DEF Gate!LookAtFile
<1>4. Gate!NoSession.who = 0
  BY DEF Gate!NoSession
<1>5. \/ seen = sess /\ sess.who = web[w].cookie
      \/ seen.who = 0 /\ sess.who # web[w].cookie
  <2>1. CASE sess.who = web[w].cookie
    BY <2>1
  <2>2. CASE sess.who # web[w].cookie
    BY <1>4, <2>2
  <2> QED
    BY <2>1, <2>2
<1> HIDE DEF q, seen
<1>6. Gate!TypeOK'
  BY <1>0, <1>2, <1>3 DEF Gate!TypeOK, Gate!panelSide
<1>7. RequestsGo' /\ Gate!GateSaysTrue'
  BY <1>0, <1>3 DEF RequestsGo, RequestGoes, Gate!callerMay, Gate!GateSaysTrue, Gate!panelSide
<1>8. AccountsNumbered'
  <2>0. sess.who <= reqCount + 1
    BY <1>0 DEF AccountsNumbered
  <2>1. seen.who <= reqCount + 1
    <3>1. CASE seen = sess
      BY <2>0, <3>1
    <3>2. CASE seen.who = 0
      <4>1. reqCount \in 0..MaxWebMoves /\ MaxWebMoves \in Nat
        BY <1>0, Constants DEF Gate!TypeOK, Gate!ConstantsOK
      <4> QED
        BY <3>2, <4>1
    <3> QED
      BY <1>5, <3>1, <3>2
  <2> QED
    BY <1>0, <1>2, <1>3, <2>1 DEF AccountsNumbered, Gate!panelSide
<1>9. LookIsOfOne'
  <2>1. web[w].at \notin {"free", "in"}
    BY <1>0 DEF Gate!LookAtFile, Gate!ForGate, Gate!ForAccount, RequestsGo, RequestGoes
  <2> QED
    BY <1>0, <1>2, <1>3, <1>5, <2>1, SessTyped, Constants DEF LookIsOfOne, Gate!panelSide,
       Gate!ConstantsOK
<1>10. GhostsOfOpen'
  BY <1>0, <1>3 DEF GhostsOfOpen, GhostsSince, Gate!Open, Gate!panelSide, Gate!IsOf,
     Gate!AccountOf, Gate!Valid, Gate!Sound, Gate!Present, Gate!Whole, Gate!Marked,
     Gate!Active, Gate!TokenOf
<1>11. GhostsOfSeen'
  <2> SUFFICES ASSUME web[w].at = "gate" PROVE GhostsOfLook(w)'
    BY <1>2, <1>3 DEF GhostsOfSeen
  <2>1. GhostsSince(w)
    BY <1>0 DEF GhostsOfOpen, Gate!Open
  <2>2. ~Gate!Sound(seen, keysOn) => wasLapsed[w]
    BY <1>5, <2>1 DEF GhostsSince, Gate!IsOf, Gate!Valid
  <2>3. Gate!Sound(seen, keysOn) => leastIdle[w] <= seen.idle
    BY <1>5, <2>1 DEF GhostsSince, Gate!IsOf, Gate!Sound, Gate!Present
  <2> QED
    BY <1>2, <1>3, <2>2, <2>3 DEF GhostsOfLook, Gate!panelSide, Gate!Sound, Gate!Present,
       Gate!Whole, Gate!Marked
<1> QED
  BY <1>6, <1>7, <1>8, <1>9, <1>10, <1>11 DEF RequestsInv

(* What of php.ini root has is of a time since the request came.            *)
LEMMA LookSecs ==
  ASSUME RequestsInv, look # Gate!NoLook, NEW s \in Nat, s <= phpIni.stamp, NEW c \in 0..2,
      c \in {0, phpIni.secs},
         look' = [look EXCEPT !.stamp = s, !.secs = c],
             lifeCache' \in [stamp : Nat, secs : 0..2],
         lifeCache'.stamp <= phpIni.stamp, lifeCache'.stamp = phpIni.stamp
             => lifeCache'.secs = phpIni.secs,
         UNCHANGED <<web, conn, proc, age, Gate!panelSide, gatewayUp, reqCount>>
  PROVE  RequestsInv'
<1>0. /\ Gate!TypeOK /\ RequestsGo /\ AccountsNumbered /\ LookIsOfOne /\ GhostsOfOpen
      /\ GhostsOfSeen /\ Gate!GateSaysTrue
  BY DEF RequestsInv
<1>1. /\ look' \in Gate!Looks /\ look'.of = look.of /\ look'.saw = look.saw
      /\ look'.keys = look.keys /\ look'.stamp = s /\ look'.secs = c
  BY SessTyped DEF Gate!Looks
<1>2. Gate!TypeOK'
  BY <1>0, <1>1 DEF Gate!TypeOK, Gate!panelSide
<1>3. RequestsGo' /\ Gate!GateSaysTrue'
  BY <1>0 DEF RequestsGo, RequestGoes, Gate!callerMay, Gate!GateSaysTrue, Gate!panelSide
<1>4. AccountsNumbered'
  BY <1>0, <1>1 DEF AccountsNumbered, Gate!panelSide
<1>5. LookIsOfOne'
  BY <1>0, <1>1, LookIs, Constants DEF LookIsOfOne, Gate!panelSide, Gate!ConstantsOK
<1>6. GhostsOfOpen'
  BY <1>0 DEF GhostsOfOpen, GhostsSince, Gate!Open, Gate!panelSide, Gate!IsOf,
     Gate!AccountOf, Gate!Valid, Gate!Sound, Gate!Present, Gate!Whole, Gate!Marked,
     Gate!Active, Gate!TokenOf
<1>7. GhostsOfSeen'
  <2> SUFFICES ASSUME NEW w \in WebRequests, look.of = w,
      web[w].at = "gate" PROVE GhostsOfLook(w)'
    BY <1>1 DEF GhostsOfSeen
  <2>1. GhostsSince(w) /\ GhostsOfLook(w)
    BY <1>0 DEF GhostsOfOpen, Gate!Open, GhostsOfSeen
  <2> QED
    BY <1>1, <2>1 DEF GhostsOfLook, GhostsSince, Gate!panelSide, Gate!Sound, Gate!Present,
       Gate!Whole, Gate!Marked
<1> QED
  BY <1>2, <1>3, <1>4, <1>5, <1>6, <1>7 DEF RequestsInv

LEMMA LookAtStampOn == ASSUME RequestsInv, Gate!LookAtStamp PROVE RequestsInv'
<1> DEFINE c == IF lifeCache.stamp = phpIni.stamp THEN lifeCache.secs ELSE 0
<1>1. look # Gate!NoLook
  BY DEF Gate!LookAtStamp, Gate!NoLook
<1>2. /\ c \in 0..2 /\ c \in {0, phpIni.secs} /\ phpIni.stamp \in Nat
      /\ phpIni.stamp <= phpIni.stamp
  BY SessTyped DEF RequestsInv, LookIsOfOne
<1>3. /\ look' = [look EXCEPT !.stamp = phpIni.stamp, !.secs = c]
      /\ UNCHANGED <<web, conn, proc, age, Gate!panelSide, lifeCache, gatewayUp, reqCount>>
  BY DEF Gate!LookAtStamp
<1>4. /\ lifeCache' \in [stamp : Nat, secs : 0..2] /\ lifeCache'.stamp <= phpIni.stamp
      /\ lifeCache'.stamp = phpIni.stamp => lifeCache'.secs = phpIni.secs
  BY <1>3 DEF RequestsInv, Gate!TypeOK, LookIsOfOne
<1> HIDE DEF c
<1> QED
  BY <1>1, <1>2, <1>3, <1>4, LookSecs

LEMMA LookReadOn == ASSUME RequestsInv, Gate!LookRead PROVE RequestsInv'
<1>1. look # Gate!NoLook
  BY DEF Gate!LookRead, Gate!NoLook
<1>2. /\ look.stamp \in Nat /\ phpIni.secs \in 0..2 /\ phpIni.secs \in {0, phpIni.secs}
      /\ look.stamp <= phpIni.stamp
  BY SessTyped DEF RequestsInv, LookIsOfOne
<1>3. look' = [look EXCEPT !.stamp = look.stamp, !.secs = phpIni.secs]
  BY SessTyped DEF Gate!LookRead, Gate!Looks
<1>4. /\ lifeCache' = [stamp |-> look.stamp, secs |-> phpIni.secs]
      /\ UNCHANGED <<web, conn, proc, age, Gate!panelSide, gatewayUp, reqCount>>
  BY DEF Gate!LookRead
<1>5. /\ lifeCache' \in [stamp : Nat, secs : 0..2] /\ lifeCache'.stamp <= phpIni.stamp
      /\ lifeCache'.stamp = phpIni.stamp => lifeCache'.secs = phpIni.secs
  BY <1>2, <1>4
<1> QED
  BY <1>1, <1>2, <1>3, <1>4, <1>5, LookSecs

(* After root's last word on a request nothing of its look is left.         *)
LEMMA LookOver ==
  ASSUME RequestsInv, look' = Gate!NoLook, UNCHANGED <<Gate!panelSide, lifeCache, reqCount>>,
         \A v \in WebRequests : web'[v].cookie =
             web[v].cookie /\ (web'[v].at \in {"gate", "in", "asked"} => Gate!Open(v))
  PROVE  AccountsNumbered' /\ LookIsOfOne' /\ GhostsOfOpen' /\ GhostsOfSeen'
<1>0. Gate!TypeOK /\ AccountsNumbered /\ LookIsOfOne /\ GhostsOfOpen
  BY DEF RequestsInv
<1>1. look'.of = "nobody" /\ look'.saw.who = 0 /\ look'.stamp = 0
  BY DEF Gate!NoLook, Gate!NoSession
<1>2. AccountsNumbered'
  <2>1. 0 <= reqCount + 1
    <3>1. reqCount \in 0..MaxWebMoves /\ MaxWebMoves \in Nat
      BY <1>0, Constants DEF Gate!TypeOK, Gate!ConstantsOK
    <3> QED
      BY <3>1
  <2>2. /\ sess.who <= reqCount + 1 /\ sess' = sess /\ reqCount' = reqCount
        /\ \A v \in WebRequests : web'[v].cookie <= reqCount + 1
    BY <1>0 DEF AccountsNumbered, Gate!panelSide
  <2> QED
    BY <1>1, <2>1, <2>2 DEF AccountsNumbered
<1>3. LookIsOfOne'
  BY <1>0, <1>1, SessTyped DEF LookIsOfOne, Gate!panelSide
<1>4. GhostsOfOpen'
  BY <1>0 DEF GhostsOfOpen, GhostsSince, Gate!Open, Gate!panelSide, Gate!IsOf,
     Gate!AccountOf, Gate!Valid, Gate!Sound, Gate!Present, Gate!Whole, Gate!Marked,
     Gate!Active, Gate!TokenOf
<1>5. GhostsOfSeen'
  BY <1>1, Constants DEF GhostsOfSeen, Gate!ConstantsOK
<1> QED
  BY <1>2, <1>3, <1>4, <1>5

(* The last of the look: who was let in or sent to sign in, whose process  *)
(* starts.                                                                 *)
LEMMA LookDoneOn == ASSUME RequestsInv, Gate!LookDone PROVE RequestsInv'
<1> DEFINE w == look.of
           s == look.saw
           fits == Gate!Valid(s, look.keys, look.secs, userRows)
           role == userRows[Gate!TokenOf(s)]
<1>0. /\ Gate!TypeOK /\ RequestsGo /\ AccountsNumbered /\ LookIsOfOne /\ GhostsOfOpen
      /\ GhostsOfSeen /\ Gate!GateSaysTrue
  BY DEF RequestsInv
<1>1. look # Gate!NoLook /\ look.secs # 0
  BY DEF Gate!LookDone, Gate!NoLook
<1>2. w \in WebRequests /\ s.who \in {0, web[w].cookie} /\ RequestGoes(w) /\ w # "nobody"
  BY <1>0, <1>1, LookIs, Constants DEF RequestsGo, Gate!ConstantsOK
<1>3. /\ look' = Gate!NoLook
      /\ UNCHANGED <<age, Gate!panelSide, lifeCache, gatewayUp, reqCount>>
      /\ IF Gate!ForGate(w) \/ Gate!ForAccount(w) THEN Gate!Judged(w, fits, s)
             ELSE UNCHANGED <<web, conn, proc>>
  BY <1>1 DEF Gate!LookDone
<1>4. web[w] \in Gate!Webs /\ s \in Gate!Sessions /\ age[w] \in 0..Gate!MaxAge
  BY <1>0, <1>2, SessTyped DEF Gate!TypeOK
<1>5. fits => role \in Gate!Roles \ {"none"} /\ s.who = web[w].cookie /\ s.who # 0
  <2> SUFFICES ASSUME fits
               PROVE  role \in Gate!Roles \ {"none"} /\ s.who = web[w].cookie /\ s.who # 0
    OBVIOUS
  <2>1. s.who # 0 /\ userRows[s.who] # "none"
    BY DEF Gate!Valid, Gate!Sound, Gate!Present, Gate!Active, Gate!TokenOf
  <2>2. s.who \in Gate!Whos
    BY <1>4, <2>1, Constants DEF Gate!Sessions, Gate!Whos, Gate!ConstantsOK
  <2> QED
    BY <1>0, <1>2, <2>1, <2>2 DEF Gate!TypeOK, Gate!TokenOf
<1>6. Gate!ForGate(w) => /\ fits => wasActive[w] /\ \E l \in lives[w] : leastIdle[w] < l
                         /\ ~fits => wasLapsed[w]
  <2> SUFFICES ASSUME Gate!ForGate(w)
               PROVE  /\ fits => wasActive[w] /\ \E l \in lives[w] : leastIdle[w] < l
                      /\ ~fits => wasLapsed[w]
    OBVIOUS
  <2>1. GhostsSince(w) /\ GhostsOfLook(w)
    BY <1>0, <1>2 DEF GhostsOfOpen, Gate!Open, GhostsOfSeen, Gate!ForGate
  <2>2. look.secs \in lives[w]
    BY <1>1, <2>1 DEF GhostsOfLook
  <2>3. leastIdle[w] \in Int /\ s.idle \in Int /\ look.secs \in Int
    BY <1>2, SessTyped
  <2>4. fits => wasActive[w]
    BY <1>2, <1>5, <2>1 DEF GhostsSince, Gate!AccountOf, Gate!Valid, Gate!Active, Gate!TokenOf
  <2>5. fits => leastIdle[w] < look.secs
    BY <2>1, <2>3 DEF GhostsOfLook, Gate!Valid
  <2>6. ASSUME ~fits PROVE wasLapsed[w]
    <3>1. CASE ~Gate!Sound(s, look.keys)
      BY <2>1, <3>1 DEF GhostsOfLook
    <3>2. CASE Gate!Sound(s, look.keys)
      <4>1. s.who # 0 /\ s.who = web[w].cookie
        BY <1>2, <3>2 DEF Gate!Sound, Gate!Present
      <4>2. ~(s.idle < look.secs) \/ userRows[s.who] = "none"
        BY <2>6, <3>2 DEF Gate!Valid, Gate!Active, Gate!TokenOf
      <4>3. Gate!IsOf(sess, w) => sess.idle = s.idle /\ sess.who = s.who
        BY <1>0, <4>1 DEF LookIsOfOne, Gate!IsOf
      <4>4. ~(Gate!IsOf(sess, w) /\ Gate!Valid(sess, keysOn, look.secs, userRows))
        BY <4>2, <4>3 DEF Gate!Valid, Gate!Active, Gate!TokenOf
      <4> QED
        BY <2>1, <2>2, <4>4 DEF GhostsSince
    <3> QED
      BY <3>1, <3>2
  <2> QED
    BY <2>2, <2>4, <2>5, <2>6
<1> HIDE DEF w, s, fits, role
<1>7. CASE ~(Gate!ForGate(w) \/ Gate!ForAccount(w))
  <2>1. Gate!TypeOK'
    BY <1>0, <1>3, <1>7, RestTyped DEF Gate!TypeOK, Gate!panelSide
  <2>2. RequestsGo' /\ Gate!GateSaysTrue'
    BY <1>0, <1>3, <1>7 DEF RequestsGo, RequestGoes, Gate!callerMay, Gate!GateSaysTrue,
       Gate!panelSide
  <2> QED
    BY <1>3, <1>7, <2>1, <2>2, LookOver DEF RequestsInv, Gate!Open
<1>8. CASE Gate!ForGate(w)
  <2>1. Gate!Judged(w, fits, s) /\ UNCHANGED <<conn, proc>> /\ web[w].at = "gate"
    BY <1>3, <1>8 DEF Gate!Judged, Gate!ForGate
  <2>2. web[w].said = "nothing" /\ conn[w] = "none" /\ proc[w].state = "none"
    BY <1>2, <2>1 DEF RequestGoes
  <2>3. /\ web' \in [WebRequests -> Gate!Webs] /\ \A v \in WebRequests : v # w
               => web'[v] = web[v]
        /\ web'[w].cookie = web[w].cookie /\ web'[w].verb = web[w].verb
        /\ \/ fits /\ web'[w].at = "in" /\ web'[w].said = "nothing"
           \/ fits /\ web'[w].at = "answered" /\ web'[w].said = "403" /\ web'[w].role =
               web[w].role
           \/ ~fits /\ web'[w].at = "answered" /\ web'[w].said = "login" /\ web'[w].role =
               web[w].role
    <3>1. CASE fits /\ Gate!callerMay(web[w].route, role)
      <4> DEFINE q == [web[w] EXCEPT !.at = "in", !.role = role]
      <4>1. web' = [web EXCEPT ![w].at = "in", ![w].role = role]
        BY <2>1, <1>8, <3>1 DEF Gate!Judged, Gate!LetIn, role
      <4>2. /\ q \in Gate!Webs /\ q.at = "in" /\ q.said = "nothing"
            /\ q.cookie = web[w].cookie /\ q.verb = web[w].verb
        BY <1>4, <1>5, <2>2, <3>1 DEF Gate!Webs
      <4>3. web' = [web EXCEPT ![w] = q]
        BY <1>4, <4>1 DEF Gate!Webs
      <4> HIDE DEF q
      <4> QED
        BY <1>0, <1>2, <3>1, <4>2, <4>3 DEF Gate!TypeOK
    <3>2. CASE fits /\ ~Gate!callerMay(web[w].route, role)
      <4>1. Gate!Says(w, "403")
        BY <2>1, <1>8, <3>2 DEF Gate!Judged, Gate!LetIn, role
      <4> QED
        BY <1>0, <1>2, <3>2, <4>1, SaysDoes
    <3>3. CASE ~fits
      <4>1. Gate!Says(w, "login")
        BY <2>1, <1>8, <3>3 DEF Gate!Judged
      <4> QED
        BY <1>0, <1>2, <3>3, <4>1, SaysDoes
    <3> QED
      BY <3>1, <3>2, <3>3
  <2>4. Gate!TypeOK'
    BY <1>0, <1>3, <2>1, <2>3, RestTyped DEF Gate!TypeOK, Gate!panelSide
  <2>5. RequestsGo'
    <3> SUFFICES ASSUME NEW v \in WebRequests PROVE RequestGoes(v)'
      BY DEF RequestsGo
    <3>1. RequestGoes(v)
      BY <1>0 DEF RequestsGo
    <3>2. CASE v = w
      BY <1>3, <2>1, <2>2, <2>3, <3>1, <3>2 DEF RequestGoes
    <3>3. CASE v # w
      BY <1>3, <2>1, <2>3, <3>1, <3>3 DEF RequestGoes, Gate!callerMay
    <3> QED
      BY <3>2, <3>3
  <2>6. Gate!GateSaysTrue'
    <3>1. UNCHANGED <<leastIdle, wasActive, wasLapsed, lives>>
      BY <1>3 DEF Gate!panelSide
    <3>2. ASSUME NEW v \in WebRequests PROVE GateTruth(v)'
      <4>1. GateTruth(v)
        BY <1>0 DEF Gate!GateSaysTrue, GateTruth
      <4>2. CASE v = w
        BY <1>6, <1>8, <2>3, <3>1, <4>1, <4>2 DEF GateTruth
      <4>3. CASE v # w
        BY <2>3, <3>1, <4>1, <4>3 DEF GateTruth
      <4> QED
        BY <4>2, <4>3
    <3> QED
      BY <3>2 DEF Gate!GateSaysTrue, GateTruth
  <2>7. \A v \in WebRequests : web'[v].cookie =
            web[v].cookie /\ (web'[v].at \in {"gate", "in", "asked"} => Gate!Open(v))
    BY <2>1, <2>3 DEF Gate!Open
  <2> QED
    BY <1>3, <2>4, <2>5, <2>6, <2>7, LookOver DEF RequestsInv
<1>9. CASE ~Gate!ForGate(w) /\ Gate!ForAccount(w) /\ fits
  <2> DEFINE p == [state |-> "running", for |-> s.who, began |-> age[w]]
  <2>1. /\ conn' = [conn EXCEPT ![w] = "run"] /\ proc' = [proc EXCEPT ![w] = p] /\ web' = web
        /\ age' = age
    BY <1>3, <1>9 DEF Gate!Judged, Gate!TokenOf
  <2>2. conn[w] = "request" /\ web[w].verb = "own-account"
    BY <1>9 DEF Gate!ForAccount
  <2>3. /\ p \in Gate!Procs /\ p.state = "running" /\ p.for = web[w].cookie /\ p.for # 0
        /\ p.began = age[w]
    BY <1>4, <1>5, <1>9 DEF Gate!Procs, Gate!Sessions
  <2> HIDE DEF p
  <2>4. Gate!TypeOK'
    BY <1>0, <1>2, <1>3, <2>1, <2>3, RestTyped DEF Gate!TypeOK, Gate!panelSide
  <2>5. RequestsGo'
    <3> SUFFICES ASSUME NEW v \in WebRequests PROVE RequestGoes(v)'
      BY DEF RequestsGo
    <3>1. RequestGoes(v)
      BY <1>0 DEF RequestsGo
    <3>2. CASE v = w
      <4>1. conn'[w] = "run" /\ proc'[w] = p /\ web'[w] = web[w] /\ age'[w] = age[w]
        BY <1>0, <1>2, <2>1 DEF Gate!TypeOK
      <4>2. Gate!callerMay(web[w].verb, web[w].role)
        BY <3>1, <3>2, <2>2 DEF RequestGoes, Gate!callerMay
      <4>3. web[w].said = "late" => age[w] # 0
        BY <3>1, <3>2, <2>2 DEF RequestGoes
      <4>4. web[w].at \notin {"free", "gate", "in"} /\ age[w] \in Int
        BY <1>4, <2>2, <3>1, <3>2 DEF RequestGoes, Gate!MaxAge
      <4>5. web[w].at = "asked" => web[w].said = "nothing"
        BY <3>1, <3>2 DEF RequestGoes
      <4>6. Gate!callerMay(web'[w].verb, web'[w].role)
        BY <4>1, <4>2
      <4> QED
        BY <2>3, <3>2, <4>1, <4>2, <4>3, <4>4, <4>5 DEF RequestGoes, Gate!callerMay
    <3>3. CASE v # w
      BY <2>1, <3>1, <3>3 DEF RequestGoes, Gate!callerMay
    <3> QED
      BY <3>2, <3>3
  <2>6. Gate!GateSaysTrue'
    BY <1>0, <1>3, <2>1 DEF Gate!GateSaysTrue, Gate!panelSide
  <2> QED
    BY <1>3, <2>1, <2>4, <2>5, <2>6, LookOver DEF RequestsInv, Gate!Open
<1>10. CASE ~Gate!ForGate(w) /\ Gate!ForAccount(w) /\ ~fits
  <2>1. /\ conn' = [conn EXCEPT ![w] = "over"] /\ proc' = proc /\ age' = age
        /\ IF web[w].at = "asked" THEN Gate!Says(w, "refused") ELSE UNCHANGED web
    BY <1>3, <1>10 DEF Gate!Judged
  <2>2. conn[w] = "request"
    BY <1>10 DEF Gate!ForAccount
  <2>3. /\ web' \in [WebRequests -> Gate!Webs] /\ \A v \in WebRequests : v # w
               => web'[v] = web[v]
        /\ web'[w].cookie = web[w].cookie /\ web'[w].role = web[w].role
        /\ web'[w].verb = web[w].verb
        /\ \/ web[w].at = "asked" /\ web'[w].at = "answered" /\ web'[w].said = "refused"
           \/ web[w].at # "asked" /\ web'[w] = web[w]
    BY <1>0, <1>2, <2>1, SaysDoes DEF Gate!TypeOK
  <2>4. Gate!TypeOK'
    BY <1>0, <1>2, <1>3, <2>1, <2>3, RestTyped DEF Gate!TypeOK, Gate!panelSide
  <2>5. RequestsGo'
    <3> SUFFICES ASSUME NEW v \in WebRequests PROVE RequestGoes(v)'
      BY DEF RequestsGo
    <3>1. RequestGoes(v)
      BY <1>0 DEF RequestsGo
    <3>2. CASE v = w
      BY <1>0, <1>2, <2>1, <2>2, <2>3, <3>1, <3>2 DEF RequestGoes, Gate!callerMay, Gate!TypeOK
    <3>3. CASE v # w
      BY <2>1, <2>3, <3>1, <3>3 DEF RequestGoes, Gate!callerMay
    <3> QED
      BY <3>2, <3>3
  <2>6. Gate!GateSaysTrue'
    BY <1>0, <1>3, <2>3 DEF Gate!GateSaysTrue, Gate!panelSide
  <2>7. \A v \in WebRequests : web'[v].cookie =
            web[v].cookie /\ (web'[v].at \in {"gate", "in", "asked"} => Gate!Open(v))
    BY <2>3 DEF Gate!Open
  <2> QED
    BY <1>3, <2>4, <2>5, <2>6, <2>7, LookOver DEF RequestsInv
<1> QED
  BY <1>7, <1>8, <1>9, <1>10

(* Every step keeps it.                                                     *)
LEMMA RequestsGoOn == RequestsInv /\ [Gate!Next]_(Gate!requestVars) => RequestsInv'
<1> SUFFICES ASSUME RequestsInv, [Gate!Next]_(Gate!requestVars) PROVE RequestsInv'
  OBVIOUS
<1>1. CASE UNCHANGED (Gate!requestVars)
  BY <1>1 DEF RequestsInv, Gate!requestVars, Gate!TypeOK, RequestsGo, RequestGoes,
     Gate!callerMay, AccountsNumbered, LookIsOfOne, GhostsOfOpen, GhostsSince, Gate!Open,
     Gate!IsOf, Gate!AccountOf,
              Gate!Valid, Gate!Sound, Gate!Present, Gate!Whole, Gate!Marked, Gate!Active,
              Gate!TokenOf, GhostsOfSeen, GhostsOfLook, Gate!GateSaysTrue
<1>2. CASE \/ Gate!LookAtStamp \/ Gate!LookRead \/ Gate!LookDone \/ Gate!GatewayStops
               \/ Gate!GatewayStarts \/ Gate!ManagerStops
           \/ Gate!SignInOut \/ Gate!Settles \/ Gate!Idles \/ Gate!Edits
  BY <1>2, LookAtStampOn, LookReadOn, LookDoneOn, GatewayStopsOn, GatewayStartsOn,
     ManagerStopsOn, SignInOutOn, SessionSettlesOn,
     IdlesOn, EditsOn
<1>3. ASSUME NEW w \in WebRequests,
             \/ Gate!Passes(w) \/ Gate!Unavailable(w) \/ Gate!LookAtFile(w) \/ Gate!Leaves(w)
                 \/ Gate!Refuse(w) \/ Gate!Spawn(w)
             \/ Gate!Ends(w) \/ Gate!Overrun(w) \/ Gate!RootLate(w) \/ Gate!ClientLate(w)
                 \/ Gate!Tick(w)
      PROVE  RequestsInv'
  BY <1>3, PassesOn, UnavailableOn, LookAtFileOn, LeavesOn, RefuseOn, SpawnOn, EndsOn,
     OverrunOn, RootLateOn, ClientLateOn, TickOn
<1>4. ASSUME NEW w \in WebRequests, NEW a \in Accesses \ {"root-only"},
          Gate!Arrive(w, a) PROVE RequestsInv'
  BY <1>4, ArriveOn
<1>5. ASSUME NEW w \in WebRequests, NEW a \in Accesses, NEW sends \in BOOLEAN,
          Gate!callGatewayAction(w, a, sends) PROVE RequestsInv'
  BY <1>5, CallOn
<1> QED
  BY <1>1, <1>2, <1>3, <1>4, <1>5 DEF Gate!Next

(* What it says.                                                           *)
LEMMA RequestsSay == RequestsInv
    => Gate!TypeOK /\ Gate!RunsWhatIsTheirs /\ Gate!LateIsOver /\ Gate!GateSaysTrue
BY DEF RequestsInv, RequestsGo, RequestGoes, Gate!RunsWhatIsTheirs, Gate!LateIsOver

(* Its invariant while a behaviour is about it.                            *)
RequestsHolds == part = "requests" => RequestsInv

LEMMA RequestsHoldsAtFirst == Init => RequestsHolds
<1>1. SUFFICES ASSUME Init, part = "requests" PROVE RequestsInv
  BY DEF RequestsHolds
<1>2. Gate!Init
  BY <1>1 DEF Init
<1>3. QED
  BY <1>2, Constants, RequestsStart

LEMMA RequestsMoves ==
  ASSUME [Next]_vars, part' = "requests"
  PROVE  part = "requests" /\ [Gate!Next]_(Gate!requestVars)
<1>1. part = "requests" /\ (Gate!Next \/ UNCHANGED requestVars)
  BY DEF Next, vars
<1>2. QED
  BY <1>1 DEF requestVars, Gate!requestVars, Gate!panelSide, Gate!gatewaySide

LEMMA RequestsHoldsOn == RequestsHolds /\ [Next]_vars => RequestsHolds'
<1>1. SUFFICES ASSUME RequestsHolds, [Next]_vars, part' = "requests"
               PROVE  RequestsInv'
  BY DEF RequestsHolds
<1>2. RequestsInv /\ [Gate!Next]_(Gate!requestVars)
  BY <1>1, RequestsMoves DEF RequestsHolds
<1>3. QED
  BY <1>2, Constants, RequestsGoOn

(* Root starts only what is declared for the caller, an own account's      *)
(* verb for that account; a request told it was late has no process that   *)
(* began with it; and whom the gate let in or sent to sign in was so at a  *)
(* time since the request came: of any requests, verbs, sessions and       *)
(* restarts.                                                               *)
THEOREM RequestsRunTheirOwn ==
  Spec => [](part = "requests" => /\ Gate!TypeOK
                                  /\ Gate!RunsWhatIsTheirs
                                  /\ Gate!LateIsOver
                                  /\ Gate!GateSaysTrue)
<1>1. Init => RequestsHolds
  BY RequestsHoldsAtFirst
<1>2. RequestsHolds /\ [Next]_vars => RequestsHolds'
  BY RequestsHoldsOn
<1>3. RequestsHolds
        => (part = "requests" => /\ Gate!TypeOK
                                 /\ Gate!RunsWhatIsTheirs
                                 /\ Gate!LateIsOver
                                 /\ Gate!GateSaysTrue)
  BY RequestsSay DEF RequestsHolds
<1>4. QED
  BY <1>1, <1>2, <1>3, PTL DEF Spec

-----------------------------------------------------------------------------
(* The parts together. What holds of each while a behaviour is about it,   *)
(* but for the choices of plugins, which need more of the manager.         *)
PartsHold == /\ NginxHolds /\ Git!TypeOK /\ GitInv /\ CloneHolds /\ InstanceHolds /\ ConnectionHolds
             /\ AutomationHolds /\ SignInHolds /\ MaintenanceHolds /\ TweaksHolds /\ KeysHolds
             /\ RequestsHolds

LEMMA PartsHoldAtFirst == Init => PartsHold
<1>1. Init => Git!TypeOK /\ GitInv
  BY Constants, DeploymentStarts DEF Init
<1>2. QED
  BY <1>1, NginxStarts, CloneHoldsAtFirst, InstanceHoldsAtFirst, ConnectionHoldsAtFirst,
     AutomationHoldsAtFirst, SignInHoldsAtFirst, MaintenanceHoldsAtFirst, TweaksHoldsAtFirst,
     KeysHoldsAtFirst, RequestsHoldsAtFirst
     DEF PartsHold

LEMMA PartsHoldOn == PartsHold /\ [Next]_vars => PartsHold'
<1>1. [Next]_vars => [Git!Next]_(Git!vars)
  BY DEF Next, vars, gitVars, Git!vars
<1>2. Git!TypeOK /\ GitInv /\ [Next]_vars => Git!TypeOK' /\ GitInv'
  BY <1>1, Constants, DeploymentGoesOn
<1>3. QED
  BY <1>2, NginxGoesOn, CloneHoldsOn, InstanceHoldsOn, ConnectionHoldsOn, AutomationHoldsOn,
     SignInHoldsOn, MaintenanceHoldsOn, TweaksHoldsOn, KeysHoldsOn, RequestsHoldsOn
     DEF PartsHold

(* What an operation on a site that failed, was killed or was withdrawn    *)
(* leaves is as it was found or known to what puts it right, in every      *)
(* component, for any sites, operators, requests, images, kills and bounds.*)
THEOREM LeftIsKnownHolds == Spec => []LeftIsKnown
<1>1. PartsHold => LeftIsKnown
  <2>1. NginxHolds => (part = "nginx" => Nginx!RecoveredAsFound)
    BY RecoveryIsOver DEF NginxHolds
  <2>2. CloneHolds => (part = "clone" => Clone!FailedIsUnwound)
    BY DEF CloneHolds, CloneInv
  <2>3. InstanceHolds => (part = "instance" => Instance!NothingLost)
    BY DEF InstanceHolds, InstanceInv
  <2>4. ConnectionHolds
          => (part = "mainwp" => Dashboard!SettingIsAccounted /\ Dashboard!MadeIsKnown)
    BY Constants, ConnectionIsAccounted DEF ConnectionHolds
  <2>5. SignInHolds => (part = "sign" => SignIn!WithdrawnLeavesNone)
    BY DEF SignInHolds, SignInInv
  <2>6. MaintenanceHolds => (part = "maintenance" => Mode!NoLivePageKept)
    BY DEF MaintenanceHolds, MaintenanceInv
  <2>7. TweaksHolds
          => (part = "tweaks" => Tweaks!NamedIsServed /\ Tweaks!PageCarriesWhatIsSaved)
    BY Constants, TweaksAreCarried DEF TweaksHolds
  <2>8. RequestsHolds => (part = "requests" => Gate!LateIsOver)
    BY RequestsSay DEF RequestsHolds
  <2>9. QED
    BY <2>1, <2>2, <2>3, <2>4, <2>5, <2>6, <2>7, <2>8 DEF PartsHold, LeftIsKnown
<1>2. QED
  BY <1>1, PartsHoldAtFirst, PartsHoldOn, PTL DEF Spec

(* No step of one operation takes or undoes what an operator, another site *)
(* or a later run has made, in every component: of any sites, operators,   *)
(* requests, kills and bounds.                                             *)
THEOREM OthersKeptHolds == Spec => OthersKept
<1> DEFINE Kept == /\ part = "nginx" => Nginx!CommittedStaysStep
                   /\ part = "clone" => Clone!OthersKeptStep /\ Clone!DoneKeepsItsVhostStep
                   /\ part = "instance" => Instance!DeletesItsOwnStep
                   /\ part = "mainwp" => Dashboard!LeavesOthersStep
                   /\ part = "auto" => Automation!NeverPutBackStep /\ Automation!SettingKeptStep
                   /\ part = "maintenance" => Mode!AddKeepsRestStep /\ Mode!LiveStateKeptStep
                   /\ part = "tweaks" => Tweaks!ChangesOnlyItsOwnStep /\ Tweaks!NewestSizesStep
                   /\ part = "keys" => /\ SecKeys!RegisteredSignsInStep /\ SecKeys!AcceptedOnceStep
                                       /\ SecKeys!CountsUpStep
<1>1. ASSUME PartsHold, Next PROVE Kept
  <2>1. ASSUME part = "nginx" PROVE Nginx!CommittedStaysStep
    <3>1. IInv /\ Nginx!Next
      BY <1>1, <2>1 DEF PartsHold, NginxHolds, Next
    <3>2. QED
      BY <3>1, Constants, CommittedStays
  <2>2. ASSUME part = "clone" PROVE Clone!OthersKeptStep /\ Clone!DoneKeepsItsVhostStep
    <3>1. CloneInv /\ Clone!Next
      BY <1>1, <2>2 DEF PartsHold, CloneHolds, Next
    <3>2. QED
      BY <3>1, Constants, CloneKeepsOthers, DoneCloneKeepsVhost
  <2>3. ASSUME part = "instance" PROVE Instance!DeletesItsOwnStep
    <3>1. InstanceInv /\ Instance!Next
      BY <1>1, <2>3 DEF PartsHold, InstanceHolds, Next
    <3>2. QED
      BY <3>1, Constants, InstanceTakesItsOwn
  <2>4. ASSUME part = "mainwp" PROVE Dashboard!LeavesOthersStep
    <3>1. ConnectionInv /\ Dashboard!Next
      BY <1>1, <2>4 DEF PartsHold, ConnectionHolds, Next
    <3>2. QED
      BY <3>1, Constants, ConnectionLeavesOthers
  <2>5. ASSUME part = "auto" PROVE Automation!NeverPutBackStep /\ Automation!SettingKeptStep
    <3>1. AutomationInv /\ Automation!Next
      BY <1>1, <2>5 DEF PartsHold, AutomationHolds, Next
    <3>2. QED
      BY <3>1, Constants, AutomationGoesOn
  <2>6. ASSUME part = "maintenance" PROVE Mode!AddKeepsRestStep /\ Mode!LiveStateKeptStep
    <3>1. MaintenanceInv /\ Mode!Next
      BY <1>1, <2>6 DEF PartsHold, MaintenanceHolds, Next
    <3>2. QED
      BY <3>1, Constants, AddKeepsRest, LiveStateKept
  <2>7. ASSUME part = "tweaks" PROVE Tweaks!ChangesOnlyItsOwnStep /\ Tweaks!NewestSizesStep
    <3>1. TweaksInv /\ Tweaks!Next
      BY <1>1, <2>7 DEF PartsHold, TweaksHolds, Next
    <3>2. QED
      BY <3>1, Constants, TweaksChangeTheirOwn, SizesKeepNewest
  <2>8. ASSUME part = "keys"
        PROVE  /\ SecKeys!RegisteredSignsInStep /\ SecKeys!AcceptedOnceStep
               /\ SecKeys!CountsUpStep
    <3>1. KeysInv /\ SecKeys!Next
      BY <1>1, <2>8 DEF PartsHold, KeysHolds, Next
    <3>2. QED
      BY <3>1, RegisteredSignsIn, AcceptedOnce, CountsGoUp
  <2>9. QED
    BY <2>1, <2>2, <2>3, <2>4, <2>5, <2>6, <2>7, <2>8
<1>2. PartsHold /\ [Next]_vars => [Kept]_vars
  BY <1>1
<1>3. QED
  BY <1>2, PartsHoldAtFirst, PartsHoldOn, PTL DEF Spec, OthersKept

(* What an operation reports done works on its own data, in every          *)
(* component.                                                              *)
THEOREM WorksOnItsOwnHolds == Spec => []WorksOnItsOwn
<1>1. PartsHold /\ ChooseHolds => WorksOnItsOwn
  <2>1. CloneHolds => (part = "clone" => Clone!DoneIsItsOwn)
    BY DEF CloneHolds, CloneInv
  <2>2. InstanceHolds => (part = "instance" => Instance!RunsItsOwnData)
    BY InstanceRunsItsOwn DEF InstanceHolds
  <2>3. ChooseHolds => (part = "choose" => Choose!LaterCounts /\ Choose!IntoOwnSite)
    BY LaterOnesCount DEF ChooseHolds, ChooseInv
  <2>4. MaintenanceHolds => (part = "maintenance" => Mode!LastListWhole)
    BY WholeList DEF MaintenanceHolds
  <2>5. TweaksHolds => (part = "tweaks" => Tweaks!OneMeasurement)
    BY Constants, TweaksAreCarried DEF TweaksHolds
  <2>6. /\ KeysHolds => (part = "keys" => SecKeys!KeysOfTheirAccount)
        /\ RequestsHolds => (part = "requests" => Gate!RunsWhatIsTheirs /\ Gate!GateSaysTrue)
    BY KeysAreOwned, RequestsSay DEF KeysHolds, RequestsHolds
  <2>7. QED
    BY <2>1, <2>2, <2>3, <2>4, <2>5, <2>6 DEF PartsHold, WorksOnItsOwn
<1>2. QED
  BY <1>1, PartsHoldAtFirst, PartsHoldOn, ChooseHoldsAtFirst, ChooseHoldsOn, PTL DEF Spec

(* Every component's state keeps its types.                                *)
THEOREM SitesTyped == Spec => []TypeOK
<1>1. PartsHold /\ ChooseHolds => TypeOK
  <2>1. /\ NginxHolds => (part = "nginx" => Nginx!TypeOK)
        /\ CloneHolds => (part = "clone" => Clone!TypeOK)
        /\ InstanceHolds => (part = "instance" => Instance!TypeOK)
        /\ ConnectionHolds => (part = "mainwp" => Dashboard!TypeOK)
    BY DEF NginxHolds, IInv, CloneHolds, CloneInv, InstanceHolds, InstanceInv, ConnectionHolds,
       ConnectionInv
  <2>2. /\ ChooseHolds => (part = "choose" => Choose!TypeOK)
        /\ AutomationHolds => (part = "auto" => Automation!TypeOK)
        /\ SignInHolds => (part = "sign" => SignIn!TypeOK)
        /\ MaintenanceHolds => (part = "maintenance" => Mode!TypeOK)
        /\ TweaksHolds => (part = "tweaks" => Tweaks!TypeOK)
    BY DEF ChooseHolds, ChooseInv, AutomationHolds, AutomationInv, SignInHolds, SignInInv,
       MaintenanceHolds, MaintenanceInv, TweaksHolds, TweaksInv
  <2>3. /\ KeysHolds => (part = "keys" => SecKeys!TypeOK)
        /\ RequestsHolds => (part = "requests" => Gate!TypeOK)
    BY KeysAreOwned, RequestsSay DEF KeysHolds, RequestsHolds
  <2>4. QED
    BY <2>1, <2>2, <2>3 DEF PartsHold, TypeOK
<1>2. QED
  BY <1>1, PartsHoldAtFirst, PartsHoldOn, ChooseHoldsAtFirst, ChooseHoldsOn, PTL DEF Spec
==============================================================================
