------------------------------ MODULE NewSites ------------------------------
(***************************************************************************)
(* The new-site watchers: `clp-addons sync-sites` (cli/new-sites.ts), the  *)
(* two systemd path units that start it, and CloudPanel creating and       *)
(* deleting sites beside it.                                               *)
(*                                                                         *)
(* CloudPanel writes a site's vhost and then commits its row; it removes   *)
(* the vhost and then the row.  The vhost directory is always watched, the *)
(* panel database only while the rows watcher is on.  A change made while  *)
(* the service runs starts nothing.                                        *)
(***************************************************************************)
EXTENDS Naturals, TLAPS

CONSTANTS Domains,
          MaxIds,    \* bound: the rows there may be; an id is given once
          MaxMishaps \* bound: how often the service is killed, or systemctl refuses it

ASSUME MaxIdsIsNumber == MaxIds \in Nat
ASSUME MaxMishapsIsNumber == MaxMishaps \in Nat

VARIABLES vhost,     \* the domains with a vhost file
          row,       \* each domain's row id, 0 without a row
          ids,       \* the last id given to a row
          recent,    \* the vhost directory changed within the hour
          fresh,     \* the domains whose vhost was written within the hour
          going,     \* those whose vhost was removed within the hour, with their row still there
          rowsOn,    \* the rows watcher is started
          queued,    \* a watcher has asked for the service
          pc,        \* where the service is
          sites,     \* the rows it read
          seen,      \* new-sites-seen.json, as the last run left it
          seenRecent,\* that file was written within the hour
          worked,    \* the sites the hooks have looked at
          inFlight, waiting, lookedAgain,
          late,      \* ghost: the sites changed after the last look at the vhosts
          dropped,   \* ghost: the sites that were unseen or under way when a run was killed, or when
                     \* systemctl refused to start the rows watcher
          rebuilt,   \* ghost: a vhost written anew between a run's read of its row and that look
          mishaps

vars == <<vhost, row, ids, recent, fresh, going, rowsOn, queued, pc, sites, seen, seenRecent, worked,
          inFlight, waiting, lookedAgain, late, dropped, rebuilt, mishaps>>
panel == <<vhost, row, ids, recent, fresh, going, rebuilt>>
looks == <<inFlight, waiting, lookedAgain>>
record == <<seen, seenRecent, worked>>

NoRows == [d \in Domains |-> 0]

Init == /\ vhost = {} /\ row = NoRows /\ ids = 0
        /\ recent = FALSE /\ fresh = {} /\ going = {}
        /\ rowsOn = FALSE /\ queued = FALSE /\ pc = "idle"
        /\ sites = NoRows /\ seen = NoRows /\ seenRecent = FALSE /\ worked = {}
        /\ inFlight = FALSE /\ waiting = FALSE /\ lookedAgain = FALSE
        /\ late = {} /\ dropped = {} /\ rebuilt = {} /\ mishaps = 0

-----------------------------------------------------------------------------
(* CloudPanel, and what its writes wake.  A row comes and goes within the  *)
(* hour of its vhost, or never.                                            *)

Wakes(d, watched) == /\ queued' = (queued \/ (pc = "idle" /\ watched))
                     /\ late' = IF pc \in {"resume", "arm", "again"} THEN late \cup {d} ELSE late
                     /\ UNCHANGED <<rowsOn, pc, sites, record, looks, dropped, mishaps>>

CreateVhost(d) ==
  /\ d \notin vhost /\ row[d] = 0 /\ ids < MaxIds
  /\ vhost' = vhost \cup {d}
  /\ recent' = TRUE
  /\ fresh' = fresh \cup {d}
  /\ rebuilt' = IF pc \in {"hooks", "record", "flight"} /\ sites[d] # 0 THEN rebuilt \cup {d} ELSE rebuilt
  /\ Wakes(d, TRUE)
  /\ UNCHANGED <<row, ids, going>>

CommitRow(d) ==
  /\ d \in fresh /\ row[d] = 0 /\ ids < MaxIds
  /\ ids' = ids + 1
  /\ row' = [row EXCEPT ![d] = ids + 1]
  /\ Wakes(d, rowsOn)
  /\ UNCHANGED <<vhost, recent, fresh, going, rebuilt>>

RemoveVhost(d) ==
  /\ d \in vhost /\ row[d] # 0
  /\ vhost' = vhost \ {d}
  /\ recent' = TRUE
  /\ fresh' = fresh \ {d} /\ going' = going \cup {d}
  /\ Wakes(d, TRUE)
  /\ UNCHANGED <<row, ids, rebuilt>>

DeleteRow(d) ==
  /\ d \in going
  /\ row' = [row EXCEPT ![d] = 0] /\ going' = going \ {d}
  /\ Wakes(d, rowsOn)
  /\ UNCHANGED <<vhost, ids, recent, fresh, rebuilt>>

(* The panel's monitoring, every few seconds; after the last look a write  *)
(* that changes no site is not late.                                       *)
OtherWrite ==
  /\ queued' = (queued \/ (pc = "idle" /\ rowsOn))
  /\ UNCHANGED <<panel, rowsOn, pc, sites, record, looks, late, dropped, mishaps>>

(* A run is shorter than an hour (TimeoutStartSec=15min).                  *)
Hour == /\ pc = "idle"
        /\ recent' = FALSE /\ fresh' = {} /\ going' = {} /\ seenRecent' = FALSE
        /\ UNCHANGED <<vhost, row, ids, rebuilt, rowsOn, queued, pc, sites, seen, worked, looks, late, dropped, mishaps>>

-----------------------------------------------------------------------------
(* The service: syncNewSites, one action per point where others may act.   *)

Start ==
  /\ pc = "idle" /\ queued
  /\ queued' = FALSE
  /\ lookedAgain' = FALSE
  /\ pc' = "read"
  /\ UNCHANGED <<panel, rowsOn, sites, record, inFlight, waiting, late, dropped, mishaps>>

ReadSites ==
  /\ pc = "read"
  /\ sites' = row
  /\ rebuilt' = {}
  /\ pc' = IF row = seen THEN "flight" ELSE "hooks"
  /\ UNCHANGED <<vhost, row, ids, recent, fresh, going, rowsOn, queued, record, looks, late, dropped, mishaps>>

(* The database is busy: the hooks run all the same, and the write that    *)
(* ends it is watched for.                                                 *)
CannotRead ==
  /\ pc = "read"
  /\ pc' = "blind"
  /\ worked' = worked \cup {<<d, row[d]>> : d \in Domains}
  /\ UNCHANGED <<panel, rowsOn, queued, sites, seen, seenRecent, looks, late, dropped, mishaps>>

(* watchRows: a systemctl that fails is warned of and nothing more.        *)
Left == {d \in Domains : row[d] # seen[d] \/ (d \in vhost) # (row[d] # 0)}
Refused == mishaps < MaxMishaps /\ mishaps' = mishaps + 1 /\ UNCHANGED rowsOn
watchRows(on) == \/ rowsOn' = on /\ UNCHANGED <<dropped, mishaps>>
                 \/ on /\ Refused /\ dropped' = dropped \cup Left
                 \/ ~on /\ Refused /\ UNCHANGED dropped

ArmBlind ==
  /\ pc = "blind"
  /\ watchRows(TRUE)
  /\ pc' = "idle"
  /\ UNCHANGED <<panel, queued, sites, record, looks, late>>

(* runNewSiteWork: each addon reads the sites for itself, in its own time. *)
RunHooks ==
  /\ pc = "hooks"
  /\ worked' = worked \cup {<<d, row[d]>> : d \in Domains}
  /\ pc' = "record"
  /\ UNCHANGED <<panel, rowsOn, queued, sites, seen, seenRecent, looks, late, dropped, mishaps>>

(* Changed form: the sites there when the hooks have ended.                *)
RecordSeenNow ==
  /\ pc = "record"
  /\ seen' = row
  /\ seenRecent' = TRUE
  /\ pc' = "flight"
  /\ UNCHANGED <<panel, rowsOn, queued, sites, worked, looks, late, dropped, mishaps>>

RecordSeen ==
  /\ pc = "record"
  /\ seen' = sites
  /\ seenRecent' = TRUE
  /\ pc' = "flight"
  /\ UNCHANGED <<panel, rowsOn, queued, sites, worked, looks, late, dropped, mishaps>>

(* sitesInFlight: the vhosts now against the rows as they were read.       *)
(* Changed forms: only new sites count, and without the hour.              *)
InFlightCreated == recent /\ \E d \in fresh : sites[d] = 0
InFlightAlways == \E d \in Domains : (d \in vhost) # (sites[d] # 0)

InFlight == /\ recent
            /\ \E d \in Domains : \/ d \in fresh /\ sites[d] = 0
                                  \/ d \notin vhost /\ sites[d] # 0

LookAtVhosts ==
  /\ pc = "flight"
  /\ inFlight' = InFlight
  /\ late' = {} /\ dropped' = {}
  /\ pc' = "resume"
  /\ UNCHANGED <<panel, rowsOn, queued, sites, record, waiting, lookedAgain, mishaps>>

(* An addon may wait for a later step of a new site, within the hour.      *)
ResumePending ==
  /\ pc = "resume"
  /\ waiting' \in (IF seenRecent THEN BOOLEAN ELSE {FALSE})
  /\ pc' = "arm"
  /\ UNCHANGED <<panel, rowsOn, queued, sites, record, inFlight, lookedAgain, late, dropped, mishaps>>

WatchRows ==
  /\ pc = "arm"
  /\ watchRows(inFlight \/ waiting)
  /\ pc' = IF inFlight \/ waiting THEN "again" ELSE "idle"
  /\ UNCHANGED <<panel, queued, sites, record, looks, late>>

(* Once more after arming; a database that cannot be read counts as the    *)
(* same sites.                                                             *)
LookAgain ==
  /\ pc = "again"
  /\ \/ row # sites /\ pc' = "read" /\ UNCHANGED lookedAgain
     \/ (~waiting \/ lookedAgain) /\ pc' = "idle" /\ UNCHANGED lookedAgain
     \/ waiting /\ ~lookedAgain /\ pc' = "read" /\ lookedAgain' = TRUE
  /\ UNCHANGED <<panel, rowsOn, queued, sites, record, inFlight, waiting, late, dropped, mishaps>>

(* Changed form: a killed service stays failed.                            *)
KilledForGood ==
  /\ mishaps < MaxMishaps /\ pc # "idle"
  /\ mishaps' = mishaps + 1
  /\ pc' = "failed"
  /\ dropped' = Left
  /\ UNCHANGED <<panel, rowsOn, queued, sites, record, looks, late>>

(* It ran past its 15 minutes, or the machine went down.                   *)
Killed ==
  /\ mishaps < MaxMishaps /\ pc # "idle"
  /\ mishaps' = mishaps + 1
  /\ pc' = "idle"
  /\ dropped' = Left
  /\ UNCHANGED <<panel, rowsOn, queued, sites, record, looks, late>>

Service == Start \/ ReadSites \/ CannotRead \/ ArmBlind \/ RunHooks \/ RecordSeen \/ LookAtVhosts
           \/ ResumePending \/ WatchRows \/ LookAgain

Next == \/ \E d \in Domains : CreateVhost(d) \/ CommitRow(d) \/ RemoveVhost(d) \/ DeleteRow(d)
        \/ OtherWrite \/ Hour
        \/ Service \/ Killed

Spec == Init /\ [][Next]_vars

(* The service runs once started, the panel keeps writing, hours pass, and *)
(* the database can be read again and again.                               *)
FairSpec ==
  Spec /\ WF_vars(Service) /\ WF_vars(OtherWrite) /\ SF_vars(Hour) /\ SF_vars(ReadSites)

-----------------------------------------------------------------------------
Ids == 0..MaxIds
TypeOK ==
  /\ going \subseteq Domains \ vhost /\ fresh \subseteq vhost /\ vhost \subseteq Domains /\ rebuilt \subseteq Domains
  /\ row \in [Domains -> Ids] /\ ids \in Ids
  /\ sites \in [Domains -> Ids] /\ seen \in [Domains -> Ids]
  /\ worked \subseteq Domains \X Ids
  /\ late \subseteq Domains /\ dropped \subseteq Domains
  /\ pc \in {"idle", "read", "blind", "hooks", "record", "flight", "resume", "arm", "again"}
  /\ {recent, rowsOn, queued, seenRecent, inFlight, waiting, lookedAgain} \subseteq BOOLEAN
  /\ mishaps \in 0..MaxMishaps

(* With the service at rest, every site that has come, gone or been        *)
(* replaced since the hooks last ran (one that is not half deleted) is on  *)
(* its way to it: it is asked for, or the rows watcher is on.  Each site   *)
(* that is not was changed in the moment after a run's last look, or       *)
(* deleted and added again after a run had read its row, or was unseen or  *)
(* under way as a run was killed or systemctl would not start the watcher. *)
Unseen == {d \in Domains : row[d] # seen[d] /\ (d \in vhost \/ row[d] = 0)}
Excused == late \cup rebuilt \cup dropped
CaughtUp == pc = "idle" /\ ~queued /\ ~rowsOn => Unseen \subseteq Excused

(* A site that is there and recorded as seen has been in front of every    *)
(* hook, however it arrived while they ran and wherever the run was killed. *)
SeenWasWorked == \A d \in Domains : row[d] # 0 /\ row[d] = seen[d] => <<d, row[d]>> \in worked

(* The rows watcher, which every panel write wakes, is never left on: not  *)
(* by a site that never finishes arriving, nor by an addon that waits.     *)
RowsWatchEnds == []<>~rowsOn

-----------------------------------------------------------------------------
(* The inductive invariant.  Ids are given once and never again; a run     *)
(* that has ended its hooks has had every site it read worked on; and from *)
(* a look that found nothing in flight until something changes, every row  *)
(* that may still come or go is of a site it knows or was rebuilt.         *)
IdsInOrder ==
  /\ \A d \in Domains : row[d] <= ids /\ sites[d] <= ids /\ seen[d] <= ids
  /\ fresh \cup going # {} => recent
  /\ \A d \in going : row[d] # 0

Worked(rows) == \A d \in Domains : rows[d] # 0 /\ rows[d] = row[d] => <<d, row[d]>> \in worked

SinceRead ==
  /\ ~recent => row = sites
  /\ \A d \in vhost : row[d] # sites[d] => IF sites[d] = 0 THEN d \in fresh ELSE d \in rebuilt

Settled ==
  /\ \A d \in going \ Excused : seen[d] = 0
  /\ \A d \in fresh \ Excused : row[d] # 0
  /\ Unseen \subseteq Excused

IInv ==
  /\ TypeOK /\ IdsInOrder
  /\ Worked(seen) /\ (pc = "record" => Worked(sites))
  /\ pc \in {"hooks", "record", "flight"} => SinceRead
  /\ pc \in {"flight", "resume", "arm", "again"} => seen = sites
  /\ pc \in {"resume", "arm"} /\ ~inFlight => Settled
  /\ pc = "again" /\ ~rowsOn => Settled
  /\ pc = "idle" /\ ~queued /\ ~rowsOn => Settled

-----------------------------------------------------------------------------
(* It holds at first, and every step of CloudPanel and of the service      *)
(* keeps it.                                                               *)
LEMMA InitIInv == Init => IInv
  <1> SUFFICES ASSUME Init PROVE IInv
    OBVIOUS
  <1>1. \A d \in Domains : row[d] = 0 /\ seen[d] = 0 /\ sites[d] = 0
    BY DEF Init, NoRows
  <1>2. TypeOK
    <2>1. {recent, rowsOn, queued, seenRecent, inFlight, waiting, lookedAgain} \subseteq BOOLEAN
      BY DEF Init
    <2>2. QED
      BY <2>1, MaxIdsIsNumber, MaxMishapsIsNumber DEF Init, TypeOK, NoRows, Ids
  <1>3. QED
    BY <1>1, <1>2 DEF Init, IInv, IdsInOrder, Worked, SinceRead, Settled, Excused, Unseen

LEMMA CreateVhostKeeps ==
  ASSUME IInv, NEW d \in Domains, CreateVhost(d)
  PROVE  IInv'
  <1> USE MaxIdsIsNumber, MaxMishapsIsNumber
  <1>1. TypeOK' /\ IdsInOrder'
    BY DEF IInv, TypeOK, IdsInOrder, Ids, CreateVhost, Wakes, record, looks
  <1>2. QED
    BY <1>1 DEF IInv, TypeOK, IdsInOrder, Ids, CreateVhost, Wakes, record, looks, Worked, SinceRead, Settled, Excused, Unseen

LEMMA CommitRowKeeps ==
  ASSUME IInv, NEW d \in Domains, CommitRow(d)
  PROVE  IInv'
  <1> USE MaxIdsIsNumber, MaxMishapsIsNumber
  <1>1. TypeOK' /\ IdsInOrder'
    BY DEF IInv, TypeOK, IdsInOrder, Ids, CommitRow, Wakes, record, looks
  <1>2. QED
    BY <1>1 DEF IInv, TypeOK, IdsInOrder, Ids, CommitRow, Wakes, record, looks, Worked, SinceRead, Settled, Excused, Unseen

LEMMA RemoveVhostKeeps ==
  ASSUME IInv, NEW d \in Domains, RemoveVhost(d)
  PROVE  IInv'
  <1> USE MaxIdsIsNumber, MaxMishapsIsNumber
  <1>1. TypeOK' /\ IdsInOrder'
    BY DEF IInv, TypeOK, IdsInOrder, Ids, RemoveVhost, Wakes, record, looks
  <1>2. QED
    BY <1>1 DEF IInv, TypeOK, IdsInOrder, Ids, RemoveVhost, Wakes, record, looks, Worked, SinceRead, Settled, Excused, Unseen

LEMMA DeleteRowKeeps ==
  ASSUME IInv, NEW d \in Domains, DeleteRow(d)
  PROVE  IInv'
  <1> USE MaxIdsIsNumber, MaxMishapsIsNumber
  <1>1. TypeOK' /\ IdsInOrder'
    BY DEF IInv, TypeOK, IdsInOrder, Ids, DeleteRow, Wakes, record, looks
  <1>2. QED
    BY <1>1 DEF IInv, TypeOK, IdsInOrder, Ids, DeleteRow, Wakes, record, looks, Worked, SinceRead, Settled, Excused, Unseen

LEMMA ServiceKeeps ==
  ASSUME IInv, Service \/ Killed \/ OtherWrite \/ Hour
  PROVE  IInv'
  <1> USE MaxIdsIsNumber, MaxMishapsIsNumber DEF IInv, TypeOK, IdsInOrder, Ids, Worked, SinceRead, Settled, Excused, Unseen, panel, record, looks
  <1>1. CASE OtherWrite
    BY <1>1 DEF OtherWrite
  <1>2. CASE Hour
    BY <1>2 DEF Hour
  <1>3. CASE Start
    BY <1>3 DEF Start
  <1>4. CASE ReadSites
    BY <1>4 DEF ReadSites
  <1>5. CASE CannotRead
    BY <1>5 DEF CannotRead
  <1>6. CASE RunHooks
    BY <1>6 DEF RunHooks
  <1>7. CASE RecordSeen
    BY <1>7 DEF RecordSeen
  <1>8. CASE LookAtVhosts
    BY <1>8 DEF LookAtVhosts, InFlight
  <1>9. CASE ResumePending
    BY <1>9 DEF ResumePending
  <1>10. CASE WatchRows
    <2>1. CASE rowsOn' = (inFlight \/ waiting) /\ UNCHANGED <<dropped, mishaps>>
      <3>1. CASE inFlight \/ waiting
        BY <1>10, <2>1, <3>1 DEF WatchRows
      <3>2. CASE ~inFlight /\ ~waiting
        BY <1>10, <2>1, <3>2 DEF WatchRows
      <3>3. QED
        BY <3>1, <3>2
    <2>2. CASE (inFlight \/ waiting) /\ Refused /\ dropped' = dropped \cup Left
      BY <1>10, <2>2 DEF WatchRows, Refused, Left
    <2>3. CASE ~(inFlight \/ waiting) /\ Refused /\ UNCHANGED dropped
      BY <1>10, <2>3 DEF WatchRows, Refused
    <2>4. QED
      BY <1>10, <2>1, <2>2, <2>3 DEF WatchRows, watchRows
  <1>14. CASE ArmBlind
    <2>1. CASE rowsOn' = TRUE /\ UNCHANGED <<dropped, mishaps>>
      BY <1>14, <2>1 DEF ArmBlind
    <2>2. CASE Refused /\ dropped' = dropped \cup Left
      BY <1>14, <2>2 DEF ArmBlind, Refused, Left
    <2>3. QED
      BY <1>14, <2>1, <2>2 DEF ArmBlind, watchRows
  <1>11. CASE LookAgain
    <2>1. CASE pc' = "read"
      BY <1>11, <2>1 DEF LookAgain
    <2>2. CASE pc' = "idle"
      BY <1>11, <2>2 DEF LookAgain
    <2>3. QED
      BY <1>11, <2>1, <2>2 DEF LookAgain
  <1>12. CASE Killed
    BY <1>12 DEF Killed, Left
  <1>13. QED
    BY ONLY <1>1, <1>2, <1>3, <1>4, <1>5, <1>6, <1>7, <1>8, <1>9, <1>10, <1>11, <1>12, <1>14, Service \/ Killed \/ OtherWrite \/ Hour DEF Service

LEMMA NextKeeps == IInv /\ [Next]_vars => IInv'
  <1> SUFFICES ASSUME IInv, [Next]_vars PROVE IInv'
    OBVIOUS
  <1>1. CASE \E d \in Domains : CreateVhost(d) \/ CommitRow(d) \/ RemoveVhost(d) \/ DeleteRow(d)
    BY <1>1, CreateVhostKeeps, CommitRowKeeps, RemoveVhostKeeps, DeleteRowKeeps
  <1>2. CASE Service \/ Killed \/ OtherWrite \/ Hour
    BY <1>2, ServiceKeeps
  <1>3. CASE UNCHANGED vars
    BY <1>3 DEF vars, IInv, TypeOK, IdsInOrder, Worked, SinceRead, Settled, Excused, Unseen
  <1>4. QED
    BY <1>1, <1>2, <1>3 DEF Next

(* The inductive invariant holds of every behaviour, for any number of     *)
(* sites, ids and kills.                                                   *)
THEOREM InvHolds == Spec => []IInv
  BY InitIInv, NextKeeps, PTL DEF Spec

(* Every variable of the watchers and the service keeps its type.          *)
THEOREM TypeCorrect == Spec => []TypeOK
  <1>1. IInv => TypeOK
    BY DEF IInv
  <1>2. QED
    BY <1>1, InvHolds, PTL

(* No change of a site is lost: with the service at rest it is on its way  *)
(* to it, whatever CloudPanel writes while the hooks run or the watcher is *)
(* armed (syncNewSites, sitesInFlight).                                    *)
THEOREM CaughtUpHolds == Spec => []CaughtUp
  <1>1. IInv => CaughtUp
    BY DEF IInv, CaughtUp, Settled
  <1>2. QED
    BY <1>1, InvHolds, PTL

(* No site is recorded as seen before every hook has had it, wherever the  *)
(* run is killed between the hooks and the record (readSeen).              *)
THEOREM SeenWasWorkedHolds == Spec => []SeenWasWorked
  <1>1. IInv => SeenWasWorked
    BY DEF IInv, SeenWasWorked, Worked
  <1>2. QED
    BY <1>1, InvHolds, PTL
=============================================================================
