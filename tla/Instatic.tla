------------------------------ MODULE Instatic ------------------------------
(***************************************************************************)
(* One Instatic instance (addons/instatic/action.ts): a container, its     *)
(* data and encryption key in the CloudPanel site's home, the record of    *)
(* it, and the operations that create, update, recreate, restore and       *)
(* delete it.  They share the domain's lock, so one runs at a time; it may *)
(* fail at any step, fail in its recovery, or be killed.                   *)
(*                                                                         *)
(* A data directory is [v, k, s]: the last write in it, the key its        *)
(* secrets are encrypted with, and the release whose schema it has.  A     *)
(* container brings the schema up to its own release when it starts, and   *)
(* nothing brings it down.  The                                            *)
(* data is in the site's home, or, for an instance of an older release not *)
(* yet migrated, in /var/lib: meta.json says which, and a container keeps  *)
(* the one it was made for.                                                *)
(***************************************************************************)
EXTENDS Naturals

CONSTANTS MaxWrites, MaxTag, MaxKeys, MaxKills

VARIABLES site,          \* the panel's site: "none", "addon" made it, or "operator"
          meta,          \* meta.json: the release, who made the site, where the data is
          main, prev,    \* the container and <name>-prev
          store, env,    \* the data in the site's home, and the key file beside it
          old,           \* the data in /var/lib, with its key
          kept, archives,\* the last write in a copy in the instance's directory, and outside it
          native,        \* the native backup in the site's home: [data, tag]
          cur, keys, kills,
          op             \* the operation under way

vars == <<site, meta, main, prev, store, env, old, kept, archives, native, cur, keys, kills, op>>
containers == <<main, prev>>
data == <<store, env, old>>
copies == <<kept, archives, native>>
counts == <<cur, keys, kills>>

(* Bounds on the writes, the releases, the keys and the kills.             *)
ConstantsOK == /\ {MaxWrites, MaxTag, MaxKeys} \subseteq Nat \ {0} /\ MaxKills \in Nat

NoData == [v |-> 0, k |-> 0, s |-> 0]
Data == [v : 1..MaxWrites, k : 1..MaxKeys, s : 1..MaxTag] \cup {NoData}
NoMeta == [tag |-> 0, created |-> FALSE, home |-> FALSE]
Absent == [is |-> "none", tag |-> 0, home |-> FALSE]
NoBackup == [data |-> NoData, tag |-> 0]
Idle == [verb |-> "none", at |-> "idle", tag |-> 0, was |-> FALSE, renamed |-> FALSE,
         candidate |-> FALSE, changed |-> FALSE, made |-> FALSE, owns |-> FALSE,
         aside |-> NoData, found |-> NoData, had |-> 0]

Recorded == meta # NoMeta
Present == main.is # "none"
Legacy == Recorded /\ ~meta.home
Storage == IF Legacy THEN old ELSE store
Key == IF Legacy THEN old.k ELSE env
Mounted(c) == IF c.home THEN store ELSE old
Container(tag) == [is : {"none", "created", "running"}, tag : {tag}, home : {TRUE}]
At(place) == op.at = place
Goto(place) == op' = [op EXCEPT !.at = place]
End == op' = Idle
Newer(a, b) == IF a > b THEN a ELSE b
Migrated(d, tag) == [d EXCEPT !.s = Newer(d.s, tag)]

(* Nothing yet, or an instance an older release left in /var/lib.          *)
Init == /\ prev = Absent /\ kept = 0 /\ archives = 0 /\ native = NoBackup
        /\ store = NoData /\ cur = 1 /\ kills = 0 /\ op = Idle
        /\ \/ /\ site = "none" /\ meta = NoMeta /\ main = Absent
              /\ env = 0 /\ old = NoData /\ keys = 0
           \/ /\ site = "addon" /\ meta = [tag |-> 1, created |-> TRUE, home |-> FALSE]
              /\ main = [is |-> "running", tag |-> 1, home |-> FALSE]
              /\ env = 0 /\ old = [v |-> 1, k |-> 1, s |-> 1] /\ keys = 1

-----------------------------------------------------------------------------
(* Visitors write to the instance's storage through the container that     *)
(* serves (what one that was never recorded takes in elsewhere is not the  *)
(* instance's, and what comes in while a delete runs is given up with it); *)
(* the operator may make the proxy site by hand.                           *)
Write == /\ op.verb # "delete" /\ main.is = "running" /\ ~op.candidate /\ Recorded /\ main.home = meta.home
         /\ cur < MaxWrites /\ cur' = cur + 1
         /\ IF Legacy THEN old' = [old EXCEPT !.v = cur + 1] /\ UNCHANGED store
                             ELSE store' = [store EXCEPT !.v = cur + 1] /\ UNCHANGED old
         /\ UNCHANGED <<site, meta, containers, env, copies, keys, kills, op>>
OperatorAdds == /\ site = "none" /\ ~Recorded /\ At("idle") /\ site' = "operator"
                /\ UNCHANGED <<meta, containers, data, copies, counts, op>>

-----------------------------------------------------------------------------
(* create: nothing of the name may exist; a site that is already the right *)
(* proxy is adopted.                                                       *)
cmdCreate == /\ At("idle") /\ ~Present /\ ~Recorded /\ old = NoData /\ keys < MaxKeys
             /\ op' = [Idle EXCEPT !.verb = "create", !.at = "site", !.tag = 1]
             /\ UNCHANGED <<site, meta, containers, data, copies, counts>>
AddSite == /\ At("site") /\ IF site = "none" THEN site' = "addon" ELSE UNCHANGED site
           /\ op' = [op EXCEPT !.at = "storage", !.made = site = "none"]
           /\ UNCHANGED <<meta, containers, data, copies, counts>>
(* Storage that is not empty is refused, and is not this run's to remove.  *)
PrepareStorage == /\ At("storage") /\ store = NoData /\ env = 0
                  /\ op' = [op EXCEPT !.at = "start", !.owns = TRUE]
                  /\ UNCHANGED <<site, meta, containers, data, copies, counts>>
(* A key is generated only where there is no data.                         *)
StartFresh == /\ At("start") /\ op.verb = "create"
              /\ keys' = keys + 1 /\ env' = keys + 1
              /\ store' = [v |-> cur, k |-> keys + 1, s |-> op.tag]
              /\ main' \in Container(op.tag)
              /\ Goto(IF main'.is = "running" THEN "health" ELSE "failed")
              /\ UNCHANGED <<site, meta, prev, old, copies, cur, kills>>
Record == /\ At("health") /\ op.verb = "create"
          /\ meta' = [tag |-> op.tag, created |-> op.made, home |-> TRUE] /\ End
          /\ native' \in {native, [data |-> store, tag |-> op.tag]}
          /\ UNCHANGED <<site, containers, data, kept, archives, counts>>

(* cleanupCreate: a container that stays keeps its site and storage.       *)
FailCreate == /\ op.verb = "create" /\ op.at \in {"site", "storage", "start", "health"}
              /\ Goto("failed") /\ UNCHANGED <<site, meta, containers, data, copies, counts>>
CleanContainer == /\ At("failed")
                  /\ \/ Present /\ End /\ UNCHANGED main
                     \/ main' = Absent /\ Goto("clean")
                  /\ UNCHANGED <<site, meta, prev, data, copies, counts>>
cleanupCreate ==
  /\ At("clean") /\ End
  /\ IF op.owns THEN store' = NoData /\ env' = 0 ELSE UNCHANGED <<store, env>>
  /\ site' \in IF op.made THEN {"none", site} ELSE {site}
  /\ UNCHANGED <<meta, containers, old, copies, counts>>

-----------------------------------------------------------------------------
(* update and recreate (replaceInstance), recreate --from-backup           *)
(* (restoreNativeBackup).                                                  *)
BeginReplace(verb, tag) ==
  /\ At("idle") /\ prev = Absent /\ site # "none"
  /\ IF verb = "restore" THEN native # NoBackup /\ ~Legacy /\ tag = native.tag
     ELSE Recorded /\ Key # 0 /\ (tag = meta.tag) = (verb = "recreate")
  /\ (Legacy => store = NoData /\ env = 0)
  /\ op' = [Idle EXCEPT !.verb = verb, !.at = "stop", !.tag = tag, !.was = main.is = "running",
                   !.had = kept]
  /\ UNCHANGED <<site, meta, containers, data, copies, counts>>
StopOld == /\ At("stop") /\ op' = [op EXCEPT !.at = "aside", !.found = Storage]
           /\ main' = IF Present THEN [main EXCEPT !.is = "stopped"] ELSE main
           /\ UNCHANGED <<site, meta, prev, data, copies, counts>>

(* Changed form: only what migrates is copied aside.                       *)
AsideLegacy == /\ At("aside")
               /\ IF Legacy
                  THEN kept' = Newer(kept, Storage.v) /\ op' = [op EXCEPT !.at = "rename", !.aside = Storage]
                  ELSE Goto("rename") /\ UNCHANGED kept
               /\ UNCHANGED <<site, meta, containers, data, archives, native, counts>>
(* The stopped instance's data is copied: a snapshot before an update or a *)
(* migration, the stage's previous/ before a restore, which stays unless   *)
(* the restore is undone.                                                  *)
Aside == /\ At("aside")
         /\ IF op.verb # "recreate" \/ Legacy
            THEN kept' = Newer(kept, Storage.v) /\ op' = [op EXCEPT !.at = "rename", !.aside = Storage]
            ELSE Goto("rename") /\ UNCHANGED kept
         /\ UNCHANGED <<site, meta, containers, data, archives, native, counts>>
RenameOld == /\ At("rename")
             /\ IF Present THEN prev' = main /\ main' = Absent ELSE UNCHANGED containers
             /\ op' = [op EXCEPT !.at = "replace", !.renamed = Present]
             /\ UNCHANGED <<site, meta, data, copies, counts>>
(* A restore replaces the data and the key; a migration copies them into   *)
(* the site's home; what is there already is what an update starts on.     *)
ClearData == /\ At("replace") /\ op.verb = "restore" /\ ~op.changed
             /\ store' = NoData /\ env' = 0 /\ op' = [op EXCEPT !.changed = TRUE]
             /\ UNCHANGED <<site, meta, containers, old, copies, counts>>
CopyData == /\ At("replace") /\ (op.verb = "restore" => op.changed)
            /\ IF op.verb = "restore" THEN store' = native.data /\ env' = native.data.k
               ELSE IF Legacy THEN store' = old /\ env' = old.k
               ELSE UNCHANGED <<store, env>>
            /\ op' = [op EXCEPT !.at = "start", !.changed = op.verb = "restore" \/ Legacy]
            /\ UNCHANGED <<site, meta, containers, old, copies, counts>>
StartNew == /\ At("start") /\ op.verb # "create" /\ env # 0
            /\ main' \in Container(op.tag)
            /\ op' = [op EXCEPT !.at = IF main'.is = "running" THEN "health" ELSE "undo", !.candidate = TRUE]
            /\ store' = IF main'.is = "running" THEN Migrated(store, op.tag) ELSE store
            /\ UNCHANGED <<site, meta, prev, env, old, copies, counts>>
(* The record last; only then do the old container and the old layout go.  *)
(* A first native backup is made, or warned of.                            *)
RecordNew == /\ At("health") /\ op.verb # "create"
             /\ meta' = [meta EXCEPT !.tag = op.tag, !.home = TRUE] /\ Goto("drop")
             /\ UNCHANGED <<site, containers, data, copies, counts>>
DropOld == /\ At("drop") /\ End
           /\ \/ prev' = Absent /\ old' = NoData
              \/ op.renamed /\ UNCHANGED <<prev, old>>
           /\ native' \in IF op.verb = "restore" THEN {native}
                          ELSE {native, [data |-> store, tag |-> meta.tag]}
           /\ UNCHANGED <<site, meta, main, store, env, kept, archives, counts>>

FailReplace == /\ op.verb \in {"update", "recreate", "restore"}
               /\ op.at \in {"stop", "aside", "rename", "replace", "start", "health"}
               /\ Goto("undo")
               /\ UNCHANGED <<site, meta, containers, data, copies, counts>>
(* Recovery: the new container goes first; if it stays, nothing is touched. *)
UndoStart == /\ At("undo")
             /\ \/ ~op.candidate /\ Goto("undo-data") /\ UNCHANGED main
                \/ op.candidate /\ Present /\ End /\ UNCHANGED main
                \/ op.candidate /\ main' = Absent /\ Goto("undo-data")
             /\ UNCHANGED <<site, meta, prev, data, copies, counts>>
(* Changed form: the data the new release has brought up is left in place. *)
UndoNoData == /\ At("undo-data") /\ Goto("undo-name")
              /\ UNCHANGED <<site, meta, containers, data, copies, counts>>
(* A restore and an update put back what was copied aside; a migration     *)
(* only drops the copy it made.                                            *)
Touched == op.changed \/ (op.candidate /\ op.verb = "update")
UndoData == /\ At("undo-data")
            /\ \/ ~Touched /\ Goto("undo-name") /\ UNCHANGED <<store, env>>
               \/ Touched /\ store' = NoData /\ env' = 0
                  /\ Goto(IF Legacy THEN "undo-name" ELSE "undo-copy")
            /\ UNCHANGED <<site, meta, containers, old, copies, counts>>
UndoCopy == /\ At("undo-copy")
            /\ \/ store' = op.aside /\ env' = op.aside.k /\ Goto("undo-name")
               \/ End /\ UNCHANGED <<store, env>>
            /\ UNCHANGED <<site, meta, containers, old, copies, counts>>
UndoName == /\ At("undo-name")
            /\ IF op.renamed
               THEN \/ main' = prev /\ prev' = Absent /\ Goto("undo-run")
                    \/ End /\ UNCHANGED containers
               ELSE Goto("undo-run") /\ UNCHANGED containers
            /\ UNCHANGED <<site, meta, data, copies, counts>>
UndoRun == /\ At("undo-run") /\ End
           /\ \/ op.was /\ main' = [main EXCEPT !.is = "running"]
              \/ UNCHANGED main
           (* A restore that is undone removes its stage. *)
           /\ kept' = IF op.verb = "restore" /\ (op.was => main'.is = "running") THEN op.had ELSE kept
           /\ UNCHANGED <<site, meta, prev, data, archives, native, counts>>

-----------------------------------------------------------------------------
(* delete: the final archive, the container, the site, the storage.        *)
BeginDelete == /\ At("idle") /\ Recorded
               /\ op' = [Idle EXCEPT !.verb = "delete", !.at = "archive"]
               /\ UNCHANGED <<site, meta, containers, data, copies, counts>>
(* Changed form: an archive that fails is only warned of.                  *)
ArchiveOrWarn == /\ At("archive") /\ Goto("remove")
                 /\ archives' \in {archives, Newer(archives, Storage.v)}
                 /\ UNCHANGED <<site, meta, containers, data, kept, native, counts>>
Archive == /\ At("archive")
           /\ \/ archives' = Newer(archives, Storage.v) /\ Goto("remove")
              \/ End /\ UNCHANGED archives
           /\ UNCHANGED <<site, meta, containers, data, kept, native, counts>>
RemoveContainer == /\ At("remove")
                   /\ \/ main' = Absent /\ Goto("unsite")
                      \/ End /\ UNCHANGED main
                   /\ UNCHANGED <<site, meta, prev, data, copies, counts>>
(* Changed form: the site goes whoever made it.                            *)
RemoveAnySite == /\ At("unsite") /\ Goto("unstore")
                 /\ site' = "none" /\ store' = NoData /\ env' = 0 /\ native' = NoBackup
                 /\ UNCHANGED <<meta, containers, old, kept, archives, counts>>
(* With the site goes its home; a site the addon only adopted stays.       *)
RemoveSite == /\ At("unsite")
              /\ \/ /\ ~(meta.created /\ site # "none") /\ Goto("unstore")
                    /\ UNCHANGED <<site, store, env, native>>
                 \/ /\ meta.created /\ site # "none" /\ Goto("unstore")
                    /\ site' = "none" /\ store' = NoData /\ env' = 0 /\ native' = NoBackup
                 \/ /\ meta.created /\ End /\ UNCHANGED <<site, store, env, native>>
              /\ UNCHANGED <<meta, containers, old, kept, archives, counts>>
(* The storage meta.json names, then the whole of the instance's directory. *)
RemoveStorage == /\ At("unstore") /\ End
                 /\ IF Legacy THEN UNCHANGED <<store, env, native>>
                    ELSE store' = NoData /\ env' = 0 /\ native' = NoBackup
                 /\ old' = NoData /\ kept' = 0 /\ meta' = NoMeta
                 /\ UNCHANGED <<site, containers, archives, counts>>

(* start, stop, restart; the native backup, taken of the running data.     *)
Lifecycle == /\ At("idle") /\ Present
             /\ \/ /\ Key # 0 /\ main' = [main EXCEPT !.is = "running"]
                   /\ store' = IF main.home THEN Migrated(store, main.tag) ELSE store
                \/ /\ main' = [main EXCEPT !.is = "stopped"] /\ UNCHANGED store
             /\ UNCHANGED <<site, meta, prev, env, old, copies, counts, op>>
makeNativeBackup == /\ At("idle") /\ Recorded /\ meta.home /\ env # 0 /\ store # NoData /\ site # "none"
                    /\ native' = [data |-> store, tag |-> meta.tag]
                    /\ UNCHANGED <<site, meta, containers, data, kept, archives, counts, op>>

Killed == /\ ~At("idle") /\ kills < MaxKills /\ kills' = kills + 1 /\ End
          /\ UNCHANGED <<site, meta, containers, data, copies, cur, keys>>

Next == \/ Write \/ OperatorAdds \/ Lifecycle \/ makeNativeBackup \/ Killed
        \/ cmdCreate \/ AddSite \/ PrepareStorage \/ StartFresh \/ Record
        \/ FailCreate \/ CleanContainer \/ cleanupCreate
        \/ \E verb \in {"update", "recreate", "restore"}, tag \in 1..MaxTag : BeginReplace(verb, tag)
        \/ StopOld \/ Aside \/ RenameOld \/ ClearData \/ CopyData \/ StartNew \/ RecordNew \/ DropOld
        \/ FailReplace \/ UndoStart \/ UndoData \/ UndoCopy \/ UndoName \/ UndoRun
        \/ BeginDelete \/ Archive \/ RemoveContainer \/ RemoveSite \/ RemoveStorage
Spec == Init /\ [][Next]_vars

-----------------------------------------------------------------------------
Containers == [is : {"none", "created", "stopped", "running"}, tag : 0..MaxTag, home : BOOLEAN]
Creating == {"site", "storage", "start", "health", "failed", "clean"}
Undoing == {"undo", "undo-data", "undo-copy", "undo-name", "undo-run"}
Replacing == {"stop", "aside", "rename", "replace", "start", "health", "drop"} \cup Undoing
Deleting == {"archive", "remove", "unsite", "unstore"}
Operations == [verb : {"none", "create", "update", "recreate", "restore", "delete"},
               at : {"idle"} \cup Creating \cup Replacing \cup Deleting, tag : 0..MaxTag,
               was : BOOLEAN, renamed : BOOLEAN, candidate : BOOLEAN, changed : BOOLEAN,
               made : BOOLEAN, owns : BOOLEAN, aside : Data, found : Data, had : 0..MaxWrites]
TypeOK == /\ site \in {"none", "addon", "operator"}
          /\ meta \in [tag : 0..MaxTag, created : BOOLEAN, home : BOOLEAN]
          /\ main \in Containers /\ prev \in Containers
          /\ store \in Data /\ old \in Data /\ native \in [data : Data, tag : 0..MaxTag]
          /\ kept \in 0..MaxWrites /\ archives \in 0..MaxWrites /\ cur \in 1..MaxWrites
          /\ env \in 0..MaxKeys /\ keys \in 0..MaxKeys /\ kills \in 0..MaxKills
          /\ op \in Operations

(* Whatever fails or is killed, the last write of a recorded instance is   *)
(* in the storage meta.json names, with the key that reads it, or in a     *)
(* copy that carries its key.  (replaceInstance, restoreNativeBackup)      *)
NothingLost == Recorded => \/ Storage.v = cur /\ Storage.k = Key /\ Storage # NoData
                           \/ cur \in {kept, archives}

(* A container that serves has the key its data is encrypted with, and the *)
(* one an update or a restore replaced comes back to the very data it was stopped on, *)
(* not to what its successor has made of it.  (replaceInstance's recovery) *)
RunsItsOwnData == /\ main.is = "running" /\ main.home => store.k = env
                  /\ At("undo-run") /\ op.renamed /\ op.verb # "recreate" => Storage = op.found

(* Delete takes neither a site the operator made nor an instance whose last *)
(* write is in no archive; the exception is an instance that had it only in *)
(* a copy an unfinished operation set aside, which goes with its directory. *)
DeletesItsOwnStep ==
  /\ (site = "operator" => site' = "operator")
  /\ (Recorded /\ meta' = NoMeta => cur \in {kept, archives})
=============================================================================
