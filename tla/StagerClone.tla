---------------------------- MODULE StagerClone ----------------------------
(***************************************************************************)
(* The Stager addon's clones into one target domain (addons/stager/        *)
(* action.ts): the queueing, the runner that creates the site, carries the *)
(* source's vhost across, copies the database and the files and points     *)
(* them at each other, its unwinding, and the prune that puts right what a *)
(* killed runner left.                                                     *)
(*                                                                         *)
(* "live" is the source site's configuration, with the live database's     *)
(* password in it; "own" is the clone's.  One runner at a time: the record *)
(* and the target's lock see to that as in GitDeploy.  The operator does   *)
(* not delete the target while its clone runs.                             *)
(***************************************************************************)
EXTENDS Naturals

CONSTANTS MaxClones, MaxKills

VARIABLES type, hasDb,      \* of the source site
          state, clones,    \* the newest record, and how many were queued
          at,               \* where its runner is, "idle" without one
          knows,            \* what the runner would unwind
          left,             \* what it made that is still there, besides the site
          site,             \* who made the target's site
          vhost, row,       \* its Nginx file and the vhost in its panel row
          backup,           \* <target>.conf.clp-stager-bak: its content, "none" without one
          byTemplate,       \* the vhost came across as a template
          files,            \* whose configuration its files hold
          kills,
          cut               \* the last runner was killed, or its rollback was not armed yet

vars == <<type, hasDb, state, clones, at, knows, left, site, vhost, row, backup,
          byTemplate, files, kills, cut>>
source == <<type, hasDb>>
bound == <<clones, kills, cut>>
nginx == <<vhost, row, backup>>
target == <<site, vhost, row, files>>

(* Bounds on the clones and on the kills.                                  *)
ConstantsOK == MaxClones \in Nat /\ MaxKills \in Nat

Types == {"php", "static", "proxy"}
(* In the order rollbackRun removes them.                                  *)
Order == <<"dump", "session", "secrets", "bundle", "db", "template", "instance", "site">>
Things == {Order[i] : i \in 1..8}
Secret == {"dump", "session", "secrets", "bundle"}   \* in the newest record

Init == /\ type \in Types /\ hasDb \in BOOLEAN /\ (hasDb => type = "php")
        /\ state = "none" /\ clones = 0 /\ at = "idle" /\ knows = {} /\ left = {}
        /\ site = "none" /\ vhost = "none" /\ row = "none" /\ backup = "none"
        /\ byTemplate = FALSE /\ files = "none" /\ kills = 0 /\ cut = FALSE

-----------------------------------------------------------------------------
Make(things) == left' = left \cup things /\ knows' = knows \cup things
Drop(things) == left' = left \ things /\ knows' = knows \ things
Same == UNCHANGED <<source, state, bound>>
SameBox == UNCHANGED <<left, site, nginx, files>>

(* The request: the target is free and no clone into it is going.  The     *)
(* source's password waits in the record for the runner.                   *)
cmdClone ==
  /\ at = "idle" /\ state \notin {"queued", "running"} /\ clones < MaxClones
  /\ site = "none"
  /\ clones' = clones + 1 /\ cut' = FALSE
  /\ byTemplate' = FALSE
  /\ \/ state' = "queued" /\ at' = "begin"
        /\ left' = (left \ Secret) \cup IF type = "proxy" THEN {"secrets"} ELSE {}
     \/ state' = "failed" /\ at' = "idle" /\ left' = left \ Secret   \* systemd refused the unit
  /\ UNCHANGED <<source, knows, site, nginx, files, kills>>

(* Nothing is changed when the target appeared meanwhile.  From rollback's *)
(* arming on, what the job put in its record is the runner's to remove.    *)
Begin ==
  /\ at = "begin"
  /\ \/ site = "none" /\ state' = "running" /\ at' = "source"
        /\ knows' = {"secrets", "session", "bundle"} \cap left
     \/ site # "none" /\ state' = "failed" /\ at' = "idle" /\ knows' = {}
  /\ cut' = (at' = "idle")
  /\ UNCHANGED <<source, clones, kills, left, site, nginx, byTemplate, files>>

(* A WordPress or static source has a directory; an Instatic one is signed *)
(* in to, which uses the password up, and exported, which ends the session.*)
SignIn == /\ at = "source" /\ type = "proxy" /\ "session" \notin left
          /\ left' = (left \ {"secrets"}) \cup {"session"}
          /\ knows' = (knows \ {"secrets"}) \cup {"session"}
          /\ Same /\ UNCHANGED <<at, site, nginx, byTemplate, files>>
ReadSource ==
  /\ at = "source" /\ (type = "proxy" => "session" \in left)
  /\ at' = "template"
  /\ IF type = "proxy"
     THEN /\ left' = (left \ {"session"}) \cup {"bundle"}
          /\ knows' = (knows \ {"session"}) \cup {"bundle"}
     ELSE UNCHANGED <<left, knows>>
  /\ Same /\ UNCHANGED <<site, nginx, byTemplate, files>>

(* The source's vhost as a CloudPanel template, if it makes a valid one.   *)
AddTemplate ==
  /\ at = "template" /\ at' = "create"
  /\ \/ type = "php" /\ Make({"template"}) /\ byTemplate' = TRUE
     \/ UNCHANGED <<left, knows, byTemplate>>
  /\ Same /\ UNCHANGED <<site, nginx, files>>

(* clpctl refuses a domain that exists; the Instatic addon adopts its site. *)
CreateSite ==
  /\ at = "create" /\ at' = "hold"
  /\ \/ /\ site = "none"
        /\ site' = "clone"
        /\ vhost' = (IF byTemplate THEN "carried" ELSE "stock") /\ row' = vhost'
        /\ left' = IF type = "proxy" THEN left \cup {"instance"} ELSE left
        /\ knows' = knows \cup IF type = "proxy" THEN {"instance", "site"} ELSE {"site"}
     \/ /\ site = "other" /\ type = "proxy"
        /\ Make({"instance"})
        /\ UNCHANGED <<site, vhost, row>>
  /\ Same /\ UNCHANGED <<backup, byTemplate, files>>

(* Mail is held back before the live site's code is copied in; then the    *)
(* temporary template goes, or stays with a warning.                       *)
DropTemplate ==
  /\ at = "hold" /\ at' = IF byTemplate THEN "database" ELSE "carry"
  /\ knows' = knows \ {"template"}
  /\ left' \in {left \ {"template"}, left}
  /\ Same /\ UNCHANGED <<site, nginx, byTemplate, files>>

-----------------------------------------------------------------------------
(* carryVhost: the file is backed up and replaced, tested, then the row,   *)
(* then Nginx reloads.  What cannot be composed is noted; what is refused  *)
(* is put back.                                                            *)
CannotCarry == /\ at = "carry" /\ at' = "database"
               /\ Same /\ UNCHANGED <<knows, left, site, nginx, byTemplate, files>>
Backup == /\ at = "carry" /\ at' = "write" /\ backup' = vhost
          /\ Same /\ UNCHANGED <<knows, left, site, vhost, row, byTemplate, files>>
WriteVhost == /\ at = "write" /\ vhost' = "carried" /\ at' \in {"test", "restore"}
              /\ Same /\ UNCHANGED <<knows, left, site, row, backup, byTemplate, files>>
Test == /\ at = "test" /\ at' \in {"row", "restore"}
        /\ Same /\ UNCHANGED <<knows, left, site, nginx, byTemplate, files>>
(* panelUpdateSite writes no site this job did not create; an update that  *)
(* does not read back may have been made all the same.                     *)
WriteRow == /\ at = "row"
            /\ \/ "site" \in knows /\ row' = "carried" /\ at' = "reload"
               \/ "site" \in knows /\ row' \in {"carried", row} /\ at' = "restore-row"
               \/ "site" \notin knows /\ UNCHANGED row /\ at' = "restore-row"
            /\ Same /\ UNCHANGED <<knows, left, site, vhost, backup, byTemplate, files>>
Reload == /\ at = "reload"
          /\ \/ at' = "database" /\ backup' = "none"
             \/ at' = "restore-row" /\ UNCHANGED backup
          /\ Same /\ UNCHANGED <<knows, left, site, vhost, row, byTemplate, files>>
(* Put back or, with a warning, not: the backup goes either way.           *)
Restore == /\ at \in {"restore", "restore-row"}
           /\ vhost' \in {backup, vhost} /\ backup' = "none"
           /\ at' = IF at = "restore-row" THEN "stock-row" ELSE "database"
           /\ Same /\ UNCHANGED <<knows, left, site, row, byTemplate, files>>
(* A row that cannot be put back is warned of.                             *)
StockRow == /\ at = "stock-row" /\ at' = "database"
            /\ row' \in IF "site" \in knows THEN {"stock", row} ELSE {row}
            /\ Same /\ UNCHANGED <<knows, left, site, vhost, backup, byTemplate, files>>

-----------------------------------------------------------------------------
(* The database is exported, made and imported; the files come across with *)
(* the live site's configuration in them and are then pointed at it.       *)
ExportDb == /\ at = "database" /\ hasDb /\ Make({"dump"}) /\ at' = "add"
            /\ Same /\ UNCHANGED <<site, nginx, byTemplate, files>>
NoDb == /\ at = "database" /\ ~hasDb /\ at' = "copy"
        /\ Same /\ SameBox /\ UNCHANGED <<knows, byTemplate>>
AddDb == /\ at = "add" /\ "db" \notin left /\ Make({"db"}) /\ at' = "import"
         /\ Same /\ UNCHANGED <<site, nginx, byTemplate, files>>
ImportDb == /\ at = "import" /\ Drop({"dump"}) /\ at' = "copy"
            /\ Same /\ UNCHANGED <<site, nginx, byTemplate, files>>
CopyFiles == /\ at = "copy" /\ type # "proxy" /\ files' = IF hasDb THEN "live" ELSE "own"
             /\ at' = IF hasDb THEN "rewrite" ELSE "record"
             /\ Same /\ UNCHANGED <<knows, left, site, nginx, byTemplate>>
SignInToClone == /\ at = "copy" /\ type = "proxy" /\ "session" \notin left /\ Make({"session"})
                 /\ Same /\ UNCHANGED <<at, site, nginx, byTemplate, files>>
ImportBundle == /\ at = "copy" /\ type = "proxy" /\ "session" \in left
                /\ files' = "own" /\ Drop({"bundle", "session"}) /\ at' = "record"
                /\ Same /\ UNCHANGED <<site, nginx, byTemplate>>
(* Changed form: a configuration that is not found is only noted.          *)
RewriteOrNote == /\ at = "rewrite" /\ files' \in {"own", "live"} /\ at' = "record"
                 /\ Same /\ UNCHANGED <<knows, left, site, nginx, byTemplate>>
RewriteConfig == /\ at = "rewrite" /\ files' = "own" /\ at' = "record"
                 /\ Same /\ UNCHANGED <<knows, left, site, nginx, byTemplate>>
(* Certificate, result; rollback is disarmed and the record says done.     *)
RecordResult == /\ at = "record" /\ state' = "done" /\ at' = "idle" /\ knows' = {}
                /\ UNCHANGED <<source, bound, left, site, nginx, byTemplate, files>>

-----------------------------------------------------------------------------
(* failJob, from any step that can: the record, then the unwinding.        *)
Failing == {"source", "create", "hold", "database", "add", "import", "copy", "rewrite", "record"}
FailJob == /\ at \in Failing /\ state' = "failed" /\ at' = "unwind"
           /\ UNCHANGED <<source, bound, knows, left, site, nginx, byTemplate, files>>

(* What goes with a site: its file, its row, its files and databases.      *)
Gone(who) == /\ site' = "none" /\ vhost' = "none" /\ row' = "none" /\ files' = "none"

NextOf(things) == CHOOSE x \in things : \E i \in 1..8 :
                    /\ Order[i] = x /\ \A k \in 1..(i - 1) : Order[k] \notin things
(* Changed form: the site goes by its name, whoever made it.               *)
RollbackByName ==
  /\ at = "unwind" /\ knows # {} /\ site # "none"
  /\ Gone(site) /\ left' = left \ {"db", "instance", "dump", "secrets", "session", "bundle", "template"}
  /\ knows' = {} /\ at' = "idle"
  /\ UNCHANGED <<source, state, bound, backup, byTemplate>>
(* A thing the run made is removed, or a failed removal is passed by; an   *)
(* instance of Instatic takes the site this run made for it along.         *)
rollbackRun ==
  /\ at = "unwind"
  /\ IF knows = {} THEN at' = "idle" /\ UNCHANGED <<left, knows, site, vhost, row, files>>
     ELSE LET x == NextOf(knows)
              whole == x = "site" \/ (x = "instance" /\ "site" \in knows)
          IN /\ knows' = IF whole THEN {} ELSE knows \ {x}
             /\ UNCHANGED at
             /\ \/ /\ x \in {"db", "template", "instance", "site"}   \* clpctl refused
                   /\ UNCHANGED <<left, site, vhost, row, files>>
                \/ /\ ~whole /\ left' = left \ {x} /\ UNCHANGED <<site, vhost, row, files>>
                \/ whole /\ Gone(site) /\ left' = left \ {"db", "instance"}
  /\ UNCHANGED <<source, state, bound, backup, byTemplate>>

KillRunner == /\ at # "idle" /\ kills < MaxKills
              /\ at' = "idle" /\ knows' = {} /\ kills' = kills + 1 /\ cut' = TRUE
              /\ UNCHANGED <<source, state, clones, left, site, nginx, byTemplate, files>>

(* Changed form: a backup is always put back.                              *)
RecoverAlways ==
  /\ backup # "none" /\ state \notin {"queued", "running"}
  /\ vhost' = backup /\ backup' = "none"
  /\ UNCHANGED <<source, state, bound, at, knows, left, site, row, byTemplate, files>>

(* cmdPrune: the record of a dead runner, then the vhost it was carrying.  *)
pruneJobs == /\ at = "idle" /\ state \in {"queued", "running"} /\ state' = "failed"
             /\ UNCHANGED <<source, bound, at, knows, left, site, nginx, byTemplate, files>>
recoverCarriedVhosts ==
  /\ backup # "none" /\ state \notin {"queued", "running"}
  /\ vhost' \in IF state = "done" THEN {vhost} ELSE {backup}
  /\ backup' = "none"
  /\ UNCHANGED <<source, state, bound, at, knows, left, site, row, byTemplate, files>>

OperatorCreates == /\ site = "none"
                   /\ site' = "other" /\ vhost' = "stock" /\ row' = "stock" /\ files' = "own"
                   /\ UNCHANGED <<source, state, bound, at, knows, left, backup, byTemplate>>
OperatorDeletes == /\ at = "idle" /\ site # "none" /\ Gone(site) /\ left' = left \ {"db", "instance"}
                   /\ UNCHANGED <<source, state, bound, at, knows, backup, byTemplate>>

Runner == \/ Begin \/ SignIn \/ ReadSource \/ AddTemplate \/ CreateSite \/ DropTemplate
          \/ CannotCarry \/ Backup \/ WriteVhost \/ Test \/ WriteRow \/ Reload \/ Restore \/ StockRow
          \/ ExportDb \/ NoDb \/ AddDb \/ ImportDb \/ CopyFiles \/ SignInToClone \/ ImportBundle
          \/ RewriteConfig \/ RecordResult \/ FailJob \/ rollbackRun
Next == \/ cmdClone \/ Runner \/ KillRunner \/ pruneJobs \/ recoverCarriedVhosts
        \/ OperatorCreates \/ OperatorDeletes
Spec == Init /\ [][Next]_vars

-----------------------------------------------------------------------------
Steps == {"source", "template", "create", "hold", "carry", "write", "test", "row", "reload", "restore", "restore-row",
          "stock-row", "database", "add", "import", "copy", "rewrite", "record"}
TypeOK == /\ type \in Types /\ hasDb \in BOOLEAN
          /\ state \in {"none", "queued", "running", "done", "failed"} /\ clones \in 0..MaxClones
          /\ knows \subseteq Things /\ left \subseteq Things \ {"site"}
          /\ site \in {"none", "clone", "other"}
          /\ {vhost, row, backup} \subseteq {"none", "stock", "carried"}
          /\ files \in {"none", "live", "own"} /\ kills \in 0..MaxKills
          /\ byTemplate \in BOOLEAN /\ cut \in BOOLEAN /\ at \in {"idle", "begin", "unwind"} \cup Steps

(* A clone that says done is its own: its files never name the live        *)
(* database, and its record holds no dump, session, password or bundle.    *)
DoneIsItsOwn == state = "done" => site # "clone" \/ files # "live"

(* A run that failed at any step, and was not killed, has removed what it  *)
(* copied out of the live site, and leaves no clone that would reach the   *)
(* live database unless CloudPanel refused to delete it.                   *)
FailedIsUnwound == state \in {"done", "failed"} /\ at = "idle" /\ ~cut => left \cap Secret = {}

(* A site the run did not make is neither deleted by it nor written to in  *)
(* the panel, whatever fails.                                              *)
OthersKeptStep == site = "other" /\ at # "idle" => site' = "other" /\ row' = row

(* What a killed clone left beside the vhosts never replaces the file of a *)
(* clone made at that domain since.                                        *)
DoneKeepsItsVhostStep ==
  state = "done" /\ site = "clone" /\ state' = "done" /\ site' = "clone" => vhost' = vhost
=============================================================================
