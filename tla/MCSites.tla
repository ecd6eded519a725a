------------------------------- MODULE MCSites -------------------------------
(***************************************************************************)
(* What the addons do to single sites and accounts, one component at a     *)
(* time: the Nginx transaction they share, Git deployments, Stager's       *)
(* clones, Instatic instances, WordPress Tools, maintenance mode, Panel    *)
(* Tweaks' settings, images and sizes of sites, the keys that sign         *)
(* accounts in, and one request through the gateway. A behaviour is about  *)
(* one of them; the others hold nothing, so the run is the sum of theirs.  *)
(***************************************************************************)
CONSTANTS Parts,   \* the components this run is about
          Txs, Files, Touches, WithRow, AlwaysValidate, Broken, None,
          Deployments, Requests, MaxSaves, MaxSites, Free,
          MaxClones, CloneMaxKills,
          MaxWrites, MaxTag, InstanceMaxKeys, InstanceMaxKills,
          MainwpMaxKeys, MaxEdits, MaxPasses, MaxFaults, WpKills,
          MaxChoices, MaxMade, Managers, Uploads,
          MaxIds, MaxHands, MaxPassesRun,
          WpSites, WpRoots, MaxMints, MaxGateEdits,
          Domains, Ips, Clients, Asks, MaxBypassIps, MaxAsked, MaxSiteMoves, MaxVisits,
          MaxMishaps,
          Admins, TweakKeys, Slots, Images, MeasureJobs, MaxTweakAsks, MaxSweeps, MaxTweakMishaps,
          KeyUsers, Keys, SyncedKeys, KeyRequests, MaxAccountIds, MaxChallenges, MaxTouches,
          MaxKeyClock, MaxKeyRuns, MaxKeyMoves, MaxKeyKills,
          WebRequests, Accesses, WebRoles, MaxWebMoves

VARIABLES part,   \* the component a behaviour is about
          file, rows, loaded, nginxLock, holder, pc, nginxBackup, written, wrote, asked, clean,
          crossed,
          gitSite, sites, conf, saves, gitState, young, run, copy, req, gitLock,
          type, hasDb, cloneState, clones, at, knows, left, cloneSite, vhost, row, cloneBackup,
          byTemplate, files, cloneKills, cut,
          instanceSite, meta, main, prev, store, env, old, kept, archives, native, cur,
          instanceKeys, instanceKills, op,
          child, dash, enabled, cleaning, record, retired, pass, mainwpKeys, wpEdits, passes,
          faults,
          place, made, events, uploads, choices, chooser, givenBack, took,
          wsite, ids, varnish, news, wjob, wpass, hands, passesRun,
          wpConfig, wpRoot, loader, secret, gates, gateEdits, signer, withdrawal, mints, leftIn, skipped,
          present, panelFile, dir, lists, request, cached, listed, torn, stale, recreated,
          asks,
          tweaks, logos, images, page, tweaksLock, tweakReq, render, measureJob, jobsLock,
          scanLock, sweeper, sizes, begun, tweakAsks, tweakMishaps, behind,
          account, credentials, keySettings, challenge, spent, device, answers, cookie, keyReq,
          keyLock, keyClock, keyCount, best, accepted,
          web, conn, proc, age, sess, userRows, keysOn, phpIni, lifeCache, look, gatewayUp,
          reqCount, leastIdle, wasActive, wasLapsed, lives

nginxVars == <<file, rows, loaded, nginxLock, holder, pc, nginxBackup, written, wrote, asked, clean,
   crossed>>
gitVars == <<gitSite, sites, conf, saves, gitState, young, run, copy, req, gitLock>>
cloneVars == <<type, hasDb, cloneState, clones, at, knows, left, cloneSite, vhost, row, cloneBackup,
   byTemplate, files, cloneKills, cut>>
instanceVars == <<instanceSite, meta, main, prev, store, env, old, kept, archives, native, cur,
   instanceKeys, instanceKills, op>>
mainwpVars == <<child, dash, enabled, cleaning, record, retired, pass, mainwpKeys, wpEdits, passes,
   faults>>
chooseVars == <<place, made, events, uploads, choices, chooser, givenBack, took>>
autoVars == <<wsite, ids, varnish, news, wjob, wpass, hands, passesRun>>
signVars == <<wpConfig, wpRoot, loader, secret, gates, gateEdits, signer, withdrawal, mints, leftIn,
   skipped>>
maintenanceVars == <<present, panelFile, dir, lists, request, cached, listed, torn, stale,
   recreated, asks>>
tweakVars == <<tweaks, logos, images, page, tweaksLock, tweakReq, render, measureJob, jobsLock, scanLock,
   sweeper, sizes, begun, tweakAsks, tweakMishaps, behind>>
keyVars == <<account, credentials, keySettings, challenge, spent, device, answers, cookie, keyReq,
   keyLock, keyClock, keyCount, best, accepted>>
requestVars == <<web, conn, proc, age, sess, userRows, keysOn, phpIni, lifeCache, look, gatewayUp,
   reqCount, leastIdle, wasActive, wasLapsed, lives>>
vars == <<part, nginxVars, gitVars, cloneVars, instanceVars, mainwpVars, chooseVars, autoVars,
          signVars, maintenanceVars, tweakVars, keyVars, requestVars>>

Nginx == INSTANCE NginxTransaction WITH lock <- nginxLock, backup <- nginxBackup
Git == INSTANCE GitDeploy WITH site <- gitSite, state <- gitState, lock <- gitLock
Clone == INSTANCE StagerClone WITH MaxKills <- CloneMaxKills, state <- cloneState, site <-
  cloneSite, backup <- cloneBackup, kills <- cloneKills
Instance == INSTANCE Instatic WITH MaxKeys <- InstanceMaxKeys, MaxKills <- InstanceMaxKills,
  site <- instanceSite, keys <- instanceKeys, kills <- instanceKills
Dashboard == INSTANCE MainWP WITH MaxKeys <- MainwpMaxKeys, keys <- mainwpKeys
Choose == INSTANCE NewSitePlugins
Automation == INSTANCE WpAutomation
SignIn == INSTANCE WpSignIn
Mode == INSTANCE Maintenance WITH req <- request, count <- asks
Tweaks == INSTANCE PanelTweaks
SecKeys == INSTANCE SecurityKeys WITH req <- keyReq
Gate == INSTANCE GatewayRequests

(* Both kinds of change to one list, a switch of each scope and of all at  *)
(* once, a page, and repair's prune.                                       *)
Ask(verb, scope, ips) == [verb |-> verb, scope |-> scope, ips |-> ips]
TheAsks == {Ask("enable", "d1", {}), Ask("disable", "many", {}), Ask("enable", "_global", {}),
            Ask("set-bypass", "d1", {"i1"}), Ask("add-bypass", "d1", {"i2"}),
            Ask("set-template", "d1", {}), Ask("prune", "many", {})}

CONSTANTS t1, t2, f1, f2
Both == [t \in {t1, t2} |-> IF t = t1 THEN {f1, f2} ELSE {f1}]

ASSUME Constants == /\ Nginx!ConstantsOK /\ Git!ConstantsOK /\ Clone!ConstantsOK
                    /\ Instance!ConstantsOK /\ Dashboard!ConstantsOK /\ Choose!ConstantsOK
                    /\ Automation!ConstantsOK /\ SignIn!ConstantsOK /\ Mode!ConstantsOK
                    /\ Tweaks!ConstantsOK /\ SecKeys!ConstantsOK /\ Gate!ConstantsOK

(* The components a behaviour is not about hold nothing.                   *)
Init ==
  /\ part \in Parts
  /\ IF part = "nginx" THEN Nginx!Init
     ELSE /\ file = 0 /\ rows = 0 /\ loaded = 0 /\ nginxLock = 0 /\ holder = 0 /\ pc = 0
          /\ nginxBackup = 0 /\ written = 0 /\ wrote = 0 /\ asked = 0 /\ clean = 0 /\ crossed = 0
  /\ Git!Init
  /\ IF part = "clone" THEN Clone!Init
     ELSE /\ type = 0 /\ hasDb = 0 /\ cloneState = 0 /\ clones = 0 /\ at = 0 /\ knows = 0 /\ left = 0
          /\ cloneSite = 0 /\ vhost = 0 /\ row = 0 /\ cloneBackup = 0 /\ byTemplate = 0
          /\ files = 0 /\ cloneKills = 0 /\ cut = 0
  /\ IF part = "instance" THEN Instance!Init
     ELSE /\ instanceSite = 0 /\ meta = 0 /\ main = 0 /\ prev = 0 /\ store = 0 /\ env = 0 /\ old = 0
          /\ kept = 0 /\ archives = 0 /\ native = 0 /\ cur = 0 /\ instanceKeys = 0
          /\ instanceKills = 0 /\ op = 0
  /\ IF part = "mainwp" THEN Dashboard!Init
     ELSE /\ child = 0 /\ dash = 0 /\ enabled = 0 /\ cleaning = 0 /\ record = 0 /\ retired = 0
          /\ pass = 0 /\ mainwpKeys = 0 /\ wpEdits = 0 /\ passes = 0 /\ faults = 0
  /\ IF part = "choose" THEN Choose!Init
     ELSE /\ place = 0 /\ made = 0 /\ events = 0 /\ uploads = 0 /\ choices = 0 /\ chooser = 0
          /\ givenBack = 0 /\ took = 0
  /\ IF part = "auto" THEN Automation!Init
     ELSE /\ wsite = 0 /\ ids = 0 /\ varnish = 0 /\ news = 0 /\ wjob = 0 /\ wpass = 0 /\ hands = 0
          /\ passesRun = 0
  /\ IF part = "sign" THEN SignIn!Init
     ELSE /\ wpConfig = 0 /\ loader = 0 /\ secret = 0 /\ gates = 0 /\ gateEdits = 0 /\ signer = 0
          /\ withdrawal = 0 /\ mints = 0 /\ leftIn = 0 /\ wpRoot = 0 /\ skipped = 0
  /\ IF part = "maintenance" THEN Mode!Init
     ELSE /\ present = 0 /\ panelFile = 0 /\ dir = 0 /\ lists = 0 /\ request = 0 /\ cached = 0
          /\ listed = 0 /\ torn = 0 /\ stale = 0 /\ recreated = 0 /\ asks = 0
  /\ IF part = "tweaks" THEN Tweaks!Init
     ELSE /\ tweaks = 0 /\ logos = 0 /\ images = 0 /\ page = 0 /\ tweaksLock = 0 /\ tweakReq = 0
          /\ render = 0 /\ measureJob = 0 /\ jobsLock = 0 /\ scanLock = 0 /\ sweeper = 0 /\ sizes = 0
          /\ begun = 0 /\ tweakAsks = 0 /\ tweakMishaps = 0 /\ behind = 0
  /\ IF part = "keys" THEN SecKeys!Init
     ELSE /\ account = 0 /\ credentials = 0 /\ keySettings = 0 /\ challenge = 0 /\ spent = 0
          /\ device = 0 /\ answers = 0 /\ cookie = 0 /\ keyReq = 0 /\ keyLock = 0 /\ keyClock = 0
          /\ keyCount = 0 /\ best = 0 /\ accepted = 0
  /\ IF part = "requests" THEN Gate!Init
     ELSE /\ web = 0 /\ conn = 0 /\ proc = 0 /\ age = 0 /\ sess = 0 /\ userRows = 0 /\ keysOn = 0
          /\ phpIni = 0 /\ lifeCache = 0 /\ look = 0 /\ gatewayUp = 0 /\ reqCount = 0
          /\ leastIdle = 0 /\ wasActive = 0 /\ wasLapsed = 0 /\ lives = 0

Next ==
  /\ UNCHANGED part
  /\ \/ /\ part = "nginx" /\ Nginx!Next
        /\ UNCHANGED <<gitVars, cloneVars, instanceVars, mainwpVars, chooseVars,
             autoVars, signVars, maintenanceVars, tweakVars, keyVars, requestVars>>
     \/ /\ part = "git" /\ Git!Next
        /\ UNCHANGED <<nginxVars, cloneVars, instanceVars, mainwpVars, chooseVars,
             autoVars, signVars, maintenanceVars, tweakVars, keyVars, requestVars>>
     \/ /\ part = "clone" /\ Clone!Next
        /\ UNCHANGED <<nginxVars, gitVars, instanceVars, mainwpVars, chooseVars,
             autoVars, signVars, maintenanceVars, tweakVars, keyVars, requestVars>>
     \/ /\ part = "instance" /\ Instance!Next
        /\ UNCHANGED <<nginxVars, gitVars, cloneVars, mainwpVars, chooseVars, autoVars,
             signVars, maintenanceVars, tweakVars, keyVars, requestVars>>
     \/ /\ part = "mainwp" /\ Dashboard!Next
        /\ UNCHANGED <<nginxVars, gitVars, cloneVars, instanceVars, chooseVars,
             autoVars, signVars, maintenanceVars, tweakVars, keyVars, requestVars>>
     \/ /\ part = "choose" /\ Choose!Next
        /\ UNCHANGED <<nginxVars, gitVars, cloneVars, instanceVars, mainwpVars,
             autoVars, signVars, maintenanceVars, tweakVars, keyVars, requestVars>>
     \/ /\ part = "auto" /\ Automation!Next
        /\ UNCHANGED <<nginxVars, gitVars, cloneVars, instanceVars, mainwpVars,
             chooseVars, signVars, maintenanceVars, tweakVars, keyVars, requestVars>>
     \/ /\ part = "sign" /\ SignIn!Next
        /\ UNCHANGED <<nginxVars, gitVars, cloneVars, instanceVars, mainwpVars,
             chooseVars, autoVars, maintenanceVars, tweakVars, keyVars, requestVars>>
     \/ /\ part = "maintenance" /\ Mode!Next
        /\ UNCHANGED <<nginxVars, gitVars, cloneVars, instanceVars, mainwpVars,
             chooseVars, autoVars, signVars, tweakVars, keyVars, requestVars>>
     \/ /\ part = "tweaks" /\ Tweaks!Next
        /\ UNCHANGED <<nginxVars, gitVars, cloneVars, instanceVars, mainwpVars,
             chooseVars, autoVars, signVars, maintenanceVars, keyVars, requestVars>>
     \/ /\ part = "keys" /\ SecKeys!Next
        /\ UNCHANGED <<nginxVars, gitVars, cloneVars, instanceVars, mainwpVars,
             chooseVars, autoVars, signVars, maintenanceVars, tweakVars, requestVars>>
     \/ /\ part = "requests" /\ Gate!Next
        /\ UNCHANGED <<nginxVars, gitVars, cloneVars, instanceVars, mainwpVars,
             chooseVars, autoVars, signVars, maintenanceVars, tweakVars, keyVars>>

Spec == Init /\ [][Next]_vars

------------------------------------------------------------------------------
TypeOK == /\ part = "nginx" => Nginx!TypeOK
          /\ part = "git" => Git!TypeOK
          /\ part = "clone" => Clone!TypeOK
          /\ part = "instance" => Instance!TypeOK
          /\ part = "mainwp" => Dashboard!TypeOK
          /\ part = "choose" => Choose!TypeOK
          /\ part = "auto" => Automation!TypeOK
          /\ part = "sign" => SignIn!TypeOK
          /\ part = "maintenance" => Mode!TypeOK
          /\ part = "tweaks" => Tweaks!TypeOK
          /\ part = "keys" => SecKeys!TypeOK
          /\ part = "requests" => Gate!TypeOK

(* A site's deployments are one at a time and their outcomes final, as     *)
(* OneJob promises, though the site's lock is dropped twice on the way.    *)
OneDeployment == Git!ImplementsOneJob

(* What an operation that failed, was killed or was withdrawn leaves in a  *)
(* site is as it was found or known to what puts it right: a transaction's *)
(* files and rows, a clone's copies, the last write of an instance, an     *)
(* administrator's password setting, a record in the Dashboard, a sign-in  *)
(* helper, a live page in Varnish, the image a slot of the panel names,    *)
(* the settings its templates carry, and a request told that it took too   *)
(* long.                                                                   *)
LeftIsKnown == /\ part = "nginx" => Nginx!RecoveredAsFound
               /\ part = "clone" => Clone!FailedIsUnwound
               /\ part = "instance" => Instance!NothingLost
               /\ part = "mainwp" => Dashboard!SettingIsAccounted /\ Dashboard!MadeIsKnown
               /\ part = "sign" => SignIn!WithdrawnLeavesNone
               /\ part = "maintenance" => Mode!NoLivePageKept
               /\ part = "tweaks" => Tweaks!NamedIsServed /\ Tweaks!PageCarriesWhatIsSaved
               /\ part = "requests" => Gate!LateIsOver

(* A transaction that says done has its row and every file, and Nginx runs *)
(* what is on disk once all are over.                                      *)
DoneTogether == part = "nginx" => Nginx!DoneTogether /\ Nginx!DoneIsServed /\ Nginx!ServedIsOnDisk

(* What an operation reports done works on its own data: a clone never on  *)
(* the live database, a container with the key and the data it was stopped *)
(* on, a choice of plugins with its own uploads in its own site, a bypass  *)
(* list with the addresses it was last given, a measurement of the sites'  *)
(* sizes alone, a key for the account it was made for, a request for what  *)
(* its own caller may.                                                     *)
WorksOnItsOwn == /\ part = "clone" => Clone!DoneIsItsOwn
                 /\ part = "instance" => Instance!RunsItsOwnData
                 /\ part = "choose" => Choose!LaterCounts /\ Choose!IntoOwnSite
                 /\ part = "maintenance" => Mode!LastListWhole
                 /\ part = "tweaks" => Tweaks!OneMeasurement
                 /\ part = "keys" => SecKeys!KeysOfTheirAccount
                 /\ part = "requests" => Gate!RunsWhatIsTheirs /\ Gate!GateSaysTrue

(* No step takes or undoes what an operator, another site or a later run   *)
(* has made: a site at the target domain, a vhost, an instance not yet in  *)
(* an archive, a connection, a plugin taken out, a switch, an address of a *)
(* bypass list, a live site's maintenance, another tab's setting, a newer  *)
(* measurement, the removal of a key, an answer or a count already taken.  *)
OthersKept == [][/\ part = "nginx" => Nginx!CommittedStaysStep
                 /\ part = "clone" => Clone!OthersKeptStep /\ Clone!DoneKeepsItsVhostStep
                 /\ part = "instance" => Instance!DeletesItsOwnStep
                 /\ part = "mainwp" => Dashboard!LeavesOthersStep
                 /\ part = "auto" => Automation!NeverPutBackStep /\ Automation!SettingKeptStep
                 /\ part = "maintenance" => Mode!AddKeepsRestStep /\ Mode!LiveStateKeptStep
                 /\ part = "tweaks" => Tweaks!ChangesOnlyItsOwnStep /\ Tweaks!NewestSizesStep
                 /\ part = "keys" => /\ SecKeys!RegisteredSignsInStep /\ SecKeys!AcceptedOnceStep
                                     /\ SecKeys!CountsUpStep]_vars
==============================================================================
