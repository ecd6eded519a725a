# clp-addons, specified in TLA+

`clp-addons` is a set of addons for CloudPanel, a hosting control panel that
knows nothing of them. A root CLI provisions and repairs what the addons need, a
small manager serves their pages behind the panel's Nginx, and addon actions run
as short root processes that the manager asks for through a gateway. Nearly all
of its state is files that somebody else writes too: CloudPanel's database and
vhosts, Nginx's configuration, dpkg's conffiles, sites' document roots. What can
go wrong is therefore rarely in one function. It is two processes in an order
nobody wrote a test for, a kill between two writes, or a look at something that
has changed by the time it is acted on. These modules are about that.

Source paths are relative to `src/`.

- [The system](#the-system)
- [The modules](#the-modules)
- [The runs](#the-runs)
- [Fairness](#fairness)
- [What is proved](#what-is-proved)
- [What is only model-checked](#what-is-only-model-checked)
- [Disagreements with the documentation](#disagreements-with-the-documentation)
- [Limits known and not checked](#limits-known-and-not-checked)
- [Not modelled](#not-modelled)
- [Plan](#plan)

## The system

| Component | State | Operations | Talks to |
| --- | --- | --- | --- |
| Background jobs (`cli/job-store.ts`, `cli/manager-action.ts`, `lib/assets/job-watch.client.js`) | one directory per job (`state`, `kind`, `addon`, ...), its mtime, a transient systemd unit, `manager.lock` | create, run, follow, watch, prune | systemd, the operation lock, toggle and update |
| Operation lock (`cli/operation-lock.ts`) | one flock, a note of its holder | take with a time limit, hand to a child, release | every command that provisions |
| Update (`cli/update.ts`, `cli/artifacts.ts`) | binary, manifest, the two kept aside, `news-since` | replace, hand over, verify, roll back | the child of the new release, systemd |
| Repair (`cli/repair.ts`, every 15 minutes) | none of its own | converges units, configs, templates, Nginx; prunes jobs | everything |
| Enable, disable, uninstall (`cli/toggle.ts`, `cli/uninstall.ts`, `cli/provision.ts`) | addons' config files, unit files, the panel's recorded name | | units, templates, Nginx, the addons' withdrawals |
| Nginx transaction (`cli/nginx-transaction.ts`) | SQLite transaction, backups in memory | stage, write, test, reload, commit, restore | Nginx, CloudPanel's database |
| New-site watchers (`cli/new-sites.ts`) | `new-sites-seen.json`, two path units | look, run hooks, arm | CloudPanel's rows and vhosts, the addons' hooks |
| Conffile release (`cli/conffiles.ts`, `cli/apt-hook.ts`, `cli/inject.ts`) | the flag, the recorded baseline, the block in the file | record, write, release, take back | unattended-upgrades, dpkg, repair |
| Template injection, the manager's proxy (`cli/inject.ts`, `cli/reconcile.ts`) | baselines, hashes and edited files | reconcile, remove | CloudPanel's updates, its compiled templates |
| Gateway and auth (`cli/auth-action.ts`, `lib/gateway-*.ts`, `lib/sso-auth.ts`, `manager/server.ts`) | connections, workers, deadlines | authorise, spawn an action, relay, recheck | the manager, PHP sessions |
| Terminal (`addons/terminal/app/`) | sessions in memory, pages in browsers | open, attach, type, detach, end | a pty helper through the gateway |
| Stager (`addons/stager/action.ts`) | job records, document roots, vhosts, databases | clone, promote, recover, prune | the sites, CloudPanel |
| Git (`addons/git/action.ts`) | settings, deployment records, two locks | save, deploy, receive a push, prune | systemd, sites' directories |
| DNS (`addons/dns/`) | policy, tracked records, stand-in markers, ACLs | plan, review, confirm, enforce, redirect | Cloudflare, Mailcow, certificates |
| SMTP (`addons/smtp/action.ts`) | policy, Postfix's maps and settings, sites' `sendmail_path` | submit, new sites, remove, restore | Postfix, PHP |
| Instatic (`addons/instatic/action.ts`) | a container, its data and key, archives | create, update, restore, delete | the container engine, the site |
| WP Tools (`addons/wp-tools/`) | MainWP records, chosen plugins, sign-in helpers, automation state | enrol, retire, install, sign in, withdraw | WordPress sites, the Dashboard |
| Maintenance, Cloudflare IPs, Security Keys, PHP Resources, Panel Tweaks (`addons/*`) | a directory or policy file each, under a lock of its own | switch, list, register, categorise, render | Nginx, Varnish, php-fpm, browsers |
| System Tweaks (`addons/system-tweaks/`) | `settings.json`, drop-ins, guards, nftables, ufw, include files | switch, withdraw, restore, repair, sync | systemd, Nginx, php-fpm, ufw, apt, MySQL |

What makes it hard, by kind:

- *Interleaving without a common lock.* A request looks at job records that
  repair is pruning; repair passes its flag check before an upgrade raises the
  flag; php-fpm reloads while a page reads the pools.
- *Kills between two writes.* Almost every operation is several writes (a rename
  and its record, three baseline files and a block, a binary and a manifest) in
  a process that a timeout, a reboot or an operator may end.
- *Stale looks.* A unit that systemd does not show yet, a plan of DNS records
  reviewed a while ago, a process of last week's release that waited for a lock.
- *One failure of several.* The third ufw command, the second php-fpm pool, one
  Cloudflare account of two: what has been done must be undone or known.
- *Unreliable delivery.* The terminal's and the job pages' streams break, posts
  fail although they arrived, a request times out beside its late answer.
- *Things that must end.* A job record a page follows, a watcher that every
  panel write wakes, a shell nobody looks at.

`PROJECT.json` has the hazards at their lines, with the properties about each.

## The modules

A definition has the name of the function it stands for where TLA+ allows it.
Every action is one step of the code between two points where another process
may run or this one may die; the guard is the code's condition, and a disjunct
is a way the step can come out. Definitions marked *Changed form* or *Mutant*
are not part of any specification: each is the code with a plausible mistake,
kept beside the right one, and is what a property has been seen to catch.

The platform:

| Module | Models |
| --- | --- |
| `ManagerJobs` | The manager's jobs: a request looks, takes `manager.lock`, looks again, makes the record, starts the unit and answers (`Ask` to `Answer`); a runner begins, waits for the operation lock, works and records its end; repair checks one record after another, its four looks being steps of their own. A record's age is *fresh* (at most five minutes), *old* or *expired*. Reboots and kills come anywhere. |
| `OneJob` | What a job service promises, without locks, units and ages: one live job, states that only move forward, *done* only from the runner. `ManagerJobs` and `GitDeploy` implement it with the refinement `Shown` (the state a page reads) and `Live` (the jobs with a runner that has not recorded its end). |
| `JobWatch` | A page that follows a job: root's worker beside the record, the manager's event stream, the page that reconnects and polls. |
| `NginxTransaction` | Any number of operations, each one edit of some files and perhaps one of a row. The lock they share is SQLite's write lock, which `ROLLBACK` frees before the restored files are tested, or a file lock kept to the end. A file's content is the set of edits it carries. Every command can fail, every process can be killed, and an operation that is over can be tried again. |
| `NewSites` | `sync-sites` with its two path units, and CloudPanel writing a vhost and then a row, or removing them in that order. Rows carry an id, so that a site deleted and added again is another. A path unit does not start a service that is running (`Wakes`). |
| `Update` | An update, its child and the repairs and updates that wait for the operation lock. A process carries the release it was started from (`ver`); the binary, manifest, news record, addon names, units and panel files each have the release they are of. |
| `Conffiles` | The maintenance block of `global_settings`: reconcile's check, read, record and write against `apt-hook pre` and `post` and dpkg. The text is a package version, edited by the operator or not. Repair looks at the flag once, the other operations never, and `pre` takes no lock, so they meet anywhere. |
| `Injection` | The blocks in CloudPanel's templates and the `/addons/` proxy in the panel's vhost, regenerated from a recorded pristine copy, with panel upgrades and the compiled cache. |
| `Lifecycle` | Enabling, disabling, repairing and uninstalling: config files, unit files, what systemd runs of them, the panel's recorded name, the PHP guard. |
| `Gateway` | A signed-in duplex stream through root: the checks before and after the worker starts, the recheck on a timer, back-pressure, every way to end. |
| `GatewayRequests` | A single request: the gate, the verb and whom it is declared for, the process root starts and the three deadlines. |

Sites (one component of an addon each):

| Module | Models |
| --- | --- |
| `Promote` | Stager's promote of files: live, staged, replaced and discarded roots, the preserved configuration and uploads, the record, `rollbackPromote` step by step, and the repair pass. |
| `StagerClone` | A clone from its queueing to its record: site, carried vhost, backup, database and files, the unwinding, and the prune that puts right what a killed runner left. |
| `GitDeploy` | One domain's settings, push-to-deploy URL, deployments, runners and prune, with the two locks. |
| `Instatic` | One instance: container, data, key and schema, the operations that replace them and the archives they take. |
| `MainWP` | Keeping one WordPress site connected to the Dashboard, and withdrawing only what that added. |
| `NewSitePlugins` | The plugins chosen on the new-site form: a job that waits for its site, replaced by a later choice. |
| `WpAutomation` | Putting the cache plugin into WordPress sites, by the pass, by a page's check and for a new site. |
| `WpSignIn` | One-click sign-ins, the gates in front of a site, and the helper's withdrawal. |
| `Maintenance` | Maintenance's files, bypass lists replaced through a stage, repair's prune, Varnish's kept pages. |
| `PanelTweaks` | The switches and images of Theme & Branding, what the templates carry of both, the measurement of the sites' sizes. |

DNS, mail and accounts:

| Module | Models |
| --- | --- |
| `DnsRecords` | Turning the records published at a name into the wanted ones, one call at a time. |
| `DnsReview` | The plan, its digest and its confirmation; new sites held for a review; tracked records of deleted ones. |
| `DnsPass` | One pass over Cloudflare and Mailcow: reach, zone, rules, mail, records, certificates. |
| `DnsRedirects` | A redirect domain: a stand-in site or a rule, and the change from one to the other. |
| `Smtp` | Profiles, sites and granted domains; Postfix's maps, the wrapper's rule, PHP's setting; undo. |
| `CloudflareIps` | Which sites take Cloudflare's traffic alone: the switch, the policy for new sites, kills. |
| `SecurityKeys` | Keys, challenges and tokens, with a request's work before and under the store's lock. |

The machine and the panel:

| Module | Models |
| --- | --- |
| `PhpResources` | Categories of PHP-FPM limits and the pools they are written into. |
| `PoolPorts` | Which accounts reach each pool's port, with php-fpm's reloads beside the switch. |
| `Upkeep` | Automatic updates and login jails: what is changed, what is recorded to put back. |
| `PanelPhp` | The PHP that runs CloudPanel: choice, proof, withdrawal, packages that come and go. |
| `Guards` | Scripts prepended to the panel's pools, Varnish includes, the wrapper around `clpctl`. |
| `VarnishBackend` | Sites' Varnish includes and logs under root's control, with Nginx writing on. |
| `Firewall` | A protocol for each of CloudPanel's rules, in passes against its rebuild of ufw. |
| `Database` | MySQL on this server only: option file, socket drop-in, reload, restart, undo. |
| `PanelEdits` | Files of others edited in place: trusted addresses, phpMyAdmin's rules, the panel's certificate, remote backups, upload progress. |

Four modules put components together for a run. `MCSites` has those of the
second table but `Promote`, `NginxTransaction`, `SecurityKeys` and
`GatewayRequests`; `MCDns` the others of the third and `JobWatch`; `MCBox` those of the fourth, `Injection` and
`Lifecycle`; `MCSessions` has `Terminal` (one session of the manager: state,
ring, deadlines, the attached stream, the last batch taken; and each page's
event stream, last event id, screen, batch numbers and posts on their way) and
`Gateway`. A behaviour is about one `part`, chosen in `Init`, and the others
rest: the components share no state in the code either, apart from the files
that are in both models, so the states of a run are the sum of its parts' and a
property of the group is the conjunction of theirs. In `MCDns` and `MCBox` the
parts' variables are `x1`, `x2`, ..., which each part names by its own.

`PromoteProofs` and `SessionsProofs` have the theorems about the modules they
extend, and so have `AppsProofs` (WordPress Tools, Instatic and Git) and
`SitesProofs` (the other parts and the group) about those of `MCSites`; `ManagerJobs`,
`NewSites`, `Conffiles` and `Update` have theirs at their end.

What is abstracted everywhere: texts and file contents (a set of edits, a
version, a flag), times (an age in two or three steps), wording, and the writing
of a single file, which `lib/atomic-write.ts` makes one rename.

## The runs

| Run | Bounds | States | Checks besides `TypeOK` |
| --- | --- | --- | --- |
| `jobs` | 2 jobs, 2 requests for updates, 1 other operation | 379,260 | `OneRunner`, `OutcomeIsFinal`, `ImplementsOneJob` |
| `jobs_end` | 1 job, 1 request, 1 addon, all three kinds | 11,748 | `EveryJobEnds` |
| `new_sites` | 2 domains, 2 row ids, 1 mishap | 1,358,931 | `CaughtUp`, `SeenWasWorked`, `RowsWatchEnds` |
| `update` | 3 releases, 2 processes, 2 updates, 1 kill | 207,758 | `RollbackRestores`, `RepairConverges` |
| `conffiles` | 3 package versions, kills and refusals | 121,192 | `RecordsHold`, `LeftAlone`, `BlockReturns` |
| `promote` | 2 promotes, 2 kills | 148,036 | `ServesOwnConfig`, `RecordIsTrue`, `RootsGoWithRecords`, `LastRootKept`, `NothingStranded` |
| `sessions` | 2 pages; 2 bytes through a ring of 1, or 2 batches and 1 failed post; a stream of 3 lines | 528,526 | `ScreenWhole`, `TypedInOrder`, `NothingOutlives` |
| `sites` | see below | 2,757,695 | `DoneTogether`, `LeftIsKnown`, `WorksOnItsOwn`, `OneDeployment`, `OthersKept` |
| `dns` | see below | 2,478,461 | `PlansHold`, `TakesItsOwn`, `InItsTurn` |
| `box` | see below | 3,051,267 | `RunsWhatIsSaved`, `OnHoldsOffLeaves`, `ChoicesKept` |
| `closed_to_both` | the firewall, one refused command | ends at 980 | `NeverShut`, violated |
| `lines_lost` | the Varnish backend, one late line | ends at 72 | `CopiedBeforeItGoes`, violated |

Each explores every reachable state within its bounds. `CHECK_DEADLOCK FALSE`
stands where the bounded behaviour really stops: a session ends and its pages
with it, and in the groups every part has its last operation.

*jobs.* Two clicks that both pass the unlocked look are what `manager.lock` is
for, and two jobs are needed for a second to start wrongly. Repair's check is
four steps, and the property that catches it acting on an old look is
`OutcomeIsFinal` rather than an invariant. With only updates asked for, enabling
does not matter; `jobs_end` has the three kinds and so the refusals of
`rejectImpossible`.

*new_sites.* `CaughtUp` says that when the service is at rest an unseen change
is on its way to it. Two ids let a site be deleted and added again. Each
exception is a set of sites, not a licence for the state: `late`, changed after
the last look, which no design with path units closes; `rebuilt`, deleted and
added between a run's read of its row and its look at the vhosts; `dropped`,
unseen or half way as a run was killed or as systemctl would not start the rows
watcher (`cli/new-sites.ts:170-173` warns and goes on). The next look at the
vhosts ends all three. Of the panel it is assumed that a row follows its vhost
within the hour or not at all; one mishap is a kill or a systemctl that fails.

*update.* Three releases with the rename of an addon at the second give updates
and downgrades across it. The rollback's promise to put an addon's name back
excepts a manager the child saw up and its parent sees down (`fell`): the child,
which knew what it renamed, is gone by then.

*conffiles.* Three versions let an upgrade happen over a block recorded from an
older text twice. Operations and upgrades meet at every step. What goes wrong
there in the code is excepted by what happened, not by keeping them apart:
`asked` (systemctl has told the operation that no upgrade has the file, and none
has begun since), `overtaken` (dpkg or the hook changed the text or the record
between its read and its write) and `crossed` (the block in the file was put in
by an operation that was overtaken, or that had not asked while the file was
given back). `BlockReturns` excepts what repair reports as a conflict, a record of a text
that is no longer there, and a text the operator edited.

*promote.* Two promotes are needed for the repair pass to have an older
interrupted record beside a newer one, and two kills for a runner and a prune.
`RecordIsTrue` excepts runners that died or could not write their record, and
a root that something else took while it was missing.

*sessions.* What is printed and what is typed touch only in the state of the
session, so the run explores them in separate behaviours (`PrintsOrTypes`): the
output of both pages through a ring shorter than the output, with a backlog of
one event, and the keys of one page with one failed post beside a second page.
The gateway's stream has three lines, so that one may be read, one piped and one
on the wire, two changes of the session and two of PHP's rewrites, as many as
both looks of the recheck can fall into.

*sites.* Twelve parts. `nginx` has two operations over two files, one of them
shared, with both kinds of lock: a third would only queue. `git` has two
deployments and two requests, `clone` two clones and a kill, `instance` two
writes, keys and a kill, `mainwp` three keys, two edits, three passes, one fault
and a kill at any write; `choose` two choices of one manager; `auto` two ids,
two edits by hand and three passes; `sign` two sites, two roots and two
sign-ins;
`maintenance` two domains, two requests beside each other and one mishap;
`tweaks` two administrators, two slots and images and two measuring jobs; `keys`
two keys, one of which counts, two requests and two accounts of one name;
`requests` a request with each of the accesses but those that differ only in the
roles they name, of an account with the role that may do all or of one that may
not, with two changes around it. In each, the second of a kind is
what a stale look or a leftover needs, and one kill is enough because the
operations that follow find what it left.

*dns.* Seven parts. `records` has every start of up to three published records
and two wanted rows; `review` one site and what one edit may change under a
confirmation; `stand` two specifications and three panel ids; `pass` two sites,
two accounts and two connections, one of which reaches both accounts, with one
fault; `mail` two sites in the panel's order and one granted domain;
`cloudflare` two domains and three runs; `watch` one line of log and one mishap.

*box.* Eleven parts: `database`, `pools`, `upkeep`, `php`, `ports`, `guards`,
`backend`, `firewall`, `pages`, `lifecycle` and `edits`, each with two or three
operations, one fault or kill (two in `lifecycle`) and the changes CloudPanel or
the operator makes beside them. The firewall has three ranges, two of which are
one port to ufw; the pages have two addons that share a file, a version of
CloudPanel without the anchor, and one upgrade or rewrite of CloudPanel's, which
may come beside any step of an operation.

What the conjunctions are of:

| Property | Its parts |
| --- | --- |
| `DoneTogether` | `NginxTransaction`: a transaction that says done has its row and every file; what is done is served; what is served is on disk once all are over. |
| `LeftIsKnown` | What a failed, killed or withdrawn operation leaves: a transaction's files as found, a failed clone unwound, an instance's last write kept, a password setting and a Dashboard record accounted for, no sign-in helper after a withdrawal, no live page in Varnish under maintenance, named images served and settings rendered, no process for a request that was told it took too long. |
| `WorksOnItsOwn` | A clone never on the live database, a container on the key and data it was stopped with, chosen plugins with their own uploads into their own site, a bypass list with the addresses last given, one measurement at a time, keys of the account they were made for, a request running what its caller may behind a gate that says what was so. |
| `OthersKept` | No step takes a committed edit, a site at the target, an instance not archived, a connection, a plugin taken out by hand, an address of a list, a live site's maintenance, another tab's setting, a newer measurement; no removed key signs in, an answer is taken once, counters go up. |
| `OneDeployment` | `GitDeploy` implements `OneJob`. |
| `PlansHold` | A plan's calls are accepted in their order; tracked records are of enforced sites; a stand-in left is a known one; attempts are bounded; mail runs what is saved, each site through its own profile; a site seen was switched or chosen for; a page shows how its job ended. |
| `TakesItsOwn` | No record outside the profile or unconfirmed, no site but an own stand-in, no sender, no chosen profile, no site but a new one switched unasked. |
| `InItsTurn` | No second zone, only the chosen zone, rules before records, held sites wait, certificates for served sites; a page never goes back. |
| `RunsWhatIsSaved` | php-fpm's limits, ufw's rules, MySQL's listeners, the panel's PHP, templates and proxy, Nginx's site files, guards with their scripts, each edited file; a repair that ended has every unit running. |
| `OnHoldsOffLeaves` | No pool's port open while isolation is on; what is off left nothing; what was replaced can be put back; a name the panel has is spared; a failed uninstall leaves the others running. |
| `ChoicesKept` | No step undoes a site's category, a protection taken away, a stopped server, a unit, a line of a log, another addon's block, a certificate or package source of the operator's. |

## Fairness

No property but the liveness ones needs any. The assumptions, with what
justifies them:

- *jobs_end*: a runner that lives takes its steps, a unit becomes visible, a
  request ends (weak); records age and the reconcile timer, which fires every 15
  minutes with `Persistent`, gets the lock one day and a pass is not cut at the
  same step each time (strong, since kills and reboots may interrupt it).
  Requests and other operations are not assumed to stop coming.
- *new_sites*: the service runs once started, the panel goes on writing (its
  monitoring does, every minute), an hour passes, and the database can be read
  again and again.
- *update*: an operation goes on, the timer starts repairs and does not find the
  lock taken for its whole time limit for ever, a restarted manager comes up now
  and then.
- *conffiles*: operations, upgrade runs and the six hours of the flag end,
  repairs recur, and Nginx accepts a change now and then.
- *promote*: a living runner goes on, repair recurs, and sooner or later a pass
  comes five minutes after a runner died.
- *sessions*: timers fire, the recheck of an attached page's sign-in runs, the
  manager learns of a stream nobody reads (its writes fail), and the gateway's
  process, sockets and timers go on. Nothing is assumed of the browser: pages
  may stop anywhere.

## What is proved

TLAPS proves what follows for every value of the constants that meets the
assumptions: any number of jobs, requests, sites, releases, pages, operations
and kills. The assumptions say what a constant is and no more: `KindsKnown` and
`HoldersDistinct` (`ManagerJobs`), `JobsCounted` and `KillsCounted` (`Promote`),
`MaxIdsIsNumber` and `MaxMishapsIsNumber` (`NewSites`), `VersionsAreNumbers`,
`NobodyIsNoProc` and `BoundsAreNumbers` (`Update`), `PackagesExist` and
`FlagsAreFlags` (`Conffiles`), and the `ConstantsOK` of the parts of `MCSites`
and `MCSessions`, which these two assume by the name `Constants`. TLC evaluates
each on the runs' values.

| Module | Theorem | States |
| --- | --- | --- |
| `ManagerJobs` | `TypeCorrect` | `Spec => []TypeOK` |
| | `OneRunnerHolds` | at most one runner that has not recorded its end |
| | `RunnerHasRecordHolds` | its record is unfinished, and a second click would follow it |
| | `OutcomeIsFinalHolds` | an outcome changes only by expiry |
| | `ExpiryTakesFinishedOnlyHolds` | retention takes no unfinished record |
| | `Implementation` | `Spec` implements `OneJob!Spec` |
| `PromoteProofs` | `TypeCorrect` | `Spec => []TypeOK` |
| | `ServesOwnConfigHolds` | the live root never has the staging copy's configuration |
| | `RootsGoWithRecordsHolds` | a replaced root goes no later than its record |
| | `LastRootKeptHolds` | the last root of a site with an interrupted promote is not dropped |
| | `RecordIsTrueHolds` | *done* and *failed* say what is at the live root |
| | `UploadsOutlivePromotesHolds` | no step takes the visitors' uploads off the disk unasked: the safety half of `NothingStranded` |
| `NewSites` | `TypeCorrect`, `CaughtUpHolds`, `SeenWasWorkedHolds` | the three invariants of `new_sites` |
| `Update` | `TypeCorrect`, `RollbackRestoresHolds` | the two invariants of `update` |
| `Conffiles` | `TypeCorrect`, `RecordsHoldAlways`, `LeftAloneAlways` | the two invariants of `conffiles`, and `LeftAlone` |
| `SitesProofs` | `TransactionsHold`, `CommittedEditsStay` | what `NginxTransaction` promises, of its own specification |
| | `DoneTogetherHolds` | `DoneTogether` of the `sites` run |
| | `MaintenanceIsWhole`, `MaintenanceLeavesTheRest` | `LastListWhole`, `NoLivePageKept`, `AddKeepsRestStep`, `LiveStateKeptStep` |
| | `CloneIsItsOwn`, `CloneLeavesOthers` | `DoneIsItsOwn`, `FailedIsUnwound`, `OthersKeptStep`, `DoneKeepsItsVhostStep` |
| | `TemplatesCarryWhatIsSaved`, `TweaksLeaveTheRest` | `NamedIsServed`, `PageCarriesWhatIsSaved`, `OneMeasurement`, `ChangesOnlyItsOwnStep`, `NewestSizesStep` |
| | `KeysOfTheirAccountHold`, `KeysSignInOnce` | `KeysOfTheirAccount`, `RegisteredSignsInStep`, `AcceptedOnceStep`, `CountsUpStep` |
| | `RequestsRunTheirOwn` | `RunsWhatIsTheirs`, `LateIsOver`, `GateSaysTrue` |
| | `LeftIsKnownHolds`, `OthersKeptHolds` | `LeftIsKnown` and `OthersKept` of the `sites` run |
| | `WorksOnItsOwnHolds`, `SitesTyped` | `WorksOnItsOwn` and `TypeOK` of the `sites` run |
| `AppsProofs` | `OneAtATime` | `GitDeploy` implements `OneJob`, of its own specification |
| | `OneDeploymentHolds` | `OneDeployment` of the `sites` run |
| | `ChoicesAreTheirOwn` | `LaterCounts`, `IntoOwnSite` |
| | `AutomationTyped`, `AutomationLeavesTheRest` | `NeverPutBackStep`, `SettingKeptStep` |
| | `SignInLeavesNone` | `WithdrawnLeavesNone` |
| | `InstanceLosesNothing`, `InstanceDeletesItsOwn` | `NothingLost`, `RunsItsOwnData`, `DeletesItsOwnStep` |
| | `ConnectionIsKnown`, `CleanupUndoesItsOwn` | `SettingIsAccounted`, `MadeIsKnown`, `LeavesOthersStep` |
| `SessionsProofs` | `SessionsTyped`, `PagesShowAll`, `KeysReachTheShell` | the three invariants of `sessions` |

None of the invariants is inductive as it stands. What each needs beside it is
what the code relies on without saying so:

**ManagerJobs** (`IInv`).

- `LockHeld`: from the second look to the reply, the request holds
  `manager.lock`;
- `CreatingAlone`: while a request makes a record, that record is fresh, nothing
  runs it yet, and *no other runner is alive*: this is what the second look
  established, and it stays true because every runner needs a unit, a unit comes
  from a request under the lock, and a runner's record would have been seen;
- `RunnerCovered`: a live runner has a record in the state that fits its place,
  and a unit; a unit not visible yet has a fresh record. This is the argument
  for the five minutes in `activeManagerJob` and `pruneJobs`: either the unit is
  visible or the record is young;
- `CheckSound`: what repair has learnt of the record it checks is still true
  when it acts. The age is read after the unit, and a record that a runner
  writes to becomes fresh. Were the two looks in the other order, `"mark"` could
  be reached over a live runner.

**Promote.** `RunnerRecorded`: wherever the runner can still switch or unwind,
its record is unfinished, so that the prune, which takes no lock, acts on other
roots than the runner's. `StepsSound`: the staged release has its configuration
before the rename and not after, and what the unwinding would put back is there.
`LastRootSafe`: after the prune's first pass a missing root means that no expired
record is of an interrupted promote, or that a younger one's root is still
there; this is why the two passes are in that order. `RecordSound` says, place
by place, how far the roots are from those the promote found, on the way there
(`GoesForward`) and back (`ComesBack`); `UploadsSound` and `PlacesFree` where
uploads may be, and that a root is moved to a free path.

**NewSites.** `SinceRead` bounds what may have changed between the read of the
rows and the look at the vhosts, and `Settled` what may have once a look found
nothing in flight: only rows of sites it knows, or of the excepted ones. `Worked`
carries what the hooks have had from the read to the record.

**Update.** `FoundIsKept`: what an update found is in place until replaced, then
kept aside, and comes back one by one. `NamesAreKept`: the addon's name stays
until the child renames, and the child that renamed puts it back unless it saw
the manager up. `Commands`: the lock is held by a process that runs a release.

**Conffiles.** `LookStands`: who has asked is not at work on a file that is given
back. `PreHolds` and `RunHasFiles`: what `pre` is about to forget is out of the
file, and what it could not take out is not as recorded, or crossed.
`ReadIsThere`: unless overtaken, an operation writes over the text it read, with
its record in place.

**GitDeploy** (`GitInv` in `AppsProofs`). `OneUnfinished`, `RunsItsRecord` and
`StartsItsRecord`: the record alone keeps a second deployment out. The lock,
which the request drops before the unit starts, is not in the invariant at all,
which is what the code's comment claims. Each step is then shown to be a step of `OneJob` or a stutter.

**NginxTransaction** (`IInv` in `SitesProofs`). `Locked`: who has written files
holds the lock, so it works alone. `WrittenOverRead`: it writes over what it
read, so that each file is its backup with or without its edit. `PutBack`:
nobody can add or take its edit once it is rolled back. `LoadedFollows` says what
Nginx runs against the disk, as long as no operation began inside another's
recovery (`crossed`).

**Maintenance** (`MaintenanceInv`). `OneReplacing` and
`ListIsTheLast`: whoever has taken a scope's lock is alone at its list, and what
it will put in place is the list it read with the change it was asked for.
`PruneSparesNew`: what the prune has still to remove was not the panel's when it
read the panel. `PagesOfPresent`: Varnish keeps pages of present sites only.

**StagerClone** (`CloneInv`). `CloneRecordFollows` ties the record to the place
of the run; `RunKnowsItsOwn` says which of what stands at the target is the
run's to remove; `SecretsLeftAt` at which places copies of the live site's
secrets may be left, and `CopiedFiles` what the copied files still point to.

**PanelTweaks** (`TweaksInv`). `ReadIsSaved`: what a request read under the
settings' lock is still what is saved when it writes. `CarriedOrDue`: the
templates carry what is saved, or a rendering that has read it is under way, or
a request is about to ask for one, or `behind` says that nobody did. `OneSweep`:
who sweeps holds the disk with the newest sweep begun, and a job that waits
remembers sizes no newer than those on file.

**NewSitePlugins** (`ChooseInv` in `AppsProofs`). `OneWaits` and `InstallersCount`: of the
choices that were not replaced one at most waits, and each running installer
goes by its own. `TheirUploads`, `PluginsWhole`, `ChoicesAreDisjoint`: a
choice's uploads are its own, whole, and of its user, but for those in
`givenBack`, which a form took from an installer as it replaced once more a
choice that had not noticed yet.

**WpAutomation** (`AutomationInv`). `CopyIsCurrent`: the state a pass has read
is the one on disk, which only the holder of the lock changes. `SeenIsRecorded`:
a plugin a site has had was seen, by the record before a pass looks and by the
pass before it acts.

**WpSignIn** (`SignInInv`). `Withdraws`: while a withdrawal runs, a helper is
only in a place it has still to look at, failed at, or never looks at; `SignsIn`: a sign-in past
its first step means that nobody withdraws.

**Instatic** (`InstanceInv`). `VerbOfPlace` and `MainAway` tie the container to
the place of the operation; `SetAside`: by the time the data may be lost, the
last write is in a copy with its key; `AsFound`: what the operation found is in
the copy it set aside, in the old storage or in place, and at the old
container's return it is back; `ComesBack`: a restore's own copy goes with its
undoing, so the last write must be elsewhere by then; `NoneLater`: no copy is
later than the last write.

**MainWP** (`ConnectionInv`). `SettingIsKnown` and `ClaimIsSaved`: the setting a
snapshot holds is the operator's, and an enrolment has its snapshot and its token
on disk before it changes anything. `SeenIsOurs`: what a cleanup takes from the
child still has the Security ID it read. The others hold until an operator
changes something (`Quiet`): the Dashboard's record is the addon's, what a pass
has read of it is still so, and the record on disk, that of the pass or a
connection to be retired names it (`RecordIsKnown`).

**SecurityKeys** (`KeysInv`). `EntriesOwned`: a registered key is in one entry
only, of the account whose number is in its handle. `Spending` and `Storing`:
who has spent its challenge holds the store's lock, and the key is as it was
looked up under it; this is what the second look in `signIn` is for. `Counted`:
the count on file is no lower than any accepted since the registration.
`TakenIsSpent`: an answered challenge is in the list of the spent until it is
over, when nobody may answer it any more.

**GatewayRequests** (`RequestsInv`). `RequestGoes` ties a request to its
connection, its process and its age: a process has met its own deadline before
the manager gives up. `LookIsOfOne`: what root has read of a session file is of
the request it looks for, and the lifetime it remembers is the one of the file's
stamp. `GhostsSince` and `GhostsOfLook` say what the history of a request has of
the present and of what root has read, which the truth of the gate's answer
comes from.

**Terminal** (`ShellInv` in `SessionsProofs`). `Queued`: each queued event starts
where the one before it ended, the first where its page is, and what the session
is attached to ends where the output does. `ShownTo`: a page's screen ends at the
id it will ask for. `Posts`, `Taken` and `Replied`: a post carries the batch its
page waits for or an older attempt, the last batch taken is the last typed, and a
page told *ok* had its batch typed.

**Gateway** (`StreamInv`). `Flow`: lines read, in the worker's stdin, held, on
the wire and not yet sent follow one another in this order and are all there is.
`Looks`: a session that never lapsed is read as one unless PHP is rewriting it.

Each invariant was checked by TLC on its run's bounds before it was proved. The
proofs have a lemma for each conjunct or action, and case analysis over `Next`;
theorems about a group follow from those about its parts (`PartsHold` in
`SitesProofs`), since all but one rest.

## What is only model-checked

- Everything temporal with fairness, which the proof system does not reach:
  `EveryJobEnds`, `RowsWatchEnds`, `RepairConverges`, `BlockReturns`,
  `NothingOutlives`, and of `NothingStranded` that a moved root comes back.
- The group properties `PlansHold`, `TakesItsOwn`, `InItsTurn`,
  `RunsWhatIsSaved`, `OnHoldsOffLeaves` and `ChoicesKept`, and the `TypeOK` of
  `MCDns` and `MCBox`: each is a conjunction over up to eleven
  components, and a theorem about it needs an invariant of every one.
- Properties of data that a fold or a recursion computes (the plan of
  `DnsRecords`), which would need induction.

## Disagreements with the documentation

Two runs end with a trace in which the code does other than its comment or
decision record says:

- `closed_to_both` / `NeverShut`. "Additions first, so a port moving from TCP to
  UDP is never closed to both" (`addons/system-tweaks/firewall.ts:289`). The
  plan has that order, but lines 351-354 run every command whatever the one
  before it answered: with the addition refused, the deletion still closes the
  port until a later pass.
- `lines_lost` / `CopiedBeforeItGoes`. The sync that takes a Varnish backend back
  removes a log "once it has copied all of it"
  (`docs/decisions/system-tweaks.md:586-587`). A worker that still has the log
  open writes between the copy and the removal
  (`addons/system-tweaks/varnish-backend.ts:296`), and these lines go with the
  file.

Seen while modelling, each a narrow window, and left out of the properties by a
named exception rather than given a run:

- A site deleted and added again at its domain between the read of the rows and
  the look at the vhosts is not seen until something else wakes the service
  (`cli/new-sites.ts:158`; the comments at 53 and 131 say that it is): `rebuilt`.
  Nor is one whose run was killed, or whose rows watcher systemctl did not start
  (`cli/new-sites.ts:170`): `dropped`.
- A repair past its check of the flag when `apt-hook pre` runs, and any enable,
  disable, update, install or uninstall, which do not look at it, write the block
  back during the upgrade (`cli/repair.ts:31`, `cli/toggle.ts:86`,
  `cli/update.ts:45`, `cli/uninstall.ts:106`, against `cli/conffiles.ts:59`):
  `asked`. If the hook forgets the record meanwhile the block stays without one,
  and if dpkg installs a text meanwhile the older one is written over it:
  `crossed`, `overtaken`.
- Withdrawing the sign-in helpers walks the sites that resolve, silently without
  those whose account is missing or shared or whose recorded root is unusable,
  and looks under the root that is recorded now (`addons/wp-tools/action.ts:775-790`,
  `342-385`): `skipped`.
- A form that replaces a choice whose job has not noticed yet that it was
  replaced before gives the choice's uploads back a second time, from under the
  installer that has them by now (`addons/wp-tools/action.ts:1042-1066`):
  `givenBack`.
- A rewrite of a stand-in killed between the vhost and the record, or whose
  record cannot be written, serves a redirect that no record tells of
  (`addons/dns/stand-in.ts:161, 167`): `cutOff`.
- A record beside a DKIM key that is waited for is not taken for it and is
  created once more (`addons/dns/records.ts:266`): `BesideWaiting`.
- The pass replaces the whole list of who may send by one it read a call before,
  so what the operator adds between is lost (`addons/dns/engine.ts:893-897`,
  `addons/dns/mailcow.ts:114`): `late`.
- A pass that apt-cache does not answer takes the release for none, so a failure
  on record does not match and the panel is restarted on the release that failed
  (`addons/system-tweaks/panel-php.ts:213, 447-448`): `Untold`.
- A source edited between the second look and the write is overwritten
  (`addons/system-tweaks/backup-compression.ts:126, 128`): `op.late`.
- A firewall pass waits for a rebuild of CloudPanel's for a minute at most and
  plans on what it finds. Rules of a pass that was killed, that a rebuild crossed
  or whose withdrawal was refused have no record (`addons/system-tweaks/firewall.ts:351`):
  `stray`. A change while the watcher's service runs starts nothing
  (`cli/provision.ts:735`), so a rebuild that ends after its last look waits for
  the next change or repair: `due`.
- CloudPanel writes its templates and its vhost under no lock, and a text it
  replaces between an operation's look and its write is written over by the older
  one (`cli/inject.ts:233, 288, 674, 728`): `overtaken`. The next write of
  CloudPanel's ends it.
- An operation killed between the write of a template and the purge of the
  compiled pages (`cli/inject.ts:288`, `cli/reconcile.ts:95`), between the vhost
  and its reload (`cli/inject.ts:728, 745`), or between the second and the third
  state file of a template (`cli/inject.ts:230-231`) leaves files that later runs
  find right: the page stays compiled from the old text, the old vhost loaded,
  and a disable leaves the block: `missed`.
- A repair logs a unit that systemctl refuses and goes on
  (`cli/provision.ts:1102`), and a failed uninstall only warns when what it
  stopped cannot be brought back (`cli/uninstall.ts:76`): `refused`, `warned`.
- The panel renamed while an addon is enabled, or an operation that ends with no
  addon enabled before it has removed the record (`cli/toggle.ts:170`,
  `cli/uninstall.ts:95`), leaves the name on record the old one: `stale`.
- A promote killed between the rename of the live root and the record of it, or
  between the two renames of an unwinding, leaves the site without a root, and
  the repair pass looks only for records that say *moved*
  (`addons/stager/action.ts:2505, 2406`, against `docs/decisions/stager.md:108`):
  `NothingStranded` promises the return where the record was written.
- A session remembers the last batch of whichever page typed last, so a retry
  that another page's batch overtook is typed twice
  (`addons/terminal/app/sessions.ts:450`, against 147): `TypedInOrder` is of
  batches no other page's come between.

## Limits known and not checked

The platform:

- `ROLLBACK` frees SQLite's lock before the restored files are tested and
  reloaded (`cli/nginx-transaction.ts:176`; `crossed` in `NginxTransaction`).
- Operations on files without a row or `alwaysValidate` do not reload on the
  retry after a kill between write and reload. CloudPanel itself writes vhosts
  under no lock of ours.
- A baseline recorded before a refused transaction stays recorded
  (`cli/inject.ts:1052`), and an operator who edits `global_settings` between
  reconcile's read and its write loses the edit.
- A conffile with no pending upgrade raises no flag, so a package that becomes
  due during the run finds our block (`cli/conffiles.ts:52`).
- After a rollback whose restart failed, repair does not restart a manager of
  the other release that is up (`cli/repair.ts:80`). A process that waited for
  the lock acts and reports by its own version (`cli/update.ts:82`). The child
  of an update whose `currentArtifactsMatch` fails keeps the new binary aside as
  the previous one (`cli/update.ts:98`). A kill inside `migrateOldAddonNames` is
  not undone (`cli/addons.ts:58`).
- A pass killed after it has started the manager and the timer and before the
  watchers (`cli/provision.ts:1014-1033`) leaves a box that counts as
  provisioned, although the comment at 1002 says that it does not.
- The PHP guard killed between writing its drop-ins and the reload is never
  loaded by later repairs; repair reads the guard's opt-out without the settings
  lock.
- Gateway: the gate and the job stream's recheck go by one read of a session
  file PHP may be rewriting; a request queued on a down gateway's socket may
  start after the manager gave up.
- A page that polls a pruned job, or after its session ended, polls for ever
  (`lib/assets/job-watch.client.js:131-146`).
- A closing terminal page's DELETE that arrives after another page has attached
  ends the session five seconds later (`addons/terminal/app/sessions.ts:462`).

Sites:

- A promote's record can say *failed* with the new code live if the write of
  *done* fails (`addons/stager/action.ts:2690`). Uploads a killed runner had not
  moved go with the replaced root after fourteen days, and uploads made into the
  new root before the move are replaced (`addons/stager/action.ts:2387`).
- Git's `config` is read, changed and written without a lock.
- Maintenance: a site created again at its domain may inherit or lose its
  predecessor's state.
- Panel Tweaks: `writeChoice` stores every key although only those somebody
  moved are to be stored; a switch saved whose rendering failed is not rendered
  by saving it again (`addons/panel-tweaks/action.ts:733-749`) until repair; two
  tabs may both ask for the certificate; an old image is removed before the
  templates are rendered again; a site created again shows its predecessor's
  sizes until the next sweep; the ssl-installed handler of `sites.client.js`
  links a badge to a site named *undefined*.

DNS, mail and accounts:

- DNS: a kill between the adoption of a new site and its hold
  (`addons/dns/action.ts:580-598`) lets the next pass write all of its records
  without a review; one between `policy.json` and `managed.json` leaves the
  second behind.
- Cloudflare IPs: a killed "set on" leaves the site seen but off; switching the
  policy on while it is on takes unprotected new sites as seen.
- Security Keys: a request that waited for the lock past its challenge's end
  goes by its start time; tokens name an account by its name only. A key that is
  removed and registered again starts its count anew, so `CountsUpStep` is of
  one registration.
- The gate reads a session's file, the lifetime and the account one after the
  other, so whom it lets in had each at some time since the request came and not
  all three at one: `GateSaysTrue` says it so.

The machine:

- MySQL: a start or stop by the operator during a change is overridden, since the
  change goes by the units it saw (`addons/system-tweaks/database.ts:562-564`).
  A change that finds its option file there with the server down answers *done*
  without looking whether another file wins over it, though the change that
  wrote it was killed before it looked: `unchecked` in `Database`.
- Firewall: `setRuleProtocol` returns early for a protocol that is already on
  record (`addons/system-tweaks/firewall.ts:422`), also when the rule it was for
  has just gone and the next pass forgets it: a rule saved after that pass is
  TCP (`LeftBehind` in `Firewall`).
- A kill between enabling apt's timers and recording them leaves them enabled
  when updates are switched off (`addons/system-tweaks/action.ts:718-723`).
- php-fpm's hook reads whether pools are isolated and not whether the addon is on
  (`addons/system-tweaks/action.ts:830-837`): a reload under way as the addon is
  disabled may load the table again.
- A sync that read the rows before CloudPanel created a site takes the new log
  directory for a deleted site's (`addons/system-tweaks/varnish-backend.ts:463`).
- The panel's certificate: a run killed between putting a pair in place and
  storing it leaves one taken for the operator's own and never renewed
  (`addons/system-tweaks/panel-cert.ts:228-236`); an operator's pair put in
  place between the look and the swap is overwritten.
- `real-ip.ts` puts back a text read before it took Nginx's lock. `updates.ts`
  takes apt's main file to be read first and does not see the block form
  `APT::Periodic { ... }`; its `fnmatch` differs from Python's for `[!]...]` and
  `[^...]`.

## Not modelled

The pty helper, the download and attestation of releases, views, menus and
previews, build tools (parsing, cryptography, rendering, foreign calls); how a
vhost or a PHP session is parsed; Stager's promote of an Instatic site and its
copying of files and databases; the scheduled plugin jobs of WP Tools; the
budget of PHP Resources; `nginx.conf`, the second conffile. `PROJECT.json` lists
every component with its status and what of it is left out.

## Plan

Everything in the tables above is modelled and checked. What is left to model:
the tables of Panel Tweaks' Sites page and its automatic certificates, WP Tools'
scheduled jobs, the status page of automatic updates, and the parts
`PROJECT.json` names under each component.
