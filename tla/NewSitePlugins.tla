--------------------------- MODULE NewSitePlugins ---------------------------
(***************************************************************************)
(* WordPress Tools (addons/wp-tools/action.ts, new-site-plugins.ts): the   *)
(* plugins chosen on CloudPanel's new-site form.  A choice is a job that   *)
(* waits for its site; the form may come back and be submitted again, and  *)
(* the later choice takes the place, and the uploads, of the earlier.      *)
(*                                                                         *)
(* One domain; a site's id stands for its creation time.  CloudPanel logs  *)
(* a creation before it puts WordPress there.  A job's last look, at the   *)
(* clock or at its WordPress, is one step with its end, and the look at an *)
(* upload with what is done to it: nothing is awaited between them.  A job *)
(* that dies is told failed by the next prune: one step here.              *)
(***************************************************************************)
EXTENDS Naturals, Sequences, FiniteSets

CONSTANTS MaxChoices, MaxMade,   \* bounds
          Managers,    \* site managers; "admin" is the administrator
          Uploads

VARIABLES place, made, \* the domain's row in the panel; ids used
          events,      \* CloudPanel's log: who created each WordPress site
          uploads, choices,
          chooser,     \* the `new-site` action under way, which holds the plugins lock
          givenBack,   \* ghost: uploads a form took from a choice that was not its to replace
          took         \* ghost: whether a job installed into another's site, or missed an upload

chooseVars == <<place, made, events, uploads, choices, chooser, givenBack, took>>
panelOfChoice == <<place, made, events>>

(* A bound on the sites.                                                   *)
ConstantsOK == MaxMade \in Nat

Choices == 1..MaxChoices
Users == Managers \cup {"admin"}
Places == [id : 0..MaxMade, by : Users, logged : BOOLEAN, wp : BOOLEAN]
Staged == [parts : 0..2, plugin : BOOLEAN, claimed : BOOLEAN]
ChoiceRecords == [state : {"none", "running", "ended"}, by : Users, ups : SUBSET Uploads, after : 0..MaxMade,
                  log : Nat, superseded : BOOLEAN, phase : {"wait", "installing"}]
Choosers == [at : {"idle", "claim", "start"}, by : Users, ups : SUBSET Uploads]
NoPlace == [id |-> 0, by |-> "admin", logged |-> FALSE, wp |-> FALSE]
NoUpload == [parts |-> 0, plugin |-> FALSE, claimed |-> FALSE]
NoChoice == [state |-> "none", by |-> "admin", ups |-> {}, after |-> 0, log |-> 0, superseded |-> FALSE, phase |-> "wait"]
NotChoosing == [at |-> "idle", by |-> "admin", ups |-> {}]

Active(j) == choices[j].state = "running"
Counts(j) == Active(j) /\ ~choices[j].superseded
(* waitingNewSiteJobs: what a submission by this user replaces.            *)
Replaced(by) == {j \in Choices : Active(j) /\ choices[j].phase = "wait" /\ by \in {"admin", choices[j].by}}
Released(js) == UNION {choices[j].ups : j \in js}
Without(us) == [u \in Uploads |-> IF u \in us THEN NoUpload ELSE uploads[u]]
Claim(us, yes) == [u \in Uploads |-> IF u \in us /\ uploads[u].parts > 0 THEN [uploads[u] EXCEPT !.claimed = yes] ELSE uploads[u]]
Ends(j) == choices' = [choices EXCEPT ![j] = [NoChoice EXCEPT !.state = "ended"]]
(* CloudPanel's newest creation since the choice, if it logged one.        *)
Creators(j) == IF Len(events) > choices[j].log THEN {events[Len(events)]} ELSE {}

Init == /\ place = NoPlace /\ made = 0 /\ events = <<>> /\ uploads = [u \in Uploads |-> NoUpload]
        /\ choices = [j \in Choices |-> NoChoice] /\ chooser = NotChoosing /\ givenBack = {} /\ took = {}

-----------------------------------------------------------------------------
(* CloudPanel.                                                             *)
Elsewhere == UNCHANGED <<uploads, choices, chooser, givenBack, took>>
CreatePlace == /\ place.id = 0 /\ made < MaxMade /\ made' = made + 1 /\ UNCHANGED events /\ Elsewhere
               /\ \E by \in Users : place' = [NoPlace EXCEPT !.id = made + 1, !.by = by]
LogPlace == /\ place.id # 0 /\ ~place.logged /\ events' = Append(events, place.by)
            /\ place' = [place EXCEPT !.logged = TRUE] /\ UNCHANGED made /\ Elsewhere
WordPressComes == place.logged /\ ~place.wp /\ place' = [place EXCEPT !.wp = TRUE] /\ UNCHANGED <<made, events>> /\ Elsewhere
DeletePlace == place.id # 0 /\ place' = NoPlace /\ UNCHANGED <<made, events>> /\ Elsewhere

-----------------------------------------------------------------------------
(* Uploading, under the plugins lock; taking one back off the form, which  *)
(* takes no lock; and prune, for one nobody took in time.                  *)
ChooserFree == chooser.at = "idle"
Upload(u, new) == uploads' = [uploads EXCEPT ![u] = new] /\ UNCHANGED <<panelOfChoice, choices, chooser, givenBack, took>>
stageUploadPart(u) == /\ ChooserFree
                      /\ \/ uploads[u].parts = 0 /\ Upload(u, [NoUpload EXCEPT !.parts = 1])
                         \/ /\ uploads[u].parts = 1 /\ ~uploads[u].plugin /\ ~uploads[u].claimed
                            /\ \/ Upload(u, [uploads[u] EXCEPT !.parts = 2, !.plugin = TRUE])
                               \/ Upload(u, NoUpload)   \* a zip that is not a plugin
discardUpload(u) == uploads[u].parts > 0 /\ ~uploads[u].claimed /\ Upload(u, NoUpload)
(* A day unclaimed; two days claimed, more than an action or a job takes.  *)
pruneUploads(u) == /\ uploads[u].parts > 0 /\ Upload(u, NoUpload)
                   /\ uploads[u].claimed => ChooserFree /\ \A j \in Choices : ~Active(j)

-----------------------------------------------------------------------------
(* recordNewSite: everything that can refuse first, then the earlier       *)
(* choices give way and their uploads come back, then these are claimed.   *)
(* A choice of nothing only clears; Submit's ups = {} stands for one with  *)
(* WordPress.org plugins alone.  A choice replaced before that has not     *)
(* noticed yet is replaced again, with the uploads it named: also those    *)
(* that the choice in its place is installing by now.                      *)
stagedUploads(us, releasing) == \A u \in us : uploads[u].plugin /\ (uploads[u].claimed => u \in releasing)
GiveWay(js) == /\ choices' = [j \in Choices |-> IF j \in js THEN [choices[j] EXCEPT !.superseded = TRUE] ELSE choices[j]]
               /\ givenBack' = givenBack \cup {u \in Released(js) : \E k \in Choices \ js : Counts(k) /\ u \in choices[k].ups}
Submit(by, us) ==
  /\ ChooserFree /\ place.id = 0 /\ (by = "admin" \/ us = {}) /\ stagedUploads(us, Released(Replaced(by)))
  /\ GiveWay(Replaced(by)) /\ uploads' = Claim(Released(Replaced(by)), FALSE)
  /\ chooser' = [at |-> "claim", by |-> by, ups |-> us] /\ UNCHANGED <<panelOfChoice, took>>
Clear(by) == /\ ChooserFree /\ GiveWay(Replaced(by)) /\ uploads' = Without(Released(Replaced(by)))
             /\ UNCHANGED <<panelOfChoice, chooser, took>>
claimUploads ==
  /\ chooser.at = "claim" /\ UNCHANGED <<panelOfChoice, choices, givenBack, took>>
  /\ IF stagedUploads(chooser.ups, {}) THEN uploads' = Claim(chooser.ups, TRUE) /\ chooser' = [chooser EXCEPT !.at = "start"]
     ELSE chooser' = NotChoosing /\ UNCHANGED uploads
startWpJob(j) ==
  /\ chooser.at = "start" /\ choices[j].state = "none" /\ \A k \in 1..(j - 1) : choices[k].state # "none"
  /\ chooser' = NotChoosing
  /\ choices' = [choices EXCEPT ![j] = [NoChoice EXCEPT !.state = "running", !.by = chooser.by, !.ups = chooser.ups,
                                                        !.after = made, !.log = Len(events)]]
  /\ UNCHANGED <<panelOfChoice, uploads, givenBack, took>>
StartRefused == /\ chooser.at = "start" /\ uploads' = Claim(chooser.ups, FALSE) /\ chooser' = NotChoosing
                /\ UNCHANGED <<panelOfChoice, choices, givenBack, took>>
ChooserDies == ~ChooserFree /\ chooser' = NotChoosing /\ UNCHANGED <<panelOfChoice, uploads, choices, givenBack, took>>

-----------------------------------------------------------------------------
(* A choice's job.                                                         *)
Job == UNCHANGED <<panelOfChoice, chooser, givenBack>>
Running(j, phase) == choices[j].state = "running" /\ choices[j].phase = phase
(* Its `finally`: a replaced job's uploads went to the one in its place.   *)
Done(j) == Ends(j) /\ uploads' = Without(choices[j].ups) /\ UNCHANGED took /\ Job
Superseded(j) == Ends(j) /\ UNCHANGED <<uploads, took>> /\ Job
AwaitSite(j) == /\ Running(j, "wait") /\ place.id = 0
                /\ \/ choices[j].superseded /\ Superseded(j)
                   \/ ~choices[j].superseded /\ Done(j)
(* With a phase written without the look at what the lock kept waiting.    *)
beginUnlooked(j) == /\ Running(j, "wait") /\ place.id > choices[j].after
                    /\ choices' = [choices EXCEPT ![j].phase = "installing"] /\ UNCHANGED <<uploads, took>> /\ Job
begin(j) == /\ Running(j, "wait") /\ place.id # 0 /\ ChooserFree
            /\ \/ choices[j].superseded /\ Superseded(j)
               \/ /\ ~choices[j].superseded /\ place.id > choices[j].after
                  /\ choices' = [choices EXCEPT ![j].phase = "installing"] /\ UNCHANGED <<uploads, took>> /\ Job
               \/ ~choices[j].superseded /\ place.id <= choices[j].after /\ Done(j)
(* The loop for WordPress, and the plugins once it is there.               *)
(* With any creation logged since taken for the choice's own.              *)
MineIfAny(j) == choices[j].by = "admin" \/ Creators(j) # {}
Mine(j) == choices[j].by = "admin" \/ Creators(j) = {choices[j].by}
AwaitWordPress(j) ==
  /\ Running(j, "installing")
  /\ \/ ~Mine(j) /\ Creators(j) # {} /\ Done(j)
     \/ (~place.wp \/ ~Mine(j)) /\ Done(j)   \* too late
     \/ /\ place.wp /\ Mine(j) /\ Ends(j) /\ uploads' = Without(choices[j].ups)
        /\ took' = took \cup {w \in {"another's", "missing"} :
                              IF w = "missing" THEN \E u \in choices[j].ups \ givenBack : ~uploads[u].plugin
                              ELSE choices[j].by \notin {"admin", place.by}} /\ Job
(* The runner dies; prune tells its record.                                *)
RunnerDies(j) == Active(j) /\ Ends(j) /\ UNCHANGED <<uploads, took>> /\ Job

Next == \/ CreatePlace \/ LogPlace \/ WordPressComes \/ DeletePlace
        \/ \E u \in Uploads : stageUploadPart(u) \/ discardUpload(u) \/ pruneUploads(u)
        \/ \E by \in Users : Clear(by) \/ \E us \in SUBSET Uploads : Submit(by, us)
        \/ claimUploads \/ StartRefused \/ ChooserDies
        \/ \E j \in Choices : startWpJob(j) \/ AwaitSite(j) \/ begin(j) \/ AwaitWordPress(j) \/ RunnerDies(j)
Spec == Init /\ [][Next]_chooseVars

-----------------------------------------------------------------------------
TypeOK == /\ place \in Places /\ made \in 0..MaxMade /\ events \in Seq(Users) /\ Len(events) <= made
          /\ uploads \in [Uploads -> Staged] /\ choices \in [Choices -> ChoiceRecords] /\ chooser \in Choosers
          /\ givenBack \subseteq Uploads

(* What a choice that still counts needs is there and is its alone, and no *)
(* two choices of one user wait side by side: the later one took over.  The*)
(* exception is an upload taken from an installer by a form that replaced a*)
(* choice before it once more: that one had not noticed yet.               *)
LaterCounts ==
  /\ \A j, k \in {c \in Choices : Counts(c)} : j # k => choices[j].ups \cap choices[k].ups \subseteq givenBack
  /\ \A j \in Choices : Counts(j) => \A u \in choices[j].ups \ givenBack : uploads[u].plugin /\ uploads[u].claimed
  /\ \A j, k \in Choices : (j # k /\ Counts(j) /\ Counts(k) /\ choices[j].phase = "wait" /\ choices[k].phase = "wait")
       => choices[j].by # choices[k].by
  /\ \A j \in Choices : choices[j].phase = "installing" => ~choices[j].superseded

(* A site manager's plugins go only into a site that account created, and  *)
(* a job finds every upload it is to install, but for one so taken from it.*)
IntoOwnSite == took = {}
=============================================================================
