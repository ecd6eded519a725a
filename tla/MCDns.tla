-------------------------------- MODULE MCDns --------------------------------
(***************************************************************************)
(* The DNS, SMTP and Cloudflare IP addons and the jobs they show, one      *)
(* component at a time: the plan of one zone's records, the review of a    *)
(* profile, the redirects' stand-in sites, the pass, the profiles sites    *)
(* send their mail through, which sites take Cloudflare's traffic alone,   *)
(* and the page that watches a job. A behaviour is about one of them, and  *)
(* x1, x2, ... are that one's variables; nothing is shared between two, so *)
(* the run is the sum of theirs.                                           *)
(***************************************************************************)

CONSTANTS Parts,   \* the components this run is about
          MaxPublished, MaxRows, MaxFailures,
          ReviewSites, MaxId, MaxEdits, Kills,
          Specs, MaxPanelIds, MaxMoves,
          PassSites, Accounts, Connections, Reach, MaxAttempts, MaxPasses, MaxFaults, MaxChanges,
          Order, Granted, MaxSmtpOps, MaxSmtpFaults, MaxSiteIds,
          CfDomains, MaxCfIds, MaxCfRuns, MaxCfMoves, MaxCfFaults,
          MaxText, MaxQueue, MaxMishaps

VARIABLES part,   \* the component a behaviour is about
          x1, x2, x3, x4, x5, x6, x7, x8, x9, x10, x11, x12, x13, x14, x15, x16, x17, x18,
          x19   \* its variables, in the order it declares them

vars == <<part, x1, x2, x3, x4, x5, x6, x7, x8, x9, x10, x11, x12, x13, x14, x15, x16, x17, x18,
          x19>>

Records == INSTANCE DnsRecords WITH published <- x1, rows <- x2, waiting <- x3, ops <- x4, started
  <- x5, failures <- x6, ids <- x7
Review == INSTANCE DnsReview WITH Sites <- ReviewSites, zone <- x1, panel <- x2, policy <- x3,
  managed <- x4, pending <- x5, run <- x6, cleared <- x7, edits <- x8, ids <- x9
Redirects == INSTANCE DnsRedirects WITH site <- x1, body <- x2, mark <- x3, redirect <- x4, onHold
  <- x5, connected <- x6, rule <- x7, placeholder <- x8, zoneActive <- x9, doing <- x10, cutOff <-
  x11, panelIds <- x12, moves <- x13
Pass == INSTANCE DnsPass WITH Sites <- PassSites, cf <- x1, mailcow <- x2, acl <- x3, policy <- x4,
  pass <- x5, certs <- x6, issued <- x7, bounds <- x8
Mail == INSTANCE Smtp WITH siteId <- x1, lastId <- x2, on <- x3, policyFile <- x4, setting <- x5,
  record <- x6, maps <- x7, loaded <- x8, rules <- x9, ini <- x10, pc <- x11, job <- x12, undo <-
  x13, wanted <- x14, chosen <- x15, broken <- x16, ops <- x17, failures <- x18, kills <- x19
Cloudflare == INSTANCE CloudflareIps WITH cfSite <- x1, cfPolicy <- x2, cfRun <- x3, cfCount <- x4,
  byHand <- x5, since <- x6, refused <- x7
Watch == INSTANCE JobWatch WITH rec <- x1, runner <- x2, worker <- x3, link <- x4, stream <- x5,
  feed <- x6, page <- x7, managerUp <- x8, signedIn <- x9, watchCount <- x10, toldGone <- x11

(* The first connection's token reaches one account, the second's both. *)
TheReach == [c \in Connections |-> IF c = "c1" THEN {"a1"} ELSE Accounts]
TheOrder == <<"s1", "s2">>

(* What the component does not use holds nothing.                          *)
Free19 == x19 = 0
Free18 == x18 = 0 /\ Free19
Free17 == x17 = 0 /\ Free18
Free16 == x16 = 0 /\ Free17
Free15 == x15 = 0 /\ Free16
Free14 == x14 = 0 /\ Free15
Free13 == x13 = 0 /\ Free14
Free12 == x12 = 0 /\ Free13
Free11 == x11 = 0 /\ Free12
Free10 == x10 = 0 /\ Free11
Free9 == x9 = 0 /\ Free10
Free8 == x8 = 0 /\ Free9

Init ==
  /\ part \in Parts
  /\ \/ part = "records" /\ Records!Init /\ Free8
     \/ part = "review" /\ Review!Init /\ Free10
     \/ part = "stand" /\ Redirects!Init /\ Free14
     \/ part = "pass" /\ Pass!Init /\ Free9
     \/ part = "mail" /\ Mail!Init
     \/ part = "cloudflare" /\ Cloudflare!Init /\ Free8
     \/ part = "watch" /\ Watch!Init /\ Free12

Next ==
  /\ UNCHANGED part
  /\ \/ /\ part = "records" /\ Records!Next
        /\ UNCHANGED <<x8, x9, x10, x11, x12, x13, x14, x15, x16, x17, x18, x19>>
     \/ /\ part = "review" /\ Review!Next
        /\ UNCHANGED <<x10, x11, x12, x13, x14, x15, x16, x17, x18, x19>>
     \/ part = "stand" /\ Redirects!Next /\ UNCHANGED <<x14, x15, x16, x17, x18, x19>>
     \/ /\ part = "pass" /\ Pass!Next
        /\ UNCHANGED <<x9, x10, x11, x12, x13, x14, x15, x16, x17, x18, x19>>
     \/ part = "mail" /\ Mail!Next
     \/ /\ part = "cloudflare" /\ Cloudflare!Next
        /\ UNCHANGED <<x8, x9, x10, x11, x12, x13, x14, x15, x16, x17, x18, x19>>
     \/ part = "watch" /\ Watch!Next /\ UNCHANGED <<x12, x13, x14, x15, x16, x17, x18, x19>>

Spec == Init /\ [][Next]_vars

------------------------------------------------------------------------------
TypeOK == /\ part = "records" => Records!TypeOK
          /\ part = "review" => Review!TypeOK
          /\ part = "stand" => Redirects!TypeOK
          /\ part = "pass" => Pass!TypeOK
          /\ part = "mail" => Mail!TypeOK
          /\ part = "cloudflare" => Cloudflare!TypeOK
          /\ part = "watch" => Watch!TypeOK

(* What an addon works from is what is there: a DNS plan's calls are       *)
(* accepted in their order, the records it tracks are of sites its policy  *)
(* enforces, a stand-in it left is one it knows, and no request outlives   *)
(* its attempts; what mail runs with is the policy saved, each site sends  *)
(* through its own profile alone, and the operator's settings can be put   *)
(* back; a site taken as seen by the Cloudflare policy was switched on or  *)
(* chosen for; and a page shows how its job ended.                         *)
PlansHold == /\ part = "records" => Records!PlanIsAccepted
             /\ part = "review" => Review!TrackedAreEnforced
             /\ part = "stand" => Redirects!StandInIsKnown
             /\ part = "pass" => Pass!AttemptsBounded
             /\ part = "mail" => /\ Mail!ReadKeepsRelays /\ Mail!SavedIsRun /\ Mail!SubmitIsAccepted
                                 /\ Mail!OwnProfileOnly /\ Mail!OperatorsBack
             /\ part = "cloudflare" => Cloudflare!SeenIsProtected
             /\ part = "watch" => Watch!ShowsTheEnd /\ Watch!SomebodyTells /\ Watch!NothingToTheGone

(* DNS takes away no record that its profile does not speak for or that    *)
(* nobody confirmed, no site but a stand-in of its own, and no sender;     *)
(* mail changes no profile that an administrator chose for a site, and no  *)
(* site but a new one is switched to Cloudflare unasked.                   *)
TakesItsOwn == [][/\ part = "records" => Records!NothingElseTakenStep
                  /\ part = "review" => Review!NoSurpriseStep
                  /\ part = "stand" => Redirects!RemovesOwnStandInsStep
                  /\ part = "pass" => Pass!OthersSendStep
                  /\ part = "mail" => Mail!ChoiceKeptStep
                  /\ part = "cloudflare" => Cloudflare!TakesNewOnlyStep]_vars

(* A pass writes where and when it may: no second zone for a domain that   *)
(* has one, only the zone somebody chose, a record only behind the rule or *)
(* the key it needs, nothing that waits for its review, a certificate only *)
(* for a site that is served.  What a page shows of a job never goes back. *)
InItsTurn == [][/\ part = "pass" => /\ Pass!NoSecondZoneStep /\ Pass!ChosenOnlyStep
                                    /\ Pass!RuleBeforeRecordStep /\ Pass!HeldWaitsStep
                                    /\ Pass!AskedWhenServedStep
                /\ part = "watch" => Watch!ForwardStep]_vars
==============================================================================
