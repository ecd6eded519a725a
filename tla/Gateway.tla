------------------------------ MODULE Gateway ------------------------------
(***************************************************************************)
(* A duplex stream through the root gateway: the manager's end             *)
(* (streamGatewayAction, gateway-client.ts), the connection, and root's    *)
(* end (createAuthActionServer and runStreamAction, auth-action.ts), which *)
(* checks the CloudPanel session itself (sso-auth.ts), before it starts    *)
(* the worker and again on a timer.                                        *)
(***************************************************************************)
EXTENDS Naturals, Sequences

CONSTANTS MaxTyped, MaxSessionEvents, MaxRewrites   \* bounds of a behaviour
ConstantsOK == MaxTyped \in Nat /\ MaxSessionEvents \in Nat /\ MaxRewrites \in Nat

VARIABLES session,   \* the panel session: gone, its MFA challenge pending, unmarked, or passed
          account,   \* its account in CloudPanel's database
          keysOn,    \* Security Keys is enabled
          rewriting, \* PHP has truncated the session file and not yet rewritten it; a look has read it so
          lapsed,    \* ghost: the session has not been an administrator's at some time
          client, outbox, typed,      \* the manager's end; lines not yet sent; how many the page typed
          wire,                       \* on the way to root: 0 is the request, n the nth line
          server, pending, looks,     \* root's end; lines held for the worker; failed looks at the session
          pipe, paused, inputOpen,    \* the worker's stdin, full or closed
          worker, input,              \* the worker and what it has read
          ended,                      \* why root ended the stream
          events, rewrites

gatewayVars == <<session, account, keysOn, rewriting, lapsed, client, outbox, typed, wire, server, pending, looks,
                 pipe, paused, inputOpen, worker, input, ended, events, rewrites>>
panelSide == <<session, account, keysOn, rewriting, lapsed, events, rewrites>>
pageSide == <<client, outbox, typed>>
stdin == <<pipe, paused, inputOpen>>

Init == /\ session = "marked" /\ account = "admin" /\ keysOn = FALSE /\ rewriting = "no" /\ lapsed = FALSE
        /\ client = "idle" /\ outbox = <<>> /\ typed = 0 /\ wire = <<>>
        /\ server = "none" /\ pending = <<>> /\ looks = 0
        /\ pipe = <<>> /\ paused = FALSE /\ inputOpen = FALSE /\ worker = "none" /\ input = <<>>
        /\ ended = "not" /\ events = 0 /\ rewrites = 0

-----------------------------------------------------------------------------
(* The session as root reads it.  A marker that says anything but that the *)
(* second factor passed is no session; none at all, for an account with    *)
(* MFA, is one only while Security Keys is enabled.  The account's role    *)
(* and status come from the database.                                      *)
readPanelSessionFile == rewriting = "no" /\ session # "gone"
parsePanelSession == session = "marked" \/ (session = "unmarked" /\ keysOn)
lookupUserRole == account # "off"
runAuthAction == readPanelSessionFile /\ parsePanelSession /\ lookupUserRole
AdminSession == runAuthAction /\ account = "admin"
Lapses == lapsed' = (lapsed \/ ~(parsePanelSession' /\ account' = "admin"))
SessionEvent == /\ events < MaxSessionEvents /\ events' = events + 1
                /\ \/ session # "gone" /\ session' \in {"gone", "unmarked", "challenge"} /\ UNCHANGED <<account, keysOn>>
                   \/ session = "challenge" /\ session' = "marked" /\ UNCHANGED <<account, keysOn>>
                   \/ account' \in {"admin", "other", "off"} \ {account} /\ UNCHANGED <<session, keysOn>>
                   \/ keysOn' = ~keysOn /\ UNCHANGED <<session, account>>
                /\ Lapses
                /\ UNCHANGED <<rewriting, rewrites, pageSide, wire, server, pending, looks, stdin, worker, input, ended>>
(* A rewrite is over before the second look that SESSION_CONFIRM_MS puts   *)
(* between a failed one and the end, so no two looks fall into one.        *)
Truncate == /\ rewriting = "no" /\ rewrites < MaxRewrites /\ rewrites' = rewrites + 1 /\ rewriting' = "now"
            /\ UNCHANGED <<session, account, keysOn, lapsed, events, pageSide, wire, server, pending, looks, stdin, worker, input, ended>>
Rewritten == /\ rewriting # "no" /\ rewriting' = "no"
             /\ UNCHANGED <<session, account, keysOn, lapsed, events, rewrites, pageSide, wire, server, pending, looks, stdin, worker, input, ended>>

-----------------------------------------------------------------------------
(* The manager's end.  Lines typed before the connection opens wait, and   *)
(* follow the request; what the socket does not take waits for a drain.    *)
streamGatewayAction == /\ client = "idle" /\ client' = "connecting"
                       /\ UNCHANGED <<panelSide, outbox, typed, wire, server, pending, looks, stdin, worker, input, ended>>
Connected == /\ client = "connecting" /\ client' = "open" /\ server' = "reading"
             /\ \E n \in 0..Len(outbox) : wire' = <<0>> \o SubSeq(outbox, 1, n) /\ outbox' = SubSeq(outbox, n + 1, Len(outbox))
             /\ UNCHANGED <<panelSide, typed, pending, looks, stdin, worker, input, ended>>
NotConnected == /\ client = "connecting" /\ client' = "closed"
                /\ UNCHANGED <<panelSide, outbox, typed, wire, server, pending, looks, stdin, worker, input, ended>>
(* Mutant: a line overtakes those that wait for a drain.                   *)
TypeLineNow == /\ client \in {"connecting", "open"} /\ typed < MaxTyped /\ typed' = typed + 1
               /\ \/ client = "open" /\ wire' = Append(wire, typed') /\ UNCHANGED outbox
                  \/ client = "connecting" /\ outbox' = Append(outbox, typed') /\ UNCHANGED wire
               /\ UNCHANGED <<panelSide, client, server, pending, looks, stdin, worker, input, ended>>
TypeLine == /\ client \in {"connecting", "open"} /\ typed < MaxTyped /\ typed' = typed + 1
            /\ \/ client = "open" /\ outbox = <<>> /\ wire' = Append(wire, typed') /\ UNCHANGED outbox
               \/ outbox' = Append(outbox, typed') /\ UNCHANGED wire
            /\ UNCHANGED <<panelSide, client, server, pending, looks, stdin, worker, input, ended>>
Drain == /\ client = "open" /\ outbox # <<>> /\ wire' = Append(wire, Head(outbox)) /\ outbox' = Tail(outbox)
         /\ UNCHANGED <<panelSide, client, typed, server, pending, looks, stdin, worker, input, ended>>
Close == /\ client \in {"connecting", "open"} /\ client' = "closed"
         /\ UNCHANGED <<panelSide, outbox, typed, wire, server, pending, looks, stdin, worker, input, ended>>
ClosedByRoot == /\ client = "open" /\ server = "over" /\ client' = "closed"
                /\ UNCHANGED <<panelSide, outbox, typed, wire, server, pending, looks, stdin, worker, input, ended>>

-----------------------------------------------------------------------------
(* Root's end.  What comes with the request or before the worker runs is   *)
(* held; after that each chunk goes to the worker's stdin.                 *)
Keep == UNCHANGED <<panelSide, pageSide>>
ReadRequest == \E n \in 1..Len(wire) :
  /\ server = "reading" /\ wire[1] = 0 /\ server' = "checking"
  /\ pending' = SubSeq(wire, 2, n) /\ wire' = SubSeq(wire, n + 1, Len(wire))
  /\ Keep /\ UNCHANGED <<looks, stdin, worker, input, ended>>
(* Ten seconds without a whole request.                                    *)
RequestLate == /\ server = "reading" /\ server' = "over" /\ ended' = "invalid"
               /\ Keep /\ UNCHANGED <<wire, pending, looks, stdin, worker, input>>
ReadEarly == /\ server = "checking" /\ wire # <<>> /\ pending' = Append(pending, Head(wire)) /\ wire' = Tail(wire)
             /\ Keep /\ UNCHANGED <<server, looks, stdin, worker, input, ended>>
(* The pipe takes one line; more makes the socket wait.                    *)
Full(p) == Len(p) > 1
Refused == /\ server = "checking" /\ ~AdminSession /\ server' = "over" /\ ended' = "refused"
           /\ Keep /\ UNCHANGED <<wire, pending, looks, stdin, worker, input>>
(* Mutant: the worker gets new lines before the ones that were held.       *)
StartWorkerFresh == /\ server = "checking" /\ AdminSession /\ server' = "running" /\ worker' = "running"
                    /\ pipe' = <<>> /\ inputOpen' = TRUE /\ paused' = FALSE
                    /\ Keep /\ UNCHANGED <<wire, pending, looks, input, ended>>
StartWorker == /\ server = "checking" /\ AdminSession /\ server' = "running" /\ worker' = "running"
               /\ pipe' = pending /\ pending' = <<>> /\ inputOpen' = TRUE /\ paused' = Full(pending)
               /\ Keep /\ UNCHANGED <<wire, looks, input, ended>>
ReadLine == /\ server = "running" /\ ~paused /\ wire # <<>> /\ wire' = Tail(wire)
            /\ pipe' = (IF inputOpen THEN Append(pipe, Head(wire)) ELSE pipe) /\ paused' = (inputOpen /\ Full(pipe'))
            /\ Keep /\ UNCHANGED <<server, pending, looks, inputOpen, worker, input, ended>>
WorkerReads == /\ worker = "running" /\ pipe # <<>> /\ input' = Append(input, Head(pipe)) /\ pipe' = Tail(pipe)
               /\ paused' = (paused /\ Full(pipe'))
               /\ Keep /\ UNCHANGED <<wire, server, pending, looks, inputOpen, worker, ended>>
(* Mutant: the end of its stdin is all the worker is told.                 *)
StopInputOnly(why) == /\ server' = "over" /\ ended' = why /\ inputOpen' = FALSE
                      /\ UNCHANGED <<pageSide, wire, pending, pipe, paused, worker, input>>
(* stop: stdin is ended, the worker told to stop, and killed if it does    *)
(* not.                                                                    *)
Stop(why) == /\ server' = "over" /\ ended' = why /\ inputOpen' = FALSE
             /\ worker' = (IF worker = "running" THEN "told" ELSE worker)
             /\ UNCHANGED <<pageSide, wire, pending, pipe, paused, input>>
(* A paused socket does not see its peer go.                               *)
PeerGone == /\ server = "running" /\ client = "closed" /\ wire = <<>> /\ ~paused /\ Stop("closed") /\ UNCHANGED <<panelSide, looks>>
Stalled == server = "running" /\ paused /\ Stop("stalled") /\ UNCHANGED <<panelSide, looks>>
PeerGoneEarly == /\ server = "reading" /\ client = "closed" /\ server' = "over" /\ ended' = "closed"
                 /\ Keep /\ UNCHANGED <<wire, pending, looks, stdin, worker, input>>
WorkerEnds == /\ worker \in {"running", "told"} /\ worker' = "gone" /\ server' = "over" /\ inputOpen' = FALSE
              /\ ended' = (IF ended = "not" THEN "worker" ELSE ended)
              /\ Keep /\ UNCHANGED <<wire, pending, looks, pipe, paused, input>>
(* The recheck: a failed look is looked at once more a moment later.       *)
LookReads == /\ rewriting' = (IF rewriting = "now" THEN "read" ELSE rewriting)
             /\ UNCHANGED <<session, account, keysOn, lapsed, events, rewrites>>
LookFails(n) == IF looks + 1 = n THEN looks' = 0 /\ Stop("session")
                ELSE looks' = looks + 1 /\ UNCHANGED <<pageSide, wire, server, pending, stdin, worker, input, ended>>
(* Mutant: one failed look is a sign-out.                                  *)
LookOnce == /\ server = "running" /\ rewriting # "read" /\ LookReads
            /\ \/ AdminSession /\ looks' = 0 /\ UNCHANGED <<pageSide, wire, server, pending, stdin, worker, input, ended>>
               \/ ~AdminSession /\ LookFails(1)
Look == /\ server = "running" /\ rewriting # "read" /\ LookReads
        /\ \/ AdminSession /\ looks' = 0 /\ UNCHANGED <<pageSide, wire, server, pending, stdin, worker, input, ended>>
           \/ ~AdminSession /\ LookFails(2)

Next == \/ SessionEvent \/ Truncate \/ Rewritten \/ streamGatewayAction \/ Connected \/ NotConnected \/ TypeLine \/ Drain \/ Close \/ ClosedByRoot
        \/ ReadRequest \/ RequestLate \/ ReadEarly \/ Refused \/ StartWorker \/ ReadLine \/ WorkerReads \/ PeerGone \/ Stalled \/ PeerGoneEarly
        \/ WorkerEnds \/ Look
(* Timers come due: the recheck, the end of a stalled input, the kill of a *)
(* worker that was told to stop; the kernel reports a closed peer.  A      *)
(* worker need not read, nor end by itself.  PHP finishes what it writes.   *)
Spec == Init /\ [][Next]_gatewayVars /\ WF_gatewayVars(Look) /\ WF_gatewayVars(Stalled) /\ WF_gatewayVars(PeerGone)
             /\ WF_gatewayVars(PeerGoneEarly) /\ WF_gatewayVars(ReadLine) /\ WF_gatewayVars(worker = "told" /\ WorkerEnds)
             /\ WF_gatewayVars(Refused) /\ WF_gatewayVars(StartWorker) /\ WF_gatewayVars(Rewritten)

-----------------------------------------------------------------------------
TypeOK == /\ session \in {"gone", "challenge", "unmarked", "marked"} /\ account \in {"admin", "other", "off"}
          /\ keysOn \in BOOLEAN /\ lapsed \in BOOLEAN /\ rewriting \in {"no", "now", "read"}
          /\ client \in {"idle", "connecting", "open", "closed"} /\ server \in {"none", "reading", "checking", "running", "over"}
          /\ worker \in {"none", "running", "told", "gone"} /\ looks \in 0..1 /\ paused \in BOOLEAN /\ inputOpen \in BOOLEAN
          /\ typed \in 0..MaxTyped /\ {outbox, wire, pending, pipe, input} \subseteq Seq(0..MaxTyped)
          /\ ended \in {"not", "invalid", "refused", "closed", "stalled", "worker", "session"}
          /\ events \in 0..MaxSessionEvents /\ rewrites \in 0..MaxRewrites

(* Every line typed is on its way or read by the worker, once and in       *)
(* order, as long as the stream is open.  The request goes before them.    *)
InOrder == [i \in 1..typed |-> i]
Lines == IF server = "reading" THEN Tail(wire) ELSE wire
TypedIsSomewhere == (client = "open" /\ server # "over") => input \o pipe \o pending \o Lines \o outbox = InOrder
ReadsInOrder == Len(input) <= typed /\ \A i \in 1..Len(input) : input[i] = i
(* A stream that is ended for its session had one that lapsed, unless PHP  *)
(* was rewriting its file at both looks: one rewrite signs nobody out.     *)
EndedByItsSession == ended = "session" => lapsed \/ rewrites > 1
(* A worker does not outlive its session, nor the page's end of its stream. *)
EndsWithItsSession == session = "gone" ~> worker \in {"none", "gone"}
NoOrphan == client = "closed" ~> worker \in {"none", "gone"}
=============================================================================
