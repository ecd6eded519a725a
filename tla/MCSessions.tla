----------------------------- MODULE MCSessions -----------------------------
(***************************************************************************)
(* A terminal and the way to it, one component at a time: the session and  *)
(* its pages in the manager, and the signed-in stream between the manager  *)
(* and the panel's helper.  Two pages of one window, in small behaviours   *)
(* that either print or type: output and input touch only through the      *)
(* session's state.                                                        *)
(***************************************************************************)

CONSTANTS Parts,   \* the components this run is about
          Pages, RingBytes, MaxBacklog, Bounds,
          MaxTyped, MaxSessionEvents, MaxRewrites

VARIABLES part,   \* the component a behaviour is about
          state, found, timer, why, offset, ring, terminalClient, conns, lastInput,
          terminalTyped, phase, reading, lastId, screen, seq, unconfirmed, attempt, reply,
          posts, deletes, fails, signedIn, bound,
          session, account, keysOn, rewriting, lapsed, gatewayClient, outbox, gatewayTyped,
          wire, server, pending, looks, pipe, paused, inputOpen, worker, input, ended, events,
          rewrites

terminalVars == <<state, found, timer, why, offset, ring, terminalClient, conns, lastInput,
   terminalTyped, phase, reading, lastId, screen, seq, unconfirmed, attempt, reply,
   posts, deletes, fails, signedIn, bound>>
gatewayVars == <<session, account, keysOn, rewriting, lapsed, gatewayClient, outbox, gatewayTyped,
   wire, server, pending, looks, pipe, paused, inputOpen, worker, input, ended, events,
   rewrites>>
vars == <<part, terminalVars, gatewayVars>>

Shell == INSTANCE Terminal WITH client <- terminalClient, typed <- terminalTyped
Stream == INSTANCE Gateway WITH client <- gatewayClient, typed <- gatewayTyped

CONSTANTS a, b
PrintsOrTypes ==
  { [output |-> 2, typists |-> {}, batches |-> 0, conns |-> 2, fails |-> 0],
    [output |-> 0, typists |-> {a}, batches |-> 2, conns |-> 1, fails |-> 1] }

ASSUME Constants == Shell!ConstantsOK /\ Stream!ConstantsOK

Init ==
  /\ part \in Parts
  /\ Shell!Init /\ (part = "terminal" \/ (bound.output # 0))
  /\ Stream!Init

Next ==
  /\ UNCHANGED part
  /\ \/ part = "terminal" /\ Shell!Next /\ UNCHANGED <<gatewayVars>>
     \/ part = "gateway" /\ Stream!Next /\ UNCHANGED <<terminalVars>>

Spec == Init /\ [][Next]_vars
(* The manager's timers and rechecks run, and it learns of a stream nobody *)
(* reads; the helper's process, sockets and timers go on.                  *)
FairSpec ==
  /\ Spec
  /\ WF_terminalVars(part = "terminal" /\ Shell!DeadlinePasses)
  /\ WF_terminalVars(part = "terminal" /\ Shell!Recheck)
  /\ WF_terminalVars(part = "terminal" /\ \E c \in Shell!Conns : Shell!Detach(c))
  /\ WF_gatewayVars(part = "gateway" /\ Stream!Look)
  /\ WF_gatewayVars(part = "gateway" /\ Stream!Stalled)
  /\ WF_gatewayVars(part = "gateway" /\ Stream!PeerGone)
  /\ WF_gatewayVars(part = "gateway" /\ Stream!PeerGoneEarly)
  /\ WF_gatewayVars(part = "gateway" /\ Stream!ReadLine)
  /\ WF_gatewayVars(part = "gateway" /\ worker = "told" /\ Stream!WorkerEnds)
  /\ WF_gatewayVars(part = "gateway" /\ Stream!Refused)
  /\ WF_gatewayVars(part = "gateway" /\ Stream!StartWorker)
  /\ WF_gatewayVars(part = "gateway" /\ Stream!Rewritten)

------------------------------------------------------------------------------
TypeOK == /\ part = "terminal" => Shell!TypeOK
          /\ part = "gateway" => Stream!TypeOK

(* What a page shows is what the shell wrote, without a gap and with       *)
(* nothing twice, and the deadline of a session nobody is attached to      *)
(* never runs for one that a page is attached to.                          *)
ScreenWhole == part = "terminal" => Shell!ScreenWhole /\ Shell!AttachedNotDetached

(* What is typed reaches the shell in order: one page's batches none twice *)
(* and none confirmed that was not typed, the stream's lines all on their  *)
(* way or read, and a stream is ended for its session only if that lapsed. *)
TypedInOrder == /\ part = "terminal" => Shell!TypedInOrder /\ Shell!ConfirmedTyped
                /\ part = "gateway" => /\ Stream!TypedIsSomewhere /\ Stream!ReadsInOrder
                                       /\ Stream!EndedByItsSession

(* A shell does not outlive its pages, its operator's sign-in or the       *)
(* stream it is reached by.                                                *)
NothingOutlives == /\ part = "terminal" => Shell!AbandonedEnds
                   /\ part = "gateway" => Stream!EndsWithItsSession /\ Stream!NoOrphan
==============================================================================
