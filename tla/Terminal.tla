------------------------------ MODULE Terminal ------------------------------
(***************************************************************************)
(* One terminal session of the Terminal addon: the manager's session       *)
(* (addons/terminal/app/sessions.ts), the shell behind it, and the browser *)
(* pages (popup.client.js) that read its event stream and post keystrokes. *)
(* A page is one load of the window: a reload and a duplicated tab are     *)
(* other pages with the same stored session id.                            *)
(*                                                                         *)
(* Output is its bytes' numbers: byte n is the n-th the shell wrote.  A    *)
(* batch of keystrokes is its page and number.                             *)
(***************************************************************************)
EXTENDS Naturals, Sequences

CONSTANTS Pages,
          RingBytes,   \* RING_BYTES: output kept for a page that comes back
          MaxBacklog,  \* MAX_CLIENT_BACKLOG, in events
          Bounds       \* see below

(* Bounds of a behaviour: bytes the shell writes, pages that type, batches *)
(* each of them sends, event streams opened, and posts that fail.          *)
ConstantsOK == /\ RingBytes \in Nat \ {0} /\ MaxBacklog \in Nat \ {0}
               /\ Bounds \subseteq [output : Nat, typists : SUBSET Pages, batches : Nat,
                                    conns : Nat, fails : Nat]

VARIABLES state,                \* the manager's session
          found,                \* it is in the manager's map
          timer,                \* endTimer: which deadline it holds
          why,                  \* ended.reason
          offset, ring,         \* bytes received, and how many of the last are kept
          client, conns,        \* session.client, and every event stream so far
          lastInput, typed,     \* and what the shell was typed
          phase, reading,       \* by page: where it is, and the stream it reads
          lastId, screen,       \*   the last event's id, and the bytes shown
          seq, unconfirmed,     \*   inputSeq, and whether that batch waits
          attempt, reply,       \*   which post of it is waited for, and its answer
          posts, deletes, fails, \* requests on the way; bound
          signedIn,
          bound

session == <<state, found, timer, why>>
output == <<offset, ring>>
streams == <<client, conns>>
page == <<phase, reading, lastId, screen>>
sending == <<seq, unconfirmed, attempt, reply, posts, fails>>
input == <<lastInput, typed>>
vars == <<session, output, streams, input, page, sending, deletes, signedIn, bound>>

None == 0
NoId == bound.output + 1   \* no Last-Event-ID
Batch == Pages \X (1..bound.batches)
NoInput == <<"nobody", 0>>
Conns == 1..Len(conns)

Init == /\ bound \in Bounds
        /\ state = "none" /\ found = FALSE /\ timer = "none" /\ why = "none"
        /\ offset = 0 /\ ring = 0 /\ client = None /\ conns = <<>>
        /\ lastInput = NoInput /\ typed = <<>>
        /\ phase = [p \in Pages |-> "unopened"] /\ reading = [p \in Pages |-> None]
        /\ lastId = [p \in Pages |-> NoId] /\ screen = [p \in Pages |-> <<>>]
        /\ seq = [p \in Pages |-> 0] /\ unconfirmed = [p \in Pages |-> FALSE]
        /\ attempt = [p \in Pages |-> 0] /\ reply = [p \in Pages |-> "none"]
        /\ posts = {} /\ deletes = {} /\ fails = 0 /\ signedIn = TRUE

-----------------------------------------------------------------------------
(* The session's deadlines.                                                *)

(* A deadline already held stands unless the new one comes sooner; five    *)
(* seconds may or may not come before what is left of sixty.               *)
scheduleEnd(grace) ==
  timer' \in IF timer = "none" THEN {grace}
             ELSE IF timer = "detached" /\ grace = "closing" THEN {"detached", "closing"}
             ELSE {timer}

Data(from, to) == [kind |-> "data", from |-> from, to |-> to]
Reset(from, to) == [kind |-> "reset", from |-> from, to |-> to]
Told(kind) == [kind |-> kind, from |-> 0, to |-> 0]

(* What is sent on a stream nobody reads any more is lost.                 *)
Read == {reading[p] : p \in Pages}
Sent(c, m) == IF c \in Read THEN Append(conns[c].queue, m) ELSE <<>>
LastWord(c, m) == [conns EXCEPT ![c].queue = Sent(c, m), ![c].open = FALSE]

(* With a page attached the session is told and forgotten; otherwise it is *)
(* kept for a page on its way back.                                        *)
end(reason) ==
  /\ state = "open" /\ state' = "ended" /\ why' = reason
  /\ IF client # None
     THEN /\ conns' = LastWord(client, Told("ended")) /\ client' = None
          /\ found' = FALSE /\ timer' = "none"
     ELSE UNCHANGED <<streams, found>> /\ timer' = "detached"

-----------------------------------------------------------------------------
(* Opening.  A page that asks for another session has another of these.    *)

createSession(p) ==
  /\ state = "none" /\ signedIn
  /\ state' = "starting" /\ found' = TRUE
  /\ phase' = [phase EXCEPT ![p] = "asking"]
  /\ UNCHANGED <<timer, why, output, streams, input, reading, lastId, screen,
                 sending, deletes, signedIn, bound>>

Ready ==
  /\ state = "starting" /\ state' = "open"
  /\ scheduleEnd("detached")
  /\ \E p \in Pages : phase[p] = "asking" /\ phase' = [phase EXCEPT ![p] = "connecting"]
  /\ UNCHANGED <<found, why, output, streams, input, reading, lastId, screen,
                 sending, deletes, signedIn, bound>>

(* Refused, closed, too much noise, or twenty seconds: settle.             *)
StartFails ==
  /\ state = "starting" /\ state' = "ended" /\ found' = FALSE
  /\ phase' = [p \in Pages |-> IF phase[p] = "asking" THEN "ended" ELSE phase[p]]
  /\ UNCHANGED <<timer, why, output, streams, input, reading, lastId, screen,
                 sending, deletes, signedIn, bound>>

(* A reload, or a duplicated tab: the session id is in its storage.        *)
OpenPage(p) ==
  /\ phase[p] = "unopened" /\ \E q \in Pages : phase[q] \in {"connecting", "joined", "closed"}
  /\ phase' = [phase EXCEPT ![p] = "connecting"]
  /\ UNCHANGED <<session, output, streams, input, reading, lastId, screen,
                 sending, deletes, signedIn, bound>>

-----------------------------------------------------------------------------
(* Output.                                                                 *)

Least(m, n) == IF m < n THEN m ELSE n

(* A stream too far behind is closed, after this last event; its page      *)
(* comes back.                                                             *)
Output(n) ==
  /\ state = "open" /\ offset + n <= bound.output
  /\ offset' = offset + n /\ ring' = Least(ring + n, RingBytes)
  /\ LET event == Data(offset, offset + n) IN
     \/ client = None /\ UNCHANGED <<streams, timer>>
     \/ /\ client # None /\ Len(conns[client].queue) < MaxBacklog
        /\ conns' = [conns EXCEPT ![client].queue = Sent(client, event)]
        /\ UNCHANGED <<client, timer>>
     \/ /\ client # None /\ Len(conns[client].queue) >= MaxBacklog
        /\ conns' = LastWord(client, event)
        /\ client' = None /\ scheduleEnd("detached")
  /\ UNCHANGED <<state, found, why, input, page, sending, deletes, signedIn, bound>>

Found == found /\ state \in {"open", "ended"} /\ signedIn

(* Changed form: the page's last event is taken to be one it lacks.        *)
MissedFrom(id) == IF id \in (offset - ring)..offset /\ id > 0
                  THEN IF id < offset THEN <<Data(id - 1, offset)>> ELSE <<>>
                  ELSE <<Reset(offset - ring, offset)>>

(* What the page missed, if the ring still holds it all; else the ring.    *)
Missed(id) == IF id \in (offset - ring)..offset
              THEN IF id < offset THEN <<Data(id, offset)>> ELSE <<>>
              ELSE <<Reset(offset - ring, offset)>>

Opened(queue, open) == [queue |-> queue, open |-> open]

(* One page per session: a second one takes over, and the first is told.   *)
Attach(p) ==
  /\ phase[p] = "connecting" /\ Found /\ state = "open" /\ Len(conns) < bound.conns
  /\ conns' = Append(IF client = None THEN conns ELSE LastWord(client, Told("moved")),
                     Opened(Missed(lastId[p]), TRUE))
  /\ client' = Len(conns) + 1 /\ timer' = "none"
  /\ phase' = [phase EXCEPT ![p] = "joined"]
  /\ reading' = [reading EXCEPT ![p] = Len(conns) + 1]
  /\ UNCHANGED <<state, found, why, output, input, lastId, screen, sending,
                 deletes, signedIn, bound>>

AttachEnded(p) ==
  /\ phase[p] = "connecting" /\ Found /\ state = "ended" /\ Len(conns) < bound.conns
  /\ conns' = Append(conns, Opened(Append(Missed(lastId[p]), Told("ended")), FALSE))
  /\ found' = FALSE /\ timer' = "none"
  /\ phase' = [phase EXCEPT ![p] = "joined"]
  /\ reading' = [reading EXCEPT ![p] = Len(conns) + 1]
  /\ UNCHANGED <<state, why, output, client, input, lastId, screen, sending,
                 deletes, signedIn, bound>>

ShowEnded(p) == /\ phase' = [phase EXCEPT ![p] = "ended"]
                /\ unconfirmed' = [unconfirmed EXCEPT ![p] = FALSE]

AttachRefused(p) ==
  /\ phase[p] = "connecting" /\ ~Found
  /\ ShowEnded(p)
  /\ UNCHANGED <<session, output, streams, input, reading, lastId, screen, seq,
                 attempt, reply, posts, fails, deletes, signedIn, bound>>

-----------------------------------------------------------------------------
(* The page reads its stream.                                              *)

Bytes(from, to) == [i \in 1..(to - from) |-> from + i]

Receive(p) ==
  LET c == reading[p]
      m == Head(conns[c].queue) IN
  /\ c # None /\ conns[c].queue # <<>>
  /\ conns' = [conns EXCEPT ![c].queue = Tail(@)]
  /\ \/ /\ m.kind = "data"
        /\ screen' = [screen EXCEPT ![p] = @ \o Bytes(m.from, m.to)]
        /\ lastId' = [lastId EXCEPT ![p] = m.to]
        /\ UNCHANGED <<phase, reading, unconfirmed>>
     \/ /\ m.kind = "reset"
        /\ screen' = [screen EXCEPT ![p] = Bytes(m.from, m.to)]
        /\ lastId' = [lastId EXCEPT ![p] = m.to]
        /\ UNCHANGED <<phase, reading, unconfirmed>>
     \/ /\ m.kind \in {"moved", "ended"}
        /\ ShowEnded(p) /\ reading' = [reading EXCEPT ![p] = None]
        /\ UNCHANGED <<screen, lastId>>
  /\ UNCHANGED <<session, output, client, input, seq, attempt, reply, posts, fails,
                 deletes, signedIn, bound>>

(* The stream ends or breaks, and the browser asks again by itself.        *)
StreamEnds(p) ==
  /\ reading[p] # None
  /\ phase' = [phase EXCEPT ![p] = "connecting"]
  /\ reading' = [reading EXCEPT ![p] = None]
  /\ conns' = [conns EXCEPT ![reading[p]].queue = <<>>]
  /\ UNCHANGED <<session, output, client, input, lastId, screen, sending,
                 deletes, signedIn, bound>>

(* Changed form: the stream goes, and no deadline is set.                  *)
DetachQuietly(c) ==
  /\ conns[c].open /\ c \notin Read
  /\ conns' = [conns EXCEPT ![c].open = FALSE]
  /\ client' = IF client = c THEN None ELSE client
  /\ UNCHANGED <<session, output, input, page, sending, deletes, signedIn, bound>>

(* The manager learns that nobody reads a stream: cancel, detach.          *)
Detach(c) ==
  /\ conns[c].open /\ c \notin Read
  /\ conns' = [conns EXCEPT ![c].open = FALSE]
  /\ \/ client # c /\ UNCHANGED <<client, timer>>
     \/ client = c /\ client' = None /\ scheduleEnd("detached")
  /\ UNCHANGED <<state, found, why, output, input, page, sending, deletes, signedIn, bound>>

-----------------------------------------------------------------------------
(* Keystrokes: one post at a time, sent again when it fails.               *)

pump(p) ==
  /\ phase[p] \in {"connecting", "joined"} /\ ~unconfirmed[p]
  /\ p \in bound.typists /\ seq[p] < bound.batches
  /\ seq' = [seq EXCEPT ![p] = @ + 1]
  /\ unconfirmed' = [unconfirmed EXCEPT ![p] = TRUE]
  /\ attempt' = [attempt EXCEPT ![p] = @ + 1]
  /\ reply' = [reply EXCEPT ![p] = "none"]
  /\ posts' = posts \cup {<<p, seq[p] + 1, attempt[p] + 1>>}
  /\ UNCHANGED <<session, output, streams, input, page, fails, deletes, signedIn, bound>>

(* Perhaps not delivered, perhaps delivered and unanswered, and perhaps    *)
(* still on its way.                                                       *)
PostFails(p) ==
  /\ phase[p] \in {"connecting", "joined"} /\ unconfirmed[p] /\ fails < bound.fails
  /\ fails' = fails + 1
  /\ attempt' = [attempt EXCEPT ![p] = @ + 1]
  /\ reply' = [reply EXCEPT ![p] = "none"]
  /\ posts' = posts \cup {<<p, seq[p], attempt[p] + 1>>}
  /\ UNCHANGED <<session, output, streams, input, page, seq, unconfirmed,
                 deletes, signedIn, bound>>

Answered(m, answer) ==
  reply' = IF m[3] = attempt[m[1]] THEN [reply EXCEPT ![m[1]] = answer] ELSE reply

(* Changed form: only the very batch last taken is known again.            *)
TakenAlreadySame(p, n) == lastInput = <<p, n>>

TakenAlready(p, n) == lastInput[1] = p /\ n <= lastInput[2]

Deliver(m) ==
  /\ posts' = posts \ {m}
  /\ \/ ~Found /\ Answered(m, "refused") /\ UNCHANGED input
     \/ /\ Found /\ Answered(m, "ok")
        /\ IF state = "open" /\ ~TakenAlready(m[1], m[2])
           THEN lastInput' = <<m[1], m[2]>> /\ typed' = Append(typed, <<m[1], m[2]>>)
           ELSE UNCHANGED input
  /\ UNCHANGED <<session, output, streams, page, seq, unconfirmed, attempt, fails,
                 deletes, signedIn, bound>>

Reply(p) ==
  /\ phase[p] \in {"connecting", "joined"} /\ unconfirmed[p] /\ reply[p] # "none"
  /\ reply' = [reply EXCEPT ![p] = "none"]
  /\ unconfirmed' = [unconfirmed EXCEPT ![p] = FALSE]
  /\ \/ reply[p] = "ok" /\ UNCHANGED <<phase, reading>>
     \/ /\ reply[p] = "refused"
        /\ phase' = [phase EXCEPT ![p] = "ended"] /\ reading' = [reading EXCEPT ![p] = None]
  /\ UNCHANGED <<session, output, streams, input, lastId, screen, seq, attempt,
                 posts, fails, deletes, signedIn, bound>>

-----------------------------------------------------------------------------
(* Leaving.                                                                *)

PageHide(p) ==
  /\ phase[p] \in {"connecting", "joined"}
  /\ phase' = [phase EXCEPT ![p] = "closed"] /\ reading' = [reading EXCEPT ![p] = None]
  /\ deletes' = deletes \cup {p}
  /\ conns' = IF reading[p] = None THEN conns ELSE [conns EXCEPT ![reading[p]].queue = <<>>]
  /\ UNCHANGED <<session, output, client, input, lastId, screen, sending, signedIn, bound>>

(* A page the browser kept for its Back button asks from the start.        *)
PageShow(p) ==
  /\ phase[p] = "closed" /\ Len(conns) < bound.conns
  /\ phase' = [phase EXCEPT ![p] = "connecting"]
  /\ lastId' = [lastId EXCEPT ![p] = NoId]
  /\ UNCHANGED <<session, output, streams, input, reading, screen, sending,
                 deletes, signedIn, bound>>

close(p) ==
  /\ p \in deletes /\ deletes' = deletes \ {p}
  /\ \/ Found /\ state = "open" /\ scheduleEnd("closing")
     \/ ~(Found /\ state = "open") /\ UNCHANGED timer
  /\ UNCHANGED <<state, found, why, output, streams, input, page, sending, signedIn, bound>>

(* Changed form: the deadline's name is told as the reason.                *)
DeadlineNamed ==
  /\ timer # "none"
  /\ \/ end(timer)
     \/ state = "ended" /\ found' = FALSE /\ timer' = "none" /\ UNCHANGED <<state, why, streams>>
  /\ UNCHANGED <<output, input, page, sending, deletes, signedIn, bound>>

DeadlinePasses ==
  /\ timer # "none"
  /\ \/ end(IF timer = "closing" THEN "closed" ELSE "detached")
     \/ state = "ended" /\ found' = FALSE /\ timer' = "none" /\ UNCHANGED <<state, why, streams>>
  /\ UNCHANGED <<output, input, page, sending, deletes, signedIn, bound>>

ShellEnds ==
  /\ \E reason \in {"exit", "protocol", "disconnected"} : end(reason)
  /\ UNCHANGED <<output, input, page, sending, deletes, signedIn, bound>>

SignOut ==
  /\ signedIn /\ signedIn' = FALSE
  /\ UNCHANGED <<session, output, streams, input, page, sending, deletes, bound>>

(* The recheck of an attached page's sign-in.  A failed look is looked at  *)
(* once more, so that the panel rewriting the session file is not one.     *)
Recheck ==
  /\ client # None /\ ~signedIn /\ end("signed-out")
  /\ UNCHANGED <<output, input, page, sending, deletes, signedIn, bound>>

-----------------------------------------------------------------------------
Next == \/ Ready \/ StartFails \/ DeadlinePasses \/ ShellEnds \/ SignOut \/ Recheck
        \/ \E n \in 1..2 : Output(n)
        \/ \E p \in Pages : \/ createSession(p) \/ OpenPage(p) \/ Attach(p) \/ AttachEnded(p)
                            \/ AttachRefused(p) \/ Receive(p) \/ StreamEnds(p) \/ pump(p)
                            \/ PostFails(p) \/ Reply(p) \/ PageHide(p) \/ PageShow(p) \/ close(p)
        \/ \E c \in Conns : Detach(c)
        \/ \E m \in posts : Deliver(m)

Spec == Init /\ [][Next]_vars

(* The manager's timers and rechecks run, and it learns of a stream nobody *)
(* reads.                                                                  *)
FairSpec == /\ Spec
            /\ WF_vars(DeadlinePasses)
            /\ WF_vars(Recheck)
            /\ WF_vars(\E c \in Conns : Detach(c))

-----------------------------------------------------------------------------
Messages == [kind : {"data", "reset", "moved", "ended"}, from : 0..bound.output, to : 0..bound.output]

TypeOK ==
  /\ state \in {"none", "starting", "open", "ended"} /\ found \in BOOLEAN
  /\ timer \in {"none", "closing", "detached"}
  /\ why \in {"none", "exit", "closed", "detached", "signed-out", "protocol", "disconnected"}
  /\ offset \in 0..bound.output /\ ring \in 0..Least(offset, RingBytes)
  /\ client \in 0..Len(conns) /\ Len(conns) <= bound.conns
  /\ \A c \in Conns : /\ conns[c].open \in BOOLEAN
                      /\ conns[c].queue \in Seq(Messages)
  /\ lastInput \in Batch \cup {NoInput} /\ typed \in Seq(Batch)
  /\ phase \in [Pages -> {"unopened", "asking", "connecting", "joined", "ended", "closed"}]
  /\ reading \in [Pages -> 0..Len(conns)] /\ lastId \in [Pages -> 0..NoId]
  /\ screen \in [Pages -> Seq(1..bound.output)]
  /\ seq \in [Pages -> 0..bound.batches] /\ unconfirmed \in [Pages -> BOOLEAN]
  /\ reply \in [Pages -> {"none", "ok", "refused"}]
  /\ deletes \subseteq Pages /\ fails \in 0..bound.fails /\ signedIn \in BOOLEAN

(* What a page shows is what the shell wrote, without a gap and with       *)
(* nothing twice, however often its stream broke, fell behind or was taken *)
(* over, and however much the ring has dropped.                            *)
ScreenWhole ==
  \A p \in Pages : \A i \in 2..Len(screen[p]) : screen[p][i] = screen[p][i - 1] + 1

(* A page's batches reach the shell in order, and none twice, as long as   *)
(* no other page's comes between them.                                     *)
TypedInOrder ==
  \A i \in 2..Len(typed) :
    typed[i][1] = typed[i - 1][1] => typed[i - 1][2] < typed[i][2]

(* A batch the page has been told was taken was typed, unless the session  *)
(* had ended.                                                              *)
ConfirmedTyped ==
  \A p \in Pages : state = "open" /\ phase[p] # "ended" =>
    \A n \in 1..seq[p] : n < seq[p] \/ ~unconfirmed[p] => \E i \in 1..Len(typed) : typed[i] = <<p, n>>

(* The deadline of a session nobody is attached to never runs for one that *)
(* a page is attached to.                                                  *)
AttachedNotDetached == client # None /\ timer # "none" => timer = "closing"

(* A session whose pages have all gone, or whose operator has signed out,  *)
(* does not stay.                                                          *)
Left == \A p \in Pages : phase[p] \in {"closed", "ended", "unopened"}

AbandonedEnds == (state = "open" /\ (Left \/ ~signedIn)) ~> (state = "ended" \/ (signedIn /\ ~Left))
=============================================================================
