--------------------------- MODULE SessionsProofs ---------------------------
(***************************************************************************)
(* Proofs about the terminal's session and the stream it is reached by,    *)
(* for any pages, ring, backlog and bounds: an inductive invariant of each *)
(* (ShellInv, StreamInv), and what MCSessions checks of them.              *)
(***************************************************************************)
EXTENDS MCSessions, SequenceTheorems, TLAPS

-----------------------------------------------------------------------------
(* The session and its pages (Terminal).                                   *)

Conn == [queue : Seq(Shell!Messages), open : BOOLEAN]
Shows == {"data", "reset"}

ConnsOK == conns \in Seq(Conn) /\ bound \in Bounds

(* Before the session is open no page has asked for its stream; one stream *)
(* a page, one page a stream.                                              *)
Places ==
  /\ state \in {"none", "starting"} =>
       \A p \in Pages : phase[p] \in {"unopened", "asking"} /\ seq[p] = 0 /\ reply[p] = "none"
  /\ terminalClient # Shell!None => state = "open"
  /\ \A p \in Pages : reading[p] # Shell!None => phase[p] = "joined"
  /\ \A p, q \in Pages : reading[p] = reading[q] /\ reading[p] # Shell!None => p = q

(* What a page shows ends at the event it read last.                       *)
ShownTo ==
  \A p \in Pages : lastId[p] # Shell!NoId /\ screen[p] # <<>> => screen[p][Len(screen[p])] = lastId[p]

(* Each queued event starts where the one before it ended, the first where *)
(* the page is; what the session is attached to ends where the output does.*)
Chained(q, from) ==
  \A i \in 1..Len(q) :
    /\ q[i].kind \notin Shows => i = Len(q)
    /\ q[i].from <= q[i].to
    /\ q[i].kind = "data" => q[i].from = (IF i = 1 THEN from ELSE q[i - 1].to)
Through(q, from) == IF q = <<>> THEN from ELSE q[Len(q)].to
Queued ==
  \A p \in Pages : reading[p] # Shell!None =>
    /\ Chained(conns[reading[p]].queue, lastId[p])
    /\ reading[p] = terminalClient =>
         /\ \A i \in 1..Len(conns[terminalClient].queue) :
              conns[terminalClient].queue[i].kind \in Shows
         /\ Through(conns[terminalClient].queue, lastId[p]) = offset

(* A post carries the batch its page waits for, or an older attempt.       *)
Posts ==
  /\ attempt \in [Pages -> Nat] /\ posts \subseteq Pages \X (1..bound.batches) \X Nat
  /\ \A p \in Pages : unconfirmed[p] => seq[p] > 0
  /\ \A m \in posts : m[3] <= attempt[m[1]] /\ m[2] <= seq[m[1]] /\ (m[3] = attempt[m[1]] => m[2] = seq[m[1]])

Typed(p, n) == \E i \in 1..Len(terminalTyped) : terminalTyped[i] = <<p, n>>
Taken ==
  /\ terminalTyped = <<>> => lastInput = Shell!NoInput
  /\ terminalTyped # <<>> => /\ lastInput = terminalTyped[Len(terminalTyped)]
                             /\ lastInput[2] <= seq[lastInput[1]]
Replied == \A p \in Pages : state = "open" /\ phase[p] # "ended" /\ reply[p] = "ok" => Typed(p, seq[p])

ShellInv == /\ Shell!TypeOK /\ ConnsOK /\ Places /\ Shell!AttachedNotDetached
            /\ ShownTo /\ Queued /\ Shell!ScreenWhole
            /\ Posts /\ Taken /\ Replied /\ Shell!TypedInOrder /\ Shell!ConfirmedTyped

-----------------------------------------------------------------------------
(* What a stream's queue is, one event longer or shorter.                  *)

Put(cs, c, q, o) == [cs EXCEPT ![c] = [queue |-> q, open |-> o]]

LEMMA PutIs ==
  ASSUME NEW cs \in Seq(Conn), NEW c \in 1..Len(cs), NEW q \in Seq(Shell!Messages), NEW o \in BOOLEAN
  PROVE  /\ Put(cs, c, q, o) \in Seq(Conn) /\ Len(Put(cs, c, q, o)) = Len(cs)
         /\ Put(cs, c, q, o)[c].queue = q
         /\ \A d \in 1..Len(cs) : d # c => Put(cs, c, q, o)[d] = cs[d]
<1> DEFINE e == [queue |-> q, open |-> o]
<1>1. e \in Conn
  BY DEF Conn
<1> HIDE DEF e
<1>2. [cs EXCEPT ![c] = e] \in Seq(Conn) /\ Len([cs EXCEPT ![c] = e]) = Len(cs)
  BY <1>1, ExceptSeq
<1>3. \A d \in 1..Len(cs) : [cs EXCEPT ![c] = e][d] = IF d = c THEN e ELSE cs[d]
  BY <1>1, LenProperties
<1>4. e.queue = q
  BY DEF e
<1>5. Put(cs, c, q, o) = [cs EXCEPT ![c] = e]
  BY DEF Put, e
<1>6. QED
  BY <1>2, <1>3, <1>4, <1>5

LEMMA ChainAppend ==
  ASSUME NEW q \in Seq(Shell!Messages), NEW from, NEW m \in Shell!Messages, Chained(q, from),
         \A i \in 1..Len(q) : q[i].kind \in Shows,
         m.from <= m.to, m.kind = "data" => m.from = Through(q, from)
  PROVE  /\ Append(q, m) \in Seq(Shell!Messages) /\ Chained(Append(q, m), from)
         /\ Through(Append(q, m), from) = m.to
  BY AppendProperties, EmptySeq DEF Chained, Through

LEMMA ChainTail ==
  ASSUME NEW q \in Seq(Shell!Messages), NEW from, q # <<>>, Chained(q, from), Head(q).kind \in Shows
  PROVE  /\ Tail(q) \in Seq(Shell!Messages) /\ Chained(Tail(q), Head(q).to)
         /\ Through(Tail(q), Head(q).to) = Through(q, from)
         /\ (\A i \in 1..Len(q) : q[i].kind \in Shows) => \A i \in 1..Len(Tail(q)) : Tail(q)[i].kind \in Shows
<1>1. /\ Tail(q) \in Seq(Shell!Messages) /\ Len(Tail(q)) = Len(q) - 1 /\ Head(q) = q[1]
      /\ \A i \in 1..Len(Tail(q)) : Tail(q)[i] = q[i + 1]
  BY HeadTailProperties
<1>2. Len(q) \in Nat \ {0} /\ Len(Tail(q)) \in Nat
  BY <1>1, EmptySeq
<1>8. Tail(q) = <<>> <=> Len(Tail(q)) = 0
  BY ONLY <1>1, EmptySeq, Zenon
<1>3. ASSUME NEW i \in 1..Len(Tail(q))
      PROVE  /\ Tail(q)[i].kind \notin Shows => i = Len(Tail(q))
             /\ Tail(q)[i].from <= Tail(q)[i].to
             /\ Tail(q)[i].kind = "data" =>
                  Tail(q)[i].from = (IF i = 1 THEN Head(q).to ELSE Tail(q)[i - 1].to)
  <2>1. i \in Nat /\ i + 1 \in 1..Len(q) /\ i + 1 # 1 /\ (i + 1) - 1 = i /\ Tail(q)[i] = q[i + 1]
    BY <1>1, <1>2
  <2>2. q[i] = IF i = 1 THEN Head(q) ELSE Tail(q)[i - 1]
    BY <1>1, <1>2
  <2>3. /\ q[i + 1].kind \notin Shows => i + 1 = Len(q)
        /\ q[i + 1].from <= q[i + 1].to
        /\ q[i + 1].kind = "data" => q[i + 1].from = q[i].to
    BY <2>1 DEF Chained
  <2>4. QED
    BY <1>1, <1>2, <2>1, <2>2, <2>3
<1>4. Through(Tail(q), Head(q).to) = Through(q, from)
  <2>1. CASE Len(q) = 1
    <3>1. Tail(q) = <<>>
      BY <1>1, <1>8, <2>1
    <3>2. QED
      BY <1>1, <2>1, <3>1 DEF Through
  <2>2. CASE Len(q) # 1
    <3>1. Len(q) - 1 \in 1..Len(Tail(q)) /\ Tail(q) # <<>> /\ (Len(q) - 1) + 1 = Len(q)
      BY <1>1, <1>2, <1>8, <2>2
    <3>2. Tail(q)[Len(Tail(q))] = q[Len(q)]
      BY <1>1, <3>1
    <3>3. QED
      BY <3>1, <3>2 DEF Through
  <2>3. QED
    BY <2>1, <2>2
<1>5. Chained(Tail(q), Head(q).to)
  BY <1>3 DEF Chained
<1>6. ASSUME \A i \in 1..Len(q) : q[i].kind \in Shows, NEW i \in 1..Len(Tail(q))
      PROVE  Tail(q)[i].kind \in Shows
  BY <1>1, <1>2, <1>6
<1>7. QED
  BY <1>1, <1>4, <1>5, <1>6

LEMMA MissedChains ==
  ASSUME Shell!TypeOK, NEW id \in 0..Shell!NoId, bound \in Bounds
  PROVE  /\ Shell!Missed(id) \in Seq(Shell!Messages) /\ Chained(Shell!Missed(id), id)
         /\ Through(Shell!Missed(id), id) = offset
         /\ \A i \in 1..Len(Shell!Missed(id)) : Shell!Missed(id)[i].kind \in Shows
<1>1. bound.output \in Nat /\ RingBytes \in Nat \ {0}
  BY Constants DEF Shell!ConstantsOK
<1>2. offset - ring \in 0..bound.output /\ offset \in 0..bound.output
  BY <1>1 DEF Shell!TypeOK, Shell!Least
<1>3. CASE Shell!Missed(id) = <<>> /\ id = offset
  BY <1>3, EmptySeq DEF Chained, Through
<1>4. CASE Shell!Missed(id) = <<Shell!Data(id, offset)>> /\ id < offset
  BY <1>1, <1>2, <1>4 DEF Chained, Through, Shell!Data, Shell!Messages, Shows, Shell!NoId
<1>5. CASE Shell!Missed(id) = <<Shell!Reset(offset - ring, offset)>>
  BY <1>1, <1>2, <1>5 DEF Chained, Through, Shell!Reset, Shell!Messages, Shows, Shell!TypeOK,
     Shell!Least
<1>6. QED
  BY <1>1, <1>2, <1>3, <1>4, <1>5 DEF Shell!Missed, Shell!NoId

LEMMA BytesAre ==
  ASSUME NEW from \in Nat, NEW to \in Nat, from <= to
  PROVE  /\ Shell!Bytes(from, to) \in Seq((from + 1)..to) /\ Len(Shell!Bytes(from, to)) = to - from
         /\ \A i \in 1..(to - from) : Shell!Bytes(from, to)[i] = from + i
<1>1. to - from \in Nat /\ Shell!Bytes(from, to) \in [1..(to - from) -> (from + 1)..to]
  BY DEF Shell!Bytes
<1>2. Shell!Bytes(from, to) \in Seq((from + 1)..to)
  BY <1>1, SeqDef
<1>3. QED
  BY <1>1, <1>2, LenProperties DEF Shell!Bytes

-----------------------------------------------------------------------------
(* What each step does to the streams.                                     *)

LEMMA BoundIs ==
  ASSUME bound \in Bounds
  PROVE  /\ bound.output \in Nat /\ bound.batches \in Nat /\ bound.conns \in Nat
         /\ bound.fails \in Nat
         /\ bound.typists \subseteq Pages /\ RingBytes \in Nat \ {0} /\ MaxBacklog \in Nat \ {0}
  BY Constants DEF Shell!ConstantsOK

LEMMA ConnIs ==
  ASSUME ConnsOK, NEW c \in Shell!Conns
  PROVE  conns[c].queue \in Seq(Shell!Messages) /\ conns[c].open \in BOOLEAN /\ Len(conns) \in Nat
<1>1. conns[c] \in Conn /\ Len(conns) \in Nat
  BY ElementOfSeq, LenProperties DEF ConnsOK, Shell!Conns
<1>2. QED
  BY <1>1 DEF Conn

LEMMA SentIs ==
  ASSUME ConnsOK, NEW c \in Shell!Conns, NEW m \in Shell!Messages
  PROVE  /\ Shell!Sent(c, m) \in Seq(Shell!Messages)
         /\ c \in Shell!Read => Shell!Sent(c, m) = Append(conns[c].queue, m)
<1>1. conns[c].queue \in Seq(Shell!Messages) /\ Append(conns[c].queue, m) \in Seq(Shell!Messages)
  BY ConnIs, AppendProperties
<1>2. QED
  BY <1>1, EmptySeq DEF Shell!Sent

LEMMA LastWordIs ==
  ASSUME ConnsOK, NEW c \in Shell!Conns, NEW m \in Shell!Messages
  PROVE  /\ Shell!LastWord(c, m) \in Seq(Conn) /\ Len(Shell!LastWord(c, m)) = Len(conns)
         /\ Shell!LastWord(c, m)[c].queue = Shell!Sent(c, m)
         /\ \A d \in Shell!Conns : d # c => Shell!LastWord(c, m)[d] = conns[d]
<1> DEFINE o == FALSE
<1>1. /\ conns \in Seq(Conn) /\ c \in 1..Len(conns) /\ o \in BOOLEAN
      /\ Shell!Sent(c, m) \in Seq(Shell!Messages)
  BY SentIs DEF ConnsOK, Shell!Conns
<1>5. Shell!LastWord(c, m) = [conns EXCEPT ![c].queue = Shell!Sent(c, m), ![c].open = o]
  BY DEF Shell!LastWord
<1> HIDE DEF o
<1>2. conns[c] = [queue |-> conns[c].queue, open |-> conns[c].open] /\ c \in DOMAIN conns
  <2>1. conns[c] \in Conn /\ c \in DOMAIN conns
    BY <1>1, ElementOfSeq, LenProperties
  <2>2. QED
    BY <2>1 DEF Conn
<1>3. Shell!LastWord(c, m) = Put(conns, c, Shell!Sent(c, m), o)
  <2> DEFINE q == Shell!Sent(c, m)
  <2> HIDE DEF q
  <2>1. [conns[c] EXCEPT !.queue = q] = [queue |-> q, open |-> conns[c].open]
    BY <1>2
  <2>2. [[queue |-> q, open |-> conns[c].open] EXCEPT !.open = o] = [queue |-> q, open |-> o]
    OBVIOUS
  <2>3. [[conns[c] EXCEPT !.queue = q] EXCEPT !.open = o] = [queue |-> q, open |-> o]
    BY <2>1, <2>2, Zenon
  <2>4. [conns EXCEPT ![c].queue = q, ![c].open = o] = [conns EXCEPT ![c] = [queue |-> q, open |-> o]]
    BY <1>2, <2>3
  <2>5. QED
    BY <1>5, <2>4 DEF Put, q
<1>4. QED
  BY <1>1, <1>3, PutIs DEF Shell!Conns

Queue(c, q) == [conns EXCEPT ![c].queue = q]

LEMMA QueueSet ==
  ASSUME ConnsOK, NEW c \in Shell!Conns, NEW q \in Seq(Shell!Messages)
  PROVE  /\ Queue(c, q) \in Seq(Conn) /\ Len(Queue(c, q)) = Len(conns)
         /\ Queue(c, q)[c].queue = q
         /\ \A d \in Shell!Conns : d # c => Queue(c, q)[d] = conns[d]
<1>1. conns \in Seq(Conn) /\ c \in 1..Len(conns) /\ conns[c].open \in BOOLEAN
  BY ConnIs DEF ConnsOK, Shell!Conns
<1>2. conns[c] = [queue |-> conns[c].queue, open |-> conns[c].open] /\ c \in DOMAIN conns
  <2>1. conns[c] \in Conn /\ c \in DOMAIN conns
    BY <1>1, ElementOfSeq, LenProperties
  <2>2. QED
    BY <2>1 DEF Conn
<1>3. Queue(c, q) = Put(conns, c, q, conns[c].open)
  <2>1. [conns[c] EXCEPT !.queue = q] = [queue |-> q, open |-> conns[c].open]
    BY <1>2
  <2>2. QED
    BY <1>2, <2>1 DEF Put, Queue
<1>4. /\ Put(conns, c, q, conns[c].open) \in Seq(Conn)
      /\ Len(Put(conns, c, q, conns[c].open)) = Len(conns)
      /\ Put(conns, c, q, conns[c].open)[c].queue = q
      /\ \A d \in 1..Len(conns) : d # c => Put(conns, c, q, conns[c].open)[d] = conns[d]
  BY <1>1, PutIs
<1>5. QED
  BY <1>3, <1>4 DEF Shell!Conns

LEMMA ConnClosed ==
  ASSUME ConnsOK, NEW c \in Shell!Conns
  PROVE  /\ [conns EXCEPT ![c].open = FALSE] \in Seq(Conn)
         /\ Len([conns EXCEPT ![c].open = FALSE]) = Len(conns)
         /\ \A d \in Shell!Conns : [conns EXCEPT ![c].open = FALSE][d].queue = conns[d].queue
<1> DEFINE o == FALSE
<1>1. /\ conns \in Seq(Conn) /\ c \in 1..Len(conns) /\ conns[c].queue \in Seq(Shell!Messages)
      /\ o \in BOOLEAN
  BY ConnIs DEF ConnsOK, Shell!Conns
<1>5. [conns EXCEPT ![c].open = FALSE] = [conns EXCEPT ![c].open = o]
  OBVIOUS
<1> HIDE DEF o
<1>2. conns[c] = [queue |-> conns[c].queue, open |-> conns[c].open] /\ c \in DOMAIN conns
  <2>1. conns[c] \in Conn /\ c \in DOMAIN conns
    BY <1>1, ElementOfSeq, LenProperties
  <2>2. QED
    BY <2>1 DEF Conn
<1>3. [conns EXCEPT ![c].open = o] = Put(conns, c, conns[c].queue, o)
  <2>1. [conns[c] EXCEPT !.open = o] = [queue |-> conns[c].queue, open |-> o]
    BY <1>2
  <2>2. QED
    BY <1>2, <2>1 DEF Put
<1>4. [conns EXCEPT ![c].open = FALSE] = Put(conns, c, conns[c].queue, o)
  BY ONLY <1>3, <1>5, Zenon
<1>6. /\ Put(conns, c, conns[c].queue, o) \in Seq(Conn)
      /\ Len(Put(conns, c, conns[c].queue, o)) = Len(conns)
      /\ \A d \in Shell!Conns : Put(conns, c, conns[c].queue, o)[d].queue = conns[d].queue
  BY <1>1, PutIs DEF Shell!Conns
<1>7. QED
  BY ONLY <1>4, <1>6, Zenon

LEMMA ToldIs ==
  ASSUME bound \in Bounds
  PROVE  /\ Shell!Told("moved") \in Shell!Messages /\ Shell!Told("ended") \in Shell!Messages
         /\ \A k \in {"moved", "ended"} : Shell!Told(k).kind = k /\ Shell!Told(k).from = 0 /\ Shell!Told(k).to = 0
  BY BoundIs DEF Shell!Told, Shell!Messages

LEMMA EndIs ==
  ASSUME ShellInv, NEW reason, Shell!end(reason)
  PROVE  /\ state = "open" /\ state' = "ended"
         /\ \/ terminalClient = Shell!None /\ UNCHANGED <<conns, terminalClient, found>> /\ timer' = "detached"
            \/ /\ terminalClient \in Shell!Conns /\ conns' = Shell!LastWord(terminalClient, Shell!Told("ended"))
               /\ terminalClient' = Shell!None /\ found' = FALSE /\ timer' = "none"
               /\ conns' \in Seq(Conn) /\ Len(conns') = Len(conns)
               /\ Shell!Told("ended") \in Shell!Messages
<1>1. CASE terminalClient = Shell!None
  BY <1>1 DEF Shell!end, Shell!streams
<1>2. CASE terminalClient # Shell!None
  <2>1. terminalClient \in Shell!Conns /\ Shell!Told("ended") \in Shell!Messages
    BY <1>2, ToldIs, LenProperties DEF ShellInv, Shell!TypeOK, ConnsOK, Shell!Conns, Shell!None
  <2>2. conns' = Shell!LastWord(terminalClient, Shell!Told("ended"))
    BY <1>2 DEF Shell!end
  <2>3. conns' \in Seq(Conn) /\ Len(conns') = Len(conns)
    BY <2>1, <2>2, LastWordIs DEF ShellInv
  <2>4. QED
    BY <1>2, <2>1, <2>2, <2>3 DEF Shell!end
<1>3. QED
  BY <1>1, <1>2

LEMMA AttachIs ==
  ASSUME ShellInv, NEW p \in Pages, Shell!Attach(p)
  PROVE  LET before == IF terminalClient = Shell!None THEN conns
                       ELSE Shell!LastWord(terminalClient, Shell!Told("moved")) IN
         /\ before \in Seq(Conn) /\ Len(before) = Len(conns)
         /\ conns' = Append(before, Shell!Opened(Shell!Missed(lastId[p]), TRUE))
         /\ conns' \in Seq(Conn) /\ Len(conns') = Len(conns) + 1
<1>1. /\ ConnsOK /\ conns \in Seq(Conn) /\ bound \in Bounds /\ Len(conns) \in Nat
      /\ terminalClient \in 0..Len(conns)
  BY LenProperties DEF ShellInv, ConnsOK, Shell!TypeOK
<1>2. Shell!Opened(Shell!Missed(lastId[p]), TRUE) \in Conn
  <2>1. Shell!Missed(lastId[p]) \in Seq(Shell!Messages)
    BY <1>1, MissedChains DEF ShellInv, Shell!TypeOK
  <2>2. QED
    BY <2>1 DEF Shell!Opened, Conn
<1> DEFINE before == IF terminalClient = Shell!None THEN conns ELSE Shell!LastWord(terminalClient, Shell!Told("moved"))
<1>3. before \in Seq(Conn) /\ Len(before) = Len(conns)
  BY <1>1, ToldIs, LastWordIs DEF Shell!Conns, Shell!None
<1>4. conns' = Append(before, Shell!Opened(Shell!Missed(lastId[p]), TRUE))
  BY DEF Shell!Attach
<1> HIDE DEF before
<1>5. conns' \in Seq(Conn) /\ Len(conns') = Len(before) + 1
  BY <1>2, <1>3, <1>4, AppendProperties
<1>6. QED
  BY <1>3, <1>4, <1>5 DEF before

LEMMA AttachEndedIs ==
  ASSUME ShellInv, NEW p \in Pages, Shell!AttachEnded(p)
  PROVE  /\ Append(Shell!Missed(lastId[p]), Shell!Told("ended")) \in Seq(Shell!Messages)
         /\ conns' = Append(conns, Shell!Opened(Append(Shell!Missed(lastId[p]), Shell!Told("ended")), FALSE))
         /\ conns' \in Seq(Conn) /\ Len(conns') = Len(conns) + 1
<1>1. ConnsOK /\ conns \in Seq(Conn) /\ bound \in Bounds /\ Len(conns) \in Nat
  BY LenProperties DEF ShellInv, ConnsOK
<1>2. Append(Shell!Missed(lastId[p]), Shell!Told("ended")) \in Seq(Shell!Messages)
  BY <1>1, MissedChains, ToldIs, AppendProperties DEF ShellInv, Shell!TypeOK
<1>3. Shell!Opened(Append(Shell!Missed(lastId[p]), Shell!Told("ended")), FALSE) \in Conn
  BY <1>2 DEF Shell!Opened, Conn
<1>4. conns' = Append(conns, Shell!Opened(Append(Shell!Missed(lastId[p]), Shell!Told("ended")), FALSE))
  BY DEF Shell!AttachEnded
<1>5. conns' \in Seq(Conn) /\ Len(conns') = Len(conns) + 1
  BY <1>1, <1>3, <1>4, AppendProperties
<1>6. QED
  BY <1>2, <1>4, <1>5

LEMMA StreamsStep ==
  ASSUME ShellInv, Shell!Next
  PROVE  /\ bound' = bound /\ conns' \in Seq(Conn) /\ Len(conns) \in Nat
         /\ Len(conns) <= Len(conns') /\ Len(conns') <= bound.conns
         /\ terminalClient' \in 0..Len(conns')
<1>1. /\ conns \in Seq(Conn) /\ ConnsOK /\ bound \in Bounds /\ Len(conns) \in Nat
      /\ terminalClient \in 0..Len(conns) /\ Len(conns) <= bound.conns
      /\ bound.output \in Nat /\ bound.conns \in Nat
  BY BoundIs, LenProperties DEF ShellInv, ConnsOK, Shell!TypeOK
<1> DEFINE Goal == /\ bound' = bound /\ conns' \in Seq(Conn)
                   /\ Len(conns) <= Len(conns') /\ Len(conns') <= bound.conns
                   /\ terminalClient' \in 0..Len(conns')
<1>2. CASE UNCHANGED <<conns, terminalClient, bound>>
  BY <1>1, <1>2
<1>3. ASSUME NEW reason, Shell!end(reason), bound' = bound
      PROVE  Goal
  <2>1. \/ conns' = conns /\ terminalClient' = terminalClient
        \/ conns' \in Seq(Conn) /\ Len(conns') = Len(conns) /\ terminalClient' = Shell!None
    BY <1>3, EndIs
  <2>2. QED
    BY <1>1, <1>3, <2>1 DEF Shell!None
<1>4. ASSUME NEW n \in 1..2, Shell!Output(n)
      PROVE  Goal
  <2>1. Shell!Data(offset, offset + n) \in Shell!Messages
    BY <1>1, <1>4 DEF Shell!Output, Shell!Data, Shell!Messages, ShellInv, Shell!TypeOK
  <2>2. CASE /\ terminalClient # Shell!None
             /\ terminalClient' = terminalClient
             /\ conns' = [conns EXCEPT ![terminalClient].queue =
                                         Shell!Sent(terminalClient, Shell!Data(offset, offset + n))]
    <3>1. /\ terminalClient \in Shell!Conns
          /\ Shell!Sent(terminalClient, Shell!Data(offset, offset + n)) \in Seq(Shell!Messages)
      BY <1>1, <2>1, <2>2, SentIs DEF Shell!Conns, Shell!None
    <3>2. conns' = Queue(terminalClient, Shell!Sent(terminalClient, Shell!Data(offset, offset + n)))
      BY <2>2 DEF Queue
    <3>3. conns' \in Seq(Conn) /\ Len(conns') = Len(conns)
      BY <1>1, <3>1, <3>2, QueueSet
    <3>4. bound' = bound
      BY <1>4 DEF Shell!Output
    <3>5. QED
      BY <1>1, <2>2, <3>3, <3>4
  <2>3. CASE /\ terminalClient # Shell!None /\ terminalClient' = Shell!None
             /\ conns' = Shell!LastWord(terminalClient, Shell!Data(offset, offset + n))
    <3>1. terminalClient \in Shell!Conns
      BY <1>1, <2>3 DEF Shell!Conns, Shell!None
    <3>2. QED
      BY <1>1, <1>4, <2>1, <2>3, <3>1, LastWordIs DEF Shell!Output, Shell!None
  <2>4. QED
    BY <1>1, <1>2, <1>4, <2>2, <2>3 DEF Shell!Output, Shell!streams
<1>5. ASSUME NEW p \in Pages, Shell!Attach(p)
      PROVE  Goal
  <2>1. terminalClient' = Len(conns) + 1 /\ Len(conns) < bound.conns /\ bound' = bound
    BY <1>5 DEF Shell!Attach
  <2>2. conns' \in Seq(Conn) /\ Len(conns') = Len(conns) + 1
    BY <1>5, AttachIs
  <2>3. QED
    BY <1>1, <2>1, <2>2
<1>6. ASSUME NEW p \in Pages, Shell!AttachEnded(p)
      PROVE  Goal
  <2>1. terminalClient' = terminalClient /\ Len(conns) < bound.conns /\ bound' = bound
    BY <1>6 DEF Shell!AttachEnded
  <2>2. conns' \in Seq(Conn) /\ Len(conns') = Len(conns) + 1
    BY <1>6, AttachEndedIs
  <2>3. QED
    BY <1>1, <2>1, <2>2
<1>7. ASSUME NEW p \in Pages, reading[p] # Shell!None, terminalClient' = terminalClient,
             bound' = bound, NEW q \in Seq(Shell!Messages),
             conns' = Queue(reading[p], q)
      PROVE  Goal
  <2>1. reading[p] \in Shell!Conns
    BY <1>1, <1>7 DEF ShellInv, Shell!TypeOK, Shell!Conns, Shell!None
  <2>2. QED
    BY <1>1, <1>7, <2>1, QueueSet
<1>8. ASSUME NEW p \in Pages, Shell!Receive(p)
      PROVE  Goal
  <2> DEFINE c == reading[p]
  <2>6. reading[p] # Shell!None /\ reading \in [Pages -> 0..Len(conns)]
    BY <1>8 DEF Shell!Receive, ShellInv, Shell!TypeOK
  <2>1. c \in Shell!Conns
    BY <1>1, <2>6 DEF Shell!Conns, Shell!None
  <2>5. conns[c].queue \in Seq(Shell!Messages) /\ conns[c].queue # <<>>
    BY <1>1, <1>8, <2>1, ConnIs DEF Shell!Receive
  <2>2. Tail(conns[c].queue) \in Seq(Shell!Messages)
    BY <2>5, HeadTailProperties
  <2>3. /\ conns' = Queue(c, Tail(conns[c].queue)) /\ c # Shell!None
        /\ terminalClient' = terminalClient /\ bound' = bound
    BY <1>8 DEF Shell!Receive, Queue
  <2>4. QED
    BY <1>7, <2>2, <2>3
<1>9. ASSUME NEW p \in Pages, Shell!StreamEnds(p) \/ Shell!PageHide(p)
      PROVE  Goal
  <2>1. /\ terminalClient' = terminalClient /\ bound' = bound
        /\ conns' = conns \/ (reading[p] # Shell!None /\ conns' = Queue(reading[p], <<>>))
    BY <1>9 DEF Shell!StreamEnds, Shell!PageHide, Queue
  <2>2. CASE conns' = conns
    BY <1>2, <2>1, <2>2
  <2>3. CASE reading[p] # Shell!None /\ conns' = Queue(reading[p], <<>>)
    <3>1. <<>> \in Seq(Shell!Messages)
      BY EmptySeq
    <3>2. QED
      BY <1>7, <2>1, <2>3, <3>1
  <2>4. QED
    BY <2>1, <2>2, <2>3
<1>10. ASSUME NEW c \in Shell!Conns, Shell!Detach(c)
       PROVE  Goal
  <2>1. /\ conns' = [conns EXCEPT ![c].open = FALSE] /\ bound' = bound
        /\ (terminalClient' = terminalClient \/ terminalClient' = Shell!None)
    BY <1>10 DEF Shell!Detach
  <2>2. QED
    BY <1>1, <2>1, ConnClosed DEF Shell!None
<1>11. CASE Shell!DeadlinePasses \/ Shell!ShellEnds \/ Shell!Recheck
  BY <1>2, <1>3, <1>11 DEF Shell!DeadlinePasses, Shell!ShellEnds, Shell!Recheck, Shell!streams
<1>12. ASSUME NEW p \in Pages, \/ Shell!createSession(p) \/ Shell!OpenPage(p)
                               \/ Shell!AttachRefused(p) \/ Shell!pump(p)
                               \/ Shell!PostFails(p) \/ Shell!Reply(p)
                               \/ Shell!PageShow(p) \/ Shell!close(p)
       PROVE  Goal
  BY <1>2, <1>12 DEF Shell!createSession, Shell!OpenPage, Shell!AttachRefused, Shell!pump,
     Shell!PostFails, Shell!Reply, Shell!PageShow, Shell!close, Shell!streams
<1>13. CASE Shell!Ready \/ Shell!StartFails \/ Shell!SignOut \/ \E m \in posts : Shell!Deliver(m)
  BY <1>2, <1>13 DEF Shell!Ready, Shell!StartFails, Shell!SignOut, Shell!Deliver, Shell!streams
<1>14. Goal
  BY <1>4, <1>5, <1>6, <1>8, <1>9, <1>10, <1>11, <1>12, <1>13 DEF Shell!Next
<1>15. QED
  BY <1>1, <1>14

-----------------------------------------------------------------------------
(* The types.                                                              *)

SessionOK ==
  /\ state \in {"none", "starting", "open", "ended"} /\ found \in BOOLEAN
  /\ timer \in {"none", "closing", "detached"}
  /\ why \in {"none", "exit", "closed", "detached", "signed-out", "protocol", "disconnected"}
  /\ deletes \subseteq Pages /\ fails \in 0..bound.fails /\ signedIn \in BOOLEAN

OutputOK == offset \in 0..bound.output /\ ring \in 0..Shell!Least(offset, RingBytes)

InputOK == /\ lastInput \in Shell!Batch \cup {Shell!NoInput} /\ terminalTyped \in Seq(Shell!Batch)
           /\ seq \in [Pages -> 0..bound.batches] /\ unconfirmed \in [Pages -> BOOLEAN]
           /\ reply \in [Pages -> {"none", "ok", "refused"}]

PagesOK == /\ phase \in [Pages -> {"unopened", "asking", "connecting", "joined", "ended", "closed"}]
           /\ reading \in [Pages -> 0..Len(conns)] /\ lastId \in [Pages -> 0..Shell!NoId]
           /\ screen \in [Pages -> Seq(1..bound.output)]

LEMMA Types == ConnsOK => (Shell!TypeOK <=> /\ SessionOK /\ OutputOK /\ InputOK /\ PagesOK
                                            /\ terminalClient \in 0..Len(conns) /\ Len(conns) <= bound.conns)
<1> SUFFICES ASSUME ConnsOK
             PROVE  Shell!TypeOK <=> /\ SessionOK /\ OutputOK /\ InputOK /\ PagesOK
                                     /\ terminalClient \in 0..Len(conns)
                                     /\ Len(conns) <= bound.conns
  OBVIOUS
<1>1. \A c \in Shell!Conns : conns[c].queue \in Seq(Shell!Messages) /\ conns[c].open \in BOOLEAN
  BY ConnIs
<1>2. QED
  BY <1>1 DEF Shell!TypeOK, SessionOK, OutputOK, InputOK, PagesOK

LEMMA SessionStep ==
  ASSUME ShellInv, Shell!Next
  PROVE  SessionOK'
<1>1. SessionOK /\ bound' = bound /\ bound.fails \in Nat
  BY StreamsStep, BoundIs DEF ShellInv, ConnsOK, Shell!TypeOK, SessionOK
<1>2. ASSUME NEW grace \in {"closing", "detached"}, Shell!scheduleEnd(grace)
      PROVE  timer' \in {"none", "closing", "detached"}
  BY <1>1, <1>2 DEF Shell!scheduleEnd, SessionOK
<1>3. ASSUME NEW reason \in {"exit", "closed", "detached", "signed-out", "protocol", "disconnected"},
             Shell!end(reason), UNCHANGED <<deletes, fails, signedIn>>
      PROVE  SessionOK'
  <2>1. /\ timer' \in {"none", "detached"} /\ found' \in {found, FALSE} /\ state' = "ended"
        /\ why' = reason
    BY <1>3 DEF Shell!end
  <2>2. QED
    BY <1>1, <1>3, <2>1 DEF SessionOK
<1>4. ASSUME UNCHANGED <<state, found, why, deletes, fails, signedIn>>, timer' \in {"none", "closing", "detached"}
      PROVE  SessionOK'
  BY <1>1, <1>4 DEF SessionOK
<1>5. CASE Shell!Ready \/ Shell!StartFails \/ Shell!SignOut
  BY <1>1, <1>2, <1>5 DEF Shell!Ready, Shell!StartFails, Shell!SignOut, SessionOK,
     Shell!session, Shell!output, Shell!streams, Shell!input, Shell!page, Shell!sending
<1>6. CASE Shell!DeadlinePasses \/ Shell!ShellEnds \/ Shell!Recheck
  <2>1. UNCHANGED <<deletes, fails, signedIn>>
    BY <1>6 DEF Shell!DeadlinePasses, Shell!ShellEnds, Shell!Recheck, Shell!sending
  <2>2. \/ \E reason \in {"exit", "closed", "detached", "signed-out", "protocol", "disconnected"} : Shell!end(reason)
        \/ state = "ended" /\ found' = FALSE /\ timer' = "none" /\ UNCHANGED <<state, why>>
    BY <1>6 DEF Shell!DeadlinePasses, Shell!ShellEnds, Shell!Recheck
  <2>3. QED
    BY <1>1, <1>3, <2>1, <2>2 DEF SessionOK
<1>7. ASSUME NEW n \in 1..2, Shell!Output(n)
      PROVE  SessionOK'
  <2>1. UNCHANGED <<state, found, why, deletes, fails, signedIn>>
    BY <1>7 DEF Shell!Output, Shell!sending
  <2>2. timer' \in {"none", "closing", "detached"}
    BY <1>1, <1>2, <1>7 DEF Shell!Output, SessionOK
  <2>3. QED
    BY <1>4, <2>1, <2>2
<1>8. ASSUME NEW p \in Pages, Shell!close(p)
      PROVE  SessionOK'
  <2>1. timer' \in {"none", "closing", "detached"}
    BY <1>1, <1>2, <1>8 DEF Shell!close, SessionOK
  <2>2. UNCHANGED <<state, found, why, fails, signedIn>> /\ deletes' \subseteq Pages
    BY <1>1, <1>8 DEF Shell!close, Shell!sending, SessionOK
  <2>3. QED
    BY <1>1, <2>1, <2>2 DEF SessionOK
<1>9. ASSUME NEW c \in Shell!Conns, Shell!Detach(c)
      PROVE  SessionOK'
  <2>1. UNCHANGED <<state, found, why, deletes, fails, signedIn>>
    BY <1>9 DEF Shell!Detach, Shell!sending
  <2>2. timer' \in {"none", "closing", "detached"}
    BY <1>1, <1>2, <1>9 DEF Shell!Detach, SessionOK
  <2>3. QED
    BY <1>4, <2>1, <2>2
<1>10. ASSUME NEW p \in Pages, Shell!createSession(p) \/ Shell!Attach(p) \/ Shell!AttachEnded(p)
       PROVE  SessionOK'
  BY <1>1, <1>10 DEF Shell!createSession, Shell!Attach, Shell!AttachEnded, SessionOK,
     Shell!sending
<1>11. ASSUME NEW p \in Pages, Shell!OpenPage(p) \/ Shell!AttachRefused(p)
                               \/ Shell!Receive(p) \/ Shell!StreamEnds(p) \/ Shell!pump(p)
                               \/ Shell!PostFails(p)
                               \/ Shell!Reply(p) \/ Shell!PageHide(p) \/ Shell!PageShow(p)
       PROVE  SessionOK'
  <2>1. UNCHANGED <<state, found, why, timer, signedIn>>
    BY <1>11 DEF Shell!OpenPage, Shell!AttachRefused, Shell!Receive, Shell!StreamEnds,
       Shell!pump, Shell!PostFails, Shell!Reply, Shell!PageHide, Shell!PageShow, Shell!session
  <2>2. deletes' \subseteq Pages
    BY <1>1, <1>11 DEF Shell!OpenPage, Shell!AttachRefused, Shell!Receive, Shell!StreamEnds,
       Shell!pump, Shell!PostFails, Shell!Reply, Shell!PageHide, Shell!PageShow, SessionOK
  <2>5. fails' = fails \/ (fails < bound.fails /\ fails' = fails + 1)
    BY <1>11 DEF Shell!OpenPage, Shell!AttachRefused, Shell!Receive, Shell!StreamEnds,
       Shell!pump, Shell!PostFails, Shell!Reply, Shell!PageHide, Shell!PageShow, Shell!sending
  <2>3. fails' \in 0..bound.fails
    BY <1>1, <2>5 DEF SessionOK
  <2>4. QED
    BY <1>1, <2>1, <2>2, <2>3 DEF SessionOK
<1>12. ASSUME NEW m \in posts, Shell!Deliver(m)
       PROVE  SessionOK'
  BY <1>1, <1>12 DEF Shell!Deliver, SessionOK, Shell!session
<1>13. QED
  BY <1>5, <1>6, <1>7, <1>8, <1>9, <1>10, <1>11, <1>12 DEF Shell!Next

LEMMA OutputStep ==
  ASSUME ShellInv, Shell!Next
  PROVE  OutputOK'
<1>1. /\ OutputOK /\ bound' = bound /\ bound.output \in Nat /\ RingBytes \in Nat
      /\ offset \in Nat /\ ring \in Nat
  BY StreamsStep, BoundIs DEF ShellInv, ConnsOK, Shell!TypeOK, OutputOK
<1>2. CASE UNCHANGED Shell!output
  BY <1>1, <1>2 DEF Shell!output, OutputOK
<1>3. ASSUME NEW n \in 1..2, Shell!Output(n)
      PROVE  OutputOK'
  <2>1. /\ offset' = offset + n /\ ring' = Shell!Least(ring + n, RingBytes)
        /\ offset + n <= bound.output
    BY <1>3 DEF Shell!Output
  <2>2. QED
    BY <1>1, <2>1 DEF OutputOK, Shell!Least
<1>4. ASSUME ~\E n \in 1..2 : Shell!Output(n)
      PROVE  UNCHANGED Shell!output
  BY <1>4 DEF Shell!Next, Shell!Ready, Shell!StartFails, Shell!SignOut, Shell!DeadlinePasses,
     Shell!ShellEnds, Shell!Recheck, Shell!createSession, Shell!OpenPage, Shell!Attach,
     Shell!AttachEnded, Shell!AttachRefused, Shell!Receive, Shell!StreamEnds, Shell!pump,
     Shell!PostFails, Shell!Reply, Shell!PageHide, Shell!PageShow, Shell!close, Shell!Detach,
     Shell!Deliver
<1>5. QED
  BY <1>2, <1>3, <1>4

LEMMA InputStep ==
  ASSUME ShellInv, Shell!Next
  PROVE  InputOK'
<1>1. InputOK /\ bound' = bound /\ bound.batches \in Nat /\ Shell!Batch' = Shell!Batch
  BY StreamsStep, BoundIs DEF ShellInv, ConnsOK, Shell!TypeOK, InputOK, Shell!Batch
<1>2. CASE UNCHANGED <<lastInput, terminalTyped, seq, unconfirmed, reply>>
  BY <1>1, <1>2 DEF InputOK
<1>3. ASSUME NEW p \in Pages, Shell!pump(p) \/ Shell!PostFails(p)
      PROVE  InputOK'
  <2>1. UNCHANGED <<lastInput, terminalTyped>> /\ reply' = [reply EXCEPT ![p] = "none"]
    BY <1>3 DEF Shell!pump, Shell!PostFails, Shell!input
  <2>2. unconfirmed' = unconfirmed \/ unconfirmed' = [unconfirmed EXCEPT ![p] = TRUE]
    BY <1>3 DEF Shell!pump, Shell!PostFails
  <2>3. seq' = seq \/ (seq[p] < bound.batches /\ seq' = [seq EXCEPT ![p] = @ + 1])
    BY <1>3 DEF Shell!pump, Shell!PostFails
  <2>4. seq' \in [Pages -> 0..bound.batches]
    BY <1>1, <2>3 DEF InputOK
  <2>5. unconfirmed' \in [Pages -> BOOLEAN]
    BY <1>1, <2>2 DEF InputOK
  <2>6. QED
    BY <1>1, <2>1, <2>4, <2>5 DEF InputOK
<1>4. ASSUME NEW p \in Pages, Shell!AttachRefused(p) \/ Shell!Receive(p) \/ Shell!Reply(p)
      PROVE  InputOK'
  <2>1. UNCHANGED <<lastInput, terminalTyped, seq>>
    BY <1>4 DEF Shell!AttachRefused, Shell!Receive, Shell!Reply, Shell!input
  <2>2. unconfirmed' = unconfirmed \/ unconfirmed' = [unconfirmed EXCEPT ![p] = FALSE]
    BY <1>4 DEF Shell!AttachRefused, Shell!Receive, Shell!Reply, Shell!ShowEnded
  <2>3. reply' = reply \/ reply' = [reply EXCEPT ![p] = "none"]
    BY <1>4 DEF Shell!AttachRefused, Shell!Receive, Shell!Reply
  <2>4. unconfirmed' \in [Pages -> BOOLEAN]
    BY <1>1, <2>2 DEF InputOK
  <2>5. QED
    BY <1>1, <2>1, <2>3, <2>4 DEF InputOK
<1>5. ASSUME NEW m \in posts, Shell!Deliver(m)
      PROVE  InputOK'
  <2>1. UNCHANGED <<seq, unconfirmed>>
    BY <1>5 DEF Shell!Deliver
  <2>2. reply' \in [Pages -> {"none", "ok", "refused"}]
    BY <1>1, <1>5 DEF Shell!Deliver, Shell!Answered, InputOK
  <2> DEFINE batch == <<m[1], m[2]>>
  <2>3. batch \in Shell!Batch
    BY <1>1, <1>5 DEF ShellInv, Posts, Shell!Batch
  <2>4. UNCHANGED Shell!input \/ (lastInput' = batch /\ terminalTyped' = Append(terminalTyped, batch))
    BY <1>5 DEF Shell!Deliver
  <2> HIDE DEF batch
  <2>7. /\ terminalTyped \in Seq(Shell!Batch) /\ Append(terminalTyped, batch) \in Seq(Shell!Batch)
        /\ lastInput \in Shell!Batch \cup {Shell!NoInput}
    BY <1>1, <2>3, AppendProperties DEF InputOK
  <2>5. lastInput' \in Shell!Batch \cup {Shell!NoInput} /\ terminalTyped' \in Seq(Shell!Batch)
    BY <2>3, <2>4, <2>7 DEF Shell!input
  <2>6. QED
    BY <1>1, <2>1, <2>2, <2>5 DEF InputOK
<1>6. ASSUME ~\E p \in Pages : Shell!pump(p) \/ Shell!PostFails(p)
                               \/ Shell!AttachRefused(p) \/ Shell!Receive(p) \/ Shell!Reply(p),
             ~\E m \in posts : Shell!Deliver(m)
      PROVE  UNCHANGED <<lastInput, terminalTyped, seq, unconfirmed, reply>>
  BY <1>6 DEF Shell!Next, Shell!Ready, Shell!StartFails, Shell!SignOut, Shell!DeadlinePasses,
     Shell!ShellEnds, Shell!Recheck, Shell!createSession, Shell!OpenPage, Shell!Attach,
     Shell!AttachEnded, Shell!StreamEnds, Shell!PageHide, Shell!PageShow, Shell!close,
     Shell!Detach, Shell!Output, Shell!sending, Shell!input
<1>7. QED
  BY <1>2, <1>3, <1>4, <1>5, <1>6

(* What a page shows when it has read an event.                            *)
LEMMA Heads ==
  ASSUME ShellInv, NEW p \in Pages, Shell!Receive(p)
  PROVE  LET m == Head(conns[reading[p]].queue) IN
         /\ reading[p] \in Shell!Conns /\ conns[reading[p]].queue # <<>>
         /\ conns[reading[p]].queue \in Seq(Shell!Messages)
         /\ m \in Shell!Messages /\ m.from <= m.to /\ m.from \in Nat /\ m.to \in 0..bound.output
         /\ m.kind = "data" => m.from = lastId[p]
<1> DEFINE q == conns[reading[p]].queue
           m == Head(q)
<1>1. /\ reading[p] # Shell!None /\ q # <<>> /\ reading \in [Pages -> 0..Len(conns)] /\ ConnsOK
      /\ Len(conns) \in Nat
  BY LenProperties DEF Shell!Receive, ShellInv, Shell!TypeOK, ConnsOK
<1>2. reading[p] \in Shell!Conns
  BY <1>1 DEF Shell!Conns, Shell!None
<1>3. q \in Seq(Shell!Messages)
  BY <1>1, <1>2, ConnIs
<1> HIDE DEF q
<1>4. m \in Shell!Messages /\ 1 \in 1..Len(q) /\ m = q[1]
  BY <1>1, <1>3, HeadTailProperties, EmptySeq
<1>5. Chained(q, lastId[p])
  BY <1>1 DEF ShellInv, Queued, q
<1>6. m.from <= m.to /\ (m.kind = "data" => m.from = lastId[p])
  BY <1>4, <1>5 DEF Chained
<1>7. bound.output \in Nat
  BY <1>1, BoundIs DEF ConnsOK
<1> HIDE DEF m
<1>8. m.from \in Nat /\ m.to \in 0..bound.output
  BY <1>4, <1>7 DEF Shell!Messages
<1>9. QED
  BY <1>1, <1>2, <1>3, <1>4, <1>6, <1>8 DEF m, q

LEMMA PagesStep ==
  ASSUME ShellInv, Shell!Next
  PROVE  PagesOK'
<1>1. /\ PagesOK /\ bound' = bound /\ Shell!NoId' = Shell!NoId /\ Shell!NoId \in Nat
      /\ bound.output \in Nat
      /\ Len(conns) \in Nat /\ Len(conns') \in Nat /\ Len(conns) <= Len(conns')
  <2>1. /\ bound' = bound /\ bound \in Bounds /\ conns \in Seq(Conn) /\ conns' \in Seq(Conn)
        /\ Len(conns) <= Len(conns')
    BY StreamsStep DEF ShellInv, ConnsOK
  <2>2. PagesOK
    BY DEF ShellInv, Shell!TypeOK, PagesOK
  <2>3. QED
    BY <2>1, <2>2, BoundIs, LenProperties DEF Shell!NoId
<1>2. 0..Len(conns) \subseteq 0..Len(conns')
  BY <1>1
<1>3. reading' \in [Pages -> 0..Len(conns)] => reading' \in [Pages -> 0..Len(conns')]
  BY <1>2
<1>4. ASSUME UNCHANGED <<lastId, screen>>,
             phase' \in [Pages -> {"unopened", "asking", "connecting", "joined", "ended", "closed"}],
             reading' \in [Pages -> 0..Len(conns)]
      PROVE  PagesOK'
  BY <1>1, <1>3, <1>4 DEF PagesOK
<1>5. CASE UNCHANGED Shell!page
  BY <1>1, <1>4, <1>5 DEF Shell!page, PagesOK
<1>6. CASE Shell!Ready \/ Shell!StartFails
  BY <1>1, <1>4, <1>6 DEF Shell!Ready, Shell!StartFails, PagesOK
<1>7. ASSUME NEW p \in Pages, \/ Shell!createSession(p) \/ Shell!OpenPage(p)
                              \/ Shell!AttachRefused(p) \/ Shell!StreamEnds(p)
                              \/ Shell!Reply(p) \/ Shell!PageHide(p)
      PROVE  PagesOK'
  <2>1. UNCHANGED <<lastId, screen>> /\ reading' \in {reading, [reading EXCEPT ![p] = Shell!None]}
    BY <1>7 DEF Shell!createSession, Shell!OpenPage, Shell!AttachRefused, Shell!StreamEnds,
       Shell!Reply, Shell!PageHide
  <2>2. phase' = phase \/ \E s \in {"asking", "connecting", "ended", "closed"} : phase' = [phase EXCEPT ![p] = s]
    BY <1>7 DEF Shell!createSession, Shell!OpenPage, Shell!AttachRefused, Shell!StreamEnds,
       Shell!Reply, Shell!PageHide, Shell!ShowEnded
  <2>3. phase' \in [Pages -> {"unopened", "asking", "connecting", "joined", "ended", "closed"}]
    BY <1>1, <2>2 DEF PagesOK
  <2>4. reading' \in [Pages -> 0..Len(conns)]
    <3>1. reading \in [Pages -> 0..Len(conns)] /\ Shell!None \in 0..Len(conns)
      BY <1>1 DEF PagesOK, Shell!None
    <3>2. QED
      BY <2>1, <3>1
  <2>5. QED
    BY <1>4, <2>1, <2>3, <2>4
<1>8. ASSUME NEW p \in Pages, Shell!Attach(p) \/ Shell!AttachEnded(p)
      PROVE  PagesOK'
  <2>1. /\ UNCHANGED <<lastId, screen>> /\ phase' = [phase EXCEPT ![p] = "joined"]
        /\ reading' = [reading EXCEPT ![p] = Len(conns) + 1]
    BY <1>8 DEF Shell!Attach, Shell!AttachEnded
  <2>2. Len(conns') = Len(conns) + 1
    BY <1>8, AttachIs, AttachEndedIs
  <2>3. Len(conns) + 1 \in 0..Len(conns')
    BY <1>1, <2>2
  <2>4. reading' \in [Pages -> 0..Len(conns')]
    BY <1>1, <1>2, <2>1, <2>3 DEF PagesOK
  <2>5. QED
    BY <1>1, <2>1, <2>4 DEF PagesOK
<1>9. ASSUME NEW p \in Pages, Shell!Receive(p)
      PROVE  PagesOK'
  <2> DEFINE m == Head(conns[reading[p]].queue)
  <2>1. m.from <= m.to /\ m.from \in Nat /\ m.to \in 0..bound.output
    BY <1>9, Heads
  <2>2. CASE m.kind \in {"moved", "ended"}
    <3>1. /\ UNCHANGED <<lastId, screen>> /\ reading' = [reading EXCEPT ![p] = Shell!None]
          /\ phase' = [phase EXCEPT ![p] = "ended"]
      BY <1>9, <2>2 DEF Shell!Receive, Shell!ShowEnded
    <3>2. QED
      BY <1>1, <1>4, <3>1 DEF PagesOK, Shell!None
  <2>3. CASE m.kind \in {"data", "reset"}
    <3>1. UNCHANGED <<phase, reading>> /\ lastId' = [lastId EXCEPT ![p] = m.to]
      BY <1>9, <2>3 DEF Shell!Receive
    <3>2. \/ screen' = [screen EXCEPT ![p] = @ \o Shell!Bytes(m.from, m.to)]
          \/ screen' = [screen EXCEPT ![p] = Shell!Bytes(m.from, m.to)]
      BY <1>9, <2>3 DEF Shell!Receive
    <3> HIDE DEF m
    <3>3. Shell!Bytes(m.from, m.to) \in Seq(1..bound.output)
      <4>1. m.from + 1 \in Nat /\ (m.from + 1)..m.to \subseteq 1..bound.output
        BY <1>1, <2>1
      <4>2. m.from \in Nat /\ m.to \in Nat /\ m.from <= m.to
        BY <1>1, <2>1
      <4>3. Shell!Bytes(m.from, m.to) \in Seq((m.from + 1)..m.to)
        BY ONLY <4>2, BytesAre
      <4>4. QED
        BY ONLY <4>1, <4>3, SeqMonotonic, Zenon
    <3>4. screen[p] \in Seq(1..bound.output)
      BY <1>1 DEF PagesOK
    <3>5. screen[p] \o Shell!Bytes(m.from, m.to) \in Seq(1..bound.output)
      BY <3>3, <3>4, ConcatProperties
    <3>6. screen' \in [Pages -> Seq(1..bound.output)]
      BY <1>1, <3>2, <3>3, <3>5 DEF PagesOK
    <3>7. lastId' \in [Pages -> 0..Shell!NoId]
      BY <1>1, <2>1, <3>1 DEF PagesOK, Shell!NoId
    <3>8. QED
      BY <1>1, <1>3, <3>1, <3>6, <3>7 DEF PagesOK
  <2>4. QED
    BY <1>9, <2>2, <2>3 DEF Shell!Receive
<1>10. ASSUME NEW p \in Pages, Shell!PageShow(p)
       PROVE  PagesOK'
  BY <1>1, <1>3, <1>10 DEF Shell!PageShow, PagesOK
<1>11. ASSUME ~(Shell!Ready \/ Shell!StartFails),
              ~\E p \in Pages : \/ Shell!createSession(p) \/ Shell!OpenPage(p)
                                \/ Shell!AttachRefused(p) \/ Shell!StreamEnds(p) \/ Shell!Reply(p)
                                \/ Shell!PageHide(p) \/ Shell!Attach(p)
                                \/ Shell!AttachEnded(p) \/ Shell!Receive(p) \/ Shell!PageShow(p)
       PROVE  UNCHANGED Shell!page
  BY <1>11 DEF Shell!Next, Shell!SignOut, Shell!DeadlinePasses, Shell!ShellEnds,
     Shell!Recheck, Shell!pump, Shell!PostFails, Shell!close, Shell!Detach, Shell!Output,
     Shell!Deliver
<1>12. QED
  BY <1>5, <1>6, <1>7, <1>8, <1>9, <1>10, <1>11

LEMMA TypeStep ==
  ASSUME ShellInv, Shell!Next
  PROVE  Shell!TypeOK' /\ ConnsOK'
<1>1. SessionOK' /\ OutputOK' /\ InputOK' /\ PagesOK'
  BY SessionStep, OutputStep, InputStep, PagesStep
<1>2. /\ bound' = bound /\ bound \in Bounds /\ conns' \in Seq(Conn) /\ Len(conns') <= bound.conns
      /\ terminalClient' \in 0..Len(conns')
  BY StreamsStep DEF ShellInv, ConnsOK
<1>3. Conn' = Conn /\ Shell!Messages' = Shell!Messages
  BY <1>2 DEF Conn, Shell!Messages
<1>4. \A c \in Shell!Conns' : conns'[c] \in Conn
  BY <1>2, ElementOfSeq DEF Shell!Conns
<1>5. \A c \in Shell!Conns' : conns'[c].open \in BOOLEAN /\ conns'[c].queue \in Seq(Shell!Messages')
  BY <1>3, <1>4 DEF Conn
<1>6. ConnsOK'
  BY <1>2, <1>3 DEF ConnsOK
<1>7. QED
  BY <1>1, <1>2, <1>5, <1>6 DEF Shell!TypeOK, SessionOK, OutputOK, InputOK, PagesOK

-----------------------------------------------------------------------------
(* Where the pages and the session are.                                    *)

LEMMA StateStep ==
  ASSUME ShellInv, Shell!Next
  PROVE  /\ state' \in {"none", "starting"} => state \in {"none", "starting"}
         /\ state' = "open" => state \in {"starting", "open"}
  BY DEF Shell!Next, Shell!Ready, Shell!StartFails, Shell!SignOut, Shell!DeadlinePasses,
     Shell!ShellEnds, Shell!Recheck, Shell!end, Shell!createSession, Shell!OpenPage,
     Shell!Attach, Shell!AttachEnded, Shell!AttachRefused, Shell!Receive, Shell!StreamEnds,
     Shell!pump, Shell!PostFails, Shell!Reply, Shell!PageHide, Shell!PageShow, Shell!close,
     Shell!Detach, Shell!Output, Shell!Deliver, Shell!session

LEMMA PhaseStep ==
  ASSUME ShellInv, Shell!Next, NEW p \in Pages
  PROVE  /\ phase[p] = "ended" => phase'[p] = "ended"
         /\ reading'[p] # Shell!None => \/ reading'[p] = reading[p] /\ phase'[p] = phase[p]
                                        \/ /\ phase'[p] = "joined" /\ reading'[p] = Len(conns) + 1
                                           /\ Shell!Attach(p) \/ Shell!AttachEnded(p)
<1> DEFINE Goal == /\ phase[p] = "ended" => phase'[p] = "ended"
                   /\ reading'[p] # Shell!None => \/ reading'[p] = reading[p] /\ phase'[p] = phase[p]
                                                  \/ /\ phase'[p] = "joined" /\ reading'[p] = Len(conns) + 1
                                                     /\ Shell!Attach(p) \/ Shell!AttachEnded(p)
<1>1. /\ phase \in [Pages -> {"unopened", "asking", "connecting", "joined", "ended", "closed"}]
      /\ reading \in [Pages -> 0..Len(conns)]
      /\ reading[p] # Shell!None => phase[p] = "joined"
      /\ state \in {"none", "starting"} => \A q \in Pages : phase[q] \in {"unopened", "asking"}
  BY DEF ShellInv, Shell!TypeOK, Places
<1>2. CASE Shell!Ready \/ Shell!StartFails
  BY <1>1, <1>2 DEF Shell!Ready, Shell!StartFails
<1>3. ASSUME NEW q \in Pages, Shell!createSession(q) \/ Shell!OpenPage(q)
                              \/ Shell!AttachRefused(q) \/ Shell!StreamEnds(q)
                              \/ Shell!PageHide(q) \/ Shell!PageShow(q)
      PROVE  Goal
  BY <1>1, <1>3 DEF Shell!createSession, Shell!OpenPage, Shell!AttachRefused,
     Shell!StreamEnds, Shell!PageHide, Shell!PageShow, Shell!ShowEnded
<1>4. ASSUME NEW q \in Pages, Shell!Attach(q) \/ Shell!AttachEnded(q)
      PROVE  Goal
  BY <1>1, <1>4 DEF Shell!Attach, Shell!AttachEnded
<1>5. ASSUME NEW q \in Pages, Shell!Receive(q) \/ Shell!Reply(q)
      PROVE  Goal
  BY <1>1, <1>5 DEF Shell!Receive, Shell!Reply, Shell!ShowEnded
<1>6. CASE UNCHANGED <<phase, reading>>
  BY <1>6
<1>7. ASSUME ~(Shell!Ready \/ Shell!StartFails),
             ~\E q \in Pages : \/ Shell!createSession(q) \/ Shell!OpenPage(q)
                               \/ Shell!AttachRefused(q) \/ Shell!StreamEnds(q) \/ Shell!PageHide(q)
                               \/ Shell!PageShow(q) \/ Shell!Attach(q)
                               \/ Shell!AttachEnded(q) \/ Shell!Receive(q) \/ Shell!Reply(q)
      PROVE  UNCHANGED <<phase, reading>>
  BY <1>7 DEF Shell!Next, Shell!SignOut, Shell!DeadlinePasses, Shell!ShellEnds, Shell!Recheck,
     Shell!pump, Shell!PostFails, Shell!close, Shell!Detach, Shell!Output, Shell!Deliver,
     Shell!page
<1>8. QED
  BY <1>2, <1>3, <1>4, <1>5, <1>6, <1>7

LEMMA PlacesStep ==
  ASSUME ShellInv, Shell!Next
  PROVE  Places'
<1>1. /\ phase \in [Pages -> {"unopened", "asking", "connecting", "joined", "ended", "closed"}]
      /\ reading \in [Pages -> 0..Len(conns)] /\ seq \in [Pages -> 0..bound.batches]
      /\ reply \in [Pages -> {"none", "ok", "refused"}]
      /\ Places /\ Len(conns) \in Nat
  BY LenProperties DEF ShellInv, Shell!TypeOK, ConnsOK
<1>2. ASSUME state' \in {"none", "starting"}, NEW p \in Pages
      PROVE  phase'[p] \in {"unopened", "asking"} /\ seq'[p] = 0 /\ reply'[p] = "none"
  <2>1. /\ state \in {"none", "starting"} /\ terminalClient = Shell!None
        /\ \A q \in Pages : /\ phase[q] \in {"unopened", "asking"} /\ seq[q] = 0
                            /\ reply[q] = "none" /\ reading[q] = Shell!None
    BY <1>1, <1>2, StateStep DEF Places
  <2>2. posts = {}
    BY <2>1 DEF ShellInv, Posts
  <2>3. ASSUME NEW q \in Pages, Shell!createSession(q)
        PROVE  phase'[p] \in {"unopened", "asking"} /\ seq' = seq /\ reply' = reply
    BY <1>1, <2>1, <2>3 DEF Shell!createSession, Shell!sending
  <2>4. UNCHANGED <<phase, seq, reply>> \/ \E q \in Pages : Shell!createSession(q)
    BY <1>2, <2>1, <2>2 DEF Shell!Next, Shell!Ready, Shell!StartFails, Shell!SignOut,
       Shell!DeadlinePasses, Shell!ShellEnds, Shell!Recheck, Shell!end, Shell!OpenPage,
       Shell!Attach, Shell!AttachEnded, Shell!AttachRefused, Shell!Receive, Shell!StreamEnds,
       Shell!pump, Shell!PostFails, Shell!Reply, Shell!PageHide, Shell!PageShow, Shell!close,
       Shell!Detach, Shell!Output, Shell!page, Shell!sending
  <2>5. QED
    BY <2>1, <2>3, <2>4
<1>3. terminalClient' # Shell!None => state' = "open"
  <2>1. terminalClient # Shell!None => state = "open"
    BY <1>1 DEF Places
  <2>2. ASSUME NEW reason, Shell!end(reason)
        PROVE  terminalClient' = Shell!None
    BY <2>2, EndIs
  <2>3. CASE Shell!DeadlinePasses \/ Shell!ShellEnds \/ Shell!Recheck
    BY <2>1, <2>2, <2>3 DEF Shell!DeadlinePasses, Shell!ShellEnds, Shell!Recheck, Shell!streams
  <2>4. CASE ~(Shell!DeadlinePasses \/ Shell!ShellEnds \/ Shell!Recheck)
    BY <2>1, <2>4 DEF Shell!Next, Shell!Ready, Shell!StartFails, Shell!SignOut,
       Shell!createSession, Shell!OpenPage, Shell!Attach, Shell!AttachEnded,
       Shell!AttachRefused, Shell!Receive, Shell!StreamEnds, Shell!pump, Shell!PostFails,
       Shell!Reply, Shell!PageHide, Shell!PageShow, Shell!close, Shell!Detach, Shell!Output,
       Shell!Deliver, Shell!session, Shell!streams
  <2>5. QED
    BY <2>3, <2>4
<1>4. \A p \in Pages : reading'[p] # Shell!None => phase'[p] = "joined"
  BY <1>1, PhaseStep DEF Places
<1>5. ASSUME NEW p \in Pages, NEW q \in Pages, reading'[p] = reading'[q], reading'[p] # Shell!None
      PROVE  p = q
  <2>1. \A r \in {p, q} :
          \/ reading'[r] = reading[r]
          \/ reading'[r] = Len(conns) + 1 /\ (Shell!Attach(r) \/ Shell!AttachEnded(r))
    BY <1>5, PhaseStep
  <2>2. reading[p] # Len(conns) + 1 /\ reading[q] # Len(conns) + 1
    BY <1>1
  <2>3. CASE reading'[p] # Len(conns) + 1
    BY <1>1, <1>5, <2>1, <2>3 DEF Places
  <2>4. CASE reading'[p] = Len(conns) + 1
    <3>1. (Shell!Attach(p) \/ Shell!AttachEnded(p)) /\ (Shell!Attach(q) \/ Shell!AttachEnded(q))
      BY <1>5, <2>1, <2>2, <2>4
    <3>2. /\ reading' = [reading EXCEPT ![p] = Len(conns) + 1]
          /\ reading' = [reading EXCEPT ![q] = Len(conns) + 1]
      BY <3>1 DEF Shell!Attach, Shell!AttachEnded
    <3>3. QED
      BY <1>1, <2>2, <3>2
  <2>5. QED
    BY <2>3, <2>4
<1>6. QED
  BY <1>2, <1>3, <1>4, <1>5 DEF Places

LEMMA TimerStep ==
  ASSUME ShellInv, Shell!Next
  PROVE  Shell!AttachedNotDetached'
<1>1. /\ Shell!AttachedNotDetached /\ timer \in {"none", "closing", "detached"}
      /\ (terminalClient # Shell!None => state = "open")
  BY DEF ShellInv, Shell!TypeOK, Places
<1>2. ASSUME NEW reason, Shell!end(reason)
      PROVE  terminalClient' = Shell!None
  BY <1>2, EndIs
<1>3. CASE Shell!DeadlinePasses \/ Shell!ShellEnds \/ Shell!Recheck
  BY <1>1, <1>2, <1>3 DEF Shell!DeadlinePasses, Shell!ShellEnds, Shell!Recheck,
     Shell!AttachedNotDetached, Shell!streams
<1>4. ASSUME NEW p \in Pages, Shell!close(p)
      PROVE  Shell!AttachedNotDetached'
  BY <1>1, <1>4 DEF Shell!close, Shell!scheduleEnd, Shell!AttachedNotDetached, Shell!streams
<1>5. CASE \E n \in 1..2 : Shell!Output(n)
  BY <1>1, <1>5 DEF Shell!Output, Shell!AttachedNotDetached, Shell!streams
<1>6. CASE UNCHANGED <<terminalClient, timer>>
  BY <1>1, <1>6 DEF Shell!AttachedNotDetached
<1>7. CASE \/ Shell!Ready
           \/ \E p \in Pages : Shell!createSession(p) \/ Shell!Attach(p) \/ Shell!AttachEnded(p)
           \/ \E c \in Shell!Conns : Shell!Detach(c)
  BY <1>1, <1>7 DEF Shell!Ready, Shell!createSession, Shell!Attach, Shell!AttachEnded,
     Shell!Detach, Shell!AttachedNotDetached, Shell!streams
<1>8. CASE \/ Shell!StartFails
           \/ Shell!SignOut
           \/ \E p \in Pages : \/ Shell!OpenPage(p) \/ Shell!AttachRefused(p)
                               \/ Shell!Receive(p) \/ Shell!StreamEnds(p)
                               \/ Shell!pump(p) \/ Shell!PostFails(p) \/ Shell!Reply(p)
                               \/ Shell!PageHide(p) \/ Shell!PageShow(p)
           \/ \E m \in posts : Shell!Deliver(m)
  BY <1>6, <1>8 DEF Shell!StartFails, Shell!SignOut, Shell!OpenPage, Shell!AttachRefused,
     Shell!Receive, Shell!StreamEnds, Shell!pump, Shell!PostFails, Shell!Reply,
     Shell!PageHide, Shell!PageShow, Shell!Deliver, Shell!session, Shell!streams
<1>9. QED
  BY <1>3, <1>4, <1>5, <1>7, <1>8 DEF Shell!Next

-----------------------------------------------------------------------------
(* What a page shows.                                                      *)

LEMMA ScreenChanges ==
  ASSUME ShellInv, Shell!Next
  PROVE  \/ UNCHANGED <<screen, lastId>>
         \/ \E p \in Pages : Shell!PageShow(p)
         \/ \E p \in Pages : Shell!Receive(p) /\ Head(conns[reading[p]].queue).kind \in Shows
  BY DEF Shell!Next, Shell!Ready, Shell!StartFails, Shell!SignOut, Shell!DeadlinePasses,
     Shell!ShellEnds, Shell!Recheck, Shell!createSession, Shell!OpenPage, Shell!Attach,
     Shell!AttachEnded, Shell!AttachRefused, Shell!Receive, Shell!StreamEnds, Shell!pump,
     Shell!PostFails, Shell!Reply, Shell!PageHide, Shell!close, Shell!Detach, Shell!Output,
     Shell!Deliver, Shell!page, Shows

LEMMA ShownStep ==
  ASSUME ShellInv, Shell!Next
  PROVE  ShownTo' /\ Shell!ScreenWhole'
<1>1. /\ ShownTo /\ Shell!ScreenWhole /\ lastId \in [Pages -> 0..Shell!NoId]
      /\ screen \in [Pages -> Seq(1..bound.output)]
      /\ bound' = bound /\ Shell!NoId' = Shell!NoId /\ bound.output \in Nat
  BY StreamsStep, BoundIs DEF ShellInv, Shell!TypeOK, Shell!NoId, ConnsOK
<1>2. CASE UNCHANGED <<screen, lastId>>
  BY <1>1, <1>2 DEF ShownTo, Shell!ScreenWhole
<1>3. ASSUME NEW p \in Pages, Shell!PageShow(p)
      PROVE  ShownTo' /\ Shell!ScreenWhole'
  <2>1. lastId' = [lastId EXCEPT ![p] = Shell!NoId] /\ screen' = screen
    BY <1>3 DEF Shell!PageShow
  <2>2. QED
    BY <1>1, <2>1 DEF ShownTo, Shell!ScreenWhole
<1>4. ASSUME NEW p \in Pages, Shell!Receive(p), Head(conns[reading[p]].queue).kind \in Shows
      PROVE  ShownTo' /\ Shell!ScreenWhole'
  <2> DEFINE m == Head(conns[reading[p]].queue)
             old == screen[p]
             new == Shell!Bytes(m.from, m.to)
  <2>1. /\ m.from <= m.to /\ m.from \in Nat /\ m.to \in 0..bound.output
        /\ (m.kind = "data" => m.from = lastId[p])
    BY <1>4, Heads
  <2>2. /\ lastId' = [lastId EXCEPT ![p] = m.to]
        /\ \/ m.kind = "data" /\ screen' = [screen EXCEPT ![p] = old \o new]
           \/ screen' = [screen EXCEPT ![p] = new]
    BY <1>4 DEF Shell!Receive, Shows
  <2> HIDE DEF m
  <2>3. m.from \in Nat /\ m.to \in Nat
    BY <1>1, <2>1
  <2>4. /\ new \in Seq((m.from + 1)..m.to) /\ Len(new) = m.to - m.from
        /\ \A i \in 1..(m.to - m.from) : new[i] = m.from + i
    BY <2>1, <2>3, BytesAre
  <2> HIDE DEF new
  <2>5. new \in Seq(Nat) /\ old \in Seq(Nat) /\ Len(old) \in Nat
    <3>1. /\ (m.from + 1)..m.to \subseteq Nat /\ 1..bound.output \subseteq Nat
          /\ old \in Seq(1..bound.output)
      BY <1>1, <2>3
    <3>2. new \in Seq(Nat) /\ old \in Seq(Nat)
      BY <2>4, <3>1, SeqMonotonic
    <3>3. QED
      BY <3>2, LenProperties
  <2> HIDE DEF old
  <2> DEFINE now == screen'[p]
  <2>6. /\ (now = old \o new /\ m.from = lastId[p]) \/ now = new
        /\ lastId'[p] = m.to
        /\ \A q \in Pages : q # p => screen'[q] = screen[q] /\ lastId'[q] = lastId[q]
    BY <1>1, <2>1, <2>2
  <2>7. /\ \A i \in 2..Len(old) : old[i] = old[i - 1] + 1
        /\ lastId[p] # Shell!NoId /\ old # <<>> => old[Len(old)] = lastId[p]
    BY <1>1 DEF ShownTo, Shell!ScreenWhole, old
  <2>8. old # <<>> => Len(old) # 0
    BY <2>5, EmptySeq
  <2> HIDE DEF now
  <2>9. /\ \A i \in 2..Len(now) : now[i] = now[i - 1] + 1
        /\ now # <<>> => now[Len(now)] = m.to
    <3>1. CASE now = new
      <4>1. new # <<>> => Len(new) \in Nat \ {0}
        BY <2>5, EmptySeq
      <4>2. ASSUME NEW i \in 2..Len(new)
            PROVE  new[i] = new[i - 1] + 1
        <5>1. i \in 1..(m.to - m.from) /\ i - 1 \in 1..(m.to - m.from) /\ i \in Nat
          BY <2>3, <2>4
        <5>2. new[i] = m.from + i /\ new[i - 1] = m.from + (i - 1)
          BY <2>4, <5>1
        <5>3. (m.from + (i - 1)) + 1 = m.from + i
          BY ONLY <2>3, <5>1
        <5>4. QED
          BY ONLY <5>2, <5>3
      <4>3. ASSUME new # <<>>
            PROVE  new[Len(new)] = m.to
        <5>1. Len(new) \in 1..(m.to - m.from)
          BY <2>3, <2>4, <4>1, <4>3
        <5>2. QED
          BY <2>3, <2>4, <5>1
      <4>4. QED
        BY <3>1, <4>2, <4>3
    <3>2. CASE now = old \o new /\ m.from = lastId[p]
      <4>1. /\ now \in Seq(Nat) /\ Len(now) = Len(old) + (m.to - m.from)
            /\ \A i \in 1..Len(now) : now[i] = IF i <= Len(old) THEN old[i] ELSE m.from + (i - Len(old))
        <5>1. /\ old \o new \in Seq(Nat) /\ Len(old \o new) = Len(old) + Len(new)
              /\ \A i \in 1..(Len(old) + Len(new)) :
                   (old \o new)[i] = IF i <= Len(old) THEN old[i] ELSE new[i - Len(old)]
          BY <2>5, ConcatProperties
        <5>2. ASSUME NEW i \in 1..(Len(old) + Len(new)), ~(i <= Len(old))
              PROVE  new[i - Len(old)] = m.from + (i - Len(old))
          <6>1. i - Len(old) \in 1..(m.to - m.from)
            BY <2>3, <2>4, <2>5, <5>2
          <6>2. QED
            BY <2>4, <6>1
        <5>3. QED
          BY <2>4, <3>2, <5>1, <5>2
      <4>2. lastId[p] # Shell!NoId
        BY <1>1, <2>1, <3>2 DEF Shell!NoId
      <4>3. Len(old) # 0 => old[Len(old)] = m.from
        BY <2>5, <2>7, <3>2, <4>2, EmptySeq
      <4>4. now # <<>> => Len(now) \in Nat \ {0}
        BY <4>1, EmptySeq
      <4>5. ASSUME NEW i \in 2..Len(now)
            PROVE  now[i] = now[i - 1] + 1
        <5>1. i \in 1..Len(now) /\ i - 1 \in 1..Len(now) /\ Len(now) \in Nat
          BY <2>3, <2>5, <4>1
        <5>2. CASE i <= Len(old)
          <6>1. i \in 2..Len(old) /\ i - 1 <= Len(old)
            BY <2>5, <5>1, <5>2
          <6>2. old[i] = old[i - 1] + 1 /\ now[i] = old[i] /\ now[i - 1] = old[i - 1]
            BY <2>7, <4>1, <5>1, <5>2, <6>1
          <6>3. QED
            BY <6>2
        <5>3. CASE i - 1 = Len(old)
          <6>1. ~(i <= Len(old)) /\ i - 1 <= Len(old) /\ Len(old) # 0 /\ i - Len(old) = 1
            BY <2>5, <5>1, <5>3
          <6>2. now[i] = m.from + 1 /\ now[i - 1] = old[Len(old)]
            BY <4>1, <5>1, <5>3, <6>1
          <6>3. QED
            BY <4>3, <6>1, <6>2
        <5>4. CASE i - 1 > Len(old)
          <6>1. ~(i <= Len(old)) /\ ~(i - 1 <= Len(old)) /\ i \in Nat
            BY <2>5, <5>1, <5>4
          <6>2. now[i] = m.from + (i - Len(old)) /\ now[i - 1] = m.from + ((i - 1) - Len(old))
            BY <4>1, <5>1, <6>1
          <6>3. QED
            BY <2>3, <2>5, <6>1, <6>2
        <5>5. QED
          BY <2>5, <5>1, <5>2, <5>3, <5>4
      <4>6. ASSUME now # <<>>
            PROVE  now[Len(now)] = m.to
        <5>1. Len(now) \in 1..Len(now)
          BY <4>4, <4>6
        <5>2. CASE m.to = m.from
          BY <2>3, <2>5, <4>1, <4>3, <5>1, <5>2
        <5>3. CASE m.to > m.from
          BY <2>3, <2>5, <4>1, <5>1, <5>3
        <5>4. QED
          BY <2>1, <2>3, <5>2, <5>3
      <4>7. QED
        BY <4>5, <4>6
    <3>3. QED
      BY <2>6, <3>1, <3>2
  <2>10. ShownTo'
    <3>1. ASSUME NEW q \in Pages
          PROVE  lastId'[q] # Shell!NoId /\ screen'[q] # <<>> => screen'[q][Len(screen'[q])] = lastId'[q]
      BY <1>1, <2>6, <2>9 DEF ShownTo, now
    <3>2. QED
      BY <1>1, <3>1 DEF ShownTo
  <2>11. Shell!ScreenWhole'
    <3>1. ASSUME NEW q \in Pages, NEW i \in 2..Len(screen'[q])
          PROVE  screen'[q][i] = screen'[q][i - 1] + 1
      BY <1>1, <2>6, <2>9 DEF Shell!ScreenWhole, now
    <3>2. QED
      BY <3>1 DEF Shell!ScreenWhole
  <2>12. QED
    BY <2>10, <2>11
<1>5. QED
  BY <1>2, <1>3, <1>4, ScreenChanges

-----------------------------------------------------------------------------
(* What is typed.                                                          *)

LEMMA PostsStep ==
  ASSUME ShellInv, Shell!Next
  PROVE  Posts'
<1>1. /\ Posts /\ bound' = bound /\ bound.batches \in Nat
      /\ seq \in [Pages -> 0..bound.batches] /\ unconfirmed \in [Pages -> BOOLEAN]
  BY StreamsStep, BoundIs DEF ShellInv, Shell!TypeOK, ConnsOK
<1>2. CASE UNCHANGED <<attempt, posts, seq>> /\ \A p \in Pages : unconfirmed'[p] => unconfirmed[p]
  BY <1>1, <1>2 DEF Posts
<1>3. ASSUME NEW p \in Pages, Shell!pump(p) \/ Shell!PostFails(p)
      PROVE  Posts'
  <2>1. /\ attempt' = [attempt EXCEPT ![p] = @ + 1]
        /\ unconfirmed' \in {unconfirmed, [unconfirmed EXCEPT ![p] = TRUE]}
        /\ seq' \in {seq, [seq EXCEPT ![p] = @ + 1]} /\ seq'[p] \in 1..bound.batches
        /\ posts' = posts \cup {<<p, seq'[p], attempt[p] + 1>>}
    BY <1>1, <1>3 DEF Shell!pump, Shell!PostFails, Posts
  <2>2. attempt \in [Pages -> Nat] /\ attempt' \in [Pages -> Nat] /\ attempt'[p] = attempt[p] + 1
    BY <1>1, <2>1 DEF Posts
  <2>3. \A q \in Pages : q # p => seq'[q] = seq[q] /\ attempt'[q] = attempt[q] /\ unconfirmed'[q] = unconfirmed[q]
    BY <1>1, <2>1, <2>2
  <2>4. seq[p] <= seq'[p]
    BY <1>1, <2>1
  <2>5. posts' \subseteq Pages \X (1..bound.batches) \X Nat
    BY <1>1, <2>1, <2>2 DEF Posts
  <2>6. \A q \in Pages : unconfirmed'[q] => seq'[q] > 0
    BY <1>1, <2>1, <2>3 DEF Posts
  <2>7. ASSUME NEW m \in posts'
        PROVE  /\ m[3] <= attempt'[m[1]] /\ m[2] <= seq'[m[1]]
               /\ (m[3] = attempt'[m[1]] => m[2] = seq'[m[1]])
    <3>1. CASE m = <<p, seq'[p], attempt[p] + 1>>
      BY <2>1, <2>2, <3>1
    <3>2. CASE m \in posts
      <4>1. /\ m[1] \in Pages /\ m[2] \in Nat /\ m[3] \in Nat
            /\ m[3] <= attempt[m[1]] /\ m[2] <= seq[m[1]]
            /\ (m[3] = attempt[m[1]] => m[2] = seq[m[1]])
        BY <1>1, <3>2 DEF Posts
      <4>2. CASE m[1] = p
        BY <1>1, <2>1, <2>2, <2>4, <4>1, <4>2
      <4>3. CASE m[1] # p
        BY <2>3, <4>1, <4>3
      <4>4. QED
        BY <4>2, <4>3
    <3>3. QED
      BY <2>1, <3>1, <3>2
  <2>8. QED
    BY <1>1, <2>2, <2>5, <2>6, <2>7 DEF Posts
<1>4. ASSUME NEW m \in posts, Shell!Deliver(m)
      PROVE  Posts'
  BY <1>1, <1>4 DEF Shell!Deliver, Posts
<1>5. ASSUME NEW p \in Pages, Shell!AttachRefused(p) \/ Shell!Receive(p) \/ Shell!Reply(p)
      PROVE  Posts'
  <2>1. /\ UNCHANGED <<attempt, posts, seq>>
        /\ unconfirmed' \in {unconfirmed, [unconfirmed EXCEPT ![p] = FALSE]}
    BY <1>5 DEF Shell!AttachRefused, Shell!Receive, Shell!Reply, Shell!ShowEnded
  <2>2. QED
    BY <1>1, <1>2, <2>1
<1>6. ASSUME ~\E p \in Pages : Shell!pump(p) \/ Shell!PostFails(p)
                               \/ Shell!AttachRefused(p) \/ Shell!Receive(p) \/ Shell!Reply(p),
             ~\E m \in posts : Shell!Deliver(m)
      PROVE  UNCHANGED <<attempt, posts, seq, unconfirmed>>
  BY <1>6 DEF Shell!Next, Shell!Ready, Shell!StartFails, Shell!SignOut, Shell!DeadlinePasses,
     Shell!ShellEnds, Shell!Recheck, Shell!createSession, Shell!OpenPage, Shell!Attach,
     Shell!AttachEnded, Shell!StreamEnds, Shell!PageHide, Shell!PageShow, Shell!close,
     Shell!Detach, Shell!Output, Shell!sending
<1>7. QED
  BY <1>2, <1>3, <1>4, <1>5, <1>6

LEMMA BatchIs ==
  ASSUME ShellInv, NEW m \in posts
  PROVE  /\ m[1] \in Pages /\ m[2] \in 1..bound.batches /\ m[2] \in Nat /\ m[2] # 0 /\ m[3] \in Nat
         /\ m[2] <= seq[m[1]] /\ seq[m[1]] \in Nat
         /\ m[3] = attempt[m[1]] => m[2] = seq[m[1]]
<1>1. /\ posts \subseteq Pages \X (1..bound.batches) \X Nat /\ bound.batches \in Nat
      /\ seq \in [Pages -> 0..bound.batches]
      /\ m[2] <= seq[m[1]] /\ (m[3] = attempt[m[1]] => m[2] = seq[m[1]])
  BY BoundIs DEF ShellInv, Posts, Shell!TypeOK, ConnsOK
<1>2. QED
  BY <1>1

(* A batch is typed at the end, or is known from the one typed last.       *)
LEMMA TakenIs ==
  ASSUME ShellInv, NEW m \in posts, Shell!Deliver(m)
  PROVE  LET batch == <<m[1], m[2]>> IN
         /\ terminalTyped \in Seq(Shell!Batch) /\ batch \in Shell!Batch
         /\ Len(terminalTyped) \in Nat
         /\ \/ UNCHANGED <<lastInput, terminalTyped>>
            \/ /\ lastInput' = batch /\ terminalTyped' = Append(terminalTyped, batch)
               /\ terminalTyped' # <<>> /\ Len(terminalTyped') = Len(terminalTyped) + 1
               /\ \A i \in 1..Len(terminalTyped) : terminalTyped'[i] = terminalTyped[i]
               /\ terminalTyped'[Len(terminalTyped) + 1] = batch
               /\ state = "open" /\ ~Shell!TakenAlready(m[1], m[2])
<1> DEFINE batch == <<m[1], m[2]>>
<1>1. terminalTyped \in Seq(Shell!Batch) /\ batch \in Shell!Batch
  BY BatchIs DEF ShellInv, Shell!TypeOK, Shell!Batch
<1>2. \/ UNCHANGED <<lastInput, terminalTyped>>
      \/ /\ lastInput' = batch /\ terminalTyped' = Append(terminalTyped, batch)
         /\ state = "open" /\ ~Shell!TakenAlready(m[1], m[2])
  BY DEF Shell!Deliver, Shell!input
<1> HIDE DEF batch
<1>3. /\ Append(terminalTyped, batch) \in Seq(Shell!Batch) /\ Append(terminalTyped, batch) # <<>>
      /\ Len(Append(terminalTyped, batch)) = Len(terminalTyped) + 1
      /\ \A i \in 1..Len(terminalTyped) : Append(terminalTyped, batch)[i] = terminalTyped[i]
      /\ Append(terminalTyped, batch)[Len(terminalTyped) + 1] = batch
      /\ Len(terminalTyped) \in Nat
  BY <1>1, AppendProperties, LenProperties
<1>4. QED
  BY <1>1, <1>2, <1>3 DEF batch

LEMMA InputChanges ==
  ASSUME ShellInv, Shell!Next
  PROVE  UNCHANGED <<lastInput, terminalTyped>> \/ \E m \in posts : Shell!Deliver(m)
  BY DEF Shell!Next, Shell!Ready, Shell!StartFails, Shell!SignOut, Shell!DeadlinePasses,
     Shell!ShellEnds, Shell!Recheck, Shell!createSession, Shell!OpenPage, Shell!Attach,
     Shell!AttachEnded, Shell!AttachRefused, Shell!Receive, Shell!StreamEnds, Shell!pump,
     Shell!PostFails, Shell!Reply, Shell!PageHide, Shell!PageShow, Shell!close, Shell!Detach,
     Shell!Output, Shell!input

LEMMA SeqGrows ==
  ASSUME ShellInv, Shell!Next, NEW p \in Pages
  PROVE  /\ seq[p] \in Nat /\ seq'[p] \in Nat
         /\ \/ seq'[p] = seq[p]
            \/ Shell!pump(p) /\ seq'[p] = seq[p] + 1 /\ ~unconfirmed[p] /\ unconfirmed'[p] /\ reply'[p] = "none"
<1>1. /\ seq \in [Pages -> 0..bound.batches] /\ unconfirmed \in [Pages -> BOOLEAN]
      /\ reply \in [Pages -> {"none", "ok", "refused"}]
  BY DEF ShellInv, Shell!TypeOK
<1>2. ASSUME NEW q \in Pages, Shell!pump(q)
      PROVE  /\ seq' = [seq EXCEPT ![q] = @ + 1] /\ unconfirmed' = [unconfirmed EXCEPT ![q] = TRUE]
             /\ ~unconfirmed[q] /\ reply' = [reply EXCEPT ![q] = "none"]
  BY <1>2 DEF Shell!pump
<1>3. seq' = seq \/ \E q \in Pages : Shell!pump(q)
  BY DEF Shell!Next, Shell!Ready, Shell!StartFails, Shell!SignOut, Shell!DeadlinePasses,
     Shell!ShellEnds, Shell!Recheck, Shell!createSession, Shell!OpenPage, Shell!Attach,
     Shell!AttachEnded, Shell!AttachRefused, Shell!Receive, Shell!StreamEnds, Shell!PostFails,
     Shell!Reply, Shell!PageHide, Shell!PageShow, Shell!close, Shell!Detach, Shell!Output,
     Shell!Deliver, Shell!sending
<1>4. CASE seq' = seq
  BY <1>1, <1>4
<1>5. ASSUME NEW q \in Pages, Shell!pump(q)
      PROVE  /\ seq[p] \in Nat /\ seq'[p] \in Nat
             /\ \/ seq'[p] = seq[p]
                \/ Shell!pump(p) /\ seq'[p] = seq[p] + 1 /\ ~unconfirmed[p] /\ unconfirmed'[p] /\ reply'[p] = "none"
  BY <1>1, <1>2, <1>5
<1>6. QED
  BY <1>3, <1>4, <1>5

LEMMA TakenStep ==
  ASSUME ShellInv, Shell!Next
  PROVE  Taken' /\ Shell!TypedInOrder'
<1>1. /\ Taken /\ Shell!TypedInOrder /\ terminalTyped \in Seq(Shell!Batch)
      /\ lastInput \in Shell!Batch \cup {Shell!NoInput}
  BY DEF ShellInv, Shell!TypeOK
<1>2. CASE UNCHANGED <<lastInput, terminalTyped>>
  <2>1. Shell!TypedInOrder'
    BY <1>1, <1>2 DEF Shell!TypedInOrder
  <2>2. ASSUME terminalTyped # <<>>
        PROVE  lastInput = terminalTyped[Len(terminalTyped)] /\ lastInput[2] <= seq'[lastInput[1]]
    <3>1. Len(terminalTyped) \in 1..Len(terminalTyped)
      BY <1>1, <2>2, EmptySeq
    <3>2. /\ lastInput \in Shell!Batch /\ lastInput = terminalTyped[Len(terminalTyped)]
          /\ lastInput[2] <= seq[lastInput[1]]
      BY <1>1, <2>2, <3>1, ElementOfSeq DEF Taken
    <3>3. lastInput[1] \in Pages /\ lastInput[2] \in Nat
      BY <3>2 DEF Shell!Batch
    <3>4. /\ seq[lastInput[1]] <= seq'[lastInput[1]] /\ seq[lastInput[1]] \in Nat
          /\ seq'[lastInput[1]] \in Nat
      BY <3>3, SeqGrows
    <3>5. QED
      BY <3>2, <3>3, <3>4
  <2>3. Taken'
    BY <1>1, <1>2, <2>2 DEF Taken
  <2>4. QED
    BY <2>1, <2>3
<1>3. ASSUME NEW m \in posts, Shell!Deliver(m), ~UNCHANGED <<lastInput, terminalTyped>>
      PROVE  Taken' /\ Shell!TypedInOrder'
  <2> DEFINE batch == <<m[1], m[2]>>
  <2>1. /\ lastInput' = batch /\ terminalTyped' # <<>>
        /\ Len(terminalTyped') = Len(terminalTyped) + 1 /\ Len(terminalTyped) \in Nat
        /\ \A i \in 1..Len(terminalTyped) : terminalTyped'[i] = terminalTyped[i]
        /\ terminalTyped'[Len(terminalTyped) + 1] = batch
        /\ ~Shell!TakenAlready(m[1], m[2])
    BY <1>3, TakenIs
  <2>2. seq' = seq
    BY <1>3 DEF Shell!Deliver
  <2>3. m[2] <= seq[m[1]] /\ batch[1] = m[1] /\ batch[2] = m[2] /\ m[2] \in Nat
    BY BatchIs
  <2> HIDE DEF batch
  <2>4. Taken'
    BY <2>1, <2>2, <2>3 DEF Taken
  <2>5. ASSUME NEW i \in 2..Len(terminalTyped'), terminalTyped'[i][1] = terminalTyped'[i - 1][1]
        PROVE  terminalTyped'[i - 1][2] < terminalTyped'[i][2]
    <3>1. CASE i <= Len(terminalTyped)
      <4>1. /\ i \in 2..Len(terminalTyped) /\ i \in 1..Len(terminalTyped)
            /\ i - 1 \in 1..Len(terminalTyped)
        BY <2>1, <3>1
      <4>2. QED
        BY <1>1, <2>1, <2>5, <4>1 DEF Shell!TypedInOrder
    <3>2. CASE i = Len(terminalTyped) + 1
      <4>1. i - 1 = Len(terminalTyped) /\ Len(terminalTyped) \in 1..Len(terminalTyped)
        BY <2>1, <3>2
      <4>2. terminalTyped # <<>>
        BY <4>1, EmptySeq
      <4>3. /\ terminalTyped'[i] = batch /\ terminalTyped'[i - 1] = terminalTyped[Len(terminalTyped)]
            /\ lastInput = terminalTyped[Len(terminalTyped)]
        BY <1>1, <2>1, <3>2, <4>1, <4>2 DEF Taken
      <4>4. lastInput[2] \in Nat
        BY <1>1, <4>1, <4>3, ElementOfSeq DEF Shell!Batch
      <4>5. QED
        BY <2>1, <2>3, <2>5, <4>3, <4>4 DEF Shell!TakenAlready
    <3>3. QED
      BY <2>1, <3>1, <3>2
  <2>6. Shell!TypedInOrder'
    BY <2>5 DEF Shell!TypedInOrder
  <2>7. QED
    BY <2>4, <2>6
<1>4. QED
  BY <1>2, <1>3, InputChanges

LEMMA TypedStays ==
  ASSUME ShellInv, Shell!Next, NEW p, NEW n, Typed(p, n)
  PROVE  \E i \in 1..Len(terminalTyped') : terminalTyped'[i] = <<p, n>>
<1>1. CASE UNCHANGED <<lastInput, terminalTyped>>
  BY <1>1 DEF Typed
<1>2. ASSUME NEW m \in posts, Shell!Deliver(m), ~UNCHANGED <<lastInput, terminalTyped>>
      PROVE  \E i \in 1..Len(terminalTyped') : terminalTyped'[i] = <<p, n>>
  <2>1. /\ Len(terminalTyped') = Len(terminalTyped) + 1 /\ Len(terminalTyped) \in Nat
        /\ \A i \in 1..Len(terminalTyped) : terminalTyped'[i] = terminalTyped[i]
    BY <1>2, TakenIs
  <2>2. PICK i \in 1..Len(terminalTyped) : terminalTyped[i] = <<p, n>>
    BY DEF Typed
  <2>3. i \in 1..Len(terminalTyped') /\ terminalTyped'[i] = terminalTyped[i]
    BY <2>1
  <2>4. QED
    BY <2>2, <2>3
<1>3. QED
  BY <1>1, <1>2, InputChanges

LEMMA ReplyChanges ==
  ASSUME ShellInv, Shell!Next, NEW p \in Pages, reply'[p] = "ok"
  PROVE  \/ reply[p] = "ok"
         \/ \E m \in posts : Shell!Deliver(m) /\ m[1] = p /\ m[3] = attempt[p] /\ Shell!Found
<1>1. reply \in [Pages -> {"none", "ok", "refused"}]
  BY DEF ShellInv, Shell!TypeOK
<1>2. reply' = reply \/ (\E q \in Pages : reply' = [reply EXCEPT ![q] = "none"]) \/ \E m \in posts : Shell!Deliver(m)
  BY DEF Shell!Next, Shell!Ready, Shell!StartFails, Shell!SignOut, Shell!DeadlinePasses,
     Shell!ShellEnds, Shell!Recheck, Shell!createSession, Shell!OpenPage, Shell!Attach,
     Shell!AttachEnded, Shell!AttachRefused, Shell!Receive, Shell!StreamEnds, Shell!pump,
     Shell!PostFails, Shell!Reply, Shell!PageHide, Shell!PageShow, Shell!close, Shell!Detach,
     Shell!Output, Shell!sending
<1>3. ASSUME NEW m \in posts, Shell!Deliver(m), reply[p] # "ok"
      PROVE  m[1] = p /\ m[3] = attempt[p] /\ Shell!Found
  <2>1. m[1] \in Pages
    BY BatchIs
  <2>2. (~Shell!Found /\ Shell!Answered(m, "refused")) \/ (Shell!Found /\ Shell!Answered(m, "ok"))
    BY <1>3 DEF Shell!Deliver
  <2>3. QED
    BY <1>1, <1>3, <2>1, <2>2 DEF Shell!Answered
<1>4. QED
  BY <1>1, <1>2, <1>3

LEMMA RepliedStep ==
  ASSUME ShellInv, Shell!Next
  PROVE  Replied'
<1> SUFFICES ASSUME NEW p \in Pages, state' = "open", phase'[p] # "ended", reply'[p] = "ok"
             PROVE  \E i \in 1..Len(terminalTyped') : terminalTyped'[i] = <<p, seq'[p]>>
  BY DEF Replied, Typed
<1>1. state \in {"starting", "open"} /\ phase[p] # "ended"
  BY StateStep, PhaseStep
<1>2. seq'[p] = seq[p]
  BY SeqGrows
<1>3. CASE reply[p] = "ok"
  <2>1. state = "open"
    BY <1>1, <1>3 DEF ShellInv, Places
  <2>2. Typed(p, seq[p])
    BY <1>1, <1>3, <2>1 DEF ShellInv, Replied
  <2>3. QED
    BY <1>2, <2>2, TypedStays
<1>4. ASSUME NEW m \in posts, Shell!Deliver(m), m[1] = p, m[3] = attempt[p], Shell!Found
      PROVE  \E i \in 1..Len(terminalTyped') : terminalTyped'[i] = <<p, seq'[p]>>
  <2>1. m[2] = seq[p] /\ m[2] \in Nat /\ m[2] # 0
    BY <1>4, BatchIs
  <2>2. state = "open"
    BY <1>4 DEF Shell!Deliver, Shell!session
  <2>3. CASE ~Shell!TakenAlready(p, m[2])
    <3>1. terminalTyped' = Append(terminalTyped, <<m[1], m[2]>>)
      BY <1>4, <2>2, <2>3 DEF Shell!Deliver
    <3>2. /\ terminalTyped \in Seq(Shell!Batch) /\ <<m[1], m[2]>> \in Shell!Batch
          /\ Len(terminalTyped) \in Nat
      BY <1>4, TakenIs
    <3>3. /\ Len(terminalTyped') = Len(terminalTyped) + 1
          /\ terminalTyped'[Len(terminalTyped) + 1] = <<m[1], m[2]>>
      BY <3>1, <3>2, AppendProperties
    <3>4. Len(terminalTyped) + 1 \in 1..Len(terminalTyped')
      BY <3>2, <3>3
    <3>5. QED
      BY <1>2, <1>4, <2>1, <3>3, <3>4
  <2>4. CASE Shell!TakenAlready(p, m[2])
    <3>1. lastInput[1] = p /\ m[2] <= lastInput[2]
      BY <2>4 DEF Shell!TakenAlready
    <3>2. lastInput \in Shell!Batch \cup {Shell!NoInput} /\ terminalTyped \in Seq(Shell!Batch)
      BY DEF ShellInv, Shell!TypeOK
    <3>3. lastInput # Shell!NoInput
      BY <2>1, <3>1 DEF Shell!NoInput
    <3>4. /\ terminalTyped # <<>> /\ lastInput = terminalTyped[Len(terminalTyped)]
          /\ lastInput[2] <= seq[p]
      BY <3>1, <3>3 DEF ShellInv, Taken
    <3>5. lastInput = <<p, lastInput[2]>> /\ lastInput[2] \in Nat
      BY <3>1, <3>2, <3>3 DEF Shell!Batch
    <3>6. lastInput[2] = seq[p]
      BY <2>1, <3>1, <3>4, <3>5
    <3>7. Len(terminalTyped) \in 1..Len(terminalTyped)
      BY <3>2, <3>4, EmptySeq
    <3>8. Typed(p, seq[p])
      BY <3>4, <3>5, <3>6, <3>7 DEF Typed
    <3>9. QED
      BY <1>2, <3>8, TypedStays
  <2>5. QED
    BY <2>3, <2>4
<1>5. QED
  BY <1>3, <1>4, ReplyChanges

LEMMA ConfirmedStep ==
  ASSUME ShellInv, Shell!Next
  PROVE  Shell!ConfirmedTyped'
<1> SUFFICES ASSUME NEW p \in Pages, state' = "open", phase'[p] # "ended",
                    NEW n \in 1..seq'[p], n < seq'[p] \/ ~unconfirmed'[p]
             PROVE  \E i \in 1..Len(terminalTyped') : terminalTyped'[i] = <<p, n>>
  BY DEF Shell!ConfirmedTyped
<1>1. state \in {"starting", "open"} /\ phase[p] # "ended"
  BY StateStep, PhaseStep
<1>2. /\ seq[p] \in Nat /\ seq'[p] \in Nat
      /\ seq'[p] = seq[p] \/ (seq'[p] = seq[p] + 1 /\ ~unconfirmed[p] /\ unconfirmed'[p] /\ Shell!pump(p))
  BY SeqGrows
<1>3. n \in 1..seq[p]
  BY <1>2
<1>4. state = "open"
  BY <1>1, <1>2, <1>3 DEF ShellInv, Places
<1>5. CASE n < seq[p] \/ ~unconfirmed[p]
  <2>1. Typed(p, n)
    BY <1>1, <1>3, <1>4, <1>5 DEF ShellInv, Shell!ConfirmedTyped, Typed
  <2>2. QED
    BY <2>1, TypedStays
<1>6. CASE n = seq[p] /\ unconfirmed[p]
  <2>1. seq'[p] = seq[p] /\ ~unconfirmed'[p]
    BY <1>2, <1>6
  <2>2. /\ unconfirmed \in [Pages -> BOOLEAN]
        /\ phase \in [Pages -> {"unopened", "asking", "connecting", "joined", "ended", "closed"}]
    BY DEF ShellInv, Shell!TypeOK
  <2>3. ASSUME NEW q \in Pages, \/ Shell!AttachRefused(q) \/ (Shell!Receive(q) /\ unconfirmed' # unconfirmed)
                                \/ Shell!pump(q) \/ Shell!PostFails(q)
        PROVE  FALSE
    <3>1. \/ phase' = [phase EXCEPT ![q] = "ended"] /\ unconfirmed' = [unconfirmed EXCEPT ![q] = FALSE]
          \/ unconfirmed' = [unconfirmed EXCEPT ![q] = TRUE] \/ unconfirmed' = unconfirmed
      BY <2>3 DEF Shell!AttachRefused, Shell!Receive, Shell!ShowEnded, Shell!pump,
         Shell!PostFails
    <3>2. QED
      BY <1>6, <2>1, <2>2, <3>1
  <2>4. PICK q \in Pages : Shell!Reply(q)
    <3>1. unconfirmed' # unconfirmed
      BY <1>6, <2>1
    <3>2. QED
      BY <2>3, <3>1 DEF Shell!Next, Shell!Ready, Shell!StartFails, Shell!SignOut,
         Shell!DeadlinePasses, Shell!ShellEnds, Shell!Recheck, Shell!createSession,
         Shell!OpenPage, Shell!Attach, Shell!AttachEnded, Shell!Receive, Shell!StreamEnds,
         Shell!PageHide, Shell!PageShow, Shell!close, Shell!Detach, Shell!Output,
         Shell!Deliver, Shell!sending
  <2>5. q = p /\ reply[p] # "none" /\ (reply[p] = "ok" \/ phase' = [phase EXCEPT ![p] = "ended"])
    BY <1>6, <2>1, <2>2, <2>4 DEF Shell!Reply
  <2>6. reply[p] = "ok"
    BY <2>2, <2>5
  <2>7. Typed(p, seq[p])
    BY <1>1, <1>4, <2>6 DEF ShellInv, Replied
  <2>8. QED
    BY <1>6, <2>7, TypedStays
<1>7. QED
  BY <1>2, <1>3, <1>5, <1>6

-----------------------------------------------------------------------------
(* What the streams hold.                                                  *)

(* What is asked of the stream c for the page p, and its primed form.      *)
QueueOf(p) == reading[p] # Shell!None =>
  /\ Chained(conns[reading[p]].queue, lastId[p])
  /\ reading[p] = terminalClient =>
       /\ \A i \in 1..Len(conns[terminalClient].queue) :
            conns[terminalClient].queue[i].kind \in Shows
       /\ Through(conns[terminalClient].queue, lastId[p]) = offset

LEMMA QueueKept ==
  ASSUME ShellInv, NEW p \in Pages, reading'[p] = reading[p], lastId'[p] = lastId[p],
         conns'[reading[p]].queue = conns[reading[p]].queue,
         terminalClient' # reading[p] \/ (terminalClient' = terminalClient /\ offset' = offset)
  PROVE  QueueOf(p)'
<1>1. QueueOf(p)
  BY DEF ShellInv, Queued, QueueOf
<1>2. QED
  BY <1>1 DEF QueueOf, Shell!None

LEMMA QueueLonger ==
  ASSUME ShellInv, NEW p \in Pages, terminalClient # Shell!None, reading[p] = terminalClient,
         reading'[p] = reading[p], lastId'[p] = lastId[p],
         NEW m \in Shell!Messages, m.from <= m.to, m.kind = "data" => m.from = offset,
         conns'[reading[p]].queue = Append(conns[terminalClient].queue, m),
         terminalClient' # reading[p] \/ (m.kind \in Shows /\ offset' = m.to /\ terminalClient' = terminalClient)
  PROVE  QueueOf(p)'
<1> DEFINE q == conns[terminalClient].queue
<1>1. QueueOf(p) /\ terminalClient \in Shell!Conns
  BY LenProperties DEF ShellInv, Queued, QueueOf, Shell!TypeOK, ConnsOK, Shell!Conns,
     Shell!None
<1>2. q \in Seq(Shell!Messages)
  BY <1>1, ConnIs DEF ShellInv
<1>3. /\ Chained(q, lastId[p]) /\ Through(q, lastId[p]) = offset
      /\ \A i \in 1..Len(q) : q[i].kind \in Shows
  BY <1>1 DEF QueueOf
<1> HIDE DEF q
<1>4. Chained(Append(q, m), lastId[p]) /\ Through(Append(q, m), lastId[p]) = m.to
  BY <1>2, <1>3, ChainAppend
<1>5. ASSUME m.kind \in Shows
      PROVE  \A i \in 1..Len(Append(q, m)) : Append(q, m)[i].kind \in Shows
  BY <1>2, <1>3, <1>5, AppendProperties
<1>6. conns'[reading[p]].queue = Append(q, m)
  BY DEF q
<1>7. QED
  BY <1>4, <1>5, <1>6 DEF QueueOf

LEMMA ReadOnce ==
  ASSUME ShellInv, NEW p \in Pages, reading[p] # Shell!None
  PROVE  /\ reading[p] \in Shell!Conns /\ reading[p] \in Shell!Read /\ phase[p] = "joined"
         /\ \A q \in Pages : q # p => reading[q] # reading[p]
         /\ Len(conns) \in Nat /\ reading[p] # Len(conns) + 1
<1>1. reading \in [Pages -> 0..Len(conns)] /\ Len(conns) \in Nat
  BY LenProperties DEF ShellInv, Shell!TypeOK, ConnsOK
<1>2. QED
  BY <1>1 DEF ShellInv, Places, Shell!Conns, Shell!Read, Shell!None

LEMMA QueuedStep ==
  ASSUME ShellInv, Shell!Next
  PROVE  Queued'
<1> SUFFICES ASSUME NEW p \in Pages, reading'[p] # Shell!None
             PROVE  QueueOf(p)'
  BY DEF Queued, QueueOf
<1> DEFINE c == reading[p]
<1>1. /\ ConnsOK /\ conns \in Seq(Conn) /\ bound \in Bounds /\ Len(conns) \in Nat
      /\ terminalClient \in 0..Len(conns)
      /\ offset \in 0..bound.output /\ bound.output \in Nat
      /\ reading \in [Pages -> 0..Len(conns)] /\ lastId \in [Pages -> 0..Shell!NoId]
      /\ terminalClient # Shell!None => state = "open"
  BY BoundIs, LenProperties DEF ShellInv, ConnsOK, Shell!TypeOK, Places
<1>2. ASSUME NEW q \in Pages, Shell!Attach(q)
      PROVE  QueueOf(p)'
  <2> DEFINE before == IF terminalClient = Shell!None THEN conns ELSE Shell!LastWord(terminalClient, Shell!Told("moved"))
             new == Shell!Opened(Shell!Missed(lastId[q]), TRUE)
  <2>1. before \in Seq(Conn) /\ Len(before) = Len(conns) /\ conns' = Append(before, new)
    BY <1>2, AttachIs
  <2>2. /\ reading' = [reading EXCEPT ![q] = Len(conns) + 1] /\ terminalClient' = Len(conns) + 1
        /\ lastId' = lastId /\ offset' = offset
    BY <1>2 DEF Shell!Attach, Shell!output
  <2>3. new \in Conn /\ new.queue = Shell!Missed(lastId[q])
    <3>1. Shell!Missed(lastId[q]) \in Seq(Shell!Messages)
      BY <1>1, MissedChains DEF ShellInv
    <3>2. QED
      BY <3>1 DEF Shell!Opened, Conn
  <2> HIDE DEF new
  <2>4. CASE p = q
    <3>1. conns'[Len(conns) + 1] = new
      BY <2>1, <2>3, AppendProperties
    <3>2. reading'[p] = Len(conns) + 1
      BY <1>1, <2>2, <2>4
    <3>3. /\ Chained(Shell!Missed(lastId[p]), lastId[p])
          /\ Through(Shell!Missed(lastId[p]), lastId[p]) = offset
          /\ \A i \in 1..Len(Shell!Missed(lastId[p])) : Shell!Missed(lastId[p])[i].kind \in Shows
      BY <1>1, MissedChains DEF ShellInv
    <3>4. QED
      BY <2>2, <2>3, <2>4, <3>1, <3>2, <3>3 DEF QueueOf
  <2>5. CASE p # q
    <3>1. reading'[p] = c /\ c # Shell!None /\ lastId'[p] = lastId[p]
      BY <1>1, <2>2, <2>5
    <3>2. c \in Shell!Conns /\ c \in Shell!Read /\ c # Len(conns) + 1
      BY <3>1, ReadOnce
    <3>3. conns'[c] = before[c]
      BY <2>1, <2>3, <3>2, AppendProperties DEF Shell!Conns
    <3>4. CASE terminalClient = Shell!None \/ c # terminalClient
      <4>1. before[c] = conns[c]
        BY <1>1, <3>2, <3>4, ToldIs, LastWordIs DEF Shell!Conns, Shell!None
      <4>2. QED
        BY <2>2, <3>1, <3>2, <3>3, <4>1, QueueKept
    <3>5. CASE terminalClient # Shell!None /\ c = terminalClient
      <4>1. /\ before[c].queue = Append(conns[terminalClient].queue, Shell!Told("moved"))
            /\ Shell!Told("moved") \in Shell!Messages
            /\ Shell!Told("moved").from = 0 /\ Shell!Told("moved").to = 0
            /\ Shell!Told("moved").kind = "moved"
        BY <1>1, <3>2, <3>5, ToldIs, LastWordIs, SentIs
      <4>2. QED
        BY <2>2, <3>1, <3>2, <3>3, <3>5, <4>1, QueueLonger
    <3>6. QED
      BY <3>4, <3>5
  <2>6. QED
    BY <2>4, <2>5
<1>3. ASSUME NEW q \in Pages, Shell!AttachEnded(q)
      PROVE  QueueOf(p)'
  <2> DEFINE old == Shell!Missed(lastId[q])
             new == Shell!Opened(Append(old, Shell!Told("ended")), FALSE)
  <2>1. Append(old, Shell!Told("ended")) \in Seq(Shell!Messages) /\ conns' = Append(conns, new)
    BY <1>3, AttachEndedIs
  <2>2. /\ reading' = [reading EXCEPT ![q] = Len(conns) + 1] /\ terminalClient' = terminalClient
        /\ terminalClient = Shell!None
        /\ lastId' = lastId /\ offset' = offset
    BY <1>1, <1>3 DEF Shell!AttachEnded, Shell!output
  <2>3. new \in Conn /\ new.queue = Append(old, Shell!Told("ended"))
    BY <2>1 DEF Shell!Opened, Conn
  <2> HIDE DEF new
  <2>4. CASE p = q
    <3>1. conns'[Len(conns) + 1] = new
      BY <1>1, <2>1, <2>3, AppendProperties
    <3>2. reading'[p] = Len(conns) + 1
      BY <1>1, <2>2, <2>4
    <3>3. /\ old \in Seq(Shell!Messages) /\ Chained(old, lastId[p])
          /\ \A i \in 1..Len(old) : old[i].kind \in Shows
      BY <1>1, <2>4, MissedChains DEF ShellInv
    <3>4. /\ Shell!Told("ended") \in Shell!Messages
          /\ Shell!Told("ended").from <= Shell!Told("ended").to /\ Shell!Told("ended").kind # "data"
      BY <1>1, ToldIs
    <3>5. Chained(Append(old, Shell!Told("ended")), lastId[p])
      BY <3>3, <3>4, ChainAppend
    <3>6. QED
      BY <2>2, <2>3, <3>1, <3>2, <3>5 DEF QueueOf
  <2>5. CASE p # q
    <3>1. reading'[p] = c /\ c # Shell!None /\ lastId'[p] = lastId[p]
      BY <1>1, <2>2, <2>5
    <3>2. c \in Shell!Conns
      BY <3>1, ReadOnce
    <3>3. conns'[c] = conns[c]
      BY <1>1, <2>1, <2>3, <3>2, AppendProperties DEF Shell!Conns
    <3>4. QED
      BY <2>2, <3>1, <3>3, QueueKept
  <2>6. QED
    BY <2>4, <2>5
<1>4. ASSUME ~\E q \in Pages : Shell!Attach(q) \/ Shell!AttachEnded(q)
      PROVE  reading'[p] = c /\ c # Shell!None
  BY <1>4, PhaseStep
<1>5. ASSUME NEW reason, Shell!end(reason), UNCHANGED <<reading, lastId, offset>>
      PROVE  QueueOf(p)'
  <2>1. reading'[p] = c /\ c # Shell!None /\ lastId'[p] = lastId[p]
    BY <1>5
  <2>2. c \in Shell!Conns /\ c \in Shell!Read
    BY <2>1, ReadOnce
  <2>3. CASE terminalClient = Shell!None
    <3>1. conns' = conns /\ terminalClient' = terminalClient
      BY <1>5, <2>3, EndIs DEF Shell!Conns, Shell!None
    <3>2. QED
      BY <1>5, <2>1, <3>1, QueueKept
  <2>4. CASE terminalClient # Shell!None
    <3>1. /\ terminalClient \in Shell!Conns
          /\ conns' = Shell!LastWord(terminalClient, Shell!Told("ended"))
          /\ terminalClient' = Shell!None
      BY <1>5, <2>4, EndIs
    <3>2. /\ Shell!Told("ended") \in Shell!Messages
          /\ Shell!Told("ended").from <= Shell!Told("ended").to /\ Shell!Told("ended").kind # "data"
      BY <1>1, ToldIs
    <3>3. CASE c = terminalClient
      <4>1. conns'[c].queue = Append(conns[terminalClient].queue, Shell!Told("ended"))
        BY <1>1, <2>2, <3>1, <3>2, <3>3, LastWordIs, SentIs
      <4>2. QED
        BY <2>1, <2>4, <3>1, <3>2, <3>3, <4>1, QueueLonger
    <3>4. CASE c # terminalClient
      <4>1. conns'[c] = conns[c]
        BY <1>1, <2>2, <3>1, <3>2, <3>4, LastWordIs
      <4>2. QED
        BY <2>1, <3>1, <4>1, QueueKept
    <3>5. QED
      BY <3>3, <3>4
  <2>5. QED
    BY <2>3, <2>4
<1>6. ASSUME NEW n \in 1..2, Shell!Output(n)
      PROVE  QueueOf(p)'
  <2> DEFINE event == Shell!Data(offset, offset + n)
  <2>1. UNCHANGED <<reading, lastId>> /\ offset' = offset + n /\ offset + n <= bound.output
    BY <1>6 DEF Shell!Output, Shell!page
  <2>2. reading'[p] = c /\ c # Shell!None /\ lastId'[p] = lastId[p]
    BY <2>1
  <2>3. c \in Shell!Conns /\ c \in Shell!Read
    BY <2>2, ReadOnce
  <2>4. /\ event \in Shell!Messages /\ event.from = offset /\ event.to = offset + n
        /\ event.kind = "data"
        /\ event.from <= event.to /\ event.kind \in Shows
    BY <1>1, <2>1 DEF Shell!Data, Shell!Messages, Shows
  <2>5. \/ terminalClient = Shell!None /\ conns' = conns /\ terminalClient' = Shell!None
        \/ /\ terminalClient # Shell!None /\ terminalClient' = terminalClient
           /\ conns' = [conns EXCEPT ![terminalClient].queue = Shell!Sent(terminalClient, event)]
        \/ /\ terminalClient # Shell!None /\ terminalClient' = Shell!None
           /\ conns' = Shell!LastWord(terminalClient, event)
    BY <1>6 DEF Shell!Output, Shell!streams
  <2> HIDE DEF event
  <2>6. CASE terminalClient = Shell!None
    <3>1. conns' = conns /\ terminalClient' # c
      BY <2>2, <2>5, <2>6
    <3>2. QED
      BY <2>2, <3>1, QueueKept
  <2>7. CASE terminalClient # Shell!None
    <3>1. /\ terminalClient \in Shell!Conns
          /\ Shell!Sent(terminalClient, event) \in Seq(Shell!Messages)
      BY <1>1, <2>4, <2>7, SentIs DEF Shell!Conns, Shell!None
    <3>2. /\ conns'[terminalClient].queue = Shell!Sent(terminalClient, event)
          /\ \A d \in Shell!Conns : d # terminalClient => conns'[d] = conns[d]
      <4> DEFINE s == Shell!Sent(terminalClient, event)
      <4>1. s \in Seq(Shell!Messages) /\ s = Shell!Sent(terminalClient, event)
        BY <3>1
      <4>2. \/ conns' = [conns EXCEPT ![terminalClient].queue = s]
            \/ conns' = Shell!LastWord(terminalClient, event)
        BY <2>5, <2>7
      <4> HIDE DEF s
      <4>3. CASE conns' = [conns EXCEPT ![terminalClient].queue = s]
        <5>1. conns' = Queue(terminalClient, s)
          BY <4>3 DEF Queue
        <5>2. QED
          BY <1>1, <3>1, <4>1, <5>1, QueueSet
      <4>4. CASE conns' = Shell!LastWord(terminalClient, event)
        BY <1>1, <2>4, <3>1, <4>4, LastWordIs
      <4>5. QED
        BY <4>2, <4>3, <4>4
    <3>3. CASE c = terminalClient
      <4>1. conns'[c].queue = Append(conns[terminalClient].queue, event)
        BY <1>1, <2>3, <2>4, <3>1, <3>2, <3>3, SentIs
      <4>2. QED
        BY <2>1, <2>2, <2>4, <2>5, <2>7, <3>3, <4>1, QueueLonger
    <3>4. CASE c # terminalClient
      <4>1. conns'[c] = conns[c] /\ terminalClient' # c
        BY <2>2, <2>3, <2>5, <3>2, <3>4
      <4>2. QED
        BY <2>2, <4>1, QueueKept
    <3>5. QED
      BY <3>3, <3>4
  <2>8. QED
    BY <2>6, <2>7
<1>7. ASSUME NEW q \in Pages, Shell!Receive(q), reading'[p] = c, c # Shell!None
      PROVE  QueueOf(p)'
  <2> DEFINE old == conns[reading[q]].queue
             m == Head(old)
  <2>1. /\ reading[q] \in Shell!Conns /\ old # <<>> /\ old \in Seq(Shell!Messages)
        /\ m \in Shell!Messages
    BY <1>7, Heads
  <2>2. /\ conns' = [conns EXCEPT ![reading[q]].queue = Tail(old)] /\ terminalClient' = terminalClient
        /\ offset' = offset
    BY <1>7 DEF Shell!Receive, Shell!output
  <2>3. Tail(old) \in Seq(Shell!Messages)
    BY <2>1, HeadTailProperties
  <2>4. /\ conns'[reading[q]].queue = Tail(old)
        /\ \A d \in Shell!Conns : d # reading[q] => conns'[d] = conns[d]
    <3> DEFINE t == Tail(old)
    <3>1. t \in Seq(Shell!Messages) /\ t = Tail(old) /\ conns' = Queue(reading[q], t)
      BY <2>2, <2>3 DEF Queue
    <3> HIDE DEF t
    <3>2. QED
      BY <1>1, <2>1, <3>1, QueueSet
  <2>5. CASE p = q
    <3>1. m.kind \in Shows /\ lastId' = [lastId EXCEPT ![q] = m.to]
      BY <1>1, <1>7, <2>5 DEF Shell!Receive, Shows
    <3>2. QueueOf(p)
      BY DEF ShellInv, Queued, QueueOf
    <3> HIDE DEF m
    <3>3. lastId'[p] = m.to
      BY <1>1, <2>5, <3>1
    <3>4. Chained(old, lastId[p]) /\ reading[q] = c
      BY <1>7, <2>5, <3>2 DEF QueueOf
    <3>5. /\ Chained(Tail(old), m.to) /\ Through(Tail(old), m.to) = Through(old, lastId[p])
          /\ (\A i \in 1..Len(old) : old[i].kind \in Shows) => \A i \in 1..Len(Tail(old)) : Tail(old)[i].kind \in Shows
      BY <2>1, <3>1, <3>4, ChainTail DEF m
    <3>6. c = terminalClient => Through(old, lastId[p]) = offset /\ \A i \in 1..Len(old) : old[i].kind \in Shows
      BY <1>7, <3>2, <3>4 DEF QueueOf
    <3> HIDE DEF old
    <3>7. QED
      BY <1>7, <2>2, <2>4, <3>3, <3>4, <3>5, <3>6 DEF QueueOf
  <2>6. CASE p # q
    <3>1. c \in Shell!Conns /\ c # reading[q]
      BY <1>7, <2>6, ReadOnce
    <3>2. lastId'[p] = lastId[p]
      BY <1>1, <1>7, <2>6 DEF Shell!Receive
    <3>3. QED
      BY <1>7, <2>2, <2>4, <3>1, <3>2, QueueKept
  <2>7. QED
    BY <2>5, <2>6
<1>8. ASSUME NEW q \in Pages, Shell!StreamEnds(q)
                              \/ Shell!PageHide(q), reading'[p] = c, c # Shell!None
      PROVE  QueueOf(p)'
  <2>1. /\ lastId' = lastId /\ terminalClient' = terminalClient /\ offset' = offset
        /\ reading' = [reading EXCEPT ![q] = Shell!None]
        /\ conns' = conns \/ (reading[q] # Shell!None /\ conns' = [conns EXCEPT ![reading[q]].queue = <<>>])
    BY <1>8 DEF Shell!StreamEnds, Shell!PageHide, Shell!output
  <2>2. q # p
    BY <1>1, <1>8, <2>1
  <2>3. c \in Shell!Conns /\ c # reading[q]
    BY <1>8, <2>2, ReadOnce
  <2>4. conns'[c] = conns[c]
    <3>1. CASE conns' = conns
      BY <3>1
    <3>2. CASE reading[q] # Shell!None /\ conns' = [conns EXCEPT ![reading[q]].queue = <<>>]
      <4>1. /\ reading[q] \in Shell!Conns /\ <<>> \in Seq(Shell!Messages)
            /\ conns' = Queue(reading[q], <<>>)
        BY <3>2, ReadOnce, EmptySeq DEF Queue
      <4>2. QED
        BY <1>1, <2>3, <4>1, QueueSet
    <3>3. QED
      BY <2>1, <3>1, <3>2
  <2>5. QED
    BY <1>8, <2>1, <2>4, QueueKept
<1>9. ASSUME NEW d \in Shell!Conns, Shell!Detach(d), reading'[p] = c, c # Shell!None
      PROVE  QueueOf(p)'
  <2>1. /\ lastId' = lastId /\ offset' = offset
        /\ (terminalClient' = terminalClient \/ terminalClient' = Shell!None)
        /\ conns' = [conns EXCEPT ![d].open = FALSE]
    BY <1>9 DEF Shell!Detach, Shell!output, Shell!page
  <2>2. c \in Shell!Conns
    BY <1>9, ReadOnce
  <2>3. conns'[c].queue = conns[c].queue
    BY <1>1, <2>1, <2>2, ConnClosed
  <2>4. QED
    BY <1>9, <2>1, <2>3, QueueKept
<1>10. ASSUME NEW q \in Pages, Shell!PageShow(q), reading'[p] = c, c # Shell!None
       PROVE  QueueOf(p)'
  <2>1. q # p
    BY <1>10, ReadOnce DEF Shell!PageShow
  <2>2. /\ lastId' = [lastId EXCEPT ![q] = Shell!NoId] /\ conns' = conns
        /\ terminalClient' = terminalClient /\ offset' = offset
    BY <1>10 DEF Shell!PageShow, Shell!streams, Shell!output
  <2>3. QED
    BY <1>1, <1>10, <2>1, <2>2, QueueKept
<1>11. ASSUME reading'[p] = c, UNCHANGED <<conns, terminalClient, offset, lastId>>
       PROVE  QueueOf(p)'
  BY <1>11, QueueKept
<1>12. CASE Shell!DeadlinePasses \/ Shell!ShellEnds \/ Shell!Recheck
  <2>1. UNCHANGED <<reading, lastId, offset>>
    BY <1>12 DEF Shell!DeadlinePasses, Shell!ShellEnds, Shell!Recheck, Shell!page, Shell!output
  <2>2. (\E reason : Shell!end(reason)) \/ UNCHANGED <<conns, terminalClient>>
    BY <1>12 DEF Shell!DeadlinePasses, Shell!ShellEnds, Shell!Recheck, Shell!streams
  <2>3. QED
    BY <1>5, <1>11, <2>1, <2>2
<1>13. ASSUME reading'[p] = c, \/ Shell!Ready \/ Shell!StartFails
                               \/ Shell!SignOut \/ \E m \in posts : Shell!Deliver(m)
                               \/ \E q \in Pages : \/ Shell!createSession(q)
                                                   \/ Shell!OpenPage(q)
                                                   \/ Shell!AttachRefused(q) \/ Shell!pump(q)
                                                   \/ Shell!PostFails(q) \/ Shell!Reply(q)
                                                   \/ Shell!close(q)
       PROVE  UNCHANGED <<conns, terminalClient, offset, lastId>>
  BY <1>13 DEF Shell!Ready, Shell!StartFails, Shell!SignOut, Shell!Deliver,
     Shell!createSession, Shell!OpenPage, Shell!AttachRefused, Shell!pump, Shell!PostFails,
     Shell!Reply, Shell!close, Shell!streams, Shell!output, Shell!page
<1>14. QED
  BY <1>2, <1>3, <1>4, <1>6, <1>7, <1>8, <1>9, <1>10, <1>11, <1>12, <1>13 DEF Shell!Next

-----------------------------------------------------------------------------
LEMMA ShellInit == Shell!Init => ShellInv
<1> SUFFICES ASSUME Shell!Init PROVE ShellInv
  OBVIOUS
<1>1. /\ bound \in Bounds /\ bound.output \in Nat /\ bound.batches \in Nat /\ bound.conns \in Nat
      /\ bound.fails \in Nat
      /\ RingBytes \in Nat
  BY BoundIs DEF Shell!Init
<1>2. /\ <<>> \in Seq(Conn) /\ <<>> \in Seq(Shell!Batch) /\ <<>> \in Seq(1..bound.output)
      /\ Len(conns) = 0
  BY EmptySeq DEF Shell!Init
<1>13. SessionOK
  <2>1. found \in BOOLEAN /\ signedIn \in BOOLEAN
    BY Zenon DEF Shell!Init
  <2>2. fails \in 0..bound.fails
    BY <1>1 DEF Shell!Init
  <2>3. QED
    BY <2>1, <2>2 DEF Shell!Init, SessionOK
<1>3. terminalClient \in 0..Len(conns) /\ Len(conns) <= bound.conns
  BY <1>1, <1>2 DEF Shell!Init, Shell!None
<1>4. OutputOK
  BY <1>1 DEF Shell!Init, OutputOK, Shell!Least
<1>5. InputOK
  BY <1>1, <1>2 DEF Shell!Init, InputOK, Shell!NoInput
<1>6. PagesOK
  BY <1>1, <1>2 DEF Shell!Init, PagesOK, Shell!None, Shell!NoId
<1>7. ConnsOK
  BY <1>1, <1>2 DEF Shell!Init, ConnsOK
<1>8. Shell!TypeOK
  BY <1>3, <1>4, <1>5, <1>6, <1>7, <1>13, Types
<1>9. Places /\ Shell!AttachedNotDetached /\ ShownTo /\ Queued /\ Replied
  BY DEF Shell!Init, Places, Shell!AttachedNotDetached, ShownTo, Queued, Replied
<1>10. Shell!ScreenWhole /\ Shell!TypedInOrder /\ Shell!ConfirmedTyped
  <2>1. Len(terminalTyped) = 0 /\ \A p \in Pages : Len(screen[p]) = 0 /\ seq[p] = 0
    BY <1>2, EmptySeq DEF Shell!Init
  <2>2. QED
    BY <2>1 DEF Shell!ScreenWhole, Shell!TypedInOrder, Shell!ConfirmedTyped
<1>11. Posts /\ Taken
  BY DEF Shell!Init, Posts, Taken
<1>12. QED
  BY <1>7, <1>8, <1>9, <1>10, <1>11 DEF ShellInv

LEMMA ShellStep == ShellInv /\ [Shell!Next]_terminalVars => ShellInv'
<1>1. ASSUME ShellInv, Shell!Next PROVE ShellInv'
  BY <1>1, TypeStep, PlacesStep, TimerStep, ShownStep, QueuedStep, PostsStep, TakenStep,
     RepliedStep, ConfirmedStep DEF ShellInv
<1>2. ASSUME ShellInv, UNCHANGED terminalVars PROVE ShellInv'
  <2>1. Shell!TypeOK' /\ ConnsOK'
    BY <1>2 DEF terminalVars, ShellInv, Shell!TypeOK, ConnsOK, Shell!Conns, Shell!Messages,
       Shell!Batch, Shell!NoId, Conn
  <2>2. Places' /\ Shell!AttachedNotDetached' /\ ShownTo' /\ Shell!ScreenWhole'
    BY <1>2 DEF terminalVars, ShellInv, Places, Shell!AttachedNotDetached, ShownTo,
       Shell!ScreenWhole, Shell!NoId
  <2>3. Queued'
    BY <1>2 DEF terminalVars, ShellInv, Queued
  <2>4. Posts' /\ Taken' /\ Shell!TypedInOrder'
    BY <1>2 DEF terminalVars, ShellInv, Posts, Taken, Shell!TypedInOrder
  <2>5. Replied' /\ Shell!ConfirmedTyped'
    BY <1>2 DEF terminalVars, ShellInv, Replied, Typed, Shell!ConfirmedTyped
  <2>6. QED
    BY <2>1, <2>2, <2>3, <2>4, <2>5 DEF ShellInv
<1>3. QED
  BY <1>1, <1>2

-----------------------------------------------------------------------------
(* The stream through the gateway (Gateway).                               *)

Line == 0..MaxTyped

(* Numbers that follow one another, after from.                            *)
Run(s, from) == \A i \in 1..Len(s) : s[i] = from + i

(* Where the two ends are.                                                 *)
Ends ==
  /\ gatewayClient \in {"idle", "connecting"} => server = "none"
  /\ gatewayClient = "open" => server # "none"
  /\ server = "none" => wire = <<>>
  /\ server = "reading" => wire # <<>> /\ wire[1] = 0
  /\ server \in {"none", "reading", "checking"} => input = <<>> /\ pipe = <<>> /\ worker = "none"
  /\ server \in {"none", "reading"} => pending = <<>>
  /\ server = "running" => inputOpen /\ pending = <<>>

(* Lines are read, in the worker's stdin, held, on the wire and not yet    *)
(* sent, in this order; those read and piped stay so when it is over.      *)
ReadSoFar == Len(input)
Piped == ReadSoFar + Len(pipe)
Held == Piped + Len(pending)
Flow ==
  /\ Run(input, 0) /\ Run(pipe, ReadSoFar) /\ Piped <= gatewayTyped
  /\ server # "over" => /\ Run(pending, Piped) /\ Run(Stream!Lines, Held)
                        /\ Run(outbox, Held + Len(Stream!Lines))
                        /\ Held + Len(Stream!Lines) + Len(outbox) = gatewayTyped

(* A session that never lapsed is read as one unless PHP is rewriting it.  *)
Looks ==
  ~lapsed => /\ Stream!parsePanelSession /\ account = "admin"
             /\ rewriting # "no" => rewrites >= 1
             /\ looks = 1 => rewrites >= 1 /\ (rewriting = "now" => rewrites >= 2)

StreamInv == Stream!TypeOK /\ Ends /\ Flow /\ Looks /\ Stream!EndedByItsSession

-----------------------------------------------------------------------------
(* What becomes of numbers that follow one another.                        *)

LEMMA RunAppend ==
  ASSUME NEW s \in Seq(Line), NEW f \in Nat, Run(s, f), NEW x \in Line, x = (f + Len(s)) + 1
  PROVE  /\ Append(s, x) \in Seq(Line) /\ Len(Append(s, x)) = Len(s) + 1 /\ Len(s) \in Nat
         /\ Run(Append(s, x), f)
<1>1. /\ Append(s, x) \in Seq(Line) /\ Len(Append(s, x)) = Len(s) + 1 /\ Len(s) \in Nat
      /\ \A i \in 1..Len(s) : Append(s, x)[i] = s[i]
      /\ Append(s, x)[Len(s) + 1] = x
  BY AppendProperties, LenProperties
<1>2. ASSUME NEW i \in 1..Len(Append(s, x))
      PROVE  Append(s, x)[i] = f + i
  <2>1. i \in 1..Len(s) \/ i = Len(s) + 1
    BY <1>1
  <2>2. QED
    BY <1>1, <2>1 DEF Run
<1>3. QED
  BY <1>1, <1>2 DEF Run

LEMMA RunTail ==
  ASSUME NEW s \in Seq(Line), NEW f \in Nat, s # <<>>, Run(s, f)
  PROVE  /\ Tail(s) \in Seq(Line) /\ Len(Tail(s)) = Len(s) - 1 /\ Len(s) \in Nat /\ Len(s) # 0
         /\ Run(Tail(s), f + 1) /\ Head(s) = f + 1 /\ Head(s) \in Line
<1>1. /\ Tail(s) \in Seq(Line) /\ Len(Tail(s)) = Len(s) - 1 /\ Head(s) \in Line /\ Head(s) = s[1]
      /\ \A i \in 1..Len(Tail(s)) : Tail(s)[i] = s[i + 1]
      /\ Len(s) \in Nat /\ Len(s) # 0
  BY HeadTailProperties, EmptySeq
<1>2. Head(s) = f + 1
  BY <1>1 DEF Run
<1>3. ASSUME NEW i \in 1..Len(Tail(s))
      PROVE  Tail(s)[i] = (f + 1) + i
  <2>1. i + 1 \in 1..Len(s) /\ i \in Nat
    BY <1>1
  <2>2. Tail(s)[i] = f + (i + 1)
    BY <1>1, <2>1 DEF Run
  <2>3. QED
    BY <2>1, <2>2
<1>4. QED
  BY <1>1, <1>2, <1>3 DEF Run

LEMMA RunPart ==
  ASSUME NEW s \in Seq(Line), NEW f \in Nat, Run(s, f), NEW m \in 1..(Len(s) + 1), NEW n \in (m - 1)..Len(s)
  PROVE  /\ SubSeq(s, m, n) \in Seq(Line) /\ Len(SubSeq(s, m, n)) = (n - m) + 1
         /\ Run(SubSeq(s, m, n), f + (m - 1))
<1>1. Len(s) \in Nat /\ m \in Int /\ n \in Int /\ \A i \in m..n : s[i] \in Line
  BY LenProperties, ElementOfSeq
<1>2. /\ SubSeq(s, m, n) \in Seq(Line)
      /\ Len(SubSeq(s, m, n)) = IF m <= n THEN (n - m) + 1 ELSE 0
      /\ \A i \in 1..((n - m) + 1) : SubSeq(s, m, n)[i] = s[(m + i) - 1]
  BY <1>1, SubSeqProperties
<1>3. Len(SubSeq(s, m, n)) = (n - m) + 1
  BY <1>1, <1>2
<1>4. ASSUME NEW i \in 1..Len(SubSeq(s, m, n))
      PROVE  SubSeq(s, m, n)[i] = (f + (m - 1)) + i
  <2>1. i \in 1..((n - m) + 1) /\ (m + i) - 1 \in 1..Len(s)
    BY <1>1, <1>3
  <2>2. SubSeq(s, m, n)[i] = f + ((m + i) - 1)
    BY <1>2, <2>1 DEF Run
  <2>3. QED
    BY <1>1, <2>1, <2>2
<1>5. QED
  BY <1>2, <1>3, <1>4 DEF Run

LEMMA RunConcat ==
  ASSUME NEW s \in Seq(Line), NEW t \in Seq(Line), NEW f \in Nat, Run(s, f), Run(t, f + Len(s))
  PROVE  /\ s \o t \in Seq(Line) /\ Len(s \o t) = Len(s) + Len(t) /\ Len(s) \in Nat
         /\ Len(t) \in Nat
         /\ Run(s \o t, f)
<1>1. /\ s \o t \in Seq(Line) /\ Len(s \o t) = Len(s) + Len(t) /\ Len(s) \in Nat /\ Len(t) \in Nat
      /\ \A i \in 1..(Len(s) + Len(t)) : (s \o t)[i] = IF i <= Len(s) THEN s[i] ELSE t[i - Len(s)]
  BY ConcatProperties, LenProperties
<1>2. ASSUME NEW i \in 1..(Len(s) + Len(t))
      PROVE  (s \o t)[i] = f + i
  <2>1. CASE i <= Len(s)
    <3>1. i \in 1..Len(s)
      BY <1>1, <2>1
    <3>2. QED
      BY <1>1, <2>1, <3>1 DEF Run
  <2>2. CASE ~(i <= Len(s))
    <3>1. i - Len(s) \in 1..Len(t) /\ (f + Len(s)) + (i - Len(s)) = f + i
      BY <1>1, <2>2
    <3>2. QED
      BY <1>1, <2>2, <3>1 DEF Run
  <2>3. QED
    BY <2>1, <2>2
<1>3. QED
  BY <1>1, <1>2 DEF Run

LEMMA RunNone == \A f : Run(<<>>, f) /\ Len(<<>>) = 0 /\ <<>> \in Seq(Line)
  BY EmptySeq DEF Run

-----------------------------------------------------------------------------
(* What each step does to the lines.                                       *)

Seqs == {outbox, wire, pending, pipe, input} \subseteq Seq(Line) /\ gatewayTyped \in 0..MaxTyped

LEMMA LinesAre ==
  ASSUME Seqs, Ends
  PROVE  /\ Stream!Lines \in Seq(Line)
         /\ server # "reading" => Stream!Lines = wire
         /\ server = "reading" => /\ Stream!Lines = Tail(wire) /\ Len(Stream!Lines) = Len(wire) - 1
                                  /\ \A i \in 1..Len(Stream!Lines) : Stream!Lines[i] = wire[i + 1]
<1>1. CASE server # "reading"
  BY <1>1 DEF Stream!Lines, Seqs
<1>2. CASE server = "reading"
  <2>1. wire \in Seq(Line) /\ wire # <<>>
    BY <1>2 DEF Seqs, Ends
  <2>2. QED
    BY <1>2, <2>1, HeadTailProperties DEF Stream!Lines
<1>3. QED
  BY <1>1, <1>2

(* The lines' places, as the steps use them.                               *)
LEMMA Counts ==
  ASSUME StreamInv
  PROVE  /\ Seqs /\ Stream!Lines \in Seq(Line) /\ MaxTyped \in Nat /\ gatewayTyped \in Nat
         /\ gatewayTyped \in Line /\ 0 \in Line
         /\ {Len(input), Len(pipe), Len(pending), Len(Stream!Lines), Len(outbox), Len(wire)} \subseteq Nat
         /\ ReadSoFar \in Nat /\ Piped \in Nat /\ Held \in Nat
         /\ ReadSoFar = Len(input) /\ Piped = Len(input) + Len(pipe)
         /\ Held = (Len(input) + Len(pipe)) + Len(pending)
<1>1. Seqs
  BY DEF StreamInv, Stream!TypeOK, Seqs, Line
<1>2. Stream!Lines \in Seq(Line)
  BY <1>1, LinesAre DEF StreamInv
<1>3. {Len(input), Len(pipe), Len(pending), Len(Stream!Lines), Len(outbox), Len(wire)} \subseteq Nat
  BY <1>1, <1>2, LenProperties DEF Seqs
<1>4. MaxTyped \in Nat /\ gatewayTyped \in Nat /\ gatewayTyped \in Line /\ 0 \in Line
  BY <1>1, Constants DEF Stream!ConstantsOK, Seqs, Line
<1>5. QED
  BY <1>1, <1>2, <1>3, <1>4 DEF ReadSoFar, Piped, Held

LEMMA FlowSame ==
  ASSUME StreamInv, UNCHANGED <<input, pipe, pending, wire, outbox, gatewayTyped, server>>
  PROVE  Seqs' /\ Flow'
<1>1. Seqs /\ Flow
  BY Counts DEF StreamInv
<1>2. QED
  BY <1>1 DEF Seqs, Flow, ReadSoFar, Piped, Held, Stream!Lines, Run

LEMMA FlowOver ==
  ASSUME StreamInv, server' = "over", UNCHANGED <<input, pipe, pending, wire, outbox, gatewayTyped>>
  PROVE  Seqs' /\ Flow'
<1>1. Seqs /\ Flow
  BY Counts DEF StreamInv
<1>2. QED
  BY <1>1 DEF Seqs, Flow, ReadSoFar, Piped, Run

LEMMA FlowConnected ==
  ASSUME StreamInv, Stream!Connected
  PROVE  Seqs' /\ Flow'
<1>1. /\ Seqs /\ Flow /\ server = "none" /\ input = <<>> /\ pipe = <<>> /\ pending = <<>>
      /\ wire = <<>>
      /\ UNCHANGED <<input, pipe, pending, gatewayTyped>> /\ server' = "reading"
  <2>1. Seqs /\ Flow /\ Ends
    BY Counts DEF StreamInv
  <2>2. QED
    BY <2>1 DEF Stream!Connected, Ends, Stream!stdin
<1>2. PICK n \in 0..Len(outbox) : /\ wire' = <<0>> \o SubSeq(outbox, 1, n)
                                  /\ outbox' = SubSeq(outbox, n + 1, Len(outbox))
  BY DEF Stream!Connected
<1> DEFINE sent == SubSeq(outbox, 1, n)
           left == SubSeq(outbox, n + 1, Len(outbox))
<1>3. outbox \in Seq(Line) /\ Len(outbox) \in Nat /\ 0 \in Line /\ n \in Nat
  BY Counts DEF Seqs
<1>4. Held = 0 /\ Len(Stream!Lines) = 0 /\ ReadSoFar = 0 /\ Piped = 0
  BY <1>1, RunNone, Counts DEF Stream!Lines
<1>5. Run(outbox, 0) /\ Len(outbox) = gatewayTyped
  BY <1>1, <1>3, <1>4 DEF Flow
<1>6. /\ sent \in Seq(Line) /\ Len(sent) = n /\ Run(sent, 0)
      /\ left \in Seq(Line) /\ Len(left) = Len(outbox) - n /\ Run(left, n)
  <2>1. /\ 1 \in 1..(Len(outbox) + 1) /\ n \in (1 - 1)..Len(outbox) /\ (n - 1) + 1 = n
        /\ 0 + (1 - 1) = 0
        /\ n + 1 \in 1..(Len(outbox) + 1) /\ Len(outbox) \in ((n + 1) - 1)..Len(outbox)
        /\ (Len(outbox) - (n + 1)) + 1 = Len(outbox) - n /\ 0 + ((n + 1) - 1) = n /\ 0 \in Nat
    BY <1>3
  <2>2. sent \in Seq(Line) /\ Len(sent) = (n - 1) + 1 /\ Run(sent, 0 + (1 - 1))
    BY ONLY <1>3, <1>5, <2>1, RunPart
  <2>3. /\ left \in Seq(Line) /\ Len(left) = (Len(outbox) - (n + 1)) + 1
        /\ Run(left, 0 + ((n + 1) - 1))
    BY ONLY <1>3, <1>5, <2>1, RunPart
  <2>4. QED
    BY <2>1, <2>2, <2>3
<1> HIDE DEF sent, left
<1>7. /\ wire' \in Seq(Line) /\ Len(wire') = 1 + n /\ wire' # <<>>
      /\ \A i \in 1..n : wire'[i + 1] = sent[i]
  <2>1. <<0>> \in Seq(Line) /\ Len(<<0>>) = 1 /\ wire' = <<0>> \o sent
    BY <1>2, <1>3 DEF sent
  <2>2. /\ wire' \in Seq(Line) /\ Len(wire') = 1 + n
        /\ \A j \in 1..(1 + n) : wire'[j] = IF j <= 1 THEN <<0>>[j] ELSE sent[j - 1]
    BY ONLY <1>6, <2>1, ConcatProperties
  <2>3. \A i \in 1..n : wire'[i + 1] = sent[i]
    BY <1>3, <2>2
  <2>4. QED
    BY <1>3, <2>2, <2>3, EmptySeq
<1>8. /\ Stream!Lines' \in Seq(Line) /\ Len(Stream!Lines') = n /\ Run(Stream!Lines', 0)
  <2>1. Stream!Lines' = Tail(wire')
    BY <1>1 DEF Stream!Lines
  <2>2. /\ Tail(wire') \in Seq(Line) /\ Len(Tail(wire')) = n
        /\ \A i \in 1..n : Tail(wire')[i] = wire'[i + 1]
    BY <1>3, <1>7, HeadTailProperties
  <2>3. QED
    BY <1>6, <1>7, <2>1, <2>2 DEF Run
<1>9. ReadSoFar' = 0 /\ Piped' = 0 /\ Held' = 0
  BY <1>1, <1>4, RunNone DEF ReadSoFar, Piped, Held
<1>10. outbox' = left
  BY <1>2 DEF left
<1>11. Seqs'
  BY <1>1, <1>6, <1>7, <1>10 DEF Seqs
<1>12. Run(input', 0) /\ Run(pipe', ReadSoFar') /\ Run(pending', Piped')
  BY <1>1, RunNone
<1>13. /\ Run(outbox', Held' + Len(Stream!Lines'))
       /\ Held' + Len(Stream!Lines') + Len(outbox') = gatewayTyped' /\ Piped' <= gatewayTyped'
  <2>1. /\ Held' + Len(Stream!Lines') = n /\ n + (Len(outbox) - n) = Len(outbox)
        /\ gatewayTyped' = Len(outbox)
    BY <1>1, <1>3, <1>5, <1>8, <1>9
  <2>2. Run(outbox', n) /\ Len(outbox') = Len(outbox) - n
    BY <1>6, <1>10
  <2>3. QED
    BY <1>3, <1>9, <2>1, <2>2
<1>14. QED
  BY <1>8, <1>9, <1>11, <1>12, <1>13 DEF Flow

LEMMA FlowTyped ==
  ASSUME StreamInv, Stream!TypeLine \/ Stream!Drain
  PROVE  Seqs' /\ Flow'
<1>1. /\ Seqs /\ Flow /\ Ends /\ UNCHANGED <<input, pipe, pending, server>>
  <2>1. Seqs /\ Flow /\ Ends
    BY Counts DEF StreamInv
  <2>2. QED
    BY <2>1 DEF Stream!TypeLine, Stream!Drain, Stream!stdin
<1>2. ASSUME NEW x \in Line, wire' = Append(wire, x), server # "over",
             x = (Held + Len(Stream!Lines)) + 1, server # "none"
      PROVE  /\ wire' \in Seq(Line) /\ Stream!Lines' \in Seq(Line)
             /\ Len(Stream!Lines') = Len(Stream!Lines) + 1
             /\ Run(Stream!Lines', Held)
  <2>1. /\ wire \in Seq(Line) /\ wire' \in Seq(Line) /\ Len(wire') = Len(wire) + 1
        /\ Len(wire) \in Nat
        /\ \A i \in 1..Len(wire) : wire'[i] = wire[i]
        /\ wire'[Len(wire) + 1] = x
    BY <1>1, <1>2, AppendProperties, LenProperties DEF Seqs
  <2>2. Run(Stream!Lines, Held) /\ Stream!Lines \in Seq(Line) /\ Held \in Nat
    BY <1>1, <1>2, Counts DEF Flow
  <2>3. CASE server # "reading"
    <3>1. Stream!Lines = wire /\ Stream!Lines' = wire'
      BY <1>1, <2>3 DEF Stream!Lines
    <3>2. QED
      BY <1>2, <2>1, <2>2, <3>1, RunAppend
  <2>4. CASE server = "reading"
    <3>1. /\ Len(Stream!Lines) = Len(wire) - 1
          /\ \A i \in 1..Len(Stream!Lines) : Stream!Lines[i] = wire[i + 1]
      BY <1>1, <2>4, LinesAre
    <3>2. Stream!Lines' = Tail(wire') /\ wire' # <<>>
      BY <1>1, <2>1, <2>4, EmptySeq DEF Stream!Lines
    <3>3. /\ Stream!Lines' \in Seq(Line) /\ Len(Stream!Lines') = Len(wire)
          /\ \A i \in 1..Len(wire) : Stream!Lines'[i] = wire'[i + 1]
      BY <2>1, <3>2, HeadTailProperties
    <3>4. ASSUME NEW i \in 1..Len(wire)
          PROVE  Stream!Lines'[i] = Held + i
      <4>1. CASE i = Len(wire)
        BY <1>2, <2>1, <2>2, <3>1, <3>3, <4>1
      <4>2. CASE i # Len(wire)
        <5>1. i \in 1..Len(Stream!Lines) /\ i + 1 \in 1..Len(wire)
          BY <2>1, <3>1, <4>2
        <5>2. QED
          BY <2>1, <2>2, <3>1, <3>3, <5>1 DEF Run
      <4>3. QED
        BY <4>1, <4>2
    <3>5. QED
      BY <2>1, <3>1, <3>3, <3>4 DEF Run
  <2>5. QED
    BY <2>3, <2>4
<1>3. /\ gatewayTyped \in Nat /\ MaxTyped \in Nat /\ Held \in Nat /\ Len(Stream!Lines) \in Nat
      /\ Len(outbox) \in Nat /\ Piped \in Nat
      /\ outbox \in Seq(Line) /\ wire \in Seq(Line) /\ ReadSoFar' = ReadSoFar /\ Piped' = Piped
      /\ Held' = Held
  BY <1>1, Counts DEF Seqs, ReadSoFar, Piped, Held
<1>4. /\ Run(input', 0) /\ Run(pipe', ReadSoFar') /\ Piped <= gatewayTyped
      /\ (server' # "over" => Run(pending', Piped'))
  BY <1>1, <1>3 DEF Flow
<1>5. {pending, pipe, input}' \subseteq Seq(Line)
  BY <1>1 DEF Seqs
<1>6. CASE Stream!TypeLine
  <2>1. /\ gatewayTyped' = gatewayTyped + 1 /\ gatewayTyped' \in Line /\ Piped' <= gatewayTyped'
        /\ gatewayTyped < MaxTyped
        /\ \/ gatewayClient = "open" /\ outbox = <<>> /\ wire' = Append(wire, gatewayTyped') /\ outbox' = outbox
           \/ outbox' = Append(outbox, gatewayTyped') /\ wire' = wire
    BY <1>3, <1>4, <1>6 DEF Stream!TypeLine, Line
  <2>2. wire' \in Seq(Line) /\ outbox' \in Seq(Line)
    <3>1. Append(wire, gatewayTyped') \in Seq(Line) /\ Append(outbox, gatewayTyped') \in Seq(Line)
      BY <1>3, <2>1, AppendProperties
    <3>2. QED
      BY <1>3, <2>1, <3>1
  <2>3. Seqs'
    BY <1>5, <2>1, <2>2 DEF Seqs, Line
  <2>4. CASE server = "over"
    BY <1>1, <1>4, <2>1, <2>3, <2>4 DEF Flow
  <2>5. CASE server # "over"
    <3>1. /\ Held + Len(Stream!Lines) + Len(outbox) = gatewayTyped
          /\ Run(outbox, Held + Len(Stream!Lines)) /\ Run(Stream!Lines, Held)
      BY <1>1, <2>5 DEF Flow
    <3>2. CASE outbox' = Append(outbox, gatewayTyped') /\ wire' = wire
      <4>1. /\ Stream!Lines' = Stream!Lines /\ Held + Len(Stream!Lines) \in Nat
            /\ gatewayTyped' = ((Held + Len(Stream!Lines)) + Len(outbox)) + 1
        BY <1>1, <1>3, <2>1, <3>1, <3>2 DEF Stream!Lines
      <4>2. Len(outbox') = Len(outbox) + 1 /\ Run(outbox', Held + Len(Stream!Lines))
        BY <1>3, <2>1, <3>1, <3>2, <4>1, RunAppend
      <4>3. /\ Run(Stream!Lines', Held') /\ Run(outbox', Held' + Len(Stream!Lines'))
            /\ Held' + Len(Stream!Lines') + Len(outbox') = gatewayTyped'
        BY <1>3, <3>1, <4>1, <4>2
      <4>4. QED
        BY <1>4, <2>1, <2>3, <4>3 DEF Flow
    <3>3. CASE gatewayClient = "open" /\ outbox = <<>> /\ wire' = Append(wire, gatewayTyped') /\ outbox' = outbox
      <4>1. server # "none" /\ gatewayTyped' = (Held + Len(Stream!Lines)) + 1 /\ Len(outbox) = 0
        BY <1>1, <1>3, <2>1, <3>1, <3>3, RunNone DEF Ends
      <4>2. Len(Stream!Lines') = Len(Stream!Lines) + 1 /\ Run(Stream!Lines', Held)
        BY <1>2, <2>1, <2>5, <3>3, <4>1
      <4>3. /\ Run(Stream!Lines', Held') /\ Run(outbox', Held' + Len(Stream!Lines'))
            /\ Held' + Len(Stream!Lines') + Len(outbox') = gatewayTyped'
        BY <1>3, <2>1, <3>3, <4>1, <4>2, RunNone
      <4>4. QED
        BY <1>4, <2>1, <2>3, <4>3 DEF Flow
    <3>4. QED
      BY <2>1, <3>2, <3>3
  <2>6. QED
    BY <2>4, <2>5
<1>7. CASE Stream!Drain
  <2> DEFINE x == Head(outbox)
  <2>1. /\ gatewayClient = "open" /\ outbox # <<>> /\ wire' = Append(wire, x)
        /\ outbox' = Tail(outbox) /\ gatewayTyped' = gatewayTyped
    BY <1>7 DEF Stream!Drain
  <2>2. x \in Line /\ outbox' \in Seq(Line)
    BY <1>3, <2>1, HeadTailProperties
  <2>3. wire' \in Seq(Line)
    BY <1>3, <2>1, <2>2, AppendProperties
  <2>4. Seqs'
    BY <1>1, <1>5, <2>1, <2>2, <2>3 DEF Seqs
  <2>5. CASE server = "over"
    BY <1>1, <1>3, <1>4, <2>1, <2>4, <2>5 DEF Flow
  <2>6. CASE server # "over"
    <3>1. /\ Held + Len(Stream!Lines) + Len(outbox) = gatewayTyped
          /\ Run(outbox, Held + Len(Stream!Lines)) /\ Run(Stream!Lines, Held)
      BY <1>1, <2>6 DEF Flow
    <3>2. Held + Len(Stream!Lines) \in Nat
      BY <1>3
    <3>3. /\ Len(outbox') = Len(outbox) - 1 /\ Run(outbox', (Held + Len(Stream!Lines)) + 1)
          /\ x = (Held + Len(Stream!Lines)) + 1
      BY <1>3, <2>1, <3>1, <3>2, RunTail
    <3>4. server # "none"
      BY <1>1, <2>1 DEF Ends
    <3> HIDE DEF x
    <3>5. Len(Stream!Lines') = Len(Stream!Lines) + 1 /\ Run(Stream!Lines', Held)
      BY <1>2, <2>1, <2>2, <2>6, <3>3, <3>4
    <3>6. /\ Held' + Len(Stream!Lines') = (Held + Len(Stream!Lines)) + 1
          /\ Held' + Len(Stream!Lines') + Len(outbox') = gatewayTyped'
      <4>1. /\ Held' = Held /\ Len(Stream!Lines') = Len(Stream!Lines) + 1
            /\ Len(outbox') = Len(outbox) - 1 /\ gatewayTyped' = gatewayTyped
        BY <1>3, <2>1, <3>3, <3>5
      <4>2. QED
        BY <1>3, <3>1, <4>1
    <3>7. QED
      BY <1>3, <1>4, <2>1, <2>4, <3>3, <3>5, <3>6 DEF Flow
  <2>7. QED
    BY <2>5, <2>6
<1>8. QED
  BY <1>6, <1>7

LEMMA FlowRead ==
  ASSUME StreamInv, Stream!ReadRequest \/ Stream!ReadEarly
  PROVE  Seqs' /\ Flow'
<1>1. Seqs /\ Flow /\ Ends
  BY Counts DEF StreamInv
<1>2. /\ UNCHANGED <<input, pipe, gatewayTyped, outbox>> /\ server' = "checking"
      /\ server \in {"reading", "checking"}
  BY DEF Stream!ReadRequest, Stream!ReadEarly, Stream!Keep, Stream!pageSide, Stream!stdin
<1>3. /\ gatewayTyped \in Nat /\ Held \in Nat /\ Len(Stream!Lines) \in Nat /\ Len(outbox) \in Nat
      /\ Piped \in Nat /\ Len(wire) \in Nat
      /\ Len(pending) \in Nat /\ wire \in Seq(Line) /\ pending \in Seq(Line)
      /\ Stream!Lines \in Seq(Line)
      /\ ReadSoFar' = ReadSoFar /\ Piped' = Piped /\ Held' = Piped + Len(pending')
      /\ Held = Piped + Len(pending)
  BY <1>1, <1>2, Counts DEF Seqs, ReadSoFar, Piped, Held
<1>4. /\ Run(input, 0) /\ Run(pipe, ReadSoFar) /\ Piped <= gatewayTyped /\ Run(pending, Piped)
      /\ Run(Stream!Lines, Held)
      /\ Run(outbox, Held + Len(Stream!Lines))
      /\ Held + Len(Stream!Lines) + Len(outbox) = gatewayTyped
  BY <1>1, <1>2 DEF Flow
<1>5. Stream!Lines' = wire'
  BY <1>2 DEF Stream!Lines
<1>6. /\ pending' \in Seq(Line) /\ wire' \in Seq(Line) /\ Run(pending', Piped) /\ Run(wire', Held')
      /\ Held' \in Nat /\ Len(wire') \in Nat /\ Held' + Len(wire') = Held + Len(Stream!Lines)
  <2>1. CASE Stream!ReadRequest
    <3>1. PICK n \in 1..Len(wire) : /\ pending' = SubSeq(wire, 2, n)
                                     /\ wire' = SubSeq(wire, n + 1, Len(wire))
      BY <2>1 DEF Stream!ReadRequest
    <3>2. server = "reading" /\ pending = <<>> /\ Held = Piped
      BY <1>1, <1>3, <2>1, RunNone DEF Stream!ReadRequest, Ends
    <3>3. /\ Len(Stream!Lines) = Len(wire) - 1
          /\ \A i \in 1..Len(Stream!Lines) : Stream!Lines[i] = wire[i + 1]
      BY <1>1, <3>2, LinesAre
    <3>4. /\ 2 \in Int /\ n \in Int /\ n + 1 \in Int /\ Len(wire) \in Int /\ n \in Nat
          /\ \A i \in 2..n : wire[i] \in Line
          /\ \A i \in (n + 1)..Len(wire) : wire[i] \in Line
      BY <1>3, ElementOfSeq
    <3>5. /\ pending' \in Seq(Line) /\ Len(pending') = IF 2 <= n THEN (n - 2) + 1 ELSE 0
          /\ \A i \in 1..((n - 2) + 1) : pending'[i] = wire[(2 + i) - 1]
      BY <3>1, <3>4, SubSeqProperties
    <3>6. /\ wire' \in Seq(Line)
          /\ Len(wire') = IF n + 1 <= Len(wire) THEN (Len(wire) - (n + 1)) + 1 ELSE 0
          /\ \A i \in 1..((Len(wire) - (n + 1)) + 1) : wire'[i] = wire[((n + 1) + i) - 1]
      BY <3>1, <3>4, SubSeqProperties
    <3>7. Len(pending') = n - 1 /\ Len(wire') = Len(wire) - n
      <4>1. n \in Nat /\ n >= 1 /\ n <= Len(wire) /\ Len(wire) \in Nat
        BY <1>3, <3>4
      <4>2. Len(pending') = n - 1
        BY <3>5, <4>1
      <4>3. QED
        BY <3>6, <4>1, <4>2
    <3>8. ASSUME NEW i \in 1..Len(pending')
          PROVE  pending'[i] = Piped + i
      <4>1. i \in 1..((n - 2) + 1) /\ (2 + i) - 1 = i + 1 /\ i \in 1..Len(Stream!Lines)
        BY <1>3, <3>3, <3>4, <3>7
      <4>2. QED
        BY <1>4, <3>2, <3>3, <3>5, <4>1 DEF Run
    <3>9. ASSUME NEW i \in 1..Len(wire')
          PROVE  wire'[i] = Held' + i
      <4>1. /\ i \in 1..((Len(wire) - (n + 1)) + 1) /\ ((n + 1) + i) - 1 = ((n - 1) + i) + 1
            /\ (n - 1) + i \in 1..Len(Stream!Lines)
        BY <1>3, <3>3, <3>4, <3>7
      <4>2. wire'[i] = Held + ((n - 1) + i)
        BY <1>4, <3>3, <3>6, <4>1 DEF Run
      <4>3. Held' + i = Held + ((n - 1) + i)
        BY <1>3, <3>2, <3>4, <3>7, <4>1
      <4>4. QED
        BY <4>2, <4>3
    <3>10. Held' \in Nat /\ Len(wire') \in Nat /\ Held' + Len(wire') = Held + Len(Stream!Lines)
      <4>1. /\ Held' = Piped + (n - 1) /\ Len(wire') = Len(wire) - n
            /\ Len(Stream!Lines) = Len(wire) - 1
            /\ Held = Piped /\ n \in 1..Len(wire)
        BY <1>3, <3>1, <3>2, <3>3, <3>7
      <4>2. QED
        BY <1>3, <4>1
    <3>11. QED
      BY <3>5, <3>6, <3>8, <3>9, <3>10 DEF Run
  <2>2. CASE Stream!ReadEarly
    <3> DEFINE x == Head(wire)
    <3>1. server = "checking" /\ wire # <<>> /\ pending' = Append(pending, x) /\ wire' = Tail(wire)
      BY <2>2 DEF Stream!ReadEarly
    <3>2. Stream!Lines = wire
      BY <3>1 DEF Stream!Lines
    <3>3. /\ wire' \in Seq(Line) /\ Len(wire') = Len(wire) - 1 /\ Len(wire) # 0
          /\ Run(wire', Held + 1) /\ x = Held + 1 /\ x \in Line
      BY <1>3, <1>4, <3>1, <3>2, RunTail
    <3> HIDE DEF x
    <3>4. x = (Piped + Len(pending)) + 1
      BY <1>3, <3>3
    <3>5. /\ pending' \in Seq(Line) /\ Len(pending') = Len(pending) + 1 /\ Run(pending', Piped)
      BY <1>3, <1>4, <3>1, <3>3, <3>4, RunAppend
    <3>6. Held' = Held + 1
      BY <1>3, <3>5
    <3>7. Held' \in Nat /\ Len(wire') \in Nat /\ Held' + Len(wire') = Held + Len(Stream!Lines)
      BY <1>3, <3>2, <3>3, <3>6
    <3>8. QED
      BY <3>3, <3>5, <3>6, <3>7
  <2>3. QED
    BY <2>1, <2>2
<1>7. Seqs'
  BY <1>1, <1>2, <1>6 DEF Seqs
<1>8. /\ Run(outbox', Held' + Len(Stream!Lines'))
      /\ Held' + Len(Stream!Lines') + Len(outbox') = gatewayTyped'
  <2>1. Held' + Len(Stream!Lines') = Held + Len(Stream!Lines)
    BY <1>5, <1>6
  <2>2. QED
    BY <1>2, <1>4, <2>1
<1>9. /\ Run(input', 0) /\ Run(pipe', ReadSoFar') /\ Run(pending', Piped')
      /\ Run(Stream!Lines', Held') /\ Piped' <= gatewayTyped'
  BY <1>2, <1>3, <1>4, <1>5, <1>6
<1>10. QED
  BY <1>7, <1>8, <1>9 DEF Flow

LEMMA FlowPiped ==
  ASSUME StreamInv, Stream!StartWorker \/ Stream!ReadLine
  PROVE  Seqs' /\ Flow'
<1>1. Seqs /\ Flow /\ Ends
  BY Counts DEF StreamInv
<1>2. /\ UNCHANGED <<input, gatewayTyped, outbox>> /\ server' = "running"
      /\ server \in {"checking", "running"}
  BY DEF Stream!StartWorker, Stream!ReadLine, Stream!Keep, Stream!pageSide
<1>3. /\ gatewayTyped \in Nat /\ Held \in Nat /\ Len(outbox) \in Nat /\ Piped \in Nat
      /\ Len(wire) \in Nat /\ ReadSoFar \in Nat
      /\ Len(pending) \in Nat /\ Len(pipe) \in Nat
      /\ wire \in Seq(Line) /\ pending \in Seq(Line) /\ pipe \in Seq(Line)
      /\ Stream!Lines = wire /\ Stream!Lines' = wire' /\ ReadSoFar' = ReadSoFar
      /\ Piped = ReadSoFar + Len(pipe) /\ Held = Piped + Len(pending)
      /\ Piped' = ReadSoFar + Len(pipe') /\ Held' = Piped' + Len(pending')
  BY <1>1, <1>2, Counts DEF Seqs, ReadSoFar, Piped, Held, Stream!Lines
<1>4. /\ Run(input, 0) /\ Run(pipe, ReadSoFar) /\ Run(pending, Piped) /\ Run(wire, Held)
      /\ Run(outbox, Held + Len(wire)) /\ Held + Len(wire) + Len(outbox) = gatewayTyped
  BY <1>1, <1>2, <1>3 DEF Flow
<1>5. CASE Stream!StartWorker
  <2>1. /\ pipe' = pending /\ pending' = <<>> /\ wire' = wire /\ pipe = <<>> /\ input = <<>>
    BY <1>1, <1>5 DEF Stream!StartWorker, Ends
  <2>2. Len(pipe) = 0 /\ Len(pending') = 0
    BY <2>1, RunNone
  <2>3. Piped = ReadSoFar /\ Piped' = Held /\ Held' = Held
    BY <1>3, <2>1, <2>2
  <2>4. Seqs'
    BY <1>1, <1>2, <2>1, RunNone DEF Seqs
  <2>5. Run(pipe', ReadSoFar') /\ Run(pending', Piped') /\ Run(Stream!Lines', Held')
    BY <1>3, <1>4, <2>1, <2>3, RunNone
  <2>6. /\ Piped' <= gatewayTyped' /\ Run(outbox', Held' + Len(Stream!Lines'))
        /\ Held' + Len(Stream!Lines') + Len(outbox') = gatewayTyped'
    BY <1>2, <1>3, <1>4, <2>1, <2>3
  <2>7. QED
    BY <1>2, <1>4, <2>4, <2>5, <2>6 DEF Flow
<1>6. CASE Stream!ReadLine
  <2> DEFINE x == Head(wire)
  <2>1. /\ wire # <<>> /\ wire' = Tail(wire) /\ pipe' = Append(pipe, x) /\ pending = <<>>
        /\ pending' = pending
    BY <1>1, <1>6 DEF Stream!ReadLine, Ends
  <2>2. /\ wire' \in Seq(Line) /\ Len(wire') = Len(wire) - 1 /\ Len(wire) # 0
        /\ Run(wire', Held + 1) /\ x = Held + 1 /\ x \in Line
    BY <1>3, <1>4, <2>1, RunTail
  <2> HIDE DEF x
  <2>3. Len(pending) = 0 /\ Held = Piped
    BY <1>3, <2>1, RunNone
  <2>4. x = (ReadSoFar + Len(pipe)) + 1
    BY <1>3, <2>2, <2>3
  <2>5. /\ pipe' \in Seq(Line) /\ Len(pipe') = Len(pipe) + 1 /\ Run(pipe', ReadSoFar)
    BY <1>3, <1>4, <2>1, <2>2, <2>4, RunAppend
  <2>6. Piped' = Held + 1 /\ Held' = Held + 1
    BY <1>3, <2>1, <2>3, <2>5
  <2>7. Seqs'
    BY <1>1, <1>2, <2>1, <2>2, <2>5 DEF Seqs
  <2>8. Run(pipe', ReadSoFar') /\ Run(pending', Piped') /\ Run(Stream!Lines', Held')
    BY <1>3, <2>1, <2>2, <2>5, <2>6, RunNone
  <2>9. Held' + Len(Stream!Lines') = Held + Len(wire)
    <3>1. Len(Stream!Lines') = Len(wire) - 1 /\ Len(wire) \in Nat /\ Held \in Nat
      BY <1>1, <1>3, <2>2 DEF Seqs
    <3>2. QED
      BY <2>6, <3>1
  <2>10. /\ Piped' <= gatewayTyped' /\ Run(outbox', Held' + Len(Stream!Lines'))
         /\ Held' + Len(Stream!Lines') + Len(outbox') = gatewayTyped'
    <3>1. /\ Held + Len(wire) + Len(outbox) = gatewayTyped
          /\ Held' + Len(Stream!Lines') = Held + Len(wire)
          /\ gatewayTyped' = gatewayTyped /\ outbox' = outbox
      BY <1>2, <1>4, <2>9
    <3>2. /\ Run(outbox', Held' + Len(Stream!Lines'))
          /\ Held' + Len(Stream!Lines') + Len(outbox') = gatewayTyped'
      BY <1>4, <3>1
    <3>3. Held + 1 <= gatewayTyped
      BY <1>3, <2>2, <3>1
    <3>4. QED
      BY <2>6, <3>1, <3>2, <3>3
  <2>11. QED
    BY <1>2, <1>4, <2>7, <2>8, <2>10 DEF Flow
<1>7. QED
  BY <1>5, <1>6

LEMMA FlowWorker ==
  ASSUME StreamInv, Stream!WorkerReads
  PROVE  Seqs' /\ Flow'
<1> DEFINE x == Head(pipe)
<1>1. /\ Seqs /\ Flow /\ UNCHANGED <<gatewayTyped, outbox, wire, server, pending>>
      /\ pipe # <<>> /\ input' = Append(input, x) /\ pipe' = Tail(pipe)
  <2>1. Seqs /\ Flow
    BY Counts DEF StreamInv
  <2>2. QED
    BY <2>1 DEF Stream!WorkerReads, Stream!Keep, Stream!pageSide
<1>2. /\ pipe \in Seq(Line) /\ input \in Seq(Line) /\ ReadSoFar \in Nat /\ ReadSoFar = Len(input)
      /\ Run(input, 0) /\ Run(pipe, ReadSoFar)
      /\ Len(pipe) \in Nat
  BY <1>1, Counts DEF Seqs, Flow
<1>3. /\ pipe' \in Seq(Line) /\ Len(pipe') = Len(pipe) - 1 /\ Len(pipe) # 0
      /\ Run(pipe', ReadSoFar + 1)
      /\ x = ReadSoFar + 1 /\ x \in Line
  BY <1>1, <1>2, RunTail
<1> HIDE DEF x
<1>4. input' \in Seq(Line) /\ Len(input') = Len(input) + 1 /\ Run(input', 0)
  <2>1. x = (0 + Len(input)) + 1
    BY <1>2, <1>3
  <2>2. QED
    BY <1>1, <1>2, <1>3, <2>1, RunAppend
<1>5. ReadSoFar' = ReadSoFar + 1 /\ Piped' = Piped /\ Held' = Held /\ Stream!Lines' = Stream!Lines
  BY <1>1, <1>2, <1>3, <1>4 DEF ReadSoFar, Piped, Held, Stream!Lines
<1>6. Seqs'
  BY <1>1, <1>3, <1>4 DEF Seqs
<1>7. QED
  BY <1>1, <1>3, <1>4, <1>5, <1>6 DEF Flow

LEMMA FlowStep ==
  ASSUME StreamInv, Stream!Next
  PROVE  Seqs' /\ Flow'
<1>1. CASE \/ Stream!SessionEvent \/ Stream!Truncate \/ Stream!Rewritten
           \/ Stream!streamGatewayAction \/ Stream!NotConnected \/ Stream!Close
           \/ Stream!ClosedByRoot
  <2>1. UNCHANGED <<input, pipe, pending, wire, outbox, gatewayTyped, server>>
    BY <1>1 DEF Stream!SessionEvent, Stream!Truncate, Stream!Rewritten,
       Stream!streamGatewayAction, Stream!NotConnected, Stream!Close, Stream!ClosedByRoot,
       Stream!pageSide, Stream!stdin
  <2>2. QED
    BY <2>1, FlowSame
<1>2. CASE Stream!RequestLate \/ Stream!Refused \/ Stream!PeerGone \/ Stream!Stalled
           \/ Stream!PeerGoneEarly \/ Stream!WorkerEnds
  <2>1. server' = "over" /\ UNCHANGED <<input, pipe, pending, wire, outbox, gatewayTyped>>
    BY <1>2 DEF Stream!RequestLate, Stream!Refused, Stream!PeerGone, Stream!Stalled,
       Stream!PeerGoneEarly, Stream!WorkerEnds, Stream!Stop, Stream!Keep, Stream!pageSide,
       Stream!stdin
  <2>2. QED
    BY <2>1, FlowOver
<1>3. CASE Stream!Look
  <2>1. /\ UNCHANGED <<input, pipe, pending, wire, outbox, gatewayTyped>>
        /\ (server' = server \/ server' = "over")
    BY <1>3 DEF Stream!Look, Stream!LookFails, Stream!Stop, Stream!pageSide, Stream!stdin
  <2>2. QED
    BY <2>1, FlowSame, FlowOver
<1>4. QED
  BY <1>1, <1>2, <1>3, FlowConnected, FlowTyped, FlowRead, FlowPiped, FlowWorker DEF
     Stream!Next

-----------------------------------------------------------------------------
(* Where the two ends are, and the looks at the session.                   *)

LEMMA EndsStep ==
  ASSUME StreamInv, Stream!Next
  PROVE  Ends'
<1>1. Ends /\ Seqs /\ server \in {"none", "reading", "checking", "running", "over"}
  BY Counts DEF StreamInv, Stream!TypeOK
<1>2. CASE Stream!SessionEvent \/ Stream!Truncate \/ Stream!Rewritten
  BY <1>1, <1>2 DEF Stream!SessionEvent, Stream!Truncate, Stream!Rewritten, Stream!pageSide,
     Stream!stdin, Ends
<1>3. CASE Stream!streamGatewayAction \/ Stream!NotConnected \/ Stream!Close \/ Stream!ClosedByRoot
  BY <1>1, <1>3 DEF Stream!streamGatewayAction, Stream!NotConnected, Stream!Close,
     Stream!ClosedByRoot, Stream!stdin, Ends
<1>4. CASE Stream!Connected
  <2>1. PICK n \in 0..Len(outbox) : wire' = <<0>> \o SubSeq(outbox, 1, n)
    BY <1>4 DEF Stream!Connected
  <2>2. outbox \in Seq(Line) /\ Len(outbox) \in Nat /\ 0 \in Line
    BY Counts DEF Seqs
  <2>3. SubSeq(outbox, 1, n) \in Seq(Line)
    <3>1. 1 \in Int /\ n \in Int /\ \A i \in 1..n : outbox[i] \in Line
      BY <2>2, ElementOfSeq
    <3>2. QED
      BY <3>1, SubSeqProperties
  <2>4. wire' # <<>> /\ wire'[1] = 0
    <3> DEFINE sent == SubSeq(outbox, 1, n)
    <3>1. /\ sent \in Seq(Line) /\ <<0>> \in Seq(Line) /\ Len(<<0>>) = 1 /\ <<0>>[1] = 0
          /\ wire' = <<0>> \o sent /\ Len(sent) \in Nat
      BY <2>1, <2>2, <2>3, LenProperties
    <3> HIDE DEF sent
    <3>2. /\ Len(wire') = 1 + Len(sent)
          /\ \A j \in 1..(1 + Len(sent)) : wire'[j] = IF j <= 1 THEN <<0>>[j] ELSE sent[j - 1]
      BY ONLY <3>1, ConcatProperties
    <3>3. Len(wire') # 0 /\ wire'[1] = 0
      BY <3>1, <3>2
    <3>4. QED
      BY <3>3, RunNone
  <2>5. /\ gatewayClient' = "open" /\ server' = "reading"
        /\ UNCHANGED <<input, pipe, pending, worker>>
        /\ gatewayClient = "connecting"
    BY <1>4 DEF Stream!Connected, Stream!stdin
  <2>6. QED
    BY <1>1, <2>4, <2>5 DEF Ends
<1>5. CASE Stream!TypeLine \/ Stream!Drain
  <2>1. UNCHANGED <<gatewayClient, server, input, pipe, pending, inputOpen, worker>>
    BY <1>5 DEF Stream!TypeLine, Stream!Drain, Stream!stdin
  <2>2. wire' = wire \/ (gatewayClient = "open" /\ \E x \in Line : wire' = Append(wire, x))
    <3>1. CASE Stream!TypeLine
      <4>1. gatewayTyped' \in Line
        BY <3>1, FlowStep DEF Seqs, Line
      <4>2. QED
        BY <3>1, <4>1 DEF Stream!TypeLine
    <3>2. CASE Stream!Drain
      <4>1. outbox \in Seq(Line)
        BY <1>1 DEF Seqs
      <4>2. QED
        BY <3>2, <4>1, HeadTailProperties DEF Stream!Drain
    <3>3. QED
      BY <1>5, <3>1, <3>2
  <2>3. CASE wire' = wire
    BY <1>1, <2>1, <2>3 DEF Ends
  <2>4. ASSUME gatewayClient = "open", NEW x \in Line, wire' = Append(wire, x)
        PROVE  Ends'
    <3>1. /\ wire \in Seq(Line) /\ Len(wire) \in Nat /\ wire' # <<>>
          /\ \A i \in 1..Len(wire) : wire'[i] = wire[i]
      BY <1>1, <2>4, AppendProperties, LenProperties DEF Seqs
    <3>2. server = "reading" => wire'[1] = 0
      <4>1. wire # <<>> => Len(wire) # 0
        BY <3>1, EmptySeq
      <4>2. QED
        BY <1>1, <3>1, <4>1 DEF Ends
    <3>3. QED
      BY <1>1, <2>1, <2>4, <3>1, <3>2 DEF Ends
  <2>5. QED
    BY <2>2, <2>3, <2>4
<1>6. CASE Stream!ReadRequest \/ Stream!ReadEarly \/ Stream!StartWorker \/ Stream!ReadLine
  <2>1. /\ gatewayClient' = gatewayClient /\ input' = input /\ server' \in {"checking", "running"}
        /\ server' = "checking" => pipe' = pipe /\ worker' = worker /\ server \in {"reading", "checking"}
        /\ server' = "running" => inputOpen' /\ pending' = <<>>
        /\ server # "none"
    BY <1>1, <1>6 DEF Stream!ReadRequest, Stream!ReadEarly, Stream!StartWorker,
       Stream!ReadLine, Stream!Keep, Stream!pageSide, Stream!stdin, Ends
  <2>2. QED
    BY <1>1, <2>1 DEF Ends
<1>7. CASE Stream!WorkerReads
  <2>1. UNCHANGED <<gatewayClient, server, inputOpen, pending, wire>> /\ pipe # <<>>
    BY <1>7 DEF Stream!WorkerReads, Stream!Keep, Stream!pageSide
  <2>2. QED
    BY <1>1, <2>1 DEF Ends
<1>8. CASE Stream!RequestLate \/ Stream!Refused \/ Stream!PeerGone \/ Stream!Stalled
           \/ Stream!PeerGoneEarly \/ Stream!WorkerEnds
  <2>1. /\ server' = "over" /\ gatewayClient' = gatewayClient
        /\ (gatewayClient = "idle" \/ gatewayClient = "connecting" => server = "over")
    BY <1>1, <1>8 DEF Stream!RequestLate, Stream!Refused, Stream!PeerGone, Stream!Stalled,
       Stream!PeerGoneEarly, Stream!WorkerEnds, Stream!Stop, Stream!Keep, Stream!pageSide,
       Ends
  <2>2. QED
    BY <1>1, <2>1 DEF Ends
<1>9. CASE Stream!Look
  <2>1. /\ gatewayClient' = gatewayClient /\ server = "running"
        /\ (server' = "over" \/ UNCHANGED <<server, inputOpen, pending>>)
    BY <1>9 DEF Stream!Look, Stream!LookFails, Stream!Stop, Stream!pageSide, Stream!stdin
  <2>2. QED
    BY <1>1, <2>1 DEF Ends
<1>10. QED
  BY <1>2, <1>3, <1>4, <1>5, <1>6, <1>7, <1>8, <1>9 DEF Stream!Next

LEMMA LooksStep ==
  ASSUME StreamInv, Stream!Next
  PROVE  /\ Looks' /\ Stream!EndedByItsSession' /\ looks' \in 0..1 /\ rewrites' \in 0..MaxRewrites
         /\ rewriting' \in {"no", "now", "read"}
<1>1. /\ Looks /\ Stream!EndedByItsSession /\ looks \in 0..1 /\ rewrites \in 0..MaxRewrites
      /\ rewrites \in Nat /\ MaxRewrites \in Nat
      /\ rewriting \in {"no", "now", "read"}
      /\ session \in {"gone", "challenge", "unmarked", "marked"} /\ lapsed \in BOOLEAN
  BY Constants DEF StreamInv, Stream!TypeOK, Stream!ConstantsOK
<1>2. CASE Stream!SessionEvent
  <2>1. UNCHANGED <<rewriting, rewrites, looks, ended>>
    BY <1>2 DEF Stream!SessionEvent
  <2>2. lapsed => lapsed'
    BY <1>2 DEF Stream!SessionEvent, Stream!Lapses
  <2>3. ~lapsed' => Stream!parsePanelSession' /\ account' = "admin"
    BY <1>2 DEF Stream!SessionEvent, Stream!Lapses
  <2>4. Looks'
    BY <1>1, <2>1, <2>2, <2>3 DEF Looks
  <2>5. Stream!EndedByItsSession'
    BY <1>1, <2>1, <2>2 DEF Stream!EndedByItsSession
  <2>6. QED
    BY <1>1, <2>1, <2>4, <2>5
<1>3. CASE Stream!Truncate
  <2>1. /\ rewriting = "no" /\ rewriting' = "now" /\ rewrites < MaxRewrites
        /\ rewrites' = rewrites + 1
        /\ UNCHANGED <<session, account, keysOn, lapsed, looks, ended>>
    BY <1>3 DEF Stream!Truncate
  <2>2. /\ rewrites' >= 1 /\ (rewrites >= 1 => rewrites' >= 2) /\ rewrites' \in 0..MaxRewrites
        /\ (rewrites > 1 => rewrites' > 1)
    BY <1>1, <2>1
  <2>3. Looks'
    BY <1>1, <2>1, <2>2 DEF Looks, Stream!parsePanelSession
  <2>4. Stream!EndedByItsSession'
    BY <1>1, <2>1, <2>2 DEF Stream!EndedByItsSession
  <2>5. QED
    BY <1>1, <2>1, <2>2, <2>3, <2>4
<1>4. CASE Stream!Rewritten
  <2>1. rewriting' = "no" /\ UNCHANGED <<session, account, keysOn, lapsed, looks, ended, rewrites>>
    BY <1>4 DEF Stream!Rewritten
  <2>2. QED
    BY <1>1, <2>1 DEF Looks, Stream!parsePanelSession, Stream!EndedByItsSession
<1>5. CASE Stream!Look
  <2>1. /\ rewriting # "read" /\ rewriting' = (IF rewriting = "now" THEN "read" ELSE rewriting)
        /\ UNCHANGED <<session, account, keysOn, lapsed, rewrites>>
    BY <1>5 DEF Stream!Look, Stream!LookReads
  <2>2. \/ looks' = 0 /\ ended' = ended
        \/ /\ ~Stream!AdminSession
           /\ \/ looks = 1 /\ looks' = 0 /\ ended' = "session"
              \/ looks = 0 /\ looks' = 1 /\ ended' = ended
    BY <1>1, <1>5 DEF Stream!Look, Stream!LookFails, Stream!Stop
  <2>3. ASSUME ~Stream!AdminSession, ~lapsed
        PROVE  rewriting = "now" /\ rewrites >= 1
    <3>1. Stream!parsePanelSession /\ account = "admin" /\ (rewriting # "no" => rewrites >= 1)
      BY <1>1, <2>3 DEF Looks
    <3>2. session # "gone" /\ Stream!lookupUserRole
      BY <3>1 DEF Stream!parsePanelSession, Stream!lookupUserRole
    <3>3. rewriting # "no"
      BY <2>3, <3>1, <3>2 DEF Stream!AdminSession, Stream!runAuthAction,
         Stream!readPanelSessionFile
    <3>4. QED
      BY <1>1, <2>1, <3>1, <3>3
  <2>4. Looks'
    BY <1>1, <2>1, <2>2, <2>3 DEF Looks, Stream!parsePanelSession
  <2>5. Stream!EndedByItsSession'
    <3>1. CASE ended' = ended
      BY <1>1, <2>1, <3>1 DEF Stream!EndedByItsSession
    <3>2. CASE ~Stream!AdminSession /\ looks = 1
      <4>1. ~lapsed => rewrites >= 2
        BY <1>1, <2>3, <3>2 DEF Looks
      <4>2. QED
        BY <1>1, <2>1, <4>1 DEF Stream!EndedByItsSession
    <3>3. QED
      BY <2>2, <3>1, <3>2
  <2>6. QED
    BY <1>1, <2>1, <2>2, <2>4, <2>5
<1>6. ASSUME UNCHANGED <<session, account, keysOn, lapsed, rewriting, rewrites, looks>>,
             ended' = ended \/ ended' # "session"
      PROVE  /\ Looks' /\ Stream!EndedByItsSession' /\ looks' \in 0..1
             /\ rewrites' \in 0..MaxRewrites
             /\ rewriting' \in {"no", "now", "read"}
  BY <1>1, <1>6 DEF Looks, Stream!parsePanelSession, Stream!EndedByItsSession
<1>7. CASE \/ Stream!streamGatewayAction \/ Stream!Connected \/ Stream!NotConnected
           \/ Stream!TypeLine \/ Stream!Drain \/ Stream!Close \/ Stream!ClosedByRoot
           \/ Stream!ReadRequest \/ Stream!ReadEarly \/ Stream!StartWorker
           \/ Stream!ReadLine \/ Stream!WorkerReads
  <2>1. UNCHANGED <<session, account, keysOn, lapsed, rewriting, rewrites, looks, ended>>
    BY <1>7 DEF Stream!streamGatewayAction, Stream!Connected, Stream!NotConnected,
       Stream!TypeLine, Stream!Drain, Stream!Close, Stream!ClosedByRoot, Stream!ReadRequest,
       Stream!ReadEarly, Stream!StartWorker, Stream!ReadLine, Stream!WorkerReads, Stream!Keep,
       Stream!panelSide
  <2>2. QED
    BY <1>6, <2>1
<1>8. CASE Stream!RequestLate \/ Stream!Refused \/ Stream!PeerGone \/ Stream!Stalled
           \/ Stream!PeerGoneEarly \/ Stream!WorkerEnds
  <2>1. UNCHANGED <<session, account, keysOn, lapsed, rewriting, rewrites, looks>>
    BY <1>8 DEF Stream!RequestLate, Stream!Refused, Stream!PeerGone, Stream!Stalled,
       Stream!PeerGoneEarly, Stream!WorkerEnds, Stream!Keep, Stream!panelSide
  <2>2. ended' \in {"invalid", "refused", "closed", "stalled", "worker", ended}
    BY <1>8 DEF Stream!RequestLate, Stream!Refused, Stream!PeerGone, Stream!Stalled,
       Stream!PeerGoneEarly, Stream!WorkerEnds, Stream!Stop
  <2>3. QED
    BY <1>6, <2>1, <2>2
<1>9. QED
  BY <1>2, <1>3, <1>4, <1>5, <1>7, <1>8 DEF Stream!Next

LEMMA GatewayTypes ==
  ASSUME StreamInv, Stream!Next
  PROVE  Stream!TypeOK'
<1>1. Stream!TypeOK
  BY DEF StreamInv
<1>2. /\ Seqs' /\ looks' \in 0..1 /\ rewrites' \in 0..MaxRewrites
      /\ rewriting' \in {"no", "now", "read"}
  BY FlowStep, LooksStep
<1>3. /\ gatewayClient' \in {"idle", "connecting", "open", "closed"}
      /\ server' \in {"none", "reading", "checking", "running", "over"}
  BY <1>1 DEF Stream!Next, Stream!SessionEvent, Stream!Truncate, Stream!Rewritten,
     Stream!streamGatewayAction, Stream!Connected, Stream!NotConnected, Stream!TypeLine,
     Stream!Drain, Stream!Close, Stream!ClosedByRoot, Stream!ReadRequest, Stream!RequestLate,
     Stream!ReadEarly, Stream!Refused, Stream!StartWorker, Stream!ReadLine,
     Stream!WorkerReads, Stream!PeerGone, Stream!Stalled, Stream!PeerGoneEarly,
     Stream!WorkerEnds, Stream!Look, Stream!LookFails, Stream!Stop, Stream!Keep,
     Stream!pageSide, Stream!TypeOK
<1>4. /\ worker' \in {"none", "running", "told", "gone"}
      /\ ended' \in {"not", "invalid", "refused", "closed", "stalled", "worker", "session"}
  BY <1>1 DEF Stream!Next, Stream!SessionEvent, Stream!Truncate, Stream!Rewritten,
     Stream!streamGatewayAction, Stream!Connected, Stream!NotConnected, Stream!TypeLine,
     Stream!Drain, Stream!Close, Stream!ClosedByRoot, Stream!ReadRequest, Stream!RequestLate,
     Stream!ReadEarly, Stream!Refused, Stream!StartWorker, Stream!ReadLine,
     Stream!WorkerReads, Stream!PeerGone, Stream!Stalled, Stream!PeerGoneEarly,
     Stream!WorkerEnds, Stream!Look, Stream!LookFails, Stream!Stop, Stream!Keep, Stream!TypeOK
<1>5. paused' \in BOOLEAN /\ inputOpen' \in BOOLEAN
  <2>1. \A p : Stream!Full(p) \in BOOLEAN
    BY DEF Stream!Full
  <2>2. paused \in BOOLEAN /\ inputOpen \in BOOLEAN
    BY <1>1 DEF Stream!TypeOK
  <2>3. inputOpen' = inputOpen \/ inputOpen' = TRUE \/ inputOpen' = FALSE
    BY DEF Stream!Next, Stream!SessionEvent, Stream!Truncate, Stream!Rewritten,
       Stream!streamGatewayAction, Stream!Connected, Stream!NotConnected, Stream!TypeLine,
       Stream!Drain, Stream!Close, Stream!ClosedByRoot, Stream!ReadRequest,
       Stream!RequestLate, Stream!ReadEarly, Stream!Refused, Stream!StartWorker,
       Stream!ReadLine, Stream!WorkerReads, Stream!PeerGone, Stream!Stalled,
       Stream!PeerGoneEarly, Stream!WorkerEnds, Stream!Look, Stream!LookFails, Stream!Stop,
       Stream!Keep, Stream!stdin
  <2>4. CASE Stream!StartWorker
    BY <2>1, <2>4, Zenon DEF Stream!StartWorker
  <2>5. CASE Stream!ReadLine
    BY <2>1, <2>2, <2>5, Zenon DEF Stream!ReadLine
  <2>6. CASE Stream!WorkerReads
    BY <2>1, <2>2, <2>6, Zenon DEF Stream!WorkerReads
  <2>7. paused' = paused \/ Stream!StartWorker \/ Stream!ReadLine \/ Stream!WorkerReads
    BY DEF Stream!Next, Stream!SessionEvent, Stream!Truncate, Stream!Rewritten,
       Stream!streamGatewayAction, Stream!Connected, Stream!NotConnected, Stream!TypeLine,
       Stream!Drain, Stream!Close, Stream!ClosedByRoot, Stream!ReadRequest,
       Stream!RequestLate, Stream!ReadEarly, Stream!Refused, Stream!PeerGone, Stream!Stalled,
       Stream!PeerGoneEarly, Stream!WorkerEnds, Stream!Look, Stream!LookFails, Stream!Stop,
       Stream!Keep, Stream!stdin
  <2>8. inputOpen' \in BOOLEAN
    BY <2>2, <2>3, Zenon
  <2>9. QED
    BY <2>2, <2>4, <2>5, <2>6, <2>7, <2>8, Zenon
<1>6. /\ session' \in {"gone", "challenge", "unmarked", "marked"}
      /\ account' \in {"admin", "other", "off"}
      /\ keysOn' \in BOOLEAN /\ lapsed' \in BOOLEAN /\ events' \in 0..MaxSessionEvents
  <2>1. CASE Stream!SessionEvent
    <3>1. events < MaxSessionEvents /\ events' = events + 1
      BY <2>1 DEF Stream!SessionEvent
    <3>2. events' \in 0..MaxSessionEvents
      BY <1>1, <3>1, Constants DEF Stream!ConstantsOK, Stream!TypeOK
    <3>3. lapsed' \in BOOLEAN
      BY <2>1 DEF Stream!SessionEvent, Stream!Lapses
    <3>4. /\ session' \in {"gone", "challenge", "unmarked", "marked"}
          /\ account' \in {"admin", "other", "off"}
      BY <1>1, <2>1 DEF Stream!SessionEvent, Stream!TypeOK
    <3>5. keysOn' \in BOOLEAN
      BY <1>1, <2>1 DEF Stream!SessionEvent, Stream!TypeOK
    <3>6. QED
      BY <3>2, <3>3, <3>4, <3>5
  <2>2. CASE ~Stream!SessionEvent
    <3>1. UNCHANGED <<session, account, keysOn, lapsed, events>>
      BY <2>2 DEF Stream!Next, Stream!Truncate, Stream!Rewritten, Stream!streamGatewayAction,
         Stream!Connected, Stream!NotConnected, Stream!TypeLine, Stream!Drain, Stream!Close,
         Stream!ClosedByRoot, Stream!ReadRequest, Stream!RequestLate, Stream!ReadEarly,
         Stream!Refused, Stream!StartWorker, Stream!ReadLine, Stream!WorkerReads,
         Stream!PeerGone, Stream!Stalled, Stream!PeerGoneEarly, Stream!WorkerEnds,
         Stream!Look, Stream!LookReads, Stream!Keep, Stream!panelSide
    <3>2. QED
      BY <1>1, <3>1 DEF Stream!TypeOK
  <2>3. QED
    BY <2>1, <2>2
<1>7. QED
  BY <1>2, <1>3, <1>4, <1>5, <1>6 DEF Stream!TypeOK, Seqs, Line

LEMMA StreamInit == Stream!Init => StreamInv
<1> SUFFICES ASSUME Stream!Init PROVE StreamInv
  OBVIOUS
<1>1. <<>> \in Seq(Line) /\ Len(<<>>) = 0 /\ \A f : Run(<<>>, f)
  BY RunNone
<1>2. MaxTyped \in Nat /\ MaxSessionEvents \in Nat /\ MaxRewrites \in Nat
  BY Constants DEF Stream!ConstantsOK
<1>3. Stream!TypeOK
  <2>1. keysOn \in BOOLEAN /\ lapsed \in BOOLEAN /\ paused \in BOOLEAN /\ inputOpen \in BOOLEAN
    BY Zenon DEF Stream!Init
  <2>2. {outbox, wire, pending, pipe, input} \subseteq Seq(Line)
    BY <1>1 DEF Stream!Init
  <2>3. /\ gatewayTyped \in 0..MaxTyped /\ events \in 0..MaxSessionEvents
        /\ rewrites \in 0..MaxRewrites /\ looks \in 0..1
    BY <1>2 DEF Stream!Init
  <2>4. QED
    BY <2>1, <2>2, <2>3 DEF Stream!Init, Stream!TypeOK, Line
<1>4. Ends
  BY DEF Stream!Init, Ends
<1>5. Flow
  <2>1. /\ ReadSoFar = 0 /\ Piped = 0 /\ Held = 0 /\ Stream!Lines = <<>> /\ Len(Stream!Lines) = 0
        /\ Len(outbox) = 0
    BY <1>1 DEF Stream!Init, ReadSoFar, Piped, Held, Stream!Lines
  <2>2. QED
    BY <1>1, <2>1 DEF Stream!Init, Flow
<1>6. Looks /\ Stream!EndedByItsSession
  BY DEF Stream!Init, Looks, Stream!EndedByItsSession, Stream!parsePanelSession
<1>7. QED
  BY <1>3, <1>4, <1>5, <1>6 DEF StreamInv

LEMMA StreamStep == StreamInv /\ [Stream!Next]_gatewayVars => StreamInv'
<1>1. ASSUME StreamInv, Stream!Next PROVE StreamInv'
  BY <1>1, GatewayTypes, EndsStep, FlowStep, LooksStep DEF StreamInv
<1>2. ASSUME StreamInv, UNCHANGED gatewayVars PROVE StreamInv'
  <2>1. Stream!TypeOK' /\ Ends' /\ Stream!EndedByItsSession'
    BY <1>2 DEF gatewayVars, StreamInv, Stream!TypeOK, Ends, Stream!EndedByItsSession
  <2>2. Flow'
    BY <1>2, FlowSame DEF gatewayVars, Stream!gatewayVars
  <2>3. Looks'
    BY <1>2 DEF gatewayVars, StreamInv, Looks, Stream!parsePanelSession
  <2>4. QED
    BY <2>1, <2>2, <2>3 DEF StreamInv
<1>3. QED
  BY <1>1, <1>2

LEMMA StreamHolds == StreamInv => Stream!TypedIsSomewhere /\ Stream!ReadsInOrder
<1> SUFFICES ASSUME StreamInv PROVE Stream!TypedIsSomewhere /\ Stream!ReadsInOrder
  OBVIOUS
<1>1. /\ Seqs /\ Stream!Lines \in Seq(Line) /\ gatewayTyped \in Nat /\ ReadSoFar \in Nat
      /\ Piped \in Nat /\ Held \in Nat
      /\ {Len(input), Len(pipe), Len(pending), Len(Stream!Lines), Len(outbox)} \subseteq Nat
      /\ ReadSoFar = Len(input) /\ Piped = Len(input) + Len(pipe)
      /\ Held = (Len(input) + Len(pipe)) + Len(pending)
  BY Counts
<1>2. /\ input \in Seq(Line) /\ pipe \in Seq(Line) /\ pending \in Seq(Line) /\ outbox \in Seq(Line)
      /\ Run(input, 0) /\ Run(pipe, ReadSoFar) /\ Piped <= gatewayTyped
  BY <1>1 DEF StreamInv, Flow, Seqs
<1>3. Stream!ReadsInOrder
  <2>1. Len(input) <= gatewayTyped
    BY <1>1, <1>2
  <2>2. ASSUME NEW i \in 1..Len(input)
        PROVE  input[i] = i
    <3>1. Len(input) \in Nat /\ i \in Nat
      BY <1>1
    <3>2. input[i] = 0 + i
      BY <1>2 DEF Run
    <3>3. QED
      BY <3>1, <3>2
  <2>3. QED
    BY <2>1, <2>2 DEF Stream!ReadsInOrder
<1>4. ASSUME server # "over"
      PROVE  input \o pipe \o pending \o Stream!Lines \o outbox = Stream!InOrder
  <2>1. /\ Run(pending, Piped) /\ Run(Stream!Lines, Held) /\ Run(outbox, Held + Len(Stream!Lines))
        /\ Held + Len(Stream!Lines) + Len(outbox) = gatewayTyped
    BY <1>4 DEF StreamInv, Flow
  <2> DEFINE s2 == input \o pipe
             s3 == s2 \o pending
             s4 == s3 \o Stream!Lines
             s5 == s4 \o outbox
  <2>2. s2 \in Seq(Line) /\ Len(s2) = Piped /\ Run(s2, 0)
    <3>1. /\ input \in Seq(Line) /\ pipe \in Seq(Line) /\ Run(input, 0) /\ 0 \in Nat
          /\ Run(pipe, 0 + Len(input))
      BY <1>1, <1>2
    <3>2. s2 \in Seq(Line) /\ Len(s2) = Len(input) + Len(pipe) /\ Run(s2, 0)
      BY ONLY <3>1, RunConcat
    <3>3. QED
      BY <1>1, <1>2, <3>2
  <2> HIDE DEF s2
  <2>3. s3 \in Seq(Line) /\ Len(s3) = Held /\ Run(s3, 0)
    <3>1. /\ s2 \in Seq(Line) /\ pending \in Seq(Line) /\ Run(s2, 0) /\ 0 \in Nat
          /\ Run(pending, 0 + Len(s2))
      BY <1>1, <1>2, <2>1, <2>2
    <3>2. s3 \in Seq(Line) /\ Len(s3) = Len(s2) + Len(pending) /\ Run(s3, 0)
      BY ONLY <3>1, RunConcat
    <3>3. QED
      BY <1>1, <1>2, <2>1, <2>2, <3>2
  <2> HIDE DEF s3
  <2>4. s4 \in Seq(Line) /\ Len(s4) = Held + Len(Stream!Lines) /\ Run(s4, 0)
    <3>1. /\ s3 \in Seq(Line) /\ Stream!Lines \in Seq(Line) /\ Run(s3, 0) /\ 0 \in Nat
          /\ Run(Stream!Lines, 0 + Len(s3))
      BY <1>1, <1>2, <2>1, <2>3
    <3>2. s4 \in Seq(Line) /\ Len(s4) = Len(s3) + Len(Stream!Lines) /\ Run(s4, 0)
      BY ONLY <3>1, RunConcat
    <3>3. QED
      BY <1>1, <1>2, <2>1, <2>3, <3>2
  <2> HIDE DEF s4
  <2>5. s5 \in Seq(Line) /\ Len(s5) = gatewayTyped /\ Run(s5, 0)
    <3>1. /\ s4 \in Seq(Line) /\ outbox \in Seq(Line) /\ Run(s4, 0) /\ 0 \in Nat
          /\ Run(outbox, 0 + Len(s4))
      BY <1>1, <1>2, <2>1, <2>4
    <3>2. s5 \in Seq(Line) /\ Len(s5) = Len(s4) + Len(outbox) /\ Run(s5, 0)
      BY ONLY <3>1, RunConcat
    <3>3. QED
      BY <1>1, <1>2, <2>1, <2>4, <3>2
  <2> HIDE DEF s5
  <2>6. /\ Stream!InOrder \in Seq(Nat) /\ Len(Stream!InOrder) = gatewayTyped
        /\ \A i \in 1..gatewayTyped : Stream!InOrder[i] = i
    <3>1. Stream!InOrder \in [1..gatewayTyped -> Nat]
      BY <1>1 DEF Stream!InOrder
    <3>2. Stream!InOrder \in Seq(Nat)
      BY <1>1, <3>1, SeqDef
    <3>3. QED
      BY <1>1, <3>1, <3>2, LenProperties DEF Stream!InOrder
  <2>7. s5 \in Seq(Nat)
    <3>1. Line \subseteq Nat
      BY DEF Line
    <3>2. QED
      BY ONLY <2>5, <3>1, SeqMonotonic, Zenon
  <2>8. \A i \in 1..Len(s5) : s5[i] = Stream!InOrder[i]
    <3>1. \A i \in 1..gatewayTyped : s5[i] = 0 + i /\ 0 + i = i
      BY <1>1, <2>5 DEF Run
    <3>2. QED
      BY <2>5, <2>6, <3>1
  <2>9. s5 = Stream!InOrder
    BY ONLY <2>5, <2>6, <2>7, <2>8, SeqEqual
  <2>10. QED
    BY <2>9 DEF s2, s3, s4, s5
<1>5. QED
  BY <1>3, <1>4 DEF Stream!TypedIsSomewhere

-----------------------------------------------------------------------------
(* A behaviour is about one of the two, and the other rests.               *)

GroupInv == /\ part = "terminal" => ShellInv
            /\ part = "gateway" => StreamInv

LEMMA GroupHolds == Spec => []GroupInv
<1>1. Init => GroupInv
  BY ShellInit, StreamInit DEF Init, GroupInv
<1>2. ASSUME GroupInv, [Next]_vars
      PROVE  GroupInv'
  <2>1. ASSUME part = "terminal", Shell!Next, UNCHANGED part
        PROVE  GroupInv'
    BY <1>2, <2>1, ShellStep DEF GroupInv
  <2>2. ASSUME part = "gateway", Stream!Next, UNCHANGED part
        PROVE  GroupInv'
    BY <1>2, <2>2, StreamStep DEF GroupInv
  <2>3. ASSUME UNCHANGED vars
        PROVE  GroupInv'
    <3>1. UNCHANGED <<part, terminalVars, gatewayVars>>
      BY <2>3 DEF vars
    <3>2. QED
      BY <1>2, <3>1, ShellStep, StreamStep DEF GroupInv
  <2>4. QED
    BY <1>2, <2>1, <2>2, <2>3 DEF Next
<1>3. QED
  BY <1>1, <1>2, PTL DEF Spec

(* The pages, the session, its streams and posts, and the stream's two     *)
(* ends and worker, never leave what they range over.                      *)
THEOREM SessionsTyped == Spec => []TypeOK
<1>1. GroupInv => TypeOK
  BY DEF GroupInv, TypeOK, ShellInv, StreamInv
<1>2. QED
  BY <1>1, GroupHolds, PTL

(* What a page shows is what the shell wrote, whole and once, through      *)
(* every reload, takeover and stream that falls behind: offset, ring and   *)
(* Last-Event-ID agree (attach, sessions.ts); and no deadline of a session *)
(* nobody is attached to runs for one that a page is attached to.          *)
THEOREM PagesShowAll == Spec => []ScreenWhole
<1>1. GroupInv => ScreenWhole
  BY DEF GroupInv, ScreenWhole, ShellInv
<1>2. QED
  BY <1>1, GroupHolds, PTL

(* Batches of a page that follow one another are typed in order and none   *)
(* twice, however its posts fail and arrive late, and a confirmed one was  *)
(* typed (input, sessions.ts); the stream's lines reach the worker in      *)
(* order, held, piped or waiting for a drain; and the stream is ended for  *)
(* its session only if that lapsed or PHP was rewriting its file at both   *)
(* looks (auth-action.ts).                                                 *)
THEOREM KeysReachTheShell == Spec => []TypedInOrder
<1>1. GroupInv => TypedInOrder
  BY StreamHolds DEF GroupInv, TypedInOrder, ShellInv, StreamInv
<1>2. QED
  BY <1>1, GroupHolds, PTL
=============================================================================
