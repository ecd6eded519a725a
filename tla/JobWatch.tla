------------------------------ MODULE JobWatch ------------------------------
(***************************************************************************)
(* A page that follows a background job: root's worker beside the record    *)
(* (watchJobRecord), the manager's event stream (jobEventStream) and the    *)
(* page (job-watch.client.js).  The record is a directory of fields that    *)
(* the runner writes one at a time while the worker and the polls read them *)
(* one at a time; the connections carry snapshots in order, and are lost    *)
(* with the manager, which an update restarts while its own job is watched; *)
(* the session may end, and its stream may not outlive it for long.         *)
(***************************************************************************)
EXTENDS Naturals, Sequences

CONSTANTS MaxText,    \* bound: lines of log and changes of step
          MaxQueue,   \* bound: snapshots on a connection, which waits when full
          MaxMishaps  \* bound: lost connections, restarts, deaths, sign-outs, written sessions

VARIABLES rec,      \* the job's record: [state, text, event, kept]
          runner,   \* "running", "ending", "dead", "marking" or "over"
          worker,   \* [at, prev, now, snap]
          link,     \* worker to manager: snapshots, "missing" and "end"
          stream,   \* [at, last, watch, check]: the response and its recheck
          feed,     \* manager to page: [kind, snap]
          page,     \* [at, shown, snap]
          managerUp, signedIn,   \* "yes", "torn" or "no"
          watchCount,
          toldGone  \* ghost: a recheck has found the session gone

watchVars == <<rec, runner, worker, link, stream, feed, page, managerUp, signedIn, watchCount, toldGone>>
manager == <<stream, feed>>
session == <<managerUp, signedIn, toldGone>>

Terminal == {"done", "failed"}
NoSnap == [state |-> "", text |-> 0, event |-> FALSE]
NoWorker == [at |-> "none", prev |-> NoSnap, now |-> NoSnap, snap |-> NoSnap]
NoStream == [at |-> "none", last |-> NoSnap, watch |-> FALSE, check |-> "idle"]

TypeOK ==
    /\ rec.state \in {"queued", "running"} \cup Terminal /\ rec.text \in 0..(MaxText + 1 + MaxMishaps)
    /\ worker.at \in {"none", "base", "base2", "read", "read2", "sleep", "look", "look2", "gone"}
    /\ stream.at \in {"none", "first", "first2", "open", "closed"}
    /\ stream.check \in {"idle", "yes", "no", "unavailable"}
    /\ page.at \in {"stream", "waiting", "polling", "poll2", "answer", "done", "reload"}
    /\ Len(link) <= MaxQueue + 1 /\ signedIn \in {"yes", "torn", "no"}

Init ==
    /\ rec = [state |-> "queued", text |-> 0, event |-> FALSE, kept |-> TRUE] /\ runner = "running"
    /\ worker = NoWorker /\ link = <<>> /\ stream = [NoStream EXCEPT !.at = "first"] /\ feed = <<>>
    /\ page = [at |-> "stream", shown |-> NoSnap, snap |-> NoSnap]
    /\ managerUp = TRUE /\ signedIn = "yes" /\ toldGone = FALSE
    /\ watchCount = 0

Count == watchCount < MaxMishaps /\ watchCount' = watchCount + 1

-----------------------------------------------------------------------------
(* The runner: its fields, and the state after everything it stands for;    *)
(* the event of an update is cleared before.                                *)
beside == <<worker, link, manager, page, session>>
RunnerStarts ==
    /\ runner = "running" /\ rec.state = "queued" /\ rec' = [rec EXCEPT !.state = "running"]
    /\ UNCHANGED <<runner, beside, watchCount>>
RunnerWrites ==
    /\ runner = "running" /\ rec.state = "running" /\ rec.text < MaxText
    /\ \E e \in {rec.event, TRUE} : rec' = [rec EXCEPT !.text = @ + 1, !.event = e]
    /\ UNCHANGED <<runner, beside, watchCount>>
RunnerEnds ==
    /\ runner = "running" /\ rec.state = "running"
    /\ rec' = [rec EXCEPT !.text = @ + 1, !.event = FALSE] /\ runner' = "ending"
    /\ UNCHANGED <<beside, watchCount>>
RunnerOver ==
    /\ runner \in {"ending", "marking"} /\ runner' = "over"
    /\ rec' = [rec EXCEPT !.state = IF runner = "marking" THEN "failed" ELSE "done"]   \* or a failure of its own
    /\ UNCHANGED <<beside, watchCount>>
RunnerDies ==
    /\ runner \in {"running", "ending"} /\ Count /\ runner' = "dead"
    /\ UNCHANGED <<rec, beside>>
(* pruneJobs(): a dead runner's job fails, and a finished one expires.      *)
MarkStuck ==
    /\ runner = "dead" /\ rec.state \notin Terminal /\ rec.kept
    /\ rec' = [rec EXCEPT !.text = @ + 1] /\ runner' = "marking"
    /\ UNCHANGED <<beside, watchCount>>
Expires ==
    /\ runner = "over" /\ rec.kept /\ rec' = [rec EXCEPT !.kept = FALSE]
    /\ UNCHANGED <<runner, beside, watchCount>>

(* A reader takes the state and the event first, the step and the log last. *)
StateOf(s) == [s EXCEPT !.state = IF rec.kept THEN rec.state ELSE "", !.event = rec.kept /\ rec.event]
LogOf(s) == [s EXCEPT !.text = IF rec.kept THEN rec.text ELSE 0]
LogFirst(half, s) == IF half = 1 THEN LogOf(s) ELSE StateOf(s)
Reads(half, s) == IF half = 1 THEN StateOf(s) ELSE LogOf(s)
Missing(s) == s.state = ""

-----------------------------------------------------------------------------
(* watchJobRecord(): what it compares with is read before what it sends.    *)
workerOnly == <<rec, runner, manager, page, session, watchCount>>
Emit(s) == link' = Append(link, [kind |-> IF Missing(s) THEN "missing" ELSE "snap", snap |-> s])
Room == Len(link) < MaxQueue
Baseline ==
    /\ \/ /\ worker.at = "base" /\ worker' = [worker EXCEPT !.at = "base2", !.prev = Reads(1, worker.prev)]
       \/ /\ worker.at = "base2" /\ worker' = [worker EXCEPT !.at = "read", !.prev = Reads(2, worker.prev), !.now = Reads(2, worker.prev)]
    /\ UNCHANGED <<link, workerOnly>>
ReadRecord ==
    /\ worker.at = "read" /\ Room
    /\ worker' = [worker EXCEPT !.at = "read2", !.snap = Reads(1, NoSnap)]
    /\ UNCHANGED <<link, workerOnly>>
KeepsFresh(w) == [state |-> rec.state, text |-> rec.text, event |-> rec.event]
Keeps(w) == w.now        \* what the next look is compared with
NextAfter(w) == IF w.now.state \in Terminal THEN "gone" ELSE "sleep"
EmitRecord ==
    /\ worker.at = "read2" /\ Emit(Reads(2, worker.snap))
    /\ worker' = [worker EXCEPT !.at = NextAfter(worker), !.snap = NoSnap, !.prev = Keeps(worker)]
    /\ UNCHANGED workerOnly
LooksAgain ==
    /\ worker.at = "sleep"
    /\ worker' = IF rec.kept THEN [worker EXCEPT !.at = "look", !.now = Reads(1, NoSnap)] ELSE [worker EXCEPT !.at = "gone"]
    /\ UNCHANGED <<link, workerOnly>>
Compares ==
    /\ worker.at = "look"
    /\ LET now == Reads(2, worker.now) IN
       worker' = [worker EXCEPT !.now = now, !.at = IF now = worker.prev THEN "sleep" ELSE "read"]
    /\ UNCHANGED <<link, workerOnly>>
(* Its end, of itself or with the manager's side of the connection, is the  *)
(* end of the connection.                                                   *)
WorkerEnds ==
    /\ worker.at = "gone" /\ worker' = NoWorker /\ link' = Append(link, [kind |-> "end", snap |-> NoSnap])
    /\ UNCHANGED workerOnly
WorkerStopped ==
    /\ worker.at # "none" /\ ~stream.watch /\ worker' = NoWorker /\ link' = <<>>
    /\ UNCHANGED workerOnly

-----------------------------------------------------------------------------
(* jobEventStream(): the record, then the watcher, and the session again    *)
(* every fifteen seconds.                                                   *)
streamOnly == <<rec, runner, page, managerUp, signedIn, watchCount>>
Send(kind, s) == Append(feed, [kind |-> kind, snap |-> s])
Ended(f) == Append(f, [kind |-> "closed", snap |-> NoSnap])
Closed(s) == [s EXCEPT !.at = "closed", !.watch = FALSE]
FirstRead ==
    /\ stream.at = "first" /\ managerUp /\ stream' = [stream EXCEPT !.at = "first2", !.last = Reads(1, NoSnap)]
    /\ UNCHANGED <<feed, worker, link, toldGone, streamOnly>>
FirstSent ==
    /\ stream.at = "first2"
    /\ LET s == Reads(2, stream.last) kind == IF s.event THEN "named" ELSE "snap" IN
       IF Missing(s) THEN /\ stream' = Closed(stream) /\ feed' = Ended(feed) /\ UNCHANGED <<worker, link>>
       ELSE IF s.state \in Terminal
       THEN /\ stream' = Closed(stream) /\ feed' = Ended(Send(kind, s)) /\ UNCHANGED <<worker, link>>
       ELSE /\ stream' = [stream EXCEPT !.at = "open", !.last = s, !.watch = TRUE] /\ feed' = Send(kind, s)
            /\ worker' = [NoWorker EXCEPT !.at = "base"] /\ link' = <<>>
    /\ UNCHANGED <<toldGone, streamOnly>>
sendSnapshot ==
    /\ stream.at = "open" /\ link # <<>> /\ Head(link).kind = "snap" /\ Len(feed) < MaxQueue /\ link' = Tail(link)
    /\ LET s == Head(link).snap
           kind == IF s.event # stream.last.event /\ s.event THEN "named" ELSE "snap"
           sent == IF s # stream.last THEN Send(kind, s) ELSE feed
       IN IF s.state \in Terminal THEN stream' = Closed([stream EXCEPT !.last = s]) /\ feed' = Ended(sent)
          ELSE stream' = [stream EXCEPT !.last = s] /\ feed' = sent
    /\ UNCHANGED <<worker, toldGone, streamOnly>>
onClose ==    \* a job that is gone, a worker that has ended
    /\ stream.at = "open" /\ link # <<>> /\ Head(link).kind # "snap" /\ link' = Tail(link)
    /\ stream' = Closed(stream) /\ feed' = Ended(feed)
    /\ UNCHANGED <<worker, toldGone, streamOnly>>
(* stillAuthorized(): root may be away, and it may read a file that PHP is  *)
(* writing.                                                                 *)
AsksAgain ==
    /\ stream.at = "open" /\ stream.check = "idle" /\ signedIn # "yes"    \* bound: when there is something to find
    /\ \E says \in {IF signedIn = "yes" THEN "yes" ELSE "no", "unavailable"} : stream' = [stream EXCEPT !.check = says]
    /\ UNCHANGED <<feed, worker, link, toldGone, streamOnly>>
RefusesNone(c) == FALSE
RefusesGone(c) == c = "no"
Rechecked ==
    /\ stream.check # "idle" /\ stream.at \in {"open", "closed"}
    /\ IF RefusesGone(stream.check) /\ stream.at = "open"
       THEN /\ stream' = [Closed(stream) EXCEPT !.check = "idle"]
            /\ feed' = Ended(Append(feed, [kind |-> "unauthorized", snap |-> NoSnap]))
       ELSE stream' = [stream EXCEPT !.check = "idle"] /\ UNCHANGED feed
    /\ toldGone' = (toldGone \/ stream.check = "no")
    /\ UNCHANGED <<worker, link, streamOnly>>
Cancelled ==    \* the page has closed its end
    /\ page.at # "stream" /\ stream.at \in {"first", "first2", "open"} /\ stream' = Closed(stream) /\ feed' = <<>>
    /\ UNCHANGED <<worker, link, toldGone, streamOnly>>

-----------------------------------------------------------------------------
(* The page.  A named event shows no snapshot; the end of the stream, and   *)
(* an error on it, turn it to /health and then to polling.                  *)
pageOnly == <<rec, runner, worker, link, stream, session, watchCount>>
updateJobUI(s, otherwise) ==
    page' = [page EXCEPT !.shown = s, !.snap = NoSnap, !.at = IF s.state \in Terminal THEN "done" ELSE otherwise]
onmessage ==
    /\ page.at = "stream" /\ feed # <<>> /\ feed' = Tail(feed)
    /\ LET e == Head(feed) IN
       \/ e.kind = "snap" /\ updateJobUI(e.snap, "stream")
       \/ e.kind = "named" /\ UNCHANGED page
       \/ e.kind = "unauthorized" /\ page' = [page EXCEPT !.at = "reload"]
       \/ e.kind = "closed" /\ page' = [page EXCEPT !.at = "waiting"]
    /\ UNCHANGED pageOnly
waitForManager ==
    /\ page.at = "waiting" /\ managerUp
    /\ page' = [page EXCEPT !.at = IF signedIn = "no" THEN "reload" ELSE "polling"]
    /\ UNCHANGED <<feed, pageOnly>>
PollReads ==
    /\ \/ /\ page.at = "polling" /\ managerUp /\ signedIn = "yes"
          /\ page' = [page EXCEPT !.at = "poll2", !.snap = Reads(1, NoSnap)]
       \/ page.at = "poll2" /\ page' = [page EXCEPT !.at = "answer", !.snap = Reads(2, page.snap)]
    /\ UNCHANGED <<feed, pageOnly>>
PollAnswered ==    \* anything but a snapshot is asked for again two seconds later
    /\ page.at = "answer"
    /\ IF Missing(page.snap) THEN page' = [page EXCEPT !.at = "polling", !.snap = NoSnap]
       ELSE updateJobUI(page.snap, "polling")
    /\ UNCHANGED <<feed, pageOnly>>

-----------------------------------------------------------------------------
(* The manager restarts, a connection is lost with what was still on it,    *)
(* and the session ends or is being written.                                *)
Lost(f) == {[i \in 1..n |-> f[i]] : n \in 0..Len(f)}
Drop ==
    /\ Count /\ managerUp' \in BOOLEAN /\ managerUp
    /\ stream' = IF stream.at = "none" THEN stream ELSE Closed(stream)
    /\ \E rest \in Lost(feed) : feed' = Ended(rest)
    /\ page' = IF page.at \in {"poll2", "answer"} THEN [page EXCEPT !.at = "polling", !.snap = NoSnap] ELSE page
    /\ UNCHANGED <<rec, runner, worker, link, signedIn, toldGone>>
ManagerBack ==
    /\ ~managerUp /\ managerUp' = TRUE
    /\ UNCHANGED <<rec, runner, worker, link, manager, page, signedIn, watchCount, toldGone>>
SessionMoves ==
    /\ \/ signedIn = "torn" /\ signedIn' = "yes" /\ UNCHANGED watchCount
       \/ signedIn = "yes" /\ Count /\ signedIn' \in {"torn", "no"}
    /\ UNCHANGED <<rec, runner, worker, link, manager, page, managerUp, toldGone>>

Next ==
    \/ RunnerStarts \/ RunnerWrites \/ RunnerEnds \/ RunnerOver \/ RunnerDies \/ MarkStuck \/ Expires
    \/ Baseline \/ ReadRecord \/ EmitRecord \/ LooksAgain \/ Compares \/ WorkerEnds \/ WorkerStopped
    \/ FirstRead \/ FirstSent \/ sendSnapshot \/ onClose \/ AsksAgain \/ Rechecked \/ Cancelled
    \/ onmessage \/ waitForManager \/ PollReads \/ PollAnswered
    \/ Drop \/ ManagerBack \/ SessionMoves
Spec == Init /\ [][Next]_watchVars

-----------------------------------------------------------------------------
CutShort(s) == ~rec.kept /\ s.text = 0    \* it expired while it was read

(* What a page shows as finished is how the job ended, with all it wrote:   *)
(* the reader that saw the final state saw the rest after it.               *)
ShowsTheEnd == page.shown.state \in Terminal =>
    page.shown.state = rec.state /\ (page.shown.text = rec.text \/ CutShort(page.shown))

(* Nobody waits for a word that will not come: a page on a stream has one   *)
(* that is open, or its end before it; an open stream has its worker, or    *)
(* the worker's last word before it; and a worker sleeps only on a record   *)
(* that had not ended when it last told of it.                              *)
SomebodyTells ==
    /\ page.at = "stream" => stream.at \in {"first", "first2", "open"} \/ feed # <<>>
    /\ stream.at = "open" => worker.at # "none" \/ link # <<>>
    /\ worker.at \in {"sleep", "look"} => worker.prev.state \notin Terminal

(* A stream whose session was found gone sends no snapshot afterwards, and  *)
(* a page is sent away only by a session that was gone or being written.    *)
NothingToTheGone ==
    /\ toldGone => stream.at = "closed" \/ page.at # "stream"
    /\ page.at = "reload" => toldGone \/ signedIn = "no"

(* A page never goes back to an older state of the job, through lost        *)
(* connections, the manager's restart and the change from stream to poll.   *)
Rank(state) == IF state = "" THEN 0 ELSE IF state = "queued" THEN 1 ELSE IF state = "running" THEN 2 ELSE 3
ForwardStep ==
    /\ Rank(page.shown.state) <= Rank(page.shown'.state)
    /\ page.shown.text <= page.shown'.text \/ CutShort(page.shown')
=============================================================================
