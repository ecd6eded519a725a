--------------------------- MODULE GatewayRequests ---------------------------
(***************************************************************************)
(* One request of a browser through the manager and the root gateway: the  *)
(* gate that asks root whose session it is (server.ts, sso-auth.ts), the    *)
(* verb the addon's handler asks for and whom it is declared for            *)
(* (gateway-client.ts, gateway-protocol.ts), and the process root starts    *)
(* for it (createAuthActionServer, auth-action.ts) with three deadlines: of *)
(* the process, of root's answer and of the manager's patience.  The        *)
(* gateway and the manager restart, people sign in and out, sessions lapse  *)
(* and an operator changes their lifetime, whenever they like.              *)
(***************************************************************************)
EXTENDS Integers

CONSTANTS WebRequests, Accesses,     \* the access of the routes and verbs of this instance
          WebRoles,                   \* the roles its accounts have
          MaxWebMoves                 \* restarts, sign-ins, sign-outs and edits

VARIABLES web,       \* [WebRequests -> [at, cookie, route, verb, sends, role, said]]
          conn,      \* root's end of each action's connection
          proc,      \* its process, and the panel user it was started for
          age,       \* how many deadlines have passed since it was sent
          sess,      \* the browser's session file: [who, mark, torn, idle]
          userRows,  \* the panel's accounts: role, or "none" for one that is not active
          keysOn,    \* Security Keys is enabled
          phpIni,    \* the panel's php.ini: [stamp, secs]
          lifeCache, \* what the gateway remembers of it
          look,      \* the session root looks at, for one request at a time
          gatewayUp,
          reqCount,
          \* ghosts, of the time since each request came: the least idle its session was seen
          \* sound at, whether its account was active, whether any of it was wanting, the
          \* lifetimes php.ini has had
          leastIdle, wasActive, wasLapsed, lives

requestVars == <<web, conn, proc, age, sess, userRows, keysOn, phpIni, lifeCache, look, gatewayUp, reqCount,
                 leastIdle, wasActive, wasLapsed, lives>>

AccessNames == {"pre-gate", "panel-user", "own-account", "site-manager", "admin", "root-only"}
PanelRoles == {"user", "site", "admin"}
NoWeb == [at |-> "free", cookie |-> 0, route |-> "admin", verb |-> "admin", sends |-> FALSE, role |-> "none", said |-> "nothing"]
NoProc == [state |-> "none", for |-> 0, began |-> 0]
NoSession == [who |-> 0, mark |-> "none", torn |-> FALSE, idle |-> 0]
NoLook == [of |-> "nobody", saw |-> NoSession, keys |-> FALSE, stamp |-> 0, secs |-> 0]
MaxAge == 6
Whos == 1..(MaxWebMoves + 1)
Signed == [NoSession EXCEPT !.who = 1]

Never == 3      \* past every idle there is

ConstantsOK == Accesses \subseteq AccessNames /\ WebRoles \subseteq PanelRoles /\ MaxWebMoves \in Nat /\ "nobody" \notin WebRequests

Roles == PanelRoles \cup {"none"}
Sessions == [who : 0..(MaxWebMoves + 1), mark : {"none", "unmarked", "pending", "passed"}, torn : BOOLEAN, idle : 0..2]
Webs == [at : {"free", "gate", "in", "asked", "answered", "gone"}, cookie : 0..(MaxWebMoves + 1), route : AccessNames,
         verb : AccessNames, sends : BOOLEAN, role : Roles,
         said : {"nothing", "login", "503", "403", "refused", "reply", "lost", "late"}]
Procs == [state : {"none", "running", "held", "gone"}, for : 0..(MaxWebMoves + 1), began : 0..MaxAge]
Looks == [of : WebRequests \cup {"nobody"}, saw : Sessions, keys : BOOLEAN, stamp : Nat, secs : 0..2]
TypeOK ==
    /\ web \in [WebRequests -> Webs] /\ conn \in [WebRequests -> {"none", "request", "run", "over"}]
    /\ proc \in [WebRequests -> Procs] /\ age \in [WebRequests -> 0..MaxAge]
    /\ sess \in Sessions /\ userRows \in [Whos -> Roles] /\ keysOn \in BOOLEAN
    /\ phpIni \in [stamp : Nat \ {0}, secs : 1..2] /\ lifeCache \in [stamp : Nat, secs : 0..2]
    /\ lifeCache.stamp <= phpIni.stamp /\ look \in Looks
    /\ gatewayUp \in BOOLEAN /\ reqCount \in 0..MaxWebMoves
    /\ leastIdle \in [WebRequests -> 0..Never] /\ wasActive \in [WebRequests -> BOOLEAN]
    /\ wasLapsed \in [WebRequests -> BOOLEAN] /\ lives \in [WebRequests -> SUBSET (1..2)]

Init ==
    /\ web = [w \in WebRequests |-> NoWeb] /\ conn = [w \in WebRequests |-> "none"]
    /\ proc = [w \in WebRequests |-> NoProc] /\ age = [w \in WebRequests |-> 0]
    /\ sess = Signed /\ keysOn = FALSE
    /\ \E r \in WebRoles : userRows = [a \in Whos |-> IF a = 1 THEN r ELSE "none"]
    /\ phpIni = [stamp |-> 1, secs |-> 2] /\ lifeCache = [stamp |-> 0, secs |-> 0] /\ look = NoLook
    /\ gatewayUp = TRUE
    /\ reqCount = 0
    /\ lives = [w \in WebRequests |-> {}] /\ leastIdle = [w \in WebRequests |-> Never]
    /\ wasActive = [w \in WebRequests |-> FALSE] /\ wasLapsed = [w \in WebRequests |-> FALSE]

Spend == reqCount < MaxWebMoves /\ reqCount' = reqCount + 1

(* parsePanelSession() and lookupUserRole(): a session file of somebody who  *)
(* is past a second factor, if the account asks for one, not idle for       *)
(* longer than the lifetime, and whose row says active.  A login by         *)
(* CloudPanel's own /autologin has no marker: it counts with Security Keys  *)
(* alone.  CloudPanel may be halfway through writing the file.              *)
Present(s) == s.who # 0
Whole(s) == ~s.torn      \* what PHP wrote parses to the end, each field once
TokenOf(s) == s.who
Marked(s, keys) == s.mark \in {"none", "passed"} \/ (s.mark = "unmarked" /\ keys)
Active(s, table) == table[TokenOf(s)] # "none"
Sound(s, keys) == Present(s) /\ Whole(s) /\ Marked(s, keys)
Valid(s, keys, secs, table) == Sound(s, keys) /\ s.idle < secs /\ Active(s, table)
Says(w, what) == web' = [web EXCEPT ![w].at = "answered", ![w].said = what]
Open(w) == web[w].at \in {"gate", "in", "asked"}
IsOf(s, w) == s.who = web[w].cookie
AccountOf(w, table) == web[w].cookie # 0 /\ table[web[w].cookie] # "none"
Least(w, s, keys, sofar) == IF IsOf(s, w) /\ Sound(s, keys) /\ s.idle < sofar THEN s.idle ELSE sofar
Notes ==     \* the ghosts follow the session
    /\ \E w \in WebRequests : web[w].at = "free" \/ Open(w) \/ conn[w] = "request"   \* bound: while it matters
    /\ lives' = [w \in WebRequests |-> IF Open(w) THEN lives[w] \cup {phpIni'.secs} ELSE lives[w]]
    /\ leastIdle' = [w \in WebRequests |-> IF Open(w) THEN Least(w, sess', keysOn', leastIdle[w]) ELSE leastIdle[w]]
    /\ wasActive' = [w \in WebRequests |-> wasActive[w] \/ (Open(w) /\ AccountOf(w, userRows'))]
    /\ wasLapsed' = [w \in WebRequests |-> wasLapsed[w] \/ (Open(w) /\
                        \E l \in lives'[w] : ~(IsOf(sess', w) /\ Valid(sess', keysOn', l, userRows')))]
panelSide == <<sess, userRows, keysOn, phpIni, leastIdle, wasActive, wasLapsed, lives>>
gatewaySide == <<lifeCache, look, gatewayUp>>

(* callerMay(): whom a verb, or a route, is declared for.                   *)
callerMay(access, role) ==
    \/ access = "pre-gate"
    \/ role = "admin" /\ access # "root-only"
    \/ role = "site" /\ access = "site-manager"
    \/ role # "none" /\ access \in {"panel-user", "own-account"}

-----------------------------------------------------------------------------
(* The manager: a route before the gate, or the gate.                       *)
Arrive(w, route) ==
    /\ web[w] = NoWeb
    /\ web' = [web EXCEPT ![w].at = IF route = "pre-gate" THEN "in" ELSE "gate", ![w].route = route,
                               ![w].cookie = sess.who]
    /\ lives' = [lives EXCEPT ![w] = {phpIni.secs}]
    /\ leastIdle' = [leastIdle EXCEPT ![w] = IF Sound(sess, keysOn) THEN sess.idle ELSE Never]
    /\ wasActive' = [wasActive EXCEPT ![w] = Present(sess) /\ Active(sess, userRows)]
    /\ wasLapsed' = [wasLapsed EXCEPT ![w] = ~Valid(sess, keysOn, phpIni.secs, userRows)]
    /\ UNCHANGED <<conn, proc, age, sess, userRows, keysOn, phpIni, gatewaySide, reqCount>>

Passes(w) ==    \* what no credential of the route's own comes with meets the gate
    /\ web[w].at = "in" /\ web[w].role = "none"
    /\ \E route \in Accesses \ {"pre-gate", "root-only"} :
         web' = [web EXCEPT ![w].at = "gate", ![w].route = route]
    /\ UNCHANGED <<conn, proc, age, panelSide, gatewaySide, reqCount>>

(* authenticateRequest(): root's answer, or none of it in two seconds.      *)
unavailableLogin == "login"
unavailable == "503"
Unavailable(w) ==
    /\ web[w].at = "gate" /\ look.of # w /\ Says(w, unavailable)
    /\ UNCHANGED <<conn, proc, age, panelSide, gatewaySide, reqCount>>
LetIn(w, role) ==    \* handleRequest() past the gate: an administrator, or a route that is theirs
    IF callerMay(web[w].route, role) THEN web' = [web EXCEPT ![w].at = "in", ![w].role = role]
    ELSE Says(w, "403")

(* runAuthAction(): the session file, then panelSessionLifetime(), which     *)
(* takes the stamp of the panel's php.ini and reads it unless that stamp is *)
(* the one its last answer was remembered under, and then the account's row. *)
ForGate(w) == web[w].at = "gate"
ForAccount(w) == conn[w] = "request" /\ web[w].verb = "own-account" /\ web[w].sends
Judged(w, fits, s) ==
    IF ForGate(w) THEN /\ IF fits THEN LetIn(w, userRows[TokenOf(s)]) ELSE Says(w, "login")
                       /\ UNCHANGED <<conn, proc>>
    ELSE IF fits
    THEN /\ conn' = [conn EXCEPT ![w] = "run"] /\ proc' = [proc EXCEPT ![w] = [state |-> "running", for |-> TokenOf(s), began |-> age[w]]]
         /\ UNCHANGED web
    ELSE /\ conn' = [conn EXCEPT ![w] = "over"] /\ (IF web[w].at = "asked" THEN Says(w, "refused") ELSE UNCHANGED web)
         /\ UNCHANGED proc
LookAtFile(w) ==
    /\ gatewayUp /\ look.of = "nobody" /\ (ForGate(w) \/ ForAccount(w))
    /\ look' = [NoLook EXCEPT !.of = w, !.keys = keysOn,
                            !.saw = IF sess.who = web[w].cookie THEN sess ELSE NoSession]
    /\ UNCHANGED <<web, conn, proc, age, panelSide, lifeCache, gatewayUp, reqCount>>
LookAtStamp ==
    /\ look.of # "nobody" /\ look.stamp = 0
    /\ look' = [look EXCEPT !.stamp = phpIni.stamp, !.secs = IF lifeCache.stamp = phpIni.stamp THEN lifeCache.secs ELSE 0]
    /\ UNCHANGED <<web, conn, proc, age, panelSide, lifeCache, gatewayUp, reqCount>>
LookRead ==
    /\ look.stamp # 0 /\ look.secs = 0 /\ look' = [look EXCEPT !.secs = phpIni.secs]
    /\ lifeCache' = [stamp |-> look.stamp, secs |-> phpIni.secs]
    /\ UNCHANGED <<web, conn, proc, age, panelSide, gatewayUp, reqCount>>
LookDone ==
    /\ look.secs # 0 /\ look' = NoLook
    /\ IF ForGate(look.of) \/ ForAccount(look.of)
       THEN Judged(look.of, Valid(look.saw, look.keys, look.secs, userRows), look.saw)
       ELSE UNCHANGED <<web, conn, proc>>
    /\ UNCHANGED <<age, panelSide, lifeCache, gatewayUp, reqCount>>

-----------------------------------------------------------------------------
(* The handler asks for a verb, with the session or without it; it may be   *)
(* any handler, so it may be any verb.  refusedForCaller() holds it against *)
(* the roles of the gate, but for an administrator.                         *)
refusedNever(w, verb) == FALSE
refusedForCaller(w, verb) == web[w].role # "admin" /\ ~callerMay(verb, web[w].role)
callGatewayAction(w, verb, sends) ==
    /\ web[w].at = "in"
    /\ IF refusedForCaller(w, verb) THEN Says(w, "refused") /\ UNCHANGED <<conn, age>>
       ELSE /\ web' = [web EXCEPT ![w].at = "asked", ![w].verb = verb, ![w].sends = sends]
            /\ conn' = [conn EXCEPT ![w] = "request"] /\ age' = [age EXCEPT ![w] = 0]
    /\ UNCHANGED <<proc, panelSide, gatewaySide, reqCount>>
Leaves(w) ==    \* or it asks for nothing
    /\ web[w].at = "in" /\ Says(w, "reply")
    /\ UNCHANGED <<conn, proc, age, panelSide, gatewaySide, reqCount>>

(* createAuthActionServer(): the manager's own process, and one whole line. *)
Accepted(w) == gatewayUp /\ conn[w] = "request"

(* Root: a verb the web may ask for, sent with the session exactly when it  *)
(* is one of the caller's own account.  (A session's is started by Judged.) *)
webVerbAny(w) == TRUE
webVerb(w) == web[w].verb # "root-only"
SessionFits(w) == (web[w].verb = "own-account") = web[w].sends
Refuse(w) ==
    /\ Accepted(w) /\ ~(webVerb(w) /\ SessionFits(w))
    /\ conn' = [conn EXCEPT ![w] = "over"] /\ (IF web[w].at = "asked" THEN Says(w, "refused") ELSE UNCHANGED web)
    /\ UNCHANGED <<proc, age, panelSide, gatewaySide, reqCount>>
Spawn(w) ==
    /\ Accepted(w) /\ look.of = "nobody" /\ webVerb(w) /\ SessionFits(w) /\ ~ForAccount(w)
    /\ conn' = [conn EXCEPT ![w] = "run"] /\ proc' = [proc EXCEPT ![w].state = "running", ![w].began = age[w]]
    /\ UNCHANGED <<web, age, panelSide, gatewaySide, reqCount>>

Answered(w, what) ==
    /\ conn' = [conn EXCEPT ![w] = "over"]
    /\ IF web[w].at = "asked" THEN Says(w, what) ELSE UNCHANGED web
Ends(w) ==
    /\ proc[w].state = "running" /\ conn[w] = "run"
    /\ proc' = [proc EXCEPT ![w].state = "gone"] /\ Answered(w, "reply")
    /\ UNCHANGED <<age, panelSide, gatewaySide, reqCount>>

(* The deadlines, of the process (one), of root's answer two seconds later  *)
(* and of the manager's wait half a second after that (three).  A process   *)
(* that is killed may have left a child that holds its output open.         *)
Ran(w) == age[w] - proc[w].began
Overrun(w) ==
    /\ Ran(w) >= 1 /\ proc[w].state = "running"
    /\ \/ proc' = [proc EXCEPT ![w].state = "gone"] /\ Answered(w, "reply")
       \/ proc' = [proc EXCEPT ![w].state = "held"] /\ UNCHANGED <<web, conn>>
    /\ UNCHANGED <<age, panelSide, gatewaySide, reqCount>>
RootLate(w) ==
    /\ conn[w] = "run" /\ Ran(w) >= 2 /\ Answered(w, "late")
    /\ UNCHANGED <<proc, age, panelSide, gatewaySide, reqCount>>
clientTimeoutShort == 1
clientTimeout == 3
ClientLate(w) ==
    /\ age[w] >= clientTimeout /\ web[w].at = "asked" /\ Says(w, "late")
    /\ UNCHANGED <<conn, proc, age, panelSide, gatewaySide, reqCount>>
Due(w) ==
    \/ conn[w] = "request" /\ gatewayUp      \* only a gateway that is down keeps a request waiting
    \/ proc[w].state = "running" /\ Ran(w) >= 1
    \/ conn[w] = "run" /\ Ran(w) >= 2
    \/ web[w].at = "asked" /\ age[w] >= clientTimeout
Tick(w) ==
    /\ conn[w] \in {"request", "run"} \/ web[w].at = "asked"
    /\ age[w] < MaxAge /\ ~Due(w) /\ age' = [age EXCEPT ![w] = @ + 1]
    /\ UNCHANGED <<web, conn, proc, panelSide, gatewaySide, reqCount>>

-----------------------------------------------------------------------------
(* systemd stops the gateway with everything it started; connections close. *)
GatewayStops ==
    /\ gatewayUp /\ Spend /\ gatewayUp' = FALSE
    /\ look' = NoLook /\ lifeCache' = [stamp |-> 0, secs |-> 0]
    /\ conn' = [w \in WebRequests |-> IF conn[w] = "none" THEN "none" ELSE "over"]
    /\ proc' = [w \in WebRequests |-> IF proc[w].state = "none" THEN NoProc ELSE [proc[w] EXCEPT !.state = "gone"]]
    /\ web' = [w \in WebRequests |-> IF web[w].at = "asked" THEN [web[w] EXCEPT !.at = "answered", !.said = "lost"]
                ELSE IF look.of = w /\ web[w].at = "gate" THEN [web[w] EXCEPT !.at = "answered", !.said = unavailable]
                ELSE web[w]]
    /\ UNCHANGED <<age, panelSide>>
GatewayStarts ==
    /\ ~gatewayUp /\ gatewayUp' = TRUE
    /\ UNCHANGED <<web, conn, proc, age, panelSide, lifeCache, look, reqCount>>
(* The manager's restart takes its requests; what root runs for them stays. *)
ManagerStops ==
    /\ Spend
    /\ web' = [w \in WebRequests |-> IF Open(w) THEN [web[w] EXCEPT !.at = "gone"] ELSE web[w]]
    /\ UNCHANGED <<conn, proc, age, panelSide, gatewaySide>>

(* CloudPanel: a sign-in, with a second factor or without, and a sign-out;  *)
(* the file rewritten; an account changed; the clock, an edit of php.ini,   *)
(* and Security Keys enabled or disabled.                                   *)
SignInOut ==
    /\ Spend
    /\ \/ sess' = NoSession /\ UNCHANGED userRows
       \/ \E r \in WebRoles, m \in {"none", "pending", "unmarked"} :
            /\ sess' = [NoSession EXCEPT !.who = reqCount + 2, !.mark = m]
            /\ userRows' = [userRows EXCEPT ![reqCount + 2] = r]
       \/ \E r \in WebRoles \cup {"none"} : userRows' = [userRows EXCEPT ![1] = r] /\ UNCHANGED sess
       \/ sess' = [sess EXCEPT !.torn = TRUE] /\ UNCHANGED userRows
    /\ UNCHANGED <<phpIni, keysOn>> /\ Notes
    /\ UNCHANGED <<web, conn, proc, age, gatewaySide>>
Settles ==
    /\ \/ sess.torn /\ sess' = [sess EXCEPT !.torn = FALSE]
       \/ sess.mark = "pending" /\ sess' = [sess EXCEPT !.mark = "passed"]
    /\ UNCHANGED <<phpIni, userRows, keysOn>> /\ Notes
    /\ UNCHANGED <<web, conn, proc, age, gatewaySide, reqCount>>
Idles ==
    /\ sess.who # 0 /\ sess.idle < 2 /\ sess' = [sess EXCEPT !.idle = @ + 1]
    /\ look' = IF look.saw.who # 0 /\ look.saw.idle < 2 THEN [look EXCEPT !.saw.idle = @ + 1] ELSE look
    /\ UNCHANGED <<phpIni, userRows, keysOn>> /\ Notes
    /\ UNCHANGED <<web, conn, proc, age, lifeCache, gatewayUp, reqCount>>
Edits ==
    /\ Spend
    /\ \/ phpIni' = [stamp |-> phpIni.stamp + 1, secs |-> 3 - phpIni.secs] /\ UNCHANGED keysOn
       \/ keysOn' = ~keysOn /\ UNCHANGED phpIni
    /\ UNCHANGED <<sess, userRows>> /\ Notes
    /\ UNCHANGED <<web, conn, proc, age, gatewaySide>>

Next ==
    \/ LookAtStamp \/ LookRead \/ LookDone \/ GatewayStops \/ GatewayStarts \/ ManagerStops
    \/ SignInOut \/ Settles \/ Idles \/ Edits
    \/ \E w \in WebRequests :
         \/ Passes(w) \/ Unavailable(w) \/ LookAtFile(w) \/ Leaves(w) \/ Refuse(w) \/ Spawn(w)
         \/ Ends(w) \/ Overrun(w) \/ RootLate(w) \/ ClientLate(w) \/ Tick(w)
         \/ \E a \in Accesses \ {"root-only"} : Arrive(w, a)
         \/ \E a \in Accesses, sends \in BOOLEAN : callGatewayAction(w, a, sends)
Spec == Init /\ [][Next]_requestVars

-----------------------------------------------------------------------------
(* Whatever a handler asks for, root starts only what is declared for the   *)
(* roles that the gate saw, nothing that is root's own, and what is about   *)
(* the caller's own account for the account of the request's own session.   *)
RunsWhatIsTheirs == \A w \in WebRequests : proc[w].state # "none" =>
    /\ callerMay(web[w].verb, web[w].role)
    /\ web[w].verb = "own-account" => proc[w].for = web[w].cookie /\ proc[w].for # 0

(* A request that was told it took too long has no process any more: a      *)
(* retry of it does not run beside the first.  (One that waited on the      *)
(* socket for a gateway that was down may be started after that.)           *)
LateIsOver == \A w \in WebRequests :
    web[w].said = "late" /\ proc[w].began = 0 => proc[w].state # "running"

(* Root's silence lets nobody in and signs nobody out, however sessions,    *)
(* accounts and the lifetime changed meanwhile.  Who is sent to sign in     *)
(* had, at some time since the request came, no session that could be read  *)
(* and was active, past a second factor and within its lifetime.  Who was   *)
(* let in had one that could be read, past its factors and idle for less    *)
(* than a lifetime of that time, and an active account: each at some time   *)
(* since the request came, for root reads them one after the other.         *)
GateSaysTrue == \A w \in WebRequests :
    /\ web[w].said = "login" => wasLapsed[w]
    /\ web[w].role # "none" => wasActive[w] /\ \E l \in lives[w] : leastIdle[w] < l
=============================================================================
