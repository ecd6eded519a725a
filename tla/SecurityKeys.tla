---------------------------- MODULE SecurityKeys ----------------------------
(***************************************************************************)
(* Security Keys (addons/security-keys/action.ts): the keys CloudPanel's    *)
(* accounts sign in with, the challenges they answer and the tokens root    *)
(* hands the panel for them.  A request takes the time once, when it        *)
(* starts, does part of its work before it asks for the store's lock and    *)
(* the rest under it, one file after the other; it may be killed between    *)
(* two of them.  CloudPanel deletes, creates and changes accounts beside.   *)
(***************************************************************************)
EXTENDS Integers, Sequences

CONSTANTS KeyUsers, Keys,
          SyncedKeys,      \* the keys a password manager copies: their counter stays 0
          KeyRequests, MaxAccountIds, MaxChallenges, MaxTouches, MaxKeyClock,
          MaxKeyRuns, MaxKeyMoves, MaxKeyKills

VARIABLES account,      \* [KeyUsers -> [id, active, role]]: CloudPanel's user table
          credentials,  \* credentials.json: [KeyUsers -> [id, keys: [Keys -> -1 or counter]]]
          keySettings,  \* settings.json
          challenge,    \* the challenges issued, in order; root keeps none of them
          spent,        \* spent.json: the challenges it lists
          device,       \* [Keys -> [id, count]]: the account a key was made for, its counter
          answers,      \* what the keys have signed
          cookie,       \* the challenge id the browser sends with a sign-in, or 0
          req, keyLock, \* [KeyRequests -> request], and the one that holds the lock
          keyClock, keyCount,
          best,         \* ghost: [Keys -> the highest counter accepted since it was registered]
          accepted      \* ghost: the challenges whose answer was taken

keyVars == <<account, credentials, keySettings, challenge, spent, device, answers, cookie, req,
             keyLock, keyClock, keyCount, best, accepted>>

Absent == -1                     \* no such key in an entry
Roles == {"admin", "user"}
NoAccount == [id |-> 0, active |-> FALSE, role |-> "user"]
NoEntry == [id |-> 0, keys |-> [k \in Keys |-> Absent]]
NoFind == [user |-> "nobody", id |-> 0, count |-> 0]
Idle == [at |-> "free", verb |-> "none", user |-> "nobody", id |-> 0, key |-> "none",
         c |-> 0, count |-> 0, now |-> 0, found |-> NoFind]
Counts == 0..MaxTouches
Users == KeyUsers \cup {"nobody"}
Ids == 0..MaxAccountIds
Challenge == [for : {"login", "register"}, user : Users, id : Ids, ends : 1..(MaxKeyClock + 1)]
Request == [at : {"free", "wait", "spent", "stored"}, verb : {"none", "sign-in", "register"},
            user : Users, id : Ids, key : Keys \cup {"none"}, c : 0..MaxChallenges, count : Counts,
            now : 0..MaxKeyClock, found : [user : Users, id : Ids, count : Counts]]

ConstantsOK ==
    /\ "nobody" \notin KeyUsers /\ "none" \notin KeyRequests /\ MaxAccountIds \in Nat \ {0}
    /\ MaxChallenges \in Nat /\ MaxTouches \in Nat /\ MaxKeyClock \in Nat
    /\ MaxKeyRuns \in Nat /\ MaxKeyMoves \in Nat /\ MaxKeyKills \in Nat

TypeOK ==
    /\ account \in [KeyUsers -> [id : Ids, active : BOOLEAN, role : Roles]]
    /\ credentials \in [KeyUsers -> [id : Ids, keys : [Keys -> Counts \cup {Absent}]]]
    /\ keySettings \in [roles : SUBSET Roles, synced : BOOLEAN]
    /\ challenge \in Seq(Challenge) /\ Len(challenge) <= MaxChallenges
    /\ spent \subseteq DOMAIN challenge /\ accepted \subseteq DOMAIN challenge
    /\ device \in [Keys -> [id : Ids, count : Counts]] /\ best \in [Keys -> Counts]
    /\ answers \subseteq [c : DOMAIN challenge, key : Keys, count : Counts]
    /\ cookie \in {0} \cup DOMAIN challenge /\ keyLock \in KeyRequests \cup {"none"}
    /\ req \in [KeyRequests -> Request] /\ keyClock \in 0..MaxKeyClock
    /\ keyCount \in [ids : 1..MaxAccountIds, runs : 0..MaxKeyRuns, moves : 0..MaxKeyMoves,
                     kills : 0..MaxKeyKills]

(* The store of an account with some keys, or of none yet.                  *)
Init ==
    /\ \E u \in KeyUsers, ks \in SUBSET Keys :
         /\ account = [v \in KeyUsers |-> IF v = u THEN [id |-> 1, active |-> TRUE, role |-> "user"] ELSE NoAccount]
         /\ credentials = [v \in KeyUsers |-> IF v = u /\ ks # {}
                THEN [id |-> 1, keys |-> [k \in Keys |-> IF k \in ks THEN 0 ELSE Absent]] ELSE NoEntry]
         /\ device = [k \in Keys |-> [id |-> IF k \in ks THEN 1 ELSE 0, count |-> 0]]
    /\ keySettings = [roles |-> Roles, synced |-> TRUE]
    /\ challenge = <<>> /\ spent = {} /\ answers = {} /\ cookie = 0
    /\ req = [r \in KeyRequests |-> Idle] /\ keyLock = "none" /\ keyClock = 0
    /\ keyCount = [ids |-> 1, runs |-> 0, moves |-> 0, kills |-> 0]
    /\ best = [k \in Keys |-> 0] /\ accepted = {}

Spend(what, max) == keyCount[what] < max /\ keyCount' = [keyCount EXCEPT ![what] = @ + 1]
Fresh == Len(challenge) + 1
Issue(purpose, u, id) ==
    /\ Fresh <= MaxChallenges
    /\ challenge' = Append(challenge, [for |-> purpose, user |-> u, id |-> id, ends |-> keyClock + 1])
Expected(c, purpose, u, id) ==
    /\ c \in DOMAIN challenge /\ challenge[c].ends > keyClock
    /\ challenge[c].for = purpose /\ challenge[c].user = u /\ challenge[c].id = id
Registered(u, k) == credentials[u].keys[k] # Absent
Find(k) == IF \E u \in KeyUsers : Registered(u, k)
           THEN LET u == CHOOSE v \in KeyUsers : Registered(v, k)
                IN  [user |-> u, id |-> credentials[u].id, count |-> credentials[u].keys[k]]
           ELSE NoFind
AllowedRole(u) == account[u].role \in keySettings.roles
AllowedKey(k) == k \notin SyncedKeys \/ keySettings.synced
Written(u, entry) == [credentials EXCEPT ![u] = IF \A k \in Keys : entry.keys[k] = Absent THEN NoEntry ELSE entry]

-----------------------------------------------------------------------------
(* The browser: it asks for a challenge and has a key sign it.  A key that  *)
(* counts says one more than before; a copy of it says what it had reached. *)
LoginOptions ==
    /\ Issue("login", "nobody", 0) /\ cookie' = Fresh
    /\ UNCHANGED <<account, credentials, keySettings, spent, device, answers, req, keyLock, keyClock, keyCount, best, accepted>>
RegisterOptions(u) ==
    /\ account[u].active /\ AllowedRole(u) /\ Issue("register", u, account[u].id)
    /\ UNCHANGED <<account, credentials, keySettings, spent, device, answers, cookie, req, keyLock, keyClock, keyCount, best, accepted>>
Touch(k, c) ==
    /\ ~\E a \in answers : a.c = c /\ a.key = k
    /\ IF challenge[c].for = "register"
       THEN device[k].id = 0 /\ device' = [device EXCEPT ![k].id = challenge[c].id] /\ answers' = answers \cup {[c |-> c, key |-> k, count |-> 0]}
       ELSE /\ device[k].id # 0
            /\ \E n \in IF k \in SyncedKeys THEN {0} ELSE 1..(device[k].count + 1) \cap Counts :
                 /\ answers' = answers \cup {[c |-> c, key |-> k, count |-> n]}
                 /\ device' = [device EXCEPT ![k].count = IF n > @ THEN n ELSE @]
    /\ UNCHANGED <<account, credentials, keySettings, challenge, spent, cookie, req, keyLock, keyClock, keyCount, best, accepted>>

-----------------------------------------------------------------------------
Begin(r, request) ==
    /\ req[r] = Idle /\ Spend("runs", MaxKeyRuns)
    /\ req' = [req EXCEPT ![r] = request]
    /\ UNCHANGED <<account, credentials, keySettings, challenge, spent, device, answers, cookie, keyLock, keyClock, best, accepted>>

(* signIn() and register() up to the lock: the challenge is current at the  *)
(* time the request started, and the key looked up, or its making verified. *)
SignIn(r, a) ==
    /\ Expected(cookie, "login", "nobody", 0) /\ Find(a.key) # NoFind
    /\ Begin(r, [Idle EXCEPT !.at = "wait", !.verb = "sign-in", !.key = a.key, !.now = keyClock,
                             !.c = IF a.c = cookie THEN cookie ELSE 0, !.count = a.count, !.found = Find(a.key)])
Register(r, u, a) ==
    /\ account[u].active /\ Expected(a.c, "register", u, account[u].id)
    /\ Begin(r, [Idle EXCEPT !.at = "wait", !.verb = "register", !.user = u, !.id = account[u].id,
                             !.key = a.key, !.c = a.c, !.now = keyClock])

(* spendChallenge(): what had ended when this request started is dropped,   *)
(* under the lock, and the challenge joins the rest.                        *)
Ended(now) == {c \in spent : challenge[c].ends <= now}   \* the comparison turned round
Live(now) == {c \in spent : challenge[c].ends > now}
Spent(r) == Live(req[r].now) \cup {req[r].c}
Unspent(r) == req[r].c \notin Live(req[r].now)

foundBefore(r) == req[r].found     \* as it was looked up before the lock
foundNow(r) == Find(req[r].key)
CountsOrEqual(n, stored) == n >= stored
CountsUp(n, stored) == (n = 0 /\ stored = 0) \/ n > stored
sameAccountAny(r) == TRUE
sameAccount(r) == account[req[r].user].id = req[r].id
Accepts(r) ==
    \/ /\ req[r].verb = "sign-in" /\ foundNow(r) # NoFind
       /\ LET f == foundNow(r)
          IN  /\ device[req[r].key].id = f.id                        \* the handle the key says
              /\ account[f.user].active /\ account[f.user].id = f.id
              /\ req[r].c # 0 /\ Unspent(r) /\ CountsUp(req[r].count, f.count)
    \/ /\ req[r].verb = "register" /\ account[req[r].user].active /\ sameAccount(r)
       /\ AllowedRole(req[r].user) /\ AllowedKey(req[r].key)
       /\ Find(req[r].key) = NoFind /\ Unspent(r)

Ends(r) == req' = [req EXCEPT ![r] = Idle]
Forgets(r) == cookie' = IF req[r].verb = "sign-in" THEN 0 ELSE cookie    \* every answer clears it

(* An answer whose bytes are not what a key returns for this page is turned *)
(* away: a form, a site or flags that are not right, or a signature.        *)
Malformed(r) ==
    /\ req[r].at = "wait" /\ keyLock = "none" /\ Ends(r) /\ Forgets(r)
    /\ UNCHANGED <<account, credentials, keySettings, challenge, spent, device, answers, keyLock, keyClock, keyCount, best, accepted>>

Take(r) ==
    /\ req[r].at = "wait" /\ keyLock = "none" /\ Accepts(r)
    /\ keyLock' = r /\ spent' = Spent(r)
    /\ LET u == IF req[r].verb = "sign-in" THEN foundNow(r).user ELSE req[r].user
       IN  req' = [req EXCEPT ![r].at = "spent", ![r].user = u, ![r].id = account[u].id]
    /\ UNCHANGED <<account, credentials, keySettings, challenge, device, answers, cookie, keyClock, keyCount, best, accepted>>
Refused(r) ==   \* by what it finds under the lock, or after thirty seconds without it
    /\ req[r].at = "wait" /\ (keyLock # "none" \/ ~Accepts(r))
    /\ Ends(r) /\ Forgets(r)
    /\ UNCHANGED <<account, credentials, keySettings, challenge, spent, device, answers, keyLock, keyClock, keyCount, best, accepted>>

(* The settings last, then credentials.json, and the panel's token.         *)
Store(r) ==
    /\ req[r].at = "spent"
    /\ LET u == req[r].user
           k == req[r].key
           own == credentials[u].id = req[r].id
       IN  IF req[r].verb = "sign-in"
           THEN /\ UNCHANGED <<accepted, best>>
                /\ IF AllowedRole(u) /\ AllowedKey(k)
                   THEN /\ credentials' = [credentials EXCEPT ![u].keys[k] = req[r].count]
                        /\ req' = [req EXCEPT ![r].at = "stored"]
                        /\ UNCHANGED <<keyLock, cookie>>
                   ELSE Ends(r) /\ Forgets(r) /\ keyLock' = "none" /\ UNCHANGED credentials
           ELSE /\ credentials' = [credentials EXCEPT ![u] = [id |-> req[r].id,
                     keys |-> [(IF own THEN credentials[u].keys ELSE NoEntry.keys) EXCEPT ![k] = 0]]]
                /\ Ends(r) /\ keyLock' = "none" /\ accepted' = accepted \cup {req[r].c} /\ UNCHANGED cookie
                /\ best' = [best EXCEPT ![k] = 0]
    /\ UNCHANGED <<account, keySettings, challenge, spent, device, answers, keyClock, keyCount>>
MintPanelToken(r) ==
    /\ req[r].at = "stored"
    /\ keyLock' = "none" /\ Ends(r) /\ Forgets(r)
    /\ best' = [best EXCEPT ![req[r].key] = IF req[r].count > @ THEN req[r].count ELSE @]
    /\ accepted' = accepted \cup {req[r].c}
    /\ UNCHANGED <<account, credentials, keySettings, challenge, spent, device, answers, keyClock, keyCount>>
Killed(r) ==
    /\ req[r] # Idle /\ Spend("kills", MaxKeyKills)
    /\ Ends(r) /\ keyLock' = IF keyLock = r THEN "none" ELSE keyLock
    /\ UNCHANGED <<account, credentials, keySettings, challenge, spent, device, answers, cookie, keyClock, best, accepted>>

-----------------------------------------------------------------------------
(* removeKey(), the account's own and an administrator's, goes by the name. *)
RemoveKey(u, k) ==
    /\ keyLock = "none" /\ Registered(u, k) /\ Spend("runs", MaxKeyRuns)
    /\ credentials' = Written(u, [credentials[u] EXCEPT !.keys[k] = Absent])
    /\ UNCHANGED <<account, keySettings, challenge, spent, device, answers, cookie, req, keyLock, keyClock, best, accepted>>
SaveSettings(roles, synced) ==
    /\ keyLock = "none" /\ Spend("runs", MaxKeyRuns)
    /\ keySettings' = [roles |-> roles, synced |-> synced]
    /\ UNCHANGED <<account, credentials, challenge, spent, device, answers, cookie, req, keyLock, keyClock, best, accepted>>

PanelMoves(u) ==
    /\ \/ /\ account[u].id = 0 /\ keyCount.ids < MaxAccountIds
          /\ account' = [account EXCEPT ![u] = [id |-> keyCount.ids + 1, active |-> TRUE, role |-> "user"]]
          /\ keyCount' = [keyCount EXCEPT !.ids = @ + 1]
       \/ /\ account[u].id # 0 /\ Spend("moves", MaxKeyMoves)
          /\ \/ account' = [account EXCEPT ![u] = NoAccount]
             \/ account' = [account EXCEPT ![u].active = ~@]
             \/ account' = [account EXCEPT ![u].role = CHOOSE x \in Roles : x # account[u].role]
    /\ UNCHANGED <<credentials, keySettings, challenge, spent, device, answers, cookie, req, keyLock, keyClock, best, accepted>>
Tick ==
    /\ keyClock < MaxKeyClock /\ keyClock' = keyClock + 1
    /\ UNCHANGED <<account, credentials, keySettings, challenge, spent, device, answers, cookie, req, keyLock, keyCount, best, accepted>>

Next ==
    \/ LoginOptions \/ Tick
    \/ \E u \in KeyUsers : \/ RegisterOptions(u) \/ PanelMoves(u)
                           \/ \E k \in Keys : RemoveKey(u, k)
    \/ \E k \in Keys, c \in DOMAIN challenge : Touch(k, c)
    \/ \E roles \in {{"admin"}, Roles}, synced \in BOOLEAN : SaveSettings(roles, synced)
    \/ \E r \in KeyRequests : \/ Take(r) \/ Refused(r) \/ Malformed(r) \/ Store(r) \/ MintPanelToken(r) \/ Killed(r)
                              \/ \E a \in answers : SignIn(r, a) \/ \E u \in KeyUsers : Register(r, u, a)
Spec == Init /\ [][Next]_keyVars

-----------------------------------------------------------------------------
Minted(r) == req[r].at = "stored" /\ req'[r].at = "free" /\ accepted' # accepted

(* A token goes to the panel only for a key that is registered under that  *)
(* name when the token is made, and recording a sign-in brings no key back: *)
(* one removed while its sign-in waited for the lock signs nobody in.       *)
RegisteredSignsInStep == \A r \in KeyRequests :
    /\ Minted(r) => Registered(req[r].user, req[r].key)
    /\ req[r].verb = "sign-in" /\ req'[r].at = "stored"
         => \A u \in KeyUsers, k \in Keys : credentials'[u].keys[k] # Absent => Registered(u, k)

(* An answer is taken once for as long as its challenge is current.  (One   *)
(* that waited for the lock until the challenge had ended goes by the time  *)
(* it started, and the list may have dropped the challenge by then.)        *)
AcceptedOnceStep == \A r \in KeyRequests :
    req[r].at = "wait" /\ req'[r].at = "spent" /\ challenge[req[r].c].ends > keyClock
        => req[r].c \notin accepted

(* A key that counts signs in with a higher number every time since it was  *)
(* registered, whichever request came first: two copies of a key never sign *)
(* in with one number.                                                      *)
CountsUpStep == \A r \in KeyRequests :
    Minted(r) /\ req[r].key \notin SyncedKeys => req[r].count > best[req[r].key]

(* A key in an account's entry was made for that account: it answers with   *)
(* its handle, also when the account was deleted and another created under  *)
(* the name while the registration waited.                                  *)
KeysOfTheirAccount == \A u \in KeyUsers, k \in Keys :
    Registered(u, k) => device[k].id = credentials[u].id
=============================================================================
