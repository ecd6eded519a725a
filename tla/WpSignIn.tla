------------------------------ MODULE WpSignIn ------------------------------
(***************************************************************************)
(* WordPress Tools (addons/wp-tools/action.ts, cli/toggle.ts): one-click   *)
(* sign-ins to WordPress sites, and taking the helper they leave in a site *)
(* back out when the addon is disabled.                                    *)
(*                                                                         *)
(* One browser.  A site's gates are Maintenance and basic authentication,  *)
(* which turn it away before WordPress could see the token.  The rewrite   *)
(* of a gate is a transaction of its own (NginxTransaction).  A helper is  *)
(* in a place: a site, and the root CloudPanel had recorded for it when it *)
(* was put there.                                                          *)
(***************************************************************************)
EXTENDS Naturals, FiniteSets

CONSTANTS WpSites, WpRoots, MaxMints,
          MaxGateEdits \* bound: what the operator changes of gates and of roots

VARIABLES wpConfig,        \* the addon's config file: whether it is enabled
          wpRoot,          \* each site's recorded root, "none" for one resolvedSites skips
          loader, secret,  \* in each place: the helper; the token (0 for none)
          gates, gateEdits,
          signer,          \* the sign-in under way
          withdrawal,      \* the disable under way: the places it still has to see, where removing failed
          mints,
          leftIn,          \* the places the last disable warned about
          skipped          \* the places it never looked at: of sites it skips, and of roots changed since

signVars == <<wpConfig, wpRoot, loader, secret, gates, gateEdits, signer, withdrawal, mints, leftIn, skipped>>

(* A bound on the tokens.                                                  *)
ConstantsOK == MaxMints \in Nat

Places == WpSites \X WpRoots
Gates == {"maintenance", "basic-auth"}
NotSigning == [at |-> "idle", site |-> "none", root |-> "none", allow |-> {}, blocked |-> {}]
NotWithdrawing == [at |-> "idle", sites |-> {}, failed |-> {}]
(* Both take the addon's sign-in lock.                                     *)
Unlocked == signer.at \in {"idle", "asked"} /\ withdrawal.at = "idle"

Init == /\ wpConfig = TRUE /\ loader = {} /\ secret = [p \in Places |-> 0] /\ gates = [s \in WpSites |-> {}]
        /\ gateEdits = 0 /\ signer = NotSigning /\ withdrawal = NotWithdrawing /\ mints = 0 /\ leftIn = {} /\ skipped = {}
        /\ wpRoot \in [WpSites -> WpRoots \cup {"none"}]

-----------------------------------------------------------------------------
Elsewhere == UNCHANGED <<gates, gateEdits, wpRoot>>
OperatorGates(s) == /\ gateEdits < MaxGateEdits /\ gateEdits' = gateEdits + 1
                    /\ \E g \in SUBSET Gates : gates' = [gates EXCEPT ![s] = g]
                    /\ UNCHANGED <<wpConfig, wpRoot, loader, secret, signer, withdrawal, mints, leftIn, skipped>>
(* In CloudPanel: another root, an account that two sites share, one gone. *)
OperatorMoves(s) == /\ gateEdits < MaxGateEdits /\ gateEdits' = gateEdits + 1
                    /\ \E r \in WpRoots \cup {"none"} : wpRoot' = [wpRoot EXCEPT ![s] = r]
                    /\ UNCHANGED <<wpConfig, loader, secret, gates, signer, withdrawal, mints, leftIn, skipped>>

(* The action: only an administrator may ask to be let through a gate.     *)
Signer == UNCHANGED <<wpConfig, withdrawal, leftIn, skipped>>
Ask(s) == /\ signer.at = "idle" /\ \E allow \in SUBSET Gates : signer' = [at |-> "asked", site |-> s, root |-> "none", allow |-> allow, blocked |-> {}]
          /\ UNCHANGED <<loader, secret, mints>> /\ Signer /\ Elsewhere
Reply == signer' = NotSigning
(* One look at the config before the lock is waited for.                   *)
EnterLooked == /\ signer.at = "asked" /\ (Unlocked \/ wpConfig) /\ wpRoot[signer.site] # "none" /\ UNCHANGED <<loader, secret, mints>> /\ Signer /\ Elsewhere
               /\ signer' = [signer EXCEPT !.at = "mint", !.root = wpRoot[signer.site],
                                           !.blocked = gates[signer.site] \cap signer.allow]
(* Under the lock: the addon is still there, the site has a root, and the  *)
(* gates let it through or were asked to; else it answers what is wrong.   *)
Enter == /\ signer.at = "asked" /\ Unlocked /\ UNCHANGED <<loader, secret, mints>> /\ Signer /\ Elsewhere
         /\ LET blocked == gates[signer.site]
            IN IF wpConfig /\ wpRoot[signer.site] # "none" /\ blocked \subseteq signer.allow
               THEN signer' = [signer EXCEPT !.at = "mint", !.root = wpRoot[signer.site], !.blocked = blocked]
               ELSE Reply
Place == <<signer.site, signer.root>>
mintWpLogin == /\ signer.at = "mint" /\ mints < MaxMints /\ mints' = mints + 1 /\ Signer /\ Elsewhere
               /\ loader' = loader \cup {Place} /\ secret' = [secret EXCEPT ![Place] = mints + 1]
               /\ signer' = [signer EXCEPT !.at = "open"]
MintFails == /\ signer.at = "mint" /\ Reply /\ UNCHANGED <<secret, mints>> /\ Signer /\ Elsewhere
             /\ loader' \in {loader, loader \cup {Place}}
(* withBasicAuthBypass, then addBypass; a gate that cannot be opened fails *)
(* the sign-in, whose token then expires.                                  *)
Open == /\ signer.at = "open" /\ UNCHANGED <<loader, secret, mints, gateEdits, wpRoot>> /\ Signer
        /\ \/ /\ signer.blocked # {}
              /\ LET g == IF "basic-auth" \in signer.blocked THEN "basic-auth" ELSE "maintenance"
                 IN /\ gates' = [gates EXCEPT ![signer.site] = @ \ {g}] /\ signer' = [signer EXCEPT !.blocked = @ \ {g}]
           \/ Reply /\ UNCHANGED gates
SignerKilled == /\ signer.at # "idle" /\ Reply /\ UNCHANGED <<loader, secret, mints>> /\ Signer /\ Elsewhere

(* The helper, on a request that carries a token: read, spent, compared.   *)
Redeem(p) == /\ p \in loader /\ secret[p] # 0 /\ gates[p[1]] = {}
             /\ secret' = [secret EXCEPT ![p] = 0]
             /\ UNCHANGED <<wpConfig, wpRoot, loader, gates, gateEdits, signer, withdrawal, mints, leftIn, skipped>>

-----------------------------------------------------------------------------
(* withdrawWpTools: out of every site that resolves, at the root recorded  *)
(* now, then the config, under one lock.  Accounts or a panel database that*)
(* cannot be read are warned of as every site.                             *)
Withdrawing == UNCHANGED <<signer, mints, gates, gateEdits, wpRoot>>
Resolved == {p \in Places : wpRoot[p[1]] = p[2]}
Disable == /\ wpConfig /\ Unlocked /\ UNCHANGED <<wpConfig, loader, secret, leftIn>> /\ Withdrawing
           /\ \/ /\ withdrawal' = [at |-> "sites", sites |-> Resolved, failed |-> {}]
                 /\ skipped' = Places \ Resolved
              \/ withdrawal' = [at |-> "sites", sites |-> {}, failed |-> Places] /\ skipped' = {}
removeWpLogin(p) == /\ p \in withdrawal.sites /\ UNCHANGED <<wpConfig, leftIn, skipped>> /\ Withdrawing
                    /\ \/ /\ loader' = loader \ {p} /\ secret' = [secret EXCEPT ![p] = 0]
                          /\ withdrawal' = [withdrawal EXCEPT !.sites = @ \ {p}]
                       \/ /\ p \in loader
                          /\ withdrawal' = [withdrawal EXCEPT !.sites = @ \ {p}, !.failed = @ \cup {p}]
                          /\ UNCHANGED <<loader, secret>>
removeConfig == /\ withdrawal.at = "sites" /\ withdrawal.sites = {} /\ wpConfig' = FALSE /\ leftIn' = withdrawal.failed
                /\ withdrawal' = NotWithdrawing /\ UNCHANGED <<loader, secret, skipped>> /\ Withdrawing
DisableKilled == /\ withdrawal.at # "idle" /\ withdrawal' = NotWithdrawing
                 /\ UNCHANGED <<wpConfig, loader, secret, leftIn, skipped>> /\ Withdrawing
Enable == /\ ~wpConfig /\ wpConfig' = TRUE /\ leftIn' = {} /\ UNCHANGED <<loader, secret, withdrawal, skipped>> /\ Withdrawing

Next == \/ \E s \in WpSites : OperatorGates(s) \/ OperatorMoves(s) \/ Ask(s)
        \/ \E p \in Places : Redeem(p) \/ removeWpLogin(p)
        \/ Enter \/ mintWpLogin \/ MintFails \/ Open \/ SignerKilled
        \/ Disable \/ removeConfig \/ DisableKilled \/ Enable
Spec == Init /\ [][Next]_signVars

-----------------------------------------------------------------------------
TypeOK == /\ wpConfig \in BOOLEAN /\ loader \subseteq Places /\ secret \in [Places -> 0..MaxMints]
          /\ wpRoot \in [WpSites -> WpRoots \cup {"none"}]
          /\ gates \in [WpSites -> SUBSET Gates] /\ signer.at \in {"idle", "asked", "mint", "open"}
          /\ withdrawal.sites \subseteq Places /\ leftIn \subseteq Places /\ skipped \subseteq Places

(* Once the addon is disabled no site has a helper of its, but where the   *)
(* disable said so, whichever sign-in was waiting or killed meanwhile.  The*)
(* exception is a place that is none of those the sites resolved to as the *)
(* disable began: removeWpLogin skips it and says nothing.                 *)
WithdrawnLeavesNone == wpConfig \/ loader \subseteq leftIn \cup skipped
=============================================================================
