------------------------------ MODULE Identity ------------------------------
(***************************************************************************)
(* Logins through an OIDC identity provider or an LDAP directory           *)
(* (internal/auth/oidc.go, ldap.go; internal/api/admin/auth_ext.go) beside *)
(* the calls of Access.  The provider changes its signing key and the      *)
(* directory its entries at any time.  OIDC keeps the provider's published *)
(* keys in a cache for Ttl and fetches them without holding its lock.      *)
(***************************************************************************)
EXTENDS Access

CONSTANTS
  Ttl,           \* how long fetched keys are used (1 hour)
  FetchTimeout,  \* of the HTTP client (10 seconds)
  TokenLives,    \* how long a token may be valid
  MaxChanges     \* bound on changes at the provider and in the directory

ASSUME IdentityAssumption ==
  /\ Ttl \in Nat \ {0} /\ FetchTimeout \in Nat /\ MaxChanges \in Nat
  /\ TokenLives \subseteq Nat
  /\ None \notin [gen : Nat, fetchedAt : Time]

Accounts == {"gone", "member", "admin"}

VARIABLES
  idp,       \* the provider publishes one key: [gen, changed] (external)
  account,   \* the LDAP user: "gone", "member" or "admin" (external)
  changes,   \* changes left
  provider,  \* the server could read the discovery document when it started
  keyCache,  \* jwksCache: [gen, fetchedAt], None when empty
  seen       \* the states of account since each client's call began (history)

idVars == <<idp, account, changes, provider, keyCache, seen>>
vars == <<accessVars, idVars>>

Init ==
  /\ InitAccess
  /\ idp = [gen |-> 1, changed |-> 0]
  /\ account = "member"
  /\ changes = MaxChanges
  /\ provider = TRUE
  /\ keyCache = None
  /\ seen = [c \in Clients |-> {}]

\* What a login leaves alone.
LoginFrame == UNCHANGED <<clock, keys, signing, made, urls, buckets, restarts, passed, given, dropped>>

-----------------------------------------------------------------------------
(* The provider and the directory.                                         *)

\* Before the first login of its kind a change is no different from another
\* initial state: it is left out to bound the model.
Matters(op) == changes > 0 /\ \E c \in Clients : calls[c].op = op

\* The provider withdraws its key and publishes another.
ChangeKey ==
  /\ Matters("oidc")
  /\ changes' = changes - 1
  /\ idp' = [gen |-> idp.gen + 1, changed |-> clock]
  /\ UNCHANGED <<accessVars, account, provider, keyCache>>

ChangeAccount ==
  /\ Matters("ldap")
  /\ changes' = changes - 1
  /\ \E s \in Accounts \ {account} : account' = s
  /\ UNCHANGED <<accessVars, idp, provider, keyCache>>

-----------------------------------------------------------------------------
(* OIDC.                                                                   *)

\* handleOIDCCallback: without a provider every login is refused, until the
\* next start.
handleOIDCCallback(c) ==
  /\ Begin(c, CallOf("login", "oidc", IF provider THEN "exchange" ELSE "failed", None, 0, 0, 0, None))
  /\ LoginFrame
  /\ UNCHANGED <<idp, account, changes, provider, keyCache>>

\* The provider issues a token for the code, signed with its key of the
\* moment, or refuses.
Exchange(c) ==
  /\ At(c, "exchange")
  /\ \/ \E life \in TokenLives :
          calls' = [calls EXCEPT ![c].at = "claims", ![c].signer = idp.gen, ![c].expires = WholeSecond(clock + life)]
     \/ Goto(c, "failed")
  /\ LoginFrame
  /\ UNCHANGED <<ncalls, idp, account, changes, provider, keyCache>>

\* Issuer and audience fit (a matter of configuration) and the token has
\* not expired; the clock is read in whole seconds, as tokens are.
verifyClaims(q, fit) == fit /\ WholeSecond(clock) <= q.expires

\* VerifyIDToken: a token that can be read must have good claims; then it
\* needs the provider's keys.
VerifyIDToken(c) ==
  /\ At(c, "claims")
  /\ \E fit \in BOOLEAN : Goto(c, IF verifyClaims(calls[c], fit) THEN "jwks" ELSE "failed")
  /\ LoginFrame
  /\ UNCHANGED <<ncalls, idp, account, changes, provider, keyCache>>

\* The published key gen verifies what the provider signed with it.
verifyJWKSignature(q, gen) == q.signer = gen

verifySignatureWithKeys(c, gen) ==
  calls' = [calls EXCEPT ![c].at = IF verifyJWKSignature(calls[c], gen) THEN "ok" ELSE "denied", ![c].stamp = clock]

\* Seeded fault: keys in the cache are used for ever.
CachedForEver == keyCache # None

\* The cache is used while it is younger than Ttl.
Fresh == keyCache # None /\ clock - keyCache.fetchedAt < Ttl

\* fetchJWKS reads the cache under the lock, or sends a request.
fetchJWKS(c) ==
  /\ At(c, "jwks")
  /\ IF Fresh THEN verifySignatureWithKeys(c, keyCache.gen)
     ELSE calls' = [calls EXCEPT ![c].at = "fetch", ![c].expires = clock + FetchTimeout]
  /\ LoginFrame
  /\ UNCHANGED <<ncalls, idp, account, changes, provider, keyCache>>

\* The provider answers with the key it publishes at that moment.
FetchAnswer(c) ==
  /\ At(c, "fetch")
  /\ calls' = [calls EXCEPT ![c].at = "store", ![c].arg = idp.gen]
  /\ LoginFrame
  /\ UNCHANGED <<ncalls, idp, account, changes, provider, keyCache>>

\* No answer within the timeout, or one that cannot be read.
FetchFails(c) ==
  /\ calls[c].at \in {"fetch", "store"}
  /\ Goto(c, "failed")
  /\ LoginFrame
  /\ UNCHANGED <<ncalls, idp, account, changes, provider, keyCache>>

\* The keys replace those in the cache, even if another call has put newer
\* ones there meanwhile, and count as fetched now.
StoreKeys(c) ==
  /\ At(c, "store")
  /\ keyCache' = [gen |-> calls[c].arg, fetchedAt |-> clock]
  /\ verifySignatureWithKeys(c, calls[c].arg)
  /\ LoginFrame
  /\ UNCHANGED <<ncalls, idp, account, changes, provider>>

-----------------------------------------------------------------------------
(* LDAP.                                                                   *)

handleLDAPAuth(c) ==
  /\ Begin(c, CallOf("login", "ldap", "findUser", None, 0, 0, 0, None))
  /\ LoginFrame
  /\ UNCHANGED <<idp, account, changes, provider, keyCache>>

\* Each of the three steps is a question to the directory of its own.
findUserDN(c) ==
  /\ At(c, "findUser")
  /\ Goto(c, IF account = "gone" THEN "failed" ELSE "bind")
  /\ LoginFrame
  /\ UNCHANGED <<ncalls, idp, account, changes, provider, keyCache>>

\* Authenticate binds as the user, and as the service account before and
\* after.
Authenticate(c) ==
  /\ At(c, "bind")
  /\ Goto(c, IF account = "gone" THEN "failed" ELSE "groups")
  /\ LoginFrame
  /\ UNCHANGED <<ncalls, idp, account, changes, provider, keyCache>>

\* An entry that is gone by now has no groups, which is no error.
findGroups(c) ==
  /\ At(c, "groups")
  /\ calls' = [calls EXCEPT ![c].at = "ok", ![c].arg = account]
  /\ LoginFrame
  /\ UNCHANGED <<ncalls, idp, account, changes, provider, keyCache>>

\* The directory cannot be reached, or refuses the service account.
DirectoryFails(c) ==
  /\ calls[c].at \in {"findUser", "bind", "groups"}
  /\ Goto(c, "failed")
  /\ LoginFrame
  /\ UNCHANGED <<ncalls, idp, account, changes, provider, keyCache>>

Login(c) ==
  \/ handleOIDCCallback(c) \/ Exchange(c) \/ VerifyIDToken(c) \/ fetchJWKS(c)
  \/ FetchAnswer(c) \/ FetchFails(c) \/ StoreKeys(c)
  \/ handleLDAPAuth(c) \/ findUserDN(c) \/ Authenticate(c) \/ findGroups(c) \/ DirectoryFails(c)

-----------------------------------------------------------------------------

\* New calls start their own record of the account.
ObserveAccount ==
  seen' = [c \in Clients |-> IF calls'[c].op # "ldap" THEN {}
                             ELSE IF calls[c].at \in Ended /\ calls'[c].at \notin Ended THEN {account'}
                             ELSE seen[c] \cup {account'}]

\* A fetch does not outlast its timeout.
Tick ==
  /\ \A c \in Clients : calls[c].at \in {"fetch", "store"} => clock < calls[c].expires
  /\ TickClock
  /\ UNCHANGED <<idp, account, changes, provider, keyCache>>

\* NewOIDCProvider reads the discovery document, once; the cache is empty.
NewOIDCProvider ==
  /\ provider' \in BOOLEAN
  /\ keyCache' = None

\* A provider that cannot be reached is left out until the next start.
Restart ==
  /\ RestartServer
  /\ NewOIDCProvider
  /\ UNCHANGED <<idp, account, changes>>

Next ==
  /\ \/ \E c \in Clients : Call(c) /\ UNCHANGED <<idp, account, changes, provider, keyCache>>
     \/ \E c \in Clients : Login(c)
     \/ ChangeKey \/ ChangeAccount \/ Tick \/ Restart
  /\ ObserveKeys
  /\ ObserveAccount

Spec == Init /\ [][Next]_vars

-----------------------------------------------------------------------------
(* Properties.                                                             *)

\* Every variable of Access and Identity has its type; a bucket never holds
\* more than its capacity, and a URL is valid for a legal lifetime.
TypeOK ==
  /\ clock \in Time /\ ncalls \in 0..MaxCalls /\ restarts \in 0..MaxRestarts
  /\ keys \in [KeyIds -> Identities \cup {None}] /\ signing \in [KeyIds -> Nat] /\ made \in KeyIds
  /\ \A k \in KeyIds : keys[k] # None => k <= made
  /\ urls \subseteq Urls
  /\ \A l \in Limiters : buckets[l] # None =>
       buckets[l].tokens \in 0..(Rps * Second) /\ buckets[l].lastFill \in Time
  /\ given \subseteq Identities /\ dropped \subseteq Identities
  /\ keyCache # None => keyCache.gen <= idp.gen /\ keyCache.fetchedAt <= clock

\* VerifyIDToken and Authenticate: a signing key the provider has withdrawn
\* is accepted for less than Ttl plus the timeout of a fetch, and a login
\* with a fresh token is refused for its signature only that long after the
\* provider has changed its key, or if it changed during the call.  Fetches
\* that overlap may put older keys back, but not for longer.  A login by
\* LDAP gets the groups of an admin only if the directory said so during it.
LoginsCurrent ==
  \A c \in Clients :
    LET q == calls[c]
        recent == q.stamp < idp.changed + Ttl + FetchTimeout
    IN /\ q.op = "oidc" /\ q.at = "ok" /\ q.signer < idp.gen => recent \/ q.stamp <= idp.changed
       /\ q.op = "oidc" /\ q.at = "denied" => recent \/ idp.changed >= q.begun
       /\ q.op = "ldap" /\ q.at = "ok" /\ q.arg = "admin" => "admin" \in seen[c]
=============================================================================
