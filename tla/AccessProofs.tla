---------------------------- MODULE AccessProofs ----------------------------
(***************************************************************************)
(* Who gets in, for any number of clients, keys, calls and restarts.  Each *)
(* of the four properties has an invariant of its own above the types:     *)
(* what a call that was refused or let through can still say of its stamp  *)
(* (Judged), what a rotation knows of the key it replaces (Rotating), how  *)
(* many tokens a bucket can hold after the requests it let pass (Drained), *)
(* and how long ago a withdrawn signing key can have been fetched          *)
(* (CacheAge, TokenAge).                                                   *)
(***************************************************************************)
EXTENDS Identity, TLAPS

-----------------------------------------------------------------------------
(* Types *)

AdminOps == {"create", "list", "delete", "rotate", "presign"}
OidcStages == {"exchange", "claims", "jwks", "fetch", "store"}
LdapStages == {"findUser", "bind", "groups"}
Behind == {"address", "limitKey", "rotateDelete", "rotateCreate"} \cup AdminOps
Stages == Ended \cup {"lookup", "verify"} \cup Behind \cup OidcStages \cup LdapStages

CallRecord ==
  [via : {"none", "header", "url", "login"}, op : {"none", "s3", "oidc", "ldap"} \cup AdminOps,
   at : Stages, key : KeyIds \cup {None}, signer : Int, stamp : Int, expires : Int,
   arg : Int \cup Accounts \cup {None}, rec : Identities \cup {None}, secret : Nat, begun : Time]

Bucket == [tokens : 0..(Rps * Second), lastFill : Time]
Cache == [gen : Nat, fetchedAt : Time]

\* What kind of call is at which stage, and what it then has.
Shaped(c) ==
  LET q == calls[c]
  IN /\ q.begun <= clock
     /\ q.at \in {"lookup", "verify"} \cup Behind => q.via \in {"header", "url"}
     /\ q.via \in {"header", "url"} => q.key \in KeyIds /\ q.op \in AdminOps \cup {"s3"}
     /\ q.op \in {"delete", "rotate"} => q.arg \in 1..made
     /\ q.at \in {"address", "limitKey"} => q.op = "s3"
     /\ q.at \in AdminOps => q.op = q.at
     /\ q.at \in {"rotateDelete", "rotateCreate"} => q.op = "rotate" /\ q.rec # None
     /\ q.at \in OidcStages => q.via = "login" /\ q.op = "oidc"
     /\ q.at \in LdapStages => q.via = "login" /\ q.op = "ldap"

CallsOK == /\ calls \in [Clients -> CallRecord]
           /\ \A c \in Clients : Shaped(c)

\* A URL is good until a moment named for it, or until less than a second
\* before: its stamp is cut to the second.
Announces(stamp, expires, until) ==
  stamp + expires <= until /\ until < stamp + expires + Second

KeysOK == /\ clock \in Time /\ ncalls \in 0..MaxCalls /\ restarts \in 0..MaxRestarts
          /\ keys \in [KeyIds -> Identities \cup {None}] /\ made \in KeyIds /\ made > 1
          /\ \A k \in KeyIds : keys[k] # None => k <= made
          /\ signing \in [KeyIds -> Nat]
          /\ urls \subseteq Urls /\ \A u \in urls : Announces(u.stamp, u.expires, u.until)
          /\ given \subseteq Identities /\ dropped \subseteq Identities

BucketsOK == /\ buckets \in [Limiters -> Bucket \cup {None}]
             /\ passed \in [Limiters -> Seq(Time)]
             /\ \A l \in Limiters : buckets[l] # None => buckets[l].lastFill <= clock

LoginsOK == /\ idp \in [gen : Nat, changed : Time] /\ idp.changed <= clock
            /\ account \in Accounts
            /\ keyCache \in Cache \cup {None}
            /\ keyCache # None => keyCache.gen <= idp.gen /\ keyCache.fetchedAt <= clock
            /\ \A c \in Clients : calls[c].at = "store" =>
                 calls[c].arg \in Nat /\ calls[c].arg <= idp.gen

HistoryOK == seen \in [Clients -> SUBSET Accounts]

Typed == CallsOK /\ KeysOK /\ BucketsOK /\ LoginsOK /\ HistoryOK

-----------------------------------------------------------------------------
(* The invariants of the four properties *)

\* What a call with a URL of the server knows of the moment named for it.
Dated(c) ==
  LET q == calls[c]
  IN q.via = "url" /\ q.arg # None => q.arg \in Int /\ Announces(q.stamp, q.expires, q.arg)

\* A call has its signing key from the store.  What was in time when it was
\* refused had another one, or none; and what is true of one that was not.
Judged(c) ==
  LET q == calls[c]
      through == q.at \notin {"idle", "lookup", "verify", "denied"}
  IN /\ Dated(c)
     /\ q.at = "verify" => q.secret \in held[c]
     /\ q.via \in {"url", "header"} /\ q.at = "denied" => held[c] # {q.signer} \/ ~InTime(q)
     /\ q.via = "url" /\ through => q.signer \in held[c] /\ q.begun <= q.stamp + q.expires
     /\ q.via = "header" /\ through =>
          \/ NoSecret \in held[c]
          \/ q.signer \in held[c] /\ q.begun - q.stamp <= Skew /\ q.stamp - clock <= Skew

\* A name is never given to another identity: what a rotation deletes is what
\* it has looked up, or nothing.
Rotating ==
  /\ keys[1] \in {RootKey, None}
  /\ \A c \in Clients : At(c, "rotateDelete") => keys[calls[c].arg] \in {calls[c].rec, None}

\* After letting its last requests pass a bucket has so much less.
Drained(l) ==
  /\ buckets[l] = None => passed[l] = <<>>
  /\ buckets[l] # None =>
       \A i \in 1..Len(passed[l]) :
         /\ passed[l][i] <= buckets[l].lastFill
         /\ (Len(passed[l]) - i + 1) * Second + buckets[l].tokens
               <= Rps * Second + Rps * (buckets[l].lastFill - passed[l][i])

\* Keys the provider has withdrawn were fetched before that or by a fetch that
\* was under way, and such a fetch ends within its timeout.
CacheAge ==
  /\ keyCache # None /\ keyCache.gen < idp.gen => keyCache.fetchedAt <= idp.changed + FetchTimeout
  /\ \A c \in Clients : calls[c].at \in {"fetch", "store"} =>
       /\ clock <= calls[c].expires /\ calls[c].expires <= clock + FetchTimeout
       /\ At(c, "store") /\ calls[c].arg < idp.gen => calls[c].expires <= idp.changed + FetchTimeout

\* A token is signed with the provider's key, unless that changed meanwhile.
TokenAge(c) ==
  LET q == calls[c]
      recent == q.stamp < idp.changed + Ttl + FetchTimeout
  IN /\ q.at \in {"claims", "jwks", "fetch", "store"} =>
          q.signer <= idp.gen /\ (q.signer < idp.gen => q.begun <= idp.changed)
     /\ q.op = "oidc" /\ q.at \in {"ok", "denied"} => q.stamp <= clock
     /\ q.op = "oidc" /\ q.at = "ok" /\ q.signer < idp.gen => recent \/ q.stamp <= idp.changed
     /\ q.op = "oidc" /\ q.at = "denied" => recent \/ idp.changed >= q.begun
     /\ q.op = "ldap" /\ q.at = "ok" /\ q.arg = "admin" => "admin" \in seen[c]

-----------------------------------------------------------------------------
(* What the steps do to one call *)

Alone(c) == \A d \in Clients \ {c} : calls'[d] = calls[d]

\* The call of c keeps everything but its stage.
Kept(c) ==
  LET q == calls[c]
      r == calls'[c]
  IN /\ r.via = q.via /\ r.op = q.op /\ r.key = q.key /\ r.signer = q.signer
     /\ r.stamp = q.stamp /\ r.expires = q.expires /\ r.arg = q.arg /\ r.rec = q.rec
     /\ r.begun = q.begun

\* A table of calls with one stage replaced.
LEMMA StageReplaced ==
  ASSUME NEW f \in [Clients -> CallRecord], NEW c \in Clients, NEW s \in Stages
  PROVE  LET g == [f EXCEPT ![c].at = s]
         IN /\ g \in [Clients -> CallRecord]
            /\ \A d \in Clients \ {c} : g[d] = f[d]
            /\ g[c].via = f[c].via /\ g[c].op = f[c].op /\ g[c].key = f[c].key
            /\ g[c].signer = f[c].signer /\ g[c].stamp = f[c].stamp /\ g[c].expires = f[c].expires
            /\ g[c].arg = f[c].arg /\ g[c].rec = f[c].rec /\ g[c].begun = f[c].begun
            /\ g[c].secret = f[c].secret /\ g[c].at = s
BY DEF CallRecord

LEMMA GotoEffect ==
  ASSUME calls \in [Clients -> CallRecord], NEW c \in Clients, NEW s \in Stages, Goto(c, s)
  PROVE  calls' \in [Clients -> CallRecord] /\ Alone(c) /\ Kept(c) /\ calls'[c].at = s
BY StageReplaced DEF Goto, Alone, Kept

\* A call begins.
LEMMA BeginEffect ==
  ASSUME calls \in [Clients -> CallRecord], NEW c \in Clients, NEW q \in CallRecord, Begin(c, q)
  PROVE  /\ calls' \in [Clients -> CallRecord] /\ Alone(c)
         /\ calls[c].at \in Ended /\ calls'[c] = q
BY DEF Begin, Alone

LEMMA RecReplaced ==
  ASSUME NEW f \in [Clients -> CallRecord], NEW c \in Clients, NEW v \in Identities \cup {None}
  PROVE  LET g == [f EXCEPT ![c].rec = v]
         IN /\ g \in [Clients -> CallRecord]
            /\ \A d \in Clients \ {c} : g[d] = f[d]
            /\ g[c].via = f[c].via /\ g[c].op = f[c].op /\ g[c].key = f[c].key
            /\ g[c].at = f[c].at /\ g[c].signer = f[c].signer /\ g[c].stamp = f[c].stamp
            /\ g[c].expires = f[c].expires /\ g[c].arg = f[c].arg /\ g[c].begun = f[c].begun
            /\ g[c].rec = v
BY DEF CallRecord

LEMMA StampReplaced ==
  ASSUME NEW f \in [Clients -> CallRecord], NEW c \in Clients, NEW v \in Int
  PROVE  LET g == [f EXCEPT ![c].stamp = v]
         IN /\ g \in [Clients -> CallRecord]
            /\ \A d \in Clients \ {c} : g[d] = f[d]
            /\ g[c].via = f[c].via /\ g[c].op = f[c].op /\ g[c].key = f[c].key
            /\ g[c].at = f[c].at /\ g[c].signer = f[c].signer /\ g[c].expires = f[c].expires
            /\ g[c].arg = f[c].arg /\ g[c].rec = f[c].rec /\ g[c].begun = f[c].begun
            /\ g[c].stamp = v
BY DEF CallRecord

LEMMA ExpiresReplaced ==
  ASSUME NEW f \in [Clients -> CallRecord], NEW c \in Clients, NEW v \in Int
  PROVE  LET g == [f EXCEPT ![c].expires = v]
         IN /\ g \in [Clients -> CallRecord]
            /\ \A d \in Clients \ {c} : g[d] = f[d]
            /\ g[c].via = f[c].via /\ g[c].op = f[c].op /\ g[c].key = f[c].key
            /\ g[c].at = f[c].at /\ g[c].signer = f[c].signer /\ g[c].stamp = f[c].stamp
            /\ g[c].arg = f[c].arg /\ g[c].rec = f[c].rec /\ g[c].begun = f[c].begun
            /\ g[c].expires = v
BY DEF CallRecord

LEMMA ArgReplaced ==
  ASSUME NEW f \in [Clients -> CallRecord], NEW c \in Clients, NEW v \in Int \cup Accounts \cup {None}
  PROVE  LET g == [f EXCEPT ![c].arg = v]
         IN /\ g \in [Clients -> CallRecord]
            /\ \A d \in Clients \ {c} : g[d] = f[d]
            /\ g[c].via = f[c].via /\ g[c].op = f[c].op /\ g[c].key = f[c].key
            /\ g[c].at = f[c].at /\ g[c].signer = f[c].signer /\ g[c].stamp = f[c].stamp
            /\ g[c].expires = f[c].expires /\ g[c].rec = f[c].rec /\ g[c].begun = f[c].begun
            /\ g[c].arg = v
BY DEF CallRecord

LEMMA SignerReplaced ==
  ASSUME NEW f \in [Clients -> CallRecord], NEW c \in Clients, NEW v \in Int
  PROVE  LET g == [f EXCEPT ![c].signer = v]
         IN /\ g \in [Clients -> CallRecord]
            /\ \A d \in Clients \ {c} : g[d] = f[d]
            /\ g[c].via = f[c].via /\ g[c].op = f[c].op /\ g[c].key = f[c].key
            /\ g[c].at = f[c].at /\ g[c].stamp = f[c].stamp /\ g[c].expires = f[c].expires
            /\ g[c].arg = f[c].arg /\ g[c].rec = f[c].rec /\ g[c].begun = f[c].begun
            /\ g[c].signer = v
BY DEF CallRecord

LEMMA SecretReplaced ==
  ASSUME NEW f \in [Clients -> CallRecord], NEW c \in Clients, NEW v \in Nat
  PROVE  LET g == [f EXCEPT ![c].secret = v]
         IN /\ g \in [Clients -> CallRecord]
            /\ \A d \in Clients \ {c} : g[d] = f[d]
            /\ g[c].via = f[c].via /\ g[c].op = f[c].op /\ g[c].key = f[c].key
            /\ g[c].at = f[c].at /\ g[c].signer = f[c].signer /\ g[c].stamp = f[c].stamp
            /\ g[c].expires = f[c].expires /\ g[c].arg = f[c].arg /\ g[c].rec = f[c].rec
            /\ g[c].begun = f[c].begun /\ g[c].secret = v
BY DEF CallRecord

\* A look-up of the key that a rotation replaces fills in the record.
Looked(c, rec, s) == calls' = [calls EXCEPT ![c].rec = rec, ![c].at = s]

LEMMA LookedEffect ==
  ASSUME calls \in [Clients -> CallRecord], NEW c \in Clients, NEW rec \in Identities \cup {None}, NEW s \in Stages,
         Looked(c, rec, s)
  PROVE  /\ calls' \in [Clients -> CallRecord] /\ Alone(c)
         /\ calls'[c].via = calls[c].via /\ calls'[c].op = calls[c].op /\ calls'[c].key = calls[c].key
         /\ calls'[c].at = s /\ calls'[c].signer = calls[c].signer /\ calls'[c].stamp = calls[c].stamp
         /\ calls'[c].expires = calls[c].expires /\ calls'[c].arg = calls[c].arg /\ calls'[c].rec = rec /\ calls'[c].begun = calls[c].begun
<1> DEFINE h == [calls EXCEPT ![c].rec = rec]
           g == [h EXCEPT ![c].at = s]
<1>1. calls' = g
  BY DEF Looked
<1>2. /\ h \in [Clients -> CallRecord] /\ \A d \in Clients \ {c} : h[d] = calls[d]
      /\ h[c].via = calls[c].via /\ h[c].op = calls[c].op /\ h[c].key = calls[c].key
      /\ h[c].at = calls[c].at /\ h[c].signer = calls[c].signer /\ h[c].stamp = calls[c].stamp
      /\ h[c].expires = calls[c].expires /\ h[c].arg = calls[c].arg /\ h[c].rec = rec /\ h[c].begun = calls[c].begun
  BY RecReplaced
<1> HIDE DEF h
<1>3. /\ g \in [Clients -> CallRecord] /\ \A d \in Clients \ {c} : g[d] = h[d]
      /\ g[c].via = h[c].via /\ g[c].op = h[c].op /\ g[c].key = h[c].key
      /\ g[c].at = s /\ g[c].signer = h[c].signer /\ g[c].stamp = h[c].stamp
      /\ g[c].expires = h[c].expires /\ g[c].arg = h[c].arg /\ g[c].rec = h[c].rec /\ g[c].begun = h[c].begun
  BY <1>2, StageReplaced
<1> HIDE DEF g
<1> QED BY <1>1, <1>2, <1>3 DEF Alone

\* The look-up of a call's own key fills in the signing key too.
LookedUp(c, rec, sec, s) == calls' = [calls EXCEPT ![c].rec = rec, ![c].secret = sec, ![c].at = s]

LEMMA LookedUpEffect ==
  ASSUME calls \in [Clients -> CallRecord], NEW c \in Clients, NEW rec \in Identities \cup {None},
         NEW sec \in Nat, NEW s \in Stages, LookedUp(c, rec, sec, s)
  PROVE  /\ calls' \in [Clients -> CallRecord] /\ Alone(c)
         /\ calls'[c].via = calls[c].via /\ calls'[c].op = calls[c].op /\ calls'[c].key = calls[c].key
         /\ calls'[c].at = s /\ calls'[c].signer = calls[c].signer /\ calls'[c].stamp = calls[c].stamp
         /\ calls'[c].expires = calls[c].expires /\ calls'[c].arg = calls[c].arg
         /\ calls'[c].rec = rec /\ calls'[c].secret = sec /\ calls'[c].begun = calls[c].begun
<1> DEFINE f == [calls EXCEPT ![c].rec = rec]
           h == [f EXCEPT ![c].secret = sec]
           g == [h EXCEPT ![c].at = s]
<1>1. calls' = g
  BY DEF LookedUp
<1>2. /\ f \in [Clients -> CallRecord] /\ \A d \in Clients \ {c} : f[d] = calls[d]
      /\ f[c].via = calls[c].via /\ f[c].op = calls[c].op /\ f[c].key = calls[c].key
      /\ f[c].signer = calls[c].signer /\ f[c].stamp = calls[c].stamp
      /\ f[c].expires = calls[c].expires /\ f[c].arg = calls[c].arg /\ f[c].rec = rec /\ f[c].begun = calls[c].begun
  BY RecReplaced
<1> HIDE DEF f
<1>3. /\ h \in [Clients -> CallRecord] /\ \A d \in Clients \ {c} : h[d] = f[d]
      /\ h[c].via = f[c].via /\ h[c].op = f[c].op /\ h[c].key = f[c].key
      /\ h[c].signer = f[c].signer /\ h[c].stamp = f[c].stamp
      /\ h[c].expires = f[c].expires /\ h[c].arg = f[c].arg /\ h[c].rec = f[c].rec /\ h[c].begun = f[c].begun
      /\ h[c].secret = sec
  BY <1>2, SecretReplaced
<1> HIDE DEF h
<1>4. /\ g \in [Clients -> CallRecord] /\ \A d \in Clients \ {c} : g[d] = h[d]
      /\ g[c].via = h[c].via /\ g[c].op = h[c].op /\ g[c].key = h[c].key
      /\ g[c].at = s /\ g[c].signer = h[c].signer /\ g[c].stamp = h[c].stamp
      /\ g[c].expires = h[c].expires /\ g[c].arg = h[c].arg /\ g[c].rec = h[c].rec /\ g[c].begun = h[c].begun
      /\ g[c].secret = h[c].secret
  BY <1>3, StageReplaced
<1> HIDE DEF g
<1> QED BY <1>1, <1>2, <1>3, <1>4 DEF Alone

\* A request for the provider's keys is sent.
Sent(c, s, w) == calls' = [calls EXCEPT ![c].at = s, ![c].expires = w]

LEMMA SentEffect ==
  ASSUME calls \in [Clients -> CallRecord], NEW c \in Clients, NEW s \in Stages, NEW w \in Int,
         Sent(c, s, w)
  PROVE  /\ calls' \in [Clients -> CallRecord] /\ Alone(c)
         /\ calls'[c].via = calls[c].via /\ calls'[c].op = calls[c].op /\ calls'[c].key = calls[c].key
         /\ calls'[c].at = s /\ calls'[c].signer = calls[c].signer /\ calls'[c].stamp = calls[c].stamp
         /\ calls'[c].expires = w /\ calls'[c].arg = calls[c].arg /\ calls'[c].rec = calls[c].rec /\ calls'[c].begun = calls[c].begun
<1> DEFINE h == [calls EXCEPT ![c].at = s]
           g == [h EXCEPT ![c].expires = w]
<1>1. calls' = g
  BY DEF Sent
<1>2. /\ h \in [Clients -> CallRecord] /\ \A d \in Clients \ {c} : h[d] = calls[d]
      /\ h[c].via = calls[c].via /\ h[c].op = calls[c].op /\ h[c].key = calls[c].key
      /\ h[c].at = s /\ h[c].signer = calls[c].signer /\ h[c].stamp = calls[c].stamp
      /\ h[c].expires = calls[c].expires /\ h[c].arg = calls[c].arg /\ h[c].rec = calls[c].rec /\ h[c].begun = calls[c].begun
  BY StageReplaced
<1> HIDE DEF h
<1>3. /\ g \in [Clients -> CallRecord] /\ \A d \in Clients \ {c} : g[d] = h[d]
      /\ g[c].via = h[c].via /\ g[c].op = h[c].op /\ g[c].key = h[c].key
      /\ g[c].at = h[c].at /\ g[c].signer = h[c].signer /\ g[c].stamp = h[c].stamp
      /\ g[c].expires = w /\ g[c].arg = h[c].arg /\ g[c].rec = h[c].rec /\ g[c].begun = h[c].begun
  BY <1>2, ExpiresReplaced
<1> HIDE DEF g
<1> QED BY <1>1, <1>2, <1>3 DEF Alone

\* A signature is judged.
Stamped(c, s, v) == calls' = [calls EXCEPT ![c].at = s, ![c].stamp = v]

LEMMA StampedEffect ==
  ASSUME calls \in [Clients -> CallRecord], NEW c \in Clients, NEW s \in Stages, NEW v \in Int,
         Stamped(c, s, v)
  PROVE  /\ calls' \in [Clients -> CallRecord] /\ Alone(c)
         /\ calls'[c].via = calls[c].via /\ calls'[c].op = calls[c].op /\ calls'[c].key = calls[c].key
         /\ calls'[c].at = s /\ calls'[c].signer = calls[c].signer /\ calls'[c].stamp = v
         /\ calls'[c].expires = calls[c].expires /\ calls'[c].arg = calls[c].arg /\ calls'[c].rec = calls[c].rec /\ calls'[c].begun = calls[c].begun
<1> DEFINE h == [calls EXCEPT ![c].at = s]
           g == [h EXCEPT ![c].stamp = v]
<1>1. calls' = g
  BY DEF Stamped
<1>2. /\ h \in [Clients -> CallRecord] /\ \A d \in Clients \ {c} : h[d] = calls[d]
      /\ h[c].via = calls[c].via /\ h[c].op = calls[c].op /\ h[c].key = calls[c].key
      /\ h[c].at = s /\ h[c].signer = calls[c].signer /\ h[c].stamp = calls[c].stamp
      /\ h[c].expires = calls[c].expires /\ h[c].arg = calls[c].arg /\ h[c].rec = calls[c].rec /\ h[c].begun = calls[c].begun
  BY StageReplaced
<1> HIDE DEF h
<1>3. /\ g \in [Clients -> CallRecord] /\ \A d \in Clients \ {c} : g[d] = h[d]
      /\ g[c].via = h[c].via /\ g[c].op = h[c].op /\ g[c].key = h[c].key
      /\ g[c].at = h[c].at /\ g[c].signer = h[c].signer /\ g[c].stamp = v
      /\ g[c].expires = h[c].expires /\ g[c].arg = h[c].arg /\ g[c].rec = h[c].rec /\ g[c].begun = h[c].begun
  BY <1>2, StampReplaced
<1> HIDE DEF g
<1> QED BY <1>1, <1>2, <1>3 DEF Alone

\* An answer is kept.
Answered(c, s, v) == calls' = [calls EXCEPT ![c].at = s, ![c].arg = v]

LEMMA AnsweredEffect ==
  ASSUME calls \in [Clients -> CallRecord], NEW c \in Clients, NEW s \in Stages, NEW v \in Int \cup Accounts \cup {None},
         Answered(c, s, v)
  PROVE  /\ calls' \in [Clients -> CallRecord] /\ Alone(c)
         /\ calls'[c].via = calls[c].via /\ calls'[c].op = calls[c].op /\ calls'[c].key = calls[c].key
         /\ calls'[c].at = s /\ calls'[c].signer = calls[c].signer /\ calls'[c].stamp = calls[c].stamp
         /\ calls'[c].expires = calls[c].expires /\ calls'[c].arg = v /\ calls'[c].rec = calls[c].rec /\ calls'[c].begun = calls[c].begun
<1> DEFINE h == [calls EXCEPT ![c].at = s]
           g == [h EXCEPT ![c].arg = v]
<1>1. calls' = g
  BY DEF Answered
<1>2. /\ h \in [Clients -> CallRecord] /\ \A d \in Clients \ {c} : h[d] = calls[d]
      /\ h[c].via = calls[c].via /\ h[c].op = calls[c].op /\ h[c].key = calls[c].key
      /\ h[c].at = s /\ h[c].signer = calls[c].signer /\ h[c].stamp = calls[c].stamp
      /\ h[c].expires = calls[c].expires /\ h[c].arg = calls[c].arg /\ h[c].rec = calls[c].rec /\ h[c].begun = calls[c].begun
  BY StageReplaced
<1> HIDE DEF h
<1>3. /\ g \in [Clients -> CallRecord] /\ \A d \in Clients \ {c} : g[d] = h[d]
      /\ g[c].via = h[c].via /\ g[c].op = h[c].op /\ g[c].key = h[c].key
      /\ g[c].at = h[c].at /\ g[c].signer = h[c].signer /\ g[c].stamp = h[c].stamp
      /\ g[c].expires = h[c].expires /\ g[c].arg = v /\ g[c].rec = h[c].rec /\ g[c].begun = h[c].begun
  BY <1>2, ArgReplaced
<1> HIDE DEF g
<1> QED BY <1>1, <1>2, <1>3 DEF Alone

\* A token is issued.
Issued(c, s, v, w) == calls' = [calls EXCEPT ![c].at = s, ![c].signer = v, ![c].expires = w]

LEMMA IssuedEffect ==
  ASSUME calls \in [Clients -> CallRecord], NEW c \in Clients, NEW s \in Stages, NEW v \in Nat,
         NEW w \in Int, Issued(c, s, v, w)
  PROVE  /\ calls' \in [Clients -> CallRecord] /\ Alone(c) /\ calls'[c].at = s
         /\ calls'[c].via = calls[c].via /\ calls'[c].op = calls[c].op /\ calls'[c].key = calls[c].key
         /\ calls'[c].begun = calls[c].begun /\ calls'[c].arg = calls[c].arg
         /\ calls'[c].signer = v /\ calls'[c].expires = w /\ calls'[c].stamp = calls[c].stamp
<1> DEFINE f == [calls EXCEPT ![c].at = s]
           h == [f EXCEPT ![c].signer = v]
           g == [h EXCEPT ![c].expires = w]
<1>1. calls' = g
  BY DEF Issued
<1>2. /\ f \in [Clients -> CallRecord] /\ \A d \in Clients \ {c} : f[d] = calls[d]
      /\ f[c].at = s /\ f[c].via = calls[c].via /\ f[c].op = calls[c].op /\ f[c].key = calls[c].key
      /\ f[c].begun = calls[c].begun /\ f[c].arg = calls[c].arg /\ f[c].stamp = calls[c].stamp
  BY StageReplaced
<1> HIDE DEF f
<1>3. /\ h \in [Clients -> CallRecord] /\ \A d \in Clients \ {c} : h[d] = f[d]
      /\ h[c].at = s /\ h[c].via = f[c].via /\ h[c].op = f[c].op /\ h[c].key = f[c].key
      /\ h[c].begun = f[c].begun /\ h[c].arg = f[c].arg /\ h[c].stamp = f[c].stamp
      /\ h[c].signer = v
  BY <1>2, SignerReplaced
<1> HIDE DEF h
<1>4. /\ g \in [Clients -> CallRecord] /\ \A d \in Clients \ {c} : g[d] = h[d]
      /\ g[c].at = s /\ g[c].via = h[c].via /\ g[c].op = h[c].op /\ g[c].key = h[c].key
      /\ g[c].begun = h[c].begun /\ g[c].arg = h[c].arg /\ g[c].stamp = h[c].stamp
      /\ g[c].signer = v /\ g[c].expires = w
  BY <1>3, ExpiresReplaced
<1> HIDE DEF g
<1> QED BY <1>1, <1>2, <1>3, <1>4 DEF Alone

-----------------------------------------------------------------------------
(* Every step keeps the types *)

\* Cutting to the second takes less than a second off, and nothing below 0.
LEMMA SecondsCut ==
  ASSUME NEW t \in Int
  PROVE  /\ WholeSecond(t) \in Int /\ WholeSecond(t) <= t /\ t < WholeSecond(t) + Second
         /\ t >= 0 => WholeSecond(t) >= 0
<1>1. t % Second \in 0..(Second - 1) /\ Second \in Nat \ {0}
  BY AccessAssumption
<1>2. t >= 0 => t % Second <= t
  <2>1. CASE t < 0
    BY <2>1
  <2>2. CASE t >= 0 /\ t < Second
    BY <1>1, <2>2
  <2>3. CASE t >= Second
    BY <1>1, <2>3
  <2> QED BY <1>1, <2>1, <2>2, <2>3
<1> QED BY <1>1, <1>2 DEF WholeSecond

\* One call changes, and keys are only added.
LEMMA OneCall ==
  ASSUME CallsOK, clock \in Time, clock' \in Time, clock <= clock', made \in KeyIds, made' \in KeyIds,
         made <= made', NEW c \in Clients, calls' \in [Clients -> CallRecord], Alone(c), Shaped(c)'
  PROVE  CallsOK'
<1>1. \A k \in 1..made : k \in 1..made'
  BY DEF KeyIds
<1>2. ASSUME NEW d \in Clients PROVE Shaped(d)'
  <2>1. CASE d = c
    BY <2>1
  <2>2. CASE d # c
    <3>1. calls'[d] = calls[d] /\ Shaped(d) /\ calls[d].begun \in Time
      BY <2>2 DEF Alone, CallsOK, CallRecord
    <3>2. calls'[d].begun <= clock'
      BY <3>1 DEF Shaped, Time
    <3> QED BY <1>1, <3>1, <3>2 DEF Shaped
  <2> QED BY <2>1, <2>2
<1> QED BY <1>2 DEF CallsOK

\* A call of c begins, with what its kind needs.
Beginning(c) ==
  \/ S3Request(c) \/ UrlRequest(c) \/ OwnUrlRequest(c) \/ AdminRequest(c)
  \/ handleOIDCCallback(c) \/ handleLDAPAuth(c)

LEMMA BeginShaped ==
  ASSUME CallsOK, KeysOK, NEW c \in Clients, Beginning(c)
  PROVE  /\ CallsOK' /\ Alone(c) /\ calls[c].at \in Ended /\ calls'[c].begun = clock
         /\ \/ calls'[c].at = "lookup" /\ Dated(c)'
            \/ calls'[c].at \in {"exchange", "failed", "findUser"} /\ calls'[c].via = "login"
         /\ UNCHANGED <<clock, keys, signing, made, urls, buckets, restarts, passed, given, dropped>>
         /\ ncalls' = ncalls + 1 /\ ncalls < MaxCalls
<1>0. calls \in [Clients -> CallRecord] /\ clock \in Time /\ clock \in Int /\ made \in KeyIds
  BY DEF CallsOK, KeysOK, Time
<1>1. /\ {"lookup", "exchange", "failed", "findUser"} \subseteq Stages /\ 0 \in Nat /\ 0 \in Int
      /\ None \in KeyIds \cup {None} /\ None \in Int \cup Accounts \cup {None} /\ NoSecret \in Nat
      /\ made = made /\ clock <= clock /\ made <= made
  BY <1>0 DEF Stages, Ended, OidcStages, LdapStages, Time, KeyIds, NoSecret
\* Who names a key that was made, signs with a number.
<1>2. ASSUME NEW k \in 1..made, NEW s \in {signing[k], Forged} PROVE k \in KeyIds /\ s \in Int
  <2>1. k \in KeyIds
    BY <1>0, AccessAssumption DEF KeyIds
  <2>2. signing[k] \in Int /\ Forged \in Int
    BY <2>1 DEF KeysOK, Forged
  <2> QED BY <2>1, <2>2
<1>3. ASSUME NEW d \in Offsets PROVE WholeSecond(clock + d) \in Int
  <2>1. clock + d \in Int
    BY <1>0, AccessAssumption
  <2> QED BY <2>1, SecondsCut
<1>4. CASE S3Request(c)
  <2>1. PICK k \in 1..made, d \in Offsets : \E s \in {signing[k], Forged} :
          Begin(c, CallOf("header", "s3", "lookup", k, s, WholeSecond(clock + d), 0, None))
    BY <1>4 DEF S3Request
  <2>2. PICK s \in {signing[k], Forged} :
          Begin(c, CallOf("header", "s3", "lookup", k, s, WholeSecond(clock + d), 0, None))
    BY <2>1
  <2>3. k \in KeyIds /\ s \in Int /\ WholeSecond(clock + d) \in Int
    BY <1>2, <1>3
  <2>4. /\ calls' \in [Clients -> CallRecord] /\ Alone(c) /\ calls[c].at \in Ended
        /\ calls'[c].via = "header" /\ calls'[c].op = "s3" /\ calls'[c].at = "lookup"
        /\ calls'[c].key = k /\ calls'[c].begun = clock /\ calls'[c].arg = None
        /\ calls'[c].stamp = WholeSecond(clock + d) /\ calls'[c].expires = 0
    <3> DEFINE q == CallOf("header", "s3", "lookup", k, s, WholeSecond(clock + d), 0, None)
    <3>1. /\ q \in CallRecord /\ q.via = "header" /\ q.op = "s3" /\ q.at = "lookup"
          /\ q.key = k /\ q.begun = clock /\ q.arg = None
          /\ q.stamp = WholeSecond(clock + d) /\ q.expires = 0
      BY <1>0, <1>1, <2>3 DEF CallOf, CallRecord
    <3> HIDE DEF q
    <3>2. Begin(c, q)
      BY <2>2 DEF q
    <3> QED BY <1>0, <3>1, <3>2, BeginEffect
  <2>5. UNCHANGED <<clock, keys, signing, made, urls, buckets, restarts, passed, given, dropped>>
    BY <1>4 DEF S3Request
  <2>6. Shaped(c)'
    BY <1>1, <2>3, <2>4, <2>5 DEF Shaped, Behind, AdminOps, OidcStages, LdapStages
  <2>7. CallsOK'
    BY <1>0, <1>1, <2>4, <2>5, <2>6, OneCall
  <2>8. Dated(c)'
    BY <2>3, <2>4 DEF Dated, Announces
  <2> QED BY <2>2, <2>4, <2>5, <2>7, <2>8 DEF Begin
<1>5. CASE UrlRequest(c)
  <2>1. PICK u \in urls : Begin(c, CallOf("url", "s3", "lookup", u.key, u.signer, u.stamp, u.expires, u.until))
    BY <1>5 DEF UrlRequest
  <2>2. /\ u.key \in KeyIds /\ u.signer \in Int /\ u.stamp \in Int /\ u.expires \in Int /\ u.until \in Int
        /\ Announces(u.stamp, u.expires, u.until)
    BY AccessAssumption DEF KeysOK, Urls, KeyIds, Time
  <2>3. /\ calls' \in [Clients -> CallRecord] /\ Alone(c) /\ calls[c].at \in Ended
        /\ calls'[c].via = "url" /\ calls'[c].op = "s3" /\ calls'[c].at = "lookup"
        /\ calls'[c].key = u.key /\ calls'[c].begun = clock /\ calls'[c].arg = u.until
        /\ calls'[c].stamp = u.stamp /\ calls'[c].expires = u.expires
    <3> DEFINE q == CallOf("url", "s3", "lookup", u.key, u.signer, u.stamp, u.expires, u.until)
    <3>1. /\ q \in CallRecord /\ q.via = "url" /\ q.op = "s3" /\ q.at = "lookup"
          /\ q.key = u.key /\ q.begun = clock /\ q.arg = u.until
          /\ q.stamp = u.stamp /\ q.expires = u.expires
      BY <1>0, <1>1, <2>2 DEF CallOf, CallRecord
    <3> HIDE DEF q
    <3>2. Begin(c, q)
      BY <2>1 DEF q
    <3> QED BY <1>0, <3>1, <3>2, BeginEffect
  <2>4. UNCHANGED <<clock, keys, signing, made, urls, buckets, restarts, passed, given, dropped>>
    BY <1>5 DEF UrlRequest
  <2>5. Shaped(c)'
    BY <1>1, <2>2, <2>3, <2>4 DEF Shaped, Behind, AdminOps, OidcStages, LdapStages
  <2>6. CallsOK'
    BY <1>0, <1>1, <2>3, <2>4, <2>5, OneCall
  <2>7. Dated(c)'
    BY <2>2, <2>3 DEF Dated, Announces
  <2> QED BY <2>1, <2>3, <2>4, <2>6, <2>7 DEF Begin
<1>6. CASE OwnUrlRequest(c)
  <2>1. PICK k \in 1..made, d \in Offsets, life \in Asked : \E s \in {signing[k], Forged} :
          Begin(c, CallOf("url", "s3", "lookup", k, s, WholeSecond(clock + d), life * Second, None))
    BY <1>6 DEF OwnUrlRequest
  <2>2. PICK s \in {signing[k], Forged} :
          Begin(c, CallOf("url", "s3", "lookup", k, s, WholeSecond(clock + d), life * Second, None))
    BY <2>1
  <2>3. k \in KeyIds /\ s \in Int /\ WholeSecond(clock + d) \in Int /\ life * Second \in Int
    BY <1>2, <1>3, AccessAssumption
  <2>4. /\ calls' \in [Clients -> CallRecord] /\ Alone(c) /\ calls[c].at \in Ended
        /\ calls'[c].via = "url" /\ calls'[c].op = "s3" /\ calls'[c].at = "lookup"
        /\ calls'[c].key = k /\ calls'[c].begun = clock /\ calls'[c].arg = None
        /\ calls'[c].stamp = WholeSecond(clock + d) /\ calls'[c].expires = life * Second
    <3> DEFINE q == CallOf("url", "s3", "lookup", k, s, WholeSecond(clock + d), life * Second, None)
    <3>1. /\ q \in CallRecord /\ q.via = "url" /\ q.op = "s3" /\ q.at = "lookup"
          /\ q.key = k /\ q.begun = clock /\ q.arg = None
          /\ q.stamp = WholeSecond(clock + d) /\ q.expires = life * Second
      BY <1>0, <1>1, <2>3 DEF CallOf, CallRecord
    <3> HIDE DEF q
    <3>2. Begin(c, q)
      BY <2>2 DEF q
    <3> QED BY <1>0, <3>1, <3>2, BeginEffect
  <2>5. UNCHANGED <<clock, keys, signing, made, urls, buckets, restarts, passed, given, dropped>>
    BY <1>6 DEF OwnUrlRequest
  <2>6. Shaped(c)'
    BY <1>1, <2>3, <2>4, <2>5 DEF Shaped, Behind, AdminOps, OidcStages, LdapStages
  <2>7. CallsOK'
    BY <1>0, <1>1, <2>4, <2>5, <2>6, OneCall
  <2>8. Dated(c)'
    BY <2>3, <2>4 DEF Dated, Announces
  <2> QED BY <2>2, <2>4, <2>5, <2>7, <2>8 DEF Begin
<1>7. CASE AdminRequest(c)
  <2>1. PICK k \in 1..made, op \in AdminOps :
          \E arg \in CASE op = "presign" -> Asked [] op \in {"delete", "rotate"} -> 1..made
                     [] OTHER -> {None} :
            Begin(c, CallOf("header", op, "lookup", k, signing[k], WholeSecond(clock), 0, arg))
    BY <1>7 DEF AdminRequest, AdminOps
  <2>2. PICK arg \in CASE op = "presign" -> Asked [] op \in {"delete", "rotate"} -> 1..made
                     [] OTHER -> {None} :
          Begin(c, CallOf("header", op, "lookup", k, signing[k], WholeSecond(clock), 0, arg))
    BY <2>1
  <2>3. /\ k \in KeyIds /\ signing[k] \in Int /\ WholeSecond(clock) \in Int /\ arg \in Int \cup Accounts \cup {None}
        /\ op \in {"delete", "rotate"} => arg \in 1..made
    BY <1>0, <1>2, SecondsCut, AccessAssumption DEF AdminOps
  <2>4. /\ calls' \in [Clients -> CallRecord] /\ Alone(c) /\ calls[c].at \in Ended
        /\ calls'[c].via = "header" /\ calls'[c].op = op /\ calls'[c].at = "lookup"
        /\ calls'[c].key = k /\ calls'[c].begun = clock /\ calls'[c].arg = arg
        /\ calls'[c].stamp = WholeSecond(clock) /\ calls'[c].expires = 0
    <3> DEFINE q == CallOf("header", op, "lookup", k, signing[k], WholeSecond(clock), 0, arg)
    <3>1. /\ q \in CallRecord /\ q.via = "header" /\ q.op = op /\ q.at = "lookup"
          /\ q.key = k /\ q.begun = clock /\ q.arg = arg
          /\ q.stamp = WholeSecond(clock) /\ q.expires = 0
      BY <1>0, <1>1, <2>3 DEF CallOf, CallRecord
    <3> HIDE DEF q
    <3>2. Begin(c, q)
      BY <2>2 DEF q
    <3> QED BY <1>0, <3>1, <3>2, BeginEffect
  <2>5. UNCHANGED <<clock, keys, signing, made, urls, buckets, restarts, passed, given, dropped>>
    BY <1>7 DEF AdminRequest
  <2>6. Shaped(c)'
    BY <1>1, <2>3, <2>4, <2>5 DEF Shaped, Behind, AdminOps, OidcStages, LdapStages
  <2>7. CallsOK'
    BY <1>0, <1>1, <2>4, <2>5, <2>6, OneCall
  <2>8. Dated(c)'
    BY <2>3, <2>4 DEF Dated, Announces
  <2> QED BY <2>2, <2>4, <2>5, <2>7, <2>8 DEF Begin
<1>8. CASE handleOIDCCallback(c) \/ handleLDAPAuth(c)
  <2>1. PICK op \in {"oidc", "ldap"}, s \in {"exchange", "failed", "findUser"} :
          /\ Begin(c, CallOf("login", op, s, None, 0, 0, 0, None))
          /\ s = "exchange" => op = "oidc"
          /\ s = "findUser" => op = "ldap"
    BY <1>8 DEF handleOIDCCallback, handleLDAPAuth
  <2>2. /\ calls' \in [Clients -> CallRecord] /\ Alone(c) /\ calls[c].at \in Ended
        /\ calls'[c].via = "login" /\ calls'[c].op = op /\ calls'[c].at = s /\ calls'[c].begun = clock
    <3> DEFINE q == CallOf("login", op, s, None, 0, 0, 0, None)
    <3>1. q \in CallRecord /\ q.via = "login" /\ q.op = op /\ q.at = s /\ q.begun = clock
      BY <1>0, <1>1 DEF CallOf, CallRecord
    <3> HIDE DEF q
    <3>2. Begin(c, q)
      BY <2>1 DEF q
    <3> QED BY <1>0, <3>1, <3>2, BeginEffect
  <2>3. UNCHANGED <<clock, keys, signing, made, urls, buckets, restarts, passed, given, dropped>>
    BY <1>8 DEF handleOIDCCallback, handleLDAPAuth, LoginFrame
  <2>4. Shaped(c)'
    BY <1>1, <2>1, <2>2, <2>3 DEF Shaped, Behind, AdminOps, OidcStages, LdapStages
  <2>5. CallsOK'
    BY <1>0, <1>1, <2>2, <2>3, <2>4, OneCall
  <2> QED BY <2>1, <2>2, <2>3, <2>5 DEF Begin
<1> QED BY <1>4, <1>5, <1>6, <1>7, <1>8 DEF Beginning

\* The steps of a call of the S3 or the admin API.
Handling(c) ==
  \/ AuthLookup(c) \/ AuthVerify(c) \/ RateLimit(c)
  \/ create(c) \/ list(c) \/ delete(c) \/ presign(c)
  \/ rotateLookup(c) \/ rotateDelete(c) \/ rotateCreate(c) \/ StoreFails(c)

\* A handler that ends, or goes on to s with the call as it is.
LEMMA GoesTo ==
  ASSUME CallsOK, clock \in Time, made \in KeyIds, made' \in KeyIds, made <= made', clock' = clock,
         NEW c \in Clients, NEW s \in Stages, Goto(c, s),
         \/ s \in Ended
         \/ calls[c].at = "verify" /\ s = "address" /\ calls[c].op = "s3"
         \/ calls[c].at = "verify" /\ s \in AdminOps /\ calls[c].op = s
         \/ calls[c].at = "address" /\ s = "limitKey"
         \/ calls[c].at = "rotateDelete" /\ s = "rotateCreate"
         \/ calls[c].at \in OidcStages /\ s \in OidcStages
         \/ calls[c].at \in LdapStages /\ s \in LdapStages
  PROVE  CallsOK' /\ Alone(c) /\ Kept(c) /\ calls'[c].at = s
<1>1. calls' \in [Clients -> CallRecord] /\ Alone(c) /\ Kept(c) /\ calls'[c].at = s
  BY GotoEffect DEF CallsOK
<1>2. Shaped(c)'
  <2>1. \A k \in 1..made : k \in 1..made'
    BY DEF KeyIds
  <2> QED BY <1>1, <2>1 DEF CallsOK, Shaped, Kept, Ended, Behind, AdminOps, OidcStages, LdapStages
<1>3. clock <= clock'
  BY DEF Time
<1> QED BY <1>1, <1>2, <1>3, OneCall

\* What a handler keeps of its call; only the authentication refuses one.
Handled(c) ==
  /\ CallsOK' /\ Alone(c) /\ clock' = clock /\ made' \in KeyIds /\ made <= made'
  /\ calls[c].at \in {"lookup", "verify"} \cup Behind
  /\ calls'[c].at \in {"denied", "limited", "failed", "ok", "verify"} \cup Behind
  /\ calls'[c].at = "denied" => calls[c].at \in {"lookup", "verify"}
  /\ calls'[c].at = "verify" => calls[c].at = "lookup"
  /\ LET q == calls[c]
         r == calls'[c]
     IN /\ r.via = q.via /\ r.op = q.op /\ r.key = q.key /\ r.signer = q.signer
        /\ r.stamp = q.stamp /\ r.expires = q.expires /\ r.arg = q.arg /\ r.begun = q.begun

LEMMA HandlingShaped ==
  ASSUME CallsOK, KeysOK, NEW c \in Clients, Handling(c)
  PROVE  Handled(c)
<1>0. /\ calls \in [Clients -> CallRecord] /\ clock \in Time /\ made \in KeyIds /\ made <= made
      /\ Shaped(c) /\ calls[c] \in CallRecord
  BY DEF CallsOK, KeysOK, KeyIds
<1>1. /\ {"denied", "limited", "failed", "ok"} \subseteq Ended
      /\ Ended \cup {"verify"} \cup Behind \subseteq Stages
  BY DEF Ended, Stages
\* All that is left to say of a handler is where it goes.
<1>2. ASSUME NEW s \in {"denied", "limited", "failed", "ok"} \cup Behind, Goto(c, s),
             clock' = clock, made' \in KeyIds, made <= made',
             calls[c].at \in {"verify"} \cup Behind, s = "denied" => calls[c].at = "verify",
             \/ s \in Ended
             \/ calls[c].at = "verify" /\ s = "address" /\ calls[c].op = "s3"
             \/ calls[c].at = "verify" /\ s \in AdminOps /\ calls[c].op = s
             \/ calls[c].at = "address" /\ s = "limitKey"
             \/ calls[c].at = "rotateDelete" /\ s = "rotateCreate"
      PROVE  Handled(c)
  <2>1. s \in Stages
    BY <1>1, <1>2
  <2>2. CallsOK' /\ Alone(c) /\ Kept(c) /\ calls'[c].at = s
    BY <1>0, <1>2, <2>1, GoesTo
  <2> QED BY <1>2, <2>2 DEF Kept, Handled, Behind, AdminOps
\* A look-up, at the begin of a call or of a rotation.
<1>3. ASSUME NEW rec \in Identities \cup {None}, NEW s \in {"denied", "failed", "verify", "rotateDelete"},
             Looked(c, rec, s) \/ \E sec \in Nat : LookedUp(c, rec, sec, s), UNCHANGED <<clock, made>>,
             \/ calls[c].at = "lookup" /\ s \in {"denied", "verify"}
             \/ calls[c].at = "rotate" /\ s = "failed"
             \/ calls[c].at = "rotate" /\ s = "rotateDelete" /\ rec # None
      PROVE  Handled(c)
  <2>1. s \in Stages /\ rec \in Identities \cup {None}
    BY <1>1, <1>3 DEF Behind
  <2>2. /\ calls' \in [Clients -> CallRecord] /\ Alone(c)
        /\ LET q == calls[c]
               r == calls'[c]
           IN /\ r.via = q.via /\ r.op = q.op /\ r.key = q.key /\ r.signer = q.signer
              /\ r.stamp = q.stamp /\ r.expires = q.expires /\ r.arg = q.arg
              /\ r.begun = q.begun /\ r.rec = rec /\ r.at = s
    <3>1. CASE Looked(c, rec, s)
      BY <1>0, <2>1, <3>1, LookedEffect
    <3>2. ASSUME NEW sec \in Nat, LookedUp(c, rec, sec, s)
          PROVE  /\ calls' \in [Clients -> CallRecord] /\ Alone(c)
                 /\ LET q == calls[c]
                        r == calls'[c]
                    IN /\ r.via = q.via /\ r.op = q.op /\ r.key = q.key /\ r.signer = q.signer
                       /\ r.stamp = q.stamp /\ r.expires = q.expires /\ r.arg = q.arg
                       /\ r.begun = q.begun /\ r.rec = rec /\ r.at = s
      BY <1>0, <2>1, <3>2, LookedUpEffect
    <3> QED BY <1>3, <3>1, <3>2
  <2>3. Shaped(c)'
    BY <1>0, <1>3, <2>2 DEF Shaped, Behind, AdminOps, OidcStages, LdapStages
  <2>4. clock <= clock' /\ clock' \in Time /\ made' \in KeyIds /\ made <= made'
    BY <1>0, <1>3 DEF Time
  <2>5. CallsOK'
    BY <1>0, <2>2, <2>3, <2>4, OneCall
  <2> QED BY <1>3, <2>2, <2>4, <2>5 DEF Handled, Behind, AdminOps
<1>4. CASE AuthLookup(c)
  <2> DEFINE rec == keys[calls[c].key]
  <2>1. rec \in Identities \cup {None} /\ signing[calls[c].key] \in Nat
    BY <1>0, <1>4 DEF AuthLookup, At, Shaped, KeysOK
  <2>2. LookedUp(c, rec, signing[calls[c].key], IF rec = None THEN "denied" ELSE "verify")
    BY <1>4 DEF AuthLookup, LookedUp
  <2>3. UNCHANGED <<clock, made>> /\ calls[c].at = "lookup"
    BY <1>4 DEF AuthLookup, At
  <2> QED BY <1>3, <2>1, <2>2, <2>3
<1>5. CASE rotateLookup(c)
  <2> DEFINE rec == keys[calls[c].arg]
  <2>1. calls[c].arg \in KeyIds
    BY <1>0, <1>5, AccessAssumption DEF rotateLookup, At, Shaped, AdminOps, KeyIds
  <2>2. rec \in Identities \cup {None}
    BY <2>1 DEF KeysOK
  <2>3. Looked(c, rec, IF rec = None THEN "failed" ELSE "rotateDelete")
    BY <1>5 DEF rotateLookup, Looked
  <2>4. UNCHANGED <<clock, made>> /\ calls[c].at = "rotate"
    BY <1>5 DEF rotateLookup, At
  <2> QED BY <1>3, <2>2, <2>3, <2>4
<1>6. CASE AuthVerify(c)
  <2>1. calls[c].op \in AdminOps \cup {"s3"}
    BY <1>0, <1>6 DEF AuthVerify, At, Shaped
  <2>2. \/ Goto(c, "denied")
        \/ Goto(c, "address") /\ calls[c].op = "s3"
        \/ Goto(c, calls[c].op) /\ calls[c].op # "s3"
    BY <1>6 DEF AuthVerify
  <2>3. UNCHANGED <<clock, made>> /\ calls[c].at = "verify"
    BY <1>6 DEF AuthVerify, At
  <2> QED BY <1>0, <1>1, <1>2, <2>1, <2>2, <2>3 DEF Behind, AdminOps
<1>7. CASE RateLimit(c)
  <2>1. \/ Goto(c, "ok") \/ Goto(c, "limited")
        \/ Goto(c, "limitKey") /\ At(c, "address")
    <3>1. CASE Rps = 0
      BY <1>7, <3>1 DEF RateLimit
    <3>2. CASE Rps # 0 /\ ~At(c, "address")
      <4>1. calls[c].key # 0
        BY <1>0, <1>7 DEF RateLimit, Shaped, KeyIds, Behind
      <4> QED BY <1>7, <3>2, <4>1 DEF RateLimit
    <3>3. CASE Rps # 0 /\ At(c, "address")
      BY <1>7, <3>3 DEF RateLimit
    <3> QED BY <3>1, <3>2, <3>3
  <2>2. UNCHANGED <<clock, made>> /\ calls[c].at \in {"address", "limitKey"}
    BY <1>7 DEF RateLimit
  <2> QED BY <1>0, <1>1, <1>2, <2>1, <2>2 DEF Behind, At
<1>8. CASE list(c) \/ delete(c) \/ presign(c) \/ StoreFails(c)
  <2>1. Goto(c, "ok") \/ Goto(c, "failed")
    BY <1>8 DEF list, delete, presign, StoreFails
  <2>2. UNCHANGED <<clock, made>>
    BY <1>8 DEF list, delete, presign, StoreFails
  <2>3. calls[c].at \in Behind
    BY <1>8 DEF list, delete, presign, StoreFails, At, Behind, AdminOps
  <2> QED BY <1>0, <1>1, <1>2, <2>1, <2>2, <2>3
<1>9. CASE create(c) \/ rotateCreate(c)
  <2>1. Goto(c, "ok") /\ clock' = clock /\ calls[c].at \in Behind
    BY <1>9 DEF create, rotateCreate, At, Behind, AdminOps
  <2>2. made < MaxKeys /\ made' = made + 1
    BY <1>9 DEF create, rotateCreate, CreateKey
  <2>3. made' \in KeyIds /\ made <= made'
    BY <1>0, <2>2, AccessAssumption DEF KeyIds
  <2> QED BY <1>0, <1>1, <1>2, <2>1, <2>3
<1>10. CASE rotateDelete(c)
  <2>1. Goto(c, "rotateCreate") /\ UNCHANGED <<clock, made>> /\ calls[c].at = "rotateDelete"
    BY <1>10 DEF rotateDelete, At
  <2> QED BY <1>0, <1>1, <1>2, <2>1 DEF Behind, AdminOps
<1> QED BY <1>4, <1>5, <1>6, <1>7, <1>8, <1>9, <1>10 DEF Handling

\* The steps of a login after its begin.
Deciding(c) ==
  \/ Exchange(c) \/ VerifyIDToken(c) \/ fetchJWKS(c) \/ FetchAnswer(c) \/ FetchFails(c) \/ StoreKeys(c)
  \/ findUserDN(c) \/ Authenticate(c) \/ findGroups(c) \/ DirectoryFails(c)

LEMMA DecidingShaped ==
  ASSUME CallsOK, KeysOK, LoginsOK, NEW c \in Clients, Deciding(c)
  PROVE  /\ CallsOK' /\ Alone(c) /\ LoginFrame /\ ncalls' = ncalls
         /\ calls[c].at \in OidcStages \cup LdapStages
         /\ \/ calls'[c].at \in {"ok", "denied", "failed"}
            \/ calls[c].at \in OidcStages /\ calls'[c].at \in OidcStages
            \/ calls[c].at \in LdapStages /\ calls'[c].at \in LdapStages
         /\ calls[c].via = "login" /\ calls'[c].via = "login"
         /\ calls'[c].op = calls[c].op /\ calls'[c].begun = calls[c].begun
<1>0. /\ calls \in [Clients -> CallRecord] /\ clock \in Time /\ made \in KeyIds /\ made <= made
      /\ clock <= clock /\ Shaped(c) /\ calls[c] \in CallRecord
  BY DEF CallsOK, KeysOK, KeyIds, Time
<1>1. OidcStages \cup LdapStages \cup {"ok", "denied", "failed"} \subseteq Stages
  BY DEF Ended, Stages
<1>2. /\ LoginFrame /\ ncalls' = ncalls /\ calls[c].at \in OidcStages \cup LdapStages
  BY DEF Deciding, Exchange, VerifyIDToken, fetchJWKS, FetchAnswer, FetchFails, StoreKeys, findUserDN,
         Authenticate, findGroups, DirectoryFails, At, OidcStages, LdapStages
<1>3. UNCHANGED <<clock, made>>
  BY <1>2 DEF LoginFrame
<1>4. SUFFICES /\ calls' \in [Clients -> CallRecord] /\ Alone(c)
               /\ \/ calls'[c].at \in {"ok", "denied", "failed"}
                  \/ calls[c].at \in OidcStages /\ calls'[c].at \in OidcStages
                  \/ calls[c].at \in LdapStages /\ calls'[c].at \in LdapStages
               /\ calls'[c].via = calls[c].via /\ calls'[c].op = calls[c].op
               /\ calls'[c].begun = calls[c].begun
  <2>1. calls[c].via = "login" /\ calls[c].op \in {"oidc", "ldap"}
    BY <1>0, <1>2 DEF Shaped
  <2>2. Shaped(c)'
    BY <1>0, <1>2, <1>3, <1>4, <2>1 DEF Shaped, Behind, AdminOps, OidcStages, LdapStages
  <2>3. CallsOK'
    BY <1>0, <1>3, <1>4, <2>2, OneCall
  <2> QED BY <1>2, <1>4, <2>1, <2>3
<1>5. ASSUME NEW s \in Stages, Goto(c, s),
             \/ s \in {"ok", "denied", "failed"}
             \/ calls[c].at \in OidcStages /\ s \in OidcStages
             \/ calls[c].at \in LdapStages /\ s \in LdapStages
      PROVE  /\ calls' \in [Clients -> CallRecord] /\ Alone(c)
             /\ \/ calls'[c].at \in {"ok", "denied", "failed"}
                \/ calls[c].at \in OidcStages /\ calls'[c].at \in OidcStages
                \/ calls[c].at \in LdapStages /\ calls'[c].at \in LdapStages
             /\ calls'[c].via = calls[c].via /\ calls'[c].op = calls[c].op
             /\ calls'[c].begun = calls[c].begun
  BY <1>0, <1>5, GotoEffect DEF Kept
<1>6. idp.gen \in Nat /\ clock \in Int /\ FetchTimeout \in Int /\ TokenLives \subseteq Int
  BY <1>0, IdentityAssumption DEF LoginsOK, Time
<1>7. CASE Exchange(c)
  <2>1. calls[c].at \in OidcStages /\ "claims" \in OidcStages /\ "claims" \in Stages /\ "failed" \in Stages
    BY <1>7 DEF Exchange, At, OidcStages, Stages, Ended
  <2>2. CASE Goto(c, "failed")
    BY <1>5, <2>1, <2>2
  <2>3. CASE \E life \in TokenLives : Issued(c, "claims", idp.gen, WholeSecond(clock + life))
    <3>1. PICK life \in TokenLives : Issued(c, "claims", idp.gen, WholeSecond(clock + life))
      BY <2>3
    <3>2. WholeSecond(clock + life) \in Int
      <4>1. clock + life \in Int
        BY <1>6
      <4> QED BY <4>1, SecondsCut
    <3> QED BY <1>0, <1>6, <2>1, <3>1, <3>2, IssuedEffect
  <2>4. (\E life \in TokenLives : Issued(c, "claims", idp.gen, WholeSecond(clock + life))) \/ Goto(c, "failed")
    BY <1>7 DEF Exchange, Issued
  <2> QED BY <2>2, <2>3, <2>4
<1>8. CASE VerifyIDToken(c)
  <2>1. (Goto(c, "jwks") /\ calls[c].at \in OidcStages) \/ Goto(c, "failed")
    BY <1>8 DEF VerifyIDToken, At, OidcStages
  <2> QED BY <1>1, <1>5, <2>1 DEF OidcStages
<1>9. CASE fetchJWKS(c) \/ StoreKeys(c)
  <2>1. \/ \E s \in {"ok", "denied"} : Stamped(c, s, clock)
        \/ Sent(c, "fetch", clock + FetchTimeout)
    BY <1>9 DEF fetchJWKS, StoreKeys, verifySignatureWithKeys, Stamped, Sent
  <2>2. calls[c].at \in OidcStages /\ "fetch" \in OidcStages /\ clock + FetchTimeout \in Int
    BY <1>6, <1>9 DEF fetchJWKS, StoreKeys, At, OidcStages
  <2>3. CASE \E s \in {"ok", "denied"} : Stamped(c, s, clock)
    BY <1>0, <1>1, <1>6, <2>3, StampedEffect
  <2>4. CASE Sent(c, "fetch", clock + FetchTimeout)
    BY <1>0, <1>1, <2>2, <2>4, SentEffect
  <2> QED BY <2>1, <2>3, <2>4
<1>10. CASE FetchAnswer(c)
  <2>1. Answered(c, "store", idp.gen)
    BY <1>10 DEF FetchAnswer, Answered
  <2>2. calls[c].at \in OidcStages /\ "store" \in OidcStages
    BY <1>10 DEF FetchAnswer, At, OidcStages
  <2> QED BY <1>0, <1>1, <1>6, <2>1, <2>2, AnsweredEffect
<1>11. CASE FetchFails(c) \/ DirectoryFails(c)
  <2>1. Goto(c, "failed")
    BY <1>11 DEF FetchFails, DirectoryFails
  <2> QED BY <1>1, <1>5, <2>1
<1>12. CASE findUserDN(c) \/ Authenticate(c)
  <2>1. Goto(c, "failed") \/ ((Goto(c, "bind") \/ Goto(c, "groups")) /\ calls[c].at \in LdapStages)
    BY <1>12 DEF findUserDN, Authenticate, At, LdapStages
  <2> QED BY <1>1, <1>5, <2>1 DEF LdapStages
<1>13. CASE findGroups(c)
  <2>1. Answered(c, "ok", account)
    BY <1>13 DEF findGroups, Answered
  <2>2. account \in Int \cup Accounts \cup {None}
    BY DEF LoginsOK
  <2> QED BY <1>0, <1>1, <2>1, <2>2, AnsweredEffect
<1> QED BY <1>7, <1>8, <1>9, <1>10, <1>11, <1>12, <1>13 DEF Deciding

\* Every step is one of a call, of the provider or the directory, of the clock,
\* or a restart.
LEMMA Steps ==
  ASSUME Next
  PROVE  /\ \/ \E c \in Clients : Beginning(c) /\ UNCHANGED <<idp, account, changes, provider, keyCache>>
            \/ \E c \in Clients : Handling(c) /\ UNCHANGED <<idp, account, changes, provider, keyCache>>
            \/ \E c \in Clients : Deciding(c)
            \/ ChangeKey \/ ChangeAccount \/ Tick \/ Restart
         /\ ObserveKeys /\ ObserveAccount
<1>1. ASSUME NEW c \in Clients, Call(c), UNCHANGED <<idp, account, changes, provider, keyCache>>
      PROVE  (Beginning(c) \/ Handling(c)) /\ UNCHANGED <<idp, account, changes, provider, keyCache>>
  BY <1>1 DEF Call, Beginning, Handling
<1>2. ASSUME NEW c \in Clients, Login(c)
      PROVE  (Beginning(c) /\ UNCHANGED <<idp, account, changes, provider, keyCache>>) \/ Deciding(c)
  BY <1>2 DEF Login, Beginning, Deciding, handleOIDCCallback, handleLDAPAuth
<1> QED BY <1>1, <1>2 DEF Next

LEMMA NoCallFacts ==
  /\ NoCall.via = "none" /\ NoCall.op = "none" /\ NoCall.at = "idle" /\ NoCall.key = None
  /\ NoCall.begun = 0 /\ NoCall \in CallRecord
<1>1. "idle" \in Stages /\ 0 \in Time
  BY AccessAssumption DEF Stages, Ended, Time
<1> QED BY <1>1 DEF NoCall, NoSecret, CallRecord

LEMMA CallsKept ==
  ASSUME CallsOK, KeysOK, LoginsOK, Next
  PROVE  CallsOK'
<1>1. ASSUME NEW c \in Clients, Beginning(c) PROVE CallsOK'
  BY <1>1, BeginShaped
<1>2. ASSUME NEW c \in Clients, Handling(c) PROVE CallsOK'
  BY <1>2, HandlingShaped DEF Handled
<1>3. ASSUME NEW c \in Clients, Deciding(c) PROVE CallsOK'
  BY <1>3, DecidingShaped
<1>4. CASE ChangeKey \/ ChangeAccount
  BY <1>4 DEF ChangeKey, ChangeAccount, accessVars, CallsOK, Shaped
<1>5. CASE Tick
  <2>1. clock' = clock + 1 /\ calls' = calls /\ made' = made
    BY <1>5 DEF Tick, TickClock
  <2>2. \A c \in Clients : calls[c].begun <= clock => calls[c].begun <= clock'
    BY <2>1 DEF CallsOK, CallRecord, KeysOK, Time
  <2> QED BY <2>1, <2>2 DEF CallsOK, Shaped
<1>6. CASE Restart
  <2>1. calls' = [c \in Clients |-> NoCall] /\ clock' = clock
    BY <1>6 DEF Restart, RestartServer
  <2>2. 0 <= clock
    BY DEF KeysOK, Time
  <2>3. ASSUME NEW c \in Clients PROVE Shaped(c)'
    BY <2>1, <2>2, NoCallFacts DEF Shaped, Behind, AdminOps, OidcStages, LdapStages
  <2> QED BY <2>1, <2>3, NoCallFacts DEF CallsOK
<1> QED BY <1>1, <1>2, <1>3, <1>4, <1>5, <1>6, Steps

-----------------------------------------------------------------------------
(* Keys *)

LEMMA MadeKey ==
  ASSUME KeysOK, NEW rec \in Identities, CreateKey(rec)
  PROVE  /\ keys' \in [KeyIds -> Identities \cup {None}] /\ made' \in KeyIds /\ made' = made + 1
         /\ made < MaxKeys /\ made + 1 \in KeyIds /\ keys'[made + 1] = rec /\ keys[made + 1] = None
         /\ \A k \in KeyIds : k # made + 1 => keys'[k] = keys[k]
         /\ \A k \in KeyIds : keys'[k] # None => k <= made'
         /\ given' = given \cup {rec} /\ signing' \in [KeyIds -> Nat]
<1>1. made \in Nat /\ made < MaxKeys /\ made' = made + 1 /\ given' = given \cup {rec}
  BY DEF CreateKey, KeysOK, KeyIds
<1>2. made + 1 \in KeyIds /\ ~(made + 1 <= made)
  BY <1>1, AccessAssumption DEF KeyIds
<1>3. keys' = [keys EXCEPT ![made + 1] = rec]
  BY DEF CreateKey
<1>4. \A k \in KeyIds : k <= made => k <= made'
  BY <1>1 DEF KeyIds
<1>5. signing' = [signing EXCEPT ![made + 1] = made + 1] /\ made + 1 \in Nat
  BY <1>1 DEF CreateKey
<1> QED BY <1>1, <1>2, <1>3, <1>4, <1>5 DEF KeysOK

LEMMA DeletedKey ==
  ASSUME KeysOK, NEW t \in KeyIds, DeleteKey(t), made' = made
  PROVE  /\ keys' \in [KeyIds -> Identities \cup {None}] /\ keys'[t] = None
         /\ \A k \in KeyIds : k # t => keys'[k] = keys[k]
         /\ \A k \in KeyIds : keys'[k] # None => k <= made'
         /\ signing' = signing
BY DEF DeleteKey, KeysOK

\* What presign hands out.
LEMMA GeneratedURL ==
  ASSUME KeysOK, NEW k \in KeyIds, NEW life \in 1..MaxExpiry
  PROVE  LET u == GeneratePresignedURL(k, life)
         IN u \in Urls /\ Announces(u.stamp, u.expires, u.until)
<1> DEFINE stamp == WholeSecond(clock)
           expires == life * Second
           until == clock + life * Second
<1>1. clock \in Nat /\ clock <= MaxClock /\ MaxClock \in Nat /\ Second \in Nat
  BY AccessAssumption DEF KeysOK, Time
<1>2. stamp \in Int /\ stamp <= clock /\ clock < stamp + Second /\ stamp >= 0
  BY <1>1, SecondsCut
<1>3. expires \in Nat /\ until = clock + expires
  BY <1>1, AccessAssumption
<1> HIDE DEF stamp, until
<1>4. stamp \in Time /\ expires \in {s * Second : s \in 1..MaxExpiry}
  BY <1>1, <1>2 DEF Time
<1>5. signing[k] \in Nat
  BY DEF KeysOK
<1> HIDE DEF expires
<1>6. until \in Nat /\ stamp + expires <= until /\ until < stamp + expires + Second
  BY <1>1, <1>2, <1>3
<1>7. GeneratePresignedURL(k, life) =
        [key |-> k, signer |-> signing[k], stamp |-> stamp, expires |-> expires, until |-> until]
  BY DEF GeneratePresignedURL, stamp, expires, until
<1> QED BY <1>4, <1>5, <1>6, <1>7 DEF Urls, Announces

LEMMA HandlingKeys ==
  ASSUME CallsOK, KeysOK, NEW c \in Clients, Handling(c)
  PROVE  KeysOK'
<1>0. /\ Shaped(c) /\ calls[c] \in CallRecord /\ made \in KeyIds /\ clock \in Time
      /\ UserKey \in Identities
  BY DEF CallsOK, KeysOK, UserKey, Identities
<1>1. CASE AuthLookup(c) \/ AuthVerify(c) \/ RateLimit(c) \/ list(c)
  <2>1. UNCHANGED <<clock, keys, signing, made, urls, ncalls, restarts, given, dropped>>
    BY <1>1 DEF AuthLookup, AuthVerify, RateLimit, list
  <2> QED BY <2>1 DEF KeysOK
<1>2. CASE create(c) \/ rotateCreate(c)
  <2>1. PICK rec \in Identities : CreateKey(rec)
    <3>1. CASE create(c)
      BY <1>0, <3>1 DEF create
    <3>2. CASE rotateCreate(c)
      BY <1>0, <3>2 DEF rotateCreate, At, Shaped, CallRecord
    <3> QED BY <1>2, <3>1, <3>2
  <2>2. UNCHANGED <<clock, urls, ncalls, restarts, dropped>>
    BY <1>2 DEF create, rotateCreate
  <2>3. made' > 1
    BY <1>0, <2>1, MadeKey DEF KeysOK, KeyIds
  <2> QED BY <2>1, <2>2, <2>3, MadeKey DEF KeysOK
<1>3. CASE delete(c) \/ rotateDelete(c)
  <2>1. calls[c].arg \in KeyIds
    BY <1>0, <1>3, AccessAssumption DEF delete, rotateDelete, At, Shaped, AdminOps, KeyIds
  <2>2. /\ DeleteKey(calls[c].arg) /\ UNCHANGED <<clock, made, urls, ncalls, restarts, given>>
        /\ \/ dropped' = dropped
           \/ keys[calls[c].arg] # None /\ dropped' = dropped \cup {keys[calls[c].arg]}
    BY <1>3 DEF delete, rotateDelete
  <2>3. dropped' \subseteq Identities
    BY <2>1, <2>2 DEF KeysOK
  <2> QED BY <2>1, <2>2, <2>3, DeletedKey DEF KeysOK
<1>4. CASE presign(c)
  <2>1. UNCHANGED <<clock, keys, signing, made, ncalls, restarts, given, dropped>>
    BY <1>4 DEF presign
  <2>2. calls[c].key \in KeyIds
    BY <1>0, <1>4 DEF presign, At, Shaped, Behind, AdminOps
  <2>3. PICK life \in 1..MaxExpiry :
          urls' = urls \/ urls' = urls \cup {GeneratePresignedURL(calls[c].key, life)}
    BY <1>4, AccessAssumption DEF presign
  <2> DEFINE u == GeneratePresignedURL(calls[c].key, life)
  <2>4. u \in Urls /\ Announces(u.stamp, u.expires, u.until)
    BY <2>2, GeneratedURL
  <2> HIDE DEF u
  <2>5. urls' \subseteq urls \cup {u}
    BY <2>3 DEF u
  <2> QED BY <2>1, <2>4, <2>5 DEF KeysOK
<1>5. CASE rotateLookup(c)
  BY <1>5 DEF rotateLookup, KeysOK
<1>6. CASE StoreFails(c)
  <2>1. UNCHANGED <<clock, keys, signing, made, urls, ncalls, restarts, given>>
    BY <1>6 DEF StoreFails
  <2>2. dropped' = dropped \/ (dropped' = dropped \cup {calls[c].rec} /\ calls[c].rec \in Identities)
    BY <1>0, <1>6 DEF StoreFails, At, Shaped, CallRecord
  <2> QED BY <2>1, <2>2 DEF KeysOK
<1> QED BY <1>1, <1>2, <1>3, <1>4, <1>5, <1>6 DEF Handling

LEMMA KeysKept ==
  ASSUME CallsOK, KeysOK, LoginsOK, Next
  PROVE  KeysOK'
<1>1. ASSUME NEW c \in Clients, Beginning(c) PROVE KeysOK'
  <2>1. /\ UNCHANGED <<clock, keys, signing, made, urls, restarts, given, dropped>>
        /\ ncalls' = ncalls + 1 /\ ncalls < MaxCalls
    BY <1>1, BeginShaped
  <2>2. ncalls' \in 0..MaxCalls
    BY <2>1, AccessAssumption DEF KeysOK
  <2> QED BY <2>1, <2>2 DEF KeysOK
<1>2. ASSUME NEW c \in Clients, Handling(c) PROVE KeysOK'
  BY <1>2, HandlingKeys
<1>3. ASSUME NEW c \in Clients, Deciding(c) PROVE KeysOK'
  BY <1>3, DecidingShaped DEF LoginFrame, KeysOK
<1>4. CASE ChangeKey \/ ChangeAccount
  BY <1>4 DEF ChangeKey, ChangeAccount, accessVars, KeysOK
<1>5. CASE Tick
  <2>1. clock' \in Time
    BY <1>5, AccessAssumption DEF Tick, TickClock, KeysOK, Time
  <2>2. UNCHANGED <<keys, signing, made, urls, ncalls, restarts, given, dropped>>
    BY <1>5 DEF Tick, TickClock
  <2> QED BY <2>1, <2>2 DEF KeysOK
<1>6. CASE Restart
  <2>1. /\ restarts' = restarts - 1 /\ restarts > 0 /\ UNCHANGED <<clock, made, urls, ncalls, given>>
        /\ \/ UNCHANGED <<keys, signing>>
           \/ \E secret \in RootSecrets : UpsertKey(secret)
        /\ dropped' \subseteq dropped \cup {calls[c].rec : c \in {d \in Clients : At(d, "rotateCreate")}}
    BY <1>6 DEF Restart, RestartServer
  <2>2. restarts' \in 0..MaxRestarts /\ 1 \in KeyIds /\ 1 <= made
    BY <2>1, AccessAssumption DEF KeysOK, KeyIds
  <2>3. \A c \in Clients : At(c, "rotateCreate") => calls[c].rec \in Identities
    BY DEF CallsOK, Shaped, CallRecord, At
  <2>4. dropped' \subseteq Identities
    BY <2>1, <2>3 DEF KeysOK
  <2>5. RootKey \in Identities
    BY DEF RootKey, Identities
  <2>6. /\ keys' \in [KeyIds -> Identities \cup {None}] /\ signing' \in [KeyIds -> Nat]
        /\ \A k \in KeyIds : keys'[k] # None => k <= made
    <3>1. ASSUME NEW secret \in RootSecrets, UpsertKey(secret)
          PROVE  /\ keys' \in [KeyIds -> Identities \cup {None}] /\ signing' \in [KeyIds -> Nat]
                 /\ \A k \in KeyIds : keys'[k] # None => k <= made
      BY <2>2, <2>5, <3>1, AccessAssumption DEF KeysOK, UpsertKey
    <3> QED BY <2>1, <3>1 DEF KeysOK
  <2> QED BY <2>1, <2>2, <2>4, <2>6 DEF KeysOK
<1> QED BY <1>1, <1>2, <1>3, <1>4, <1>5, <1>6, Steps

-----------------------------------------------------------------------------
(* Buckets *)

\* What a bucket holds is between nothing and its capacity.
LEMMA FilledBounds ==
  ASSUME KeysOK, BucketsOK, NEW l \in Limiters
  PROVE  /\ Filled(l) \in 0..(Rps * Second) /\ Rps * Second \in Nat
         /\ buckets[l] # None =>
              Filled(l) <= buckets[l].tokens + (clock - buckets[l].lastFill) * Rps
<1>1. Rps * Second \in Nat
  BY AccessAssumption
<1>2. CASE buckets[l] = None
  BY <1>1, <1>2 DEF Filled
<1>3. CASE buckets[l] # None
  <2>1. /\ buckets[l].tokens \in 0..(Rps * Second)
        /\ buckets[l].lastFill \in Int /\ buckets[l].lastFill <= clock /\ clock \in Int
    BY <1>3 DEF BucketsOK, KeysOK, Bucket, Time
  <2> DEFINE e == clock - buckets[l].lastFill
  <2>2. e \in Nat
    BY <2>1
  <2> HIDE DEF e
  <2>3. e * Rps \in Nat
    BY <2>2, AccessAssumption
  <2> DEFINE p == e * Rps
             full == Rps * Second
             t == buckets[l].tokens
  <2>4. Filled(l) = IF t + p > full THEN full ELSE t + p
    BY <1>3 DEF Filled, e
  <2>5. full \in Nat /\ p \in Nat /\ t \in 0..full
    BY <1>1, <2>1, <2>3
  <2> HIDE DEF full, p, t
  <2>6. Filled(l) \in 0..full /\ Filled(l) <= t + p
    BY <2>4, <2>5
  <2> QED BY <1>1, <2>6 DEF full, p, t, e
<1> QED BY <1>2, <1>3

\* The limiter that a call asks.
LimiterOf(c) == IF At(c, "address") THEN 0 ELSE calls[c].key

LEMMA RateLimitBuckets ==
  ASSUME CallsOK, KeysOK, BucketsOK, NEW c \in Clients, RateLimit(c)
  PROVE  /\ clock' = clock /\ LimiterOf(c) \in Limiters
         /\ UNCHANGED <<buckets, passed>> \/ TakeToken(LimiterOf(c))
<1>1. CallsOK /\ calls[c].at \in {"address", "limitKey"} /\ clock' = clock
  BY DEF RateLimit
<1>2. LimiterOf(c) \in Limiters
  BY <1>1, AccessAssumption DEF CallsOK, Shaped, LimiterOf, At, Limiters, KeyIds, Behind
<1> QED BY <1>1, <1>2 DEF RateLimit, LimiterOf

LEMMA TokenTaken ==
  ASSUME KeysOK, BucketsOK, NEW l \in Limiters, TakeToken(l)
  PROVE  /\ buckets' \in [Limiters -> Bucket \cup {None}] /\ passed' \in [Limiters -> Seq(Time)]
         /\ buckets'[l] # None /\ buckets'[l].lastFill = clock
         /\ buckets'[l].tokens = IF allow(l) THEN Filled(l) - Second ELSE Filled(l)
         /\ passed'[l] = IF allow(l) THEN Append(passed[l], clock) ELSE passed[l]
         /\ \A m \in Limiters : m # l => buckets'[m] = buckets[m] /\ passed'[m] = passed[m]
<1> DEFINE t == IF allow(l) THEN Filled(l) - Second ELSE Filled(l)
           b == [tokens |-> t, lastFill |-> clock]
<1>1. t \in 0..(Rps * Second)
  BY FilledBounds, AccessAssumption DEF allow
<1>2. buckets' = [buckets EXCEPT ![l] = b]
  BY DEF TakeToken
<1>3. clock \in Time
  BY DEF KeysOK
<1> HIDE DEF t
<1>4. b \in Bucket /\ b.tokens = t /\ b.lastFill = clock
  BY <1>1, <1>3 DEF Bucket
<1>5. b # None
  <2>1. Rps * Second \in Nat
    BY AccessAssumption
  <2>2. t \in Nat
    BY <1>1, <2>1
  <2> QED BY <1>3, <2>2, NoneAssumption
<1> HIDE DEF b
<1>6. /\ buckets' \in [Limiters -> Bucket \cup {None}] /\ buckets'[l] = b
      /\ \A m \in Limiters : m # l => buckets'[m] = buckets[m]
  BY <1>2, <1>4 DEF BucketsOK
<1>7. /\ passed' \in [Limiters -> Seq(Time)]
      /\ passed'[l] = IF allow(l) THEN Append(passed[l], clock) ELSE passed[l]
      /\ \A m \in Limiters : m # l => passed'[m] = passed[m]
  <2>1. CASE allow(l)
    <3>1. passed' = [passed EXCEPT ![l] = Append(passed[l], clock)]
      BY <2>1 DEF TakeToken, BucketsOK
    <3>2. Append(passed[l], clock) \in Seq(Time)
      BY <1>3 DEF BucketsOK
    <3> QED BY <2>1, <3>1, <3>2 DEF BucketsOK
  <2>2. CASE ~allow(l)
    BY <2>2 DEF TakeToken, BucketsOK
  <2> QED BY <2>1, <2>2
<1> QED BY <1>4, <1>5, <1>6, <1>7 DEF t

\* Only the limiter and a restart touch the buckets.
LEMMA BucketSteps ==
  ASSUME CallsOK, KeysOK, LoginsOK, BucketsOK, Next
  PROVE  \/ UNCHANGED <<buckets, passed>> /\ clock' \in Time /\ clock <= clock'
         \/ clock' = clock /\ \E l \in Limiters : TakeToken(l)
         \/ clock' = clock /\ buckets' = [l \in Limiters |-> None] /\ passed' = [l \in Limiters |-> <<>>]
<1>0. clock \in Time /\ clock <= clock
  BY DEF KeysOK, Time
<1>1. ASSUME NEW c \in Clients, Beginning(c) PROVE UNCHANGED <<clock, buckets, passed>>
  BY <1>1, BeginShaped
<1>2. ASSUME NEW c \in Clients, Handling(c)
      PROVE  \/ UNCHANGED <<clock, buckets, passed>>
             \/ clock' = clock /\ \E l \in Limiters : TakeToken(l)
  <2>1. CASE RateLimit(c)
    BY <2>1, RateLimitBuckets
  <2>2. CASE ~RateLimit(c)
    BY <1>2, <2>2 DEF Handling, AuthLookup, AuthVerify, create, list, delete, presign, rotateLookup,
                      rotateDelete, rotateCreate, StoreFails
  <2> QED BY <2>1, <2>2
<1>3. ASSUME NEW c \in Clients, Deciding(c) PROVE UNCHANGED <<clock, buckets, passed>>
  BY <1>3, DecidingShaped DEF LoginFrame
<1>4. CASE ChangeKey \/ ChangeAccount
  BY <1>0, <1>4 DEF ChangeKey, ChangeAccount, accessVars
<1>5. CASE Tick
  BY <1>0, <1>5, AccessAssumption DEF Tick, TickClock, Time
<1>6. CASE Restart
  BY <1>6 DEF Restart, RestartServer
<1> QED BY <1>0, <1>1, <1>2, <1>3, <1>4, <1>5, <1>6, Steps

LEMMA BucketsKept ==
  ASSUME CallsOK, KeysOK, LoginsOK, BucketsOK, Next
  PROVE  BucketsOK'
<1>1. CASE UNCHANGED <<buckets, passed>> /\ clock' \in Time /\ clock <= clock'
  <2>1. \A l \in Limiters : buckets[l] # None => buckets[l].lastFill <= clock'
    BY <1>1 DEF BucketsOK, KeysOK, Bucket, Time
  <2> QED BY <1>1, <2>1 DEF BucketsOK
<1>2. ASSUME clock' = clock, NEW l \in Limiters, TakeToken(l) PROVE BucketsOK'
  <2>1. clock <= clock
    BY DEF KeysOK, Time
  <2> QED BY <1>2, <2>1, TokenTaken DEF BucketsOK
<1>3. CASE clock' = clock /\ buckets' = [l \in Limiters |-> None] /\ passed' = [l \in Limiters |-> <<>>]
  <2>1. <<>> \in Seq(Time)
    OBVIOUS
  <2> QED BY <1>3, <2>1 DEF BucketsOK
<1> QED BY <1>1, <1>2, <1>3, BucketSteps

-----------------------------------------------------------------------------
(* Logins *)

\* The provider, the directory and the cache change only with a step of theirs.
LEMMA LoginQuiet ==
  ASSUME CallsOK, KeysOK, LoginsOK, NEW c \in Clients, Beginning(c) \/ Handling(c)
  PROVE  /\ calls'[c].at # "store" /\ calls'[c].at # "fetch" /\ Alone(c) /\ clock' = clock
<1>1. CASE Beginning(c)
  BY <1>1, BeginShaped
<1>2. CASE Handling(c)
  BY <1>2, HandlingShaped DEF Handled, Behind, AdminOps
<1> QED BY <1>1, <1>2

\* An answer from the provider is put into the cache.
LEMMA StoreKeysEffect ==
  ASSUME LoginsOK, KeysOK, NEW c \in Clients, StoreKeys(c)
  PROVE  /\ keyCache' \in Cache /\ keyCache' # None /\ keyCache'.gen = calls[c].arg
         /\ keyCache'.fetchedAt = clock /\ idp' = idp /\ account' = account
<1>1. calls[c].arg \in Nat /\ clock \in Time
  BY DEF LoginsOK, KeysOK, StoreKeys, At
<1>2. keyCache' = [gen |-> calls[c].arg, fetchedAt |-> clock]
  BY DEF StoreKeys
<1>3. [gen |-> calls[c].arg, fetchedAt |-> clock] # None
  BY <1>1, IdentityAssumption
<1>4. idp' = idp /\ account' = account
  BY DEF StoreKeys
<1> QED BY <1>1, <1>2, <1>3, <1>4 DEF Cache

LEMMA LoginsKept ==
  ASSUME CallsOK, KeysOK, LoginsOK, Next
  PROVE  LoginsOK'
<1>0. clock \in Time /\ clock \in Int /\ clock <= clock /\ idp.gen \in Nat /\ idp.gen <= idp.gen
  BY DEF KeysOK, LoginsOK, Time
<1>1. ASSUME NEW c \in Clients, Beginning(c) \/ Handling(c),
             UNCHANGED <<idp, account, changes, provider, keyCache>>
      PROVE  LoginsOK'
  <2>1. calls'[c].at # "store" /\ Alone(c) /\ clock' = clock
    BY <1>1, LoginQuiet
  <2> QED BY <1>1, <2>1 DEF LoginsOK, Alone
<1>2. ASSUME NEW c \in Clients, Deciding(c) PROVE LoginsOK'
  <2>1. Alone(c) /\ clock' = clock /\ idp' = idp /\ account' = account
    <3>1. idp' = idp /\ account' = account
      BY <1>2 DEF Deciding, Exchange, VerifyIDToken, fetchJWKS, FetchAnswer, FetchFails, StoreKeys,
                  findUserDN, Authenticate, findGroups, DirectoryFails
    <3> QED BY <1>2, <3>1, DecidingShaped DEF LoginFrame
  <2>2. calls'[c].at = "store" => calls'[c].arg \in Nat /\ calls'[c].arg <= idp.gen
    <3>1. CASE FetchAnswer(c)
      <4>1. Answered(c, "store", idp.gen)
        BY <3>1 DEF FetchAnswer, Answered
      <4>2. "store" \in Stages /\ idp.gen \in Int \cup Accounts \cup {None}
        BY <1>0 DEF Stages, OidcStages
      <4> QED BY <1>0, <4>1, <4>2, AnsweredEffect DEF CallsOK
    <3>2. CASE Exchange(c)
      <4>1. (\E life \in TokenLives : Issued(c, "claims", idp.gen, WholeSecond(clock + life))) \/ Goto(c, "failed")
        BY <3>2 DEF Exchange, Issued
      <4>2. {"claims", "failed"} \subseteq Stages /\ \A life \in TokenLives : WholeSecond(clock + life) \in Int
        <5>1. \A life \in TokenLives : clock + life \in Int
          BY <1>0, IdentityAssumption
        <5> QED BY <5>1, SecondsCut DEF Stages, OidcStages, Ended
      <4>3. CASE Goto(c, "failed")
        BY <4>2, <4>3, GotoEffect DEF CallsOK
      <4>4. ASSUME NEW life \in TokenLives, Issued(c, "claims", idp.gen, WholeSecond(clock + life))
            PROVE  calls'[c].at = "claims"
        BY <1>0, <4>2, <4>4, IssuedEffect DEF CallsOK
      <4> QED BY <4>1, <4>3, <4>4
    <3>3. CASE VerifyIDToken(c) \/ FetchFails(c) \/ findUserDN(c) \/ Authenticate(c) \/ DirectoryFails(c)
      <4>1. PICK s \in {"jwks", "failed", "bind", "groups"} : Goto(c, s)
        BY <3>3 DEF VerifyIDToken, FetchFails, findUserDN, Authenticate, DirectoryFails
      <4>2. s \in Stages
        BY DEF Stages, Ended, OidcStages, LdapStages
      <4> QED BY <4>1, <4>2, GotoEffect DEF CallsOK
    <3>4. CASE fetchJWKS(c) \/ StoreKeys(c)
      <4>1. \/ \E s \in {"ok", "denied"} : Stamped(c, s, clock)
            \/ Sent(c, "fetch", clock + FetchTimeout)
        BY <3>4 DEF fetchJWKS, StoreKeys, verifySignatureWithKeys, Stamped, Sent
      <4>2. {"ok", "denied", "fetch"} \subseteq Stages /\ clock + FetchTimeout \in Int
        BY <1>0, IdentityAssumption DEF Stages, Ended, OidcStages
      <4>3. CASE Sent(c, "fetch", clock + FetchTimeout)
        BY <4>2, <4>3, SentEffect DEF CallsOK
      <4>4. ASSUME NEW s \in {"ok", "denied"}, Stamped(c, s, clock) PROVE calls'[c].at = s
        BY <1>0, <4>2, <4>4, StampedEffect DEF CallsOK
      <4> QED BY <4>1, <4>3, <4>4
    <3>5. CASE findGroups(c)
      <4>1. Answered(c, "ok", account)
        BY <3>5 DEF findGroups, Answered
      <4>2. "ok" \in Stages /\ account \in Int \cup Accounts \cup {None}
        BY DEF Stages, Ended, LoginsOK
      <4> QED BY <4>1, <4>2, AnsweredEffect DEF CallsOK
    <3> QED BY <1>2, <3>1, <3>2, <3>3, <3>4, <3>5 DEF Deciding
  <2>3. /\ keyCache' \in Cache \cup {None}
        /\ keyCache' # None => keyCache'.gen <= idp.gen /\ keyCache'.fetchedAt <= clock
    <3>1. CASE StoreKeys(c)
      <4>1. calls[c].arg <= idp.gen
        BY <3>1 DEF LoginsOK, StoreKeys, At
      <4> QED BY <1>0, <3>1, <4>1, StoreKeysEffect
    <3>2. CASE ~StoreKeys(c)
      <4>1. keyCache' = keyCache
        BY <1>2, <3>2 DEF Deciding, Exchange, VerifyIDToken, fetchJWKS, FetchAnswer, FetchFails,
                          findUserDN, Authenticate, findGroups, DirectoryFails
      <4> QED BY <4>1 DEF LoginsOK
    <3> QED BY <3>1, <3>2
  <2> QED BY <2>1, <2>2, <2>3 DEF LoginsOK, Alone
<1>3. CASE ChangeKey
  <2>1. /\ idp' = [gen |-> idp.gen + 1, changed |-> clock]
        /\ UNCHANGED <<clock, calls, account, keyCache>>
    BY <1>3 DEF ChangeKey, accessVars
  <2>2. idp' \in [gen : Nat, changed : Time] /\ idp'.gen = idp.gen + 1 /\ idp'.changed = clock
    BY <1>0, <2>1
  <2>3. \A n \in Nat : n <= idp.gen => n <= idp'.gen
    BY <1>0, <2>2
  <2>4. keyCache # None => keyCache.gen \in Nat
    BY DEF LoginsOK, Cache
  <2> QED BY <1>0, <2>1, <2>2, <2>3, <2>4 DEF LoginsOK
<1>4. CASE ChangeAccount
  BY <1>4 DEF ChangeAccount, accessVars, LoginsOK
<1>5. CASE Tick
  <2>1. clock' = clock + 1 /\ UNCHANGED <<calls, idp, account, keyCache>>
    BY <1>5 DEF Tick, TickClock
  <2>2. \A t \in Time : t <= clock => t <= clock'
    BY <1>0, <2>1 DEF Time
  <2> QED BY <2>1, <2>2 DEF LoginsOK, Cache
<1>6. CASE Restart
  <2>1. /\ calls' = [c \in Clients |-> NoCall] /\ UNCHANGED <<clock, idp, account>> /\ keyCache' = None
    BY <1>6 DEF Restart, RestartServer, NewOIDCProvider
  <2> QED BY <2>1, NoCallFacts DEF LoginsOK
<1> QED BY <1>1, <1>2, <1>3, <1>4, <1>5, <1>6, Steps

LEMMA HistoryKept ==
  ASSUME HistoryOK, LoginsOK', ObserveKeys, ObserveAccount
  PROVE  HistoryOK'
<1>2. account' \in Accounts
  BY DEF LoginsOK
<1>3. \A c \in Clients : seen[c] \subseteq Accounts
  BY DEF HistoryOK
<1>4. seen' \in [Clients -> SUBSET Accounts]
  BY <1>2, <1>3 DEF ObserveAccount
<1> QED BY <1>4 DEF HistoryOK

LEMMA InitTyped == Init => Typed
<1> SUFFICES ASSUME Init PROVE Typed
  OBVIOUS
<1>1. CallsOK
  <2>1. calls = [c \in Clients |-> NoCall] /\ clock = 0
    BY DEF Init, InitAccess
  <2>2. ASSUME NEW c \in Clients PROVE Shaped(c)
    BY <2>1, NoCallFacts DEF Shaped, Behind, AdminOps, OidcStages, LdapStages
  <2> QED BY <2>1, <2>2, NoCallFacts DEF CallsOK
<1>2. KeysOK
  <2>1. RootKey \in Identities /\ UserKey \in Identities
    BY DEF RootKey, UserKey, Identities
  <2>2. keys = [k \in KeyIds |-> CASE k = 1 -> RootKey [] k = 2 -> UserKey [] OTHER -> None]
    BY DEF Init, InitAccess
  <2>3. keys \in [KeyIds -> Identities \cup {None}]
    BY <2>1, <2>2
  <2>4. \A k \in KeyIds : keys[k] # None => k <= 2
    BY <2>2 DEF KeyIds
  <2>5. /\ clock = 0 /\ made = 2 /\ urls = {} /\ ncalls = 0 /\ restarts = MaxRestarts
        /\ given = {RootKey, UserKey} /\ dropped = {}
    BY DEF Init, InitAccess
  <2>6. signing \in [KeyIds -> Nat]
    BY AccessAssumption DEF Init, InitAccess, KeyIds
  <2>7. 0 \in Time /\ 0 \in 0..MaxCalls /\ MaxRestarts \in 0..MaxRestarts /\ 2 \in KeyIds /\ 2 > 1
    BY AccessAssumption DEF Time, KeyIds
  <2> QED BY <2>1, <2>3, <2>4, <2>5, <2>6, <2>7 DEF KeysOK
<1>3. BucketsOK
  <2>1. Used \in Bucket /\ Used.lastFill = 0
    <3>1. CASE Rps = 0
      BY <3>1, AccessAssumption DEF Used, Bucket, Time
    <3>2. CASE Rps # 0
      <4>1. Rps - 1 \in Nat /\ Second \in Nat
        BY <3>2, AccessAssumption
      <4>2. (Rps - 1) * Second \in Nat
        BY <4>1
      <4>3. (Rps - 1) * Second + Second = Rps * Second
        BY AccessAssumption
      <4>4. (Rps - 1) * Second \in 0..(Rps * Second)
        <5> DEFINE a == (Rps - 1) * Second
                   b == Rps * Second
        <5>1. a \in Nat /\ a + Second = b /\ b \in Nat
          BY <4>1, <4>2, <4>3, AccessAssumption
        <5> HIDE DEF a, b
        <5>2. a \in 0..b
          BY <4>1, <5>1
        <5> QED BY <5>2 DEF a, b
      <4> QED BY <3>2, <4>4, AccessAssumption DEF Used, Bucket, Time
    <3> QED BY <3>1, <3>2
  <2>2. /\ buckets = [l \in Limiters |-> IF l = 0 THEN Used ELSE None] /\ clock = 0
        /\ passed = [l \in Limiters |-> <<>>]
    BY DEF Init, InitAccess
  <2>3. <<>> \in Seq(Time) /\ 0 <= 0
    OBVIOUS
  <2> QED BY <2>1, <2>2, <2>3 DEF BucketsOK
<1>4. LoginsOK
  <2>1. /\ idp = [gen |-> 1, changed |-> 0] /\ account = "member" /\ keyCache = None /\ clock = 0
        /\ calls = [c \in Clients |-> NoCall]
    BY DEF Init, InitAccess
  <2>2. idp \in [gen : Nat, changed : Time] /\ idp.changed <= clock
    BY <2>1, AccessAssumption DEF Time
  <2> QED BY <2>1, <2>2, NoCallFacts DEF LoginsOK, Accounts
<1>5. HistoryOK
  BY DEF Init, InitAccess, HistoryOK
<1> QED BY <1>1, <1>2, <1>3, <1>4, <1>5 DEF Typed

LEMMA TypedKept ==
  ASSUME Typed, [Next]_vars
  PROVE  Typed'
<1>1. CASE Next
  <2>1. ObserveKeys /\ ObserveAccount
    BY <1>1 DEF Next
  <2>2. CallsOK' /\ KeysOK' /\ BucketsOK' /\ LoginsOK'
    BY <1>1, CallsKept, KeysKept, BucketsKept, LoginsKept DEF Typed
  <2>3. HistoryOK'
    BY <2>1, <2>2, HistoryKept DEF Typed
  <2> QED BY <2>2, <2>3 DEF Typed
<1>2. CASE UNCHANGED vars
  BY <1>2 DEF vars, accessVars, idVars, Typed, CallsOK, Shaped, KeysOK, BucketsOK, LoginsOK, HistoryOK
<1> QED BY <1>1, <1>2

\* Every variable of the access control and the logins has its type in every
\* reachable state; no bucket holds more than its capacity, no presigned URL
\* lives longer than allowed, and the cache holds no keys the provider has
\* not yet published.
THEOREM AccessTypeCorrect == Spec => []TypeOK
<1>1. Init => Typed
  BY InitTyped
<1>2. Typed /\ [Next]_vars => Typed'
  BY TypedKept
<1>3. Typed => TypeOK
  BY DEF Typed, KeysOK, BucketsOK, LoginsOK, TypeOK, Bucket
<1> QED BY <1>1, <1>2, <1>3, PTL DEF Spec

-----------------------------------------------------------------------------
(* The limiter *)

\* What one limiter has let pass, in every stretch of time.
Bounded(l) ==
  \A i, j \in DOMAIN passed[l] :
    i <= j => (j - i + 1) * Second <= Rps * Second + Rps * (passed[l][j] - passed[l][i])

Limited == \A l \in Limiters : Drained(l) /\ Bounded(l)

\* Time adds to a bucket what it adds to the allowance.
LEMMA Refill ==
  ASSUME NEW r \in Int, NEW fill \in Int, NEW p \in Int, NEW now \in Int
  PROVE  /\ r * (fill - p) + (now - fill) * r = r * (now - p)
         /\ r * (fill - p) \in Int /\ (now - fill) * r \in Int /\ r * (now - p) \in Int
OBVIOUS

LEMMA OneMore ==
  ASSUME NEW a \in Int, NEW b \in Int
  PROVE  (a + 1) * b = a * b + b
OBVIOUS

\* A bucket that is asked for a token: the requests it let pass, with this one
\* if it does, still fit what it has left.
LEMMA TokenDrains ==
  ASSUME KeysOK, BucketsOK, NEW l \in Limiters, Drained(l), TakeToken(l)
  PROVE  Drained(l)'
<1> DEFINE p == passed[l]
           n == Len(passed[l])
           full == Rps * Second
<1>0. /\ p \in Seq(Time) /\ n \in Nat /\ clock \in Int /\ Second \in Nat /\ Rps \in Nat /\ full \in Nat
      /\ \A i \in 1..n : p[i] \in Int
  BY AccessAssumption DEF BucketsOK, KeysOK, Time
<1>1. /\ buckets'[l] # None /\ buckets'[l].lastFill = clock
      /\ buckets'[l].tokens = IF allow(l) THEN Filled(l) - Second ELSE Filled(l)
      /\ passed'[l] = IF allow(l) THEN Append(passed[l], clock) ELSE passed[l]
  BY TokenTaken
<1>2. Filled(l) \in 0..full
  BY FilledBounds
\* The requests before this one.
<1>3. ASSUME NEW i \in 1..n
      PROVE  p[i] <= clock /\ (n - i + 1) * Second + Filled(l) <= full + Rps * (clock - p[i])
  <2>1. buckets[l] # None
    BY <1>0, <1>3 DEF Drained
  <2>2. /\ buckets[l].tokens \in Int /\ buckets[l].lastFill \in Int /\ buckets[l].lastFill <= clock
    BY <1>0, <2>1 DEF BucketsOK, Bucket, Time
  <2>3. /\ p[i] <= buckets[l].lastFill
        /\ (n - i + 1) * Second + buckets[l].tokens <= full + Rps * (buckets[l].lastFill - p[i])
    BY <2>1 DEF Drained
  <2>4. Filled(l) <= buckets[l].tokens + (clock - buckets[l].lastFill) * Rps
    BY <2>1, FilledBounds
  <2> DEFINE m == (n - i + 1) * Second
  <2>5. m \in Int /\ p[i] \in Int /\ Filled(l) \in Int
    BY <1>0, <1>2
  <2>6. m + Filled(l) <= full + Rps * (clock - p[i])
    <3> DEFINE t == buckets[l].tokens
               x == Rps * (buckets[l].lastFill - p[i])
               y == (clock - buckets[l].lastFill) * Rps
               z == Rps * (clock - p[i])
               f == Filled(l)
    <3>1. x + y = z /\ x \in Int /\ y \in Int /\ z \in Int
      <4> DEFINE v == p[i]
                 fill == buckets[l].lastFill
      <4>1. v \in Int /\ fill \in Int /\ Rps \in Int
        BY <1>0, <2>2, <2>5
      <4> HIDE DEF v, fill
      <4>2. /\ Rps * (fill - v) + (clock - fill) * Rps = Rps * (clock - v)
            /\ Rps * (fill - v) \in Int /\ (clock - fill) * Rps \in Int /\ Rps * (clock - v) \in Int
        BY <1>0, <4>1, Refill
      <4> QED BY <4>2 DEF v, fill
    <3>2. t \in Int /\ f \in Int /\ full \in Int
      BY <1>0, <2>2, <2>5
    <3> HIDE DEF m, full, t, x, y, z, f
    <3>3. m + t <= full + x
      BY <2>3 DEF m, full, t, x
    <3>4. f <= t + y
      BY <2>4 DEF f, t, y
    <3>5. m + f <= full + z
      BY <2>5, <3>1, <3>2, <3>3, <3>4
    <3> QED BY <3>5 DEF f, z
  <2>7. p[i] <= clock
    <3> DEFINE v == p[i]
    <3>1. v <= buckets[l].lastFill /\ v \in Int
      BY <2>3, <2>5
    <3> HIDE DEF v
    <3>2. v <= clock
      BY <1>0, <2>2, <3>1
    <3> QED BY <3>2 DEF v
  <2> QED BY <2>6, <2>7
<1>4. CASE allow(l)
  <2>1. /\ passed'[l] = Append(p, clock) /\ Len(passed'[l]) = n + 1
        /\ \A i \in 1..n : passed'[l][i] = p[i]
        /\ passed'[l][n + 1] = clock
    BY <1>0, <1>1, <1>4
  <2>2. ASSUME NEW i \in 1..(n + 1)
        PROVE  /\ passed'[l][i] <= clock
               /\ ((n + 1) - i + 1) * Second + (Filled(l) - Second) <= full + Rps * (clock - passed'[l][i])
    <3>1. CASE i = n + 1
      <4>1. ((n + 1) - i + 1) * Second = Second /\ Rps * (clock - clock) = 0
        BY <1>0, <3>1
      <4>2. passed'[l][i] = clock
        BY <2>1, <3>1
      <4> DEFINE f == Filled(l)
      <4> HIDE DEF full
      <4>3. Second + (f - Second) <= full + 0
        <5>1. f \in Int /\ f <= full /\ full \in Int /\ Second \in Int
          BY <1>0, <1>2
        <5> HIDE DEF f
        <5> QED BY <5>1
      <4> QED BY <1>0, <4>1, <4>2, <4>3
    <3>2. CASE i # n + 1
      <4>1. i \in 1..n /\ passed'[l][i] = p[i]
        BY <1>0, <2>1, <2>2, <3>2
      <4>2. p[i] <= clock /\ (n - i + 1) * Second + Filled(l) <= full + Rps * (clock - p[i])
        BY <1>3, <4>1
      <4>3. ((n + 1) - i + 1) * Second = (n - i + 1) * Second + Second
        <5>1. n \in Int /\ i \in Int /\ Second \in Int
          BY <1>0
        <5> HIDE DEF p, n, full
        <5>2. n - i + 1 \in Int /\ (n + 1) - i + 1 = (n - i + 1) + 1
          BY <5>1
        <5> QED BY <5>1, <5>2, OneMore
      <4> DEFINE m == (n - i + 1) * Second
                 z == Rps * (clock - p[i])
      <4>4. m \in Int /\ z \in Int /\ m + Filled(l) <= full + z
        BY <1>0, <4>1, <4>2
      <4> HIDE DEF m, z, full
      <4>5. (m + Second) + (Filled(l) - Second) <= full + z
        BY <1>0, <1>2, <4>4
      <4> QED BY <4>1, <4>2, <4>3, <4>5 DEF m, z
    <3> QED BY <3>1, <3>2
  <2>3. buckets'[l].tokens = Filled(l) - Second
    BY <1>1, <1>4
  <2> QED BY <1>1, <2>1, <2>2, <2>3 DEF Drained
<1>5. CASE ~allow(l)
  <2>1. passed'[l] = p /\ buckets'[l].tokens = Filled(l)
    BY <1>1, <1>5
  <2> QED BY <1>1, <1>3, <2>1 DEF Drained
<1> QED BY <1>4, <1>5

LEMMA TokenBounded ==
  ASSUME KeysOK, BucketsOK, NEW l \in Limiters, Bounded(l), Drained(l)', TakeToken(l)
  PROVE  Bounded(l)'
<1> DEFINE p == passed[l]
           n == Len(passed[l])
           full == Rps * Second
<1>0. p \in Seq(Time) /\ n \in Nat /\ clock \in Int /\ full \in Nat /\ Second \in Nat /\ Rps \in Nat
  BY AccessAssumption DEF BucketsOK, KeysOK, Time
<1>1. /\ buckets'[l] # None /\ buckets'[l].lastFill = clock
      /\ buckets'[l].tokens = IF allow(l) THEN Filled(l) - Second ELSE Filled(l)
      /\ passed'[l] = IF allow(l) THEN Append(passed[l], clock) ELSE passed[l]
  BY TokenTaken
<1>2. CASE ~allow(l)
  BY <1>1, <1>2 DEF Bounded
<1>3. CASE allow(l)
  <2>1. /\ Len(passed'[l]) = n + 1 /\ DOMAIN passed'[l] = 1..(n + 1) /\ DOMAIN p = 1..n
        /\ \A i \in 1..n : passed'[l][i] = p[i]
        /\ passed'[l][n + 1] = clock
    BY <1>0, <1>1, <1>3
  <2>2. ASSUME NEW i \in 1..(n + 1), NEW j \in 1..(n + 1), i <= j
        PROVE  (j - i + 1) * Second <= full + Rps * (passed'[l][j] - passed'[l][i])
    <3>1. CASE j = n + 1
      <4>1. /\ passed'[l][i] <= clock
            /\ ((n + 1) - i + 1) * Second + (Filled(l) - Second) <= full + Rps * (clock - passed'[l][i])
        BY <1>1, <1>3, <2>1, <2>2 DEF Drained
      <4>2. Filled(l) - Second \in Nat
        BY <1>0, <1>3, FilledBounds DEF allow
      <4>3. passed'[l][i] \in Int /\ passed'[l][j] = clock
        <5>1. CASE i = n + 1
          BY <1>0, <2>1, <3>1, <5>1
        <5>2. CASE i # n + 1
          <6>1. i \in 1..n /\ p[i] \in Time
            BY <1>0, <2>2, <5>2
          <6> QED BY <2>1, <3>1, <6>1 DEF Time
        <5> QED BY <5>1, <5>2
      <4> DEFINE m == ((n + 1) - i + 1) * Second
                 z == Rps * (clock - passed'[l][i])
                 f == Filled(l) - Second
      <4>4. m \in Int /\ z \in Int /\ f \in Nat
        <5>1. m \in Int
          BY <1>0, <2>2
        <5>2. z \in Int
          BY <1>0, <4>3
        <5> QED BY <4>2, <5>1, <5>2
      <4> HIDE DEF m, z, f, full
      <4>6. m + f <= full + z
        BY <4>1 DEF m, z, f, full
      <4>5. m <= full + z
        BY <1>0, <4>4, <4>6
      <4> QED BY <3>1, <4>3, <4>5 DEF m, z
    <3>2. CASE j # n + 1
      <4>1. i \in 1..n /\ j \in 1..n
        BY <1>0, <2>2, <3>2
      <4> QED BY <2>1, <2>2, <4>1 DEF Bounded
    <3> QED BY <3>1, <3>2
  <2> QED BY <2>1, <2>2 DEF Bounded
<1> QED BY <1>2, <1>3

LEMMA LimitedKept ==
  ASSUME Typed, Limited, Next
  PROVE  Limited'
<1>1. CASE UNCHANGED <<buckets, passed>>
  BY <1>1 DEF Limited, Drained, Bounded
<1>2. ASSUME NEW l \in Limiters, TakeToken(l) PROVE Limited'
  <2>1. KeysOK /\ BucketsOK
    BY DEF Typed
  <2>2. Drained(l)' /\ Bounded(l)'
    BY <1>2, <2>1, TokenDrains, TokenBounded DEF Limited
  <2>3. ASSUME NEW m \in Limiters, m # l PROVE Drained(m)' /\ Bounded(m)'
    <3>1. buckets'[m] = buckets[m] /\ passed'[m] = passed[m]
      BY <1>2, <2>1, <2>3, TokenTaken
    <3> QED BY <3>1 DEF Limited, Drained, Bounded
  <2> QED BY <2>2, <2>3 DEF Limited
<1>3. CASE buckets' = [l \in Limiters |-> None] /\ passed' = [l \in Limiters |-> <<>>]
  BY <1>3 DEF Limited, Drained, Bounded
<1> QED BY <1>1, <1>2, <1>3, BucketSteps DEF Typed

\* RateLimit: in every stretch of time a limiter lets at most a full bucket
\* and what that time refills pass, for any rate, any number of clients and
\* any interleaving of their requests.
THEOREM RateIsBounded == Spec => []RateBounded
<1>1. Init => Typed /\ Limited
  <2>1. ASSUME Init PROVE Limited
    <3>1. passed = [l \in Limiters |-> <<>>]
      BY <2>1 DEF Init, InitAccess
    <3>2. ASSUME NEW l \in Limiters PROVE Drained(l) /\ Bounded(l)
      BY <3>1 DEF Drained, Bounded
    <3> QED BY <3>2 DEF Limited
  <2> QED BY <2>1, InitTyped
<1>2. Typed /\ Limited /\ [Next]_vars => (Typed /\ Limited)'
  <2> SUFFICES ASSUME Typed, Limited, [Next]_vars PROVE Typed' /\ Limited'
    OBVIOUS
  <2>1. Typed'
    BY TypedKept
  <2>2. CASE Next
    BY <2>1, <2>2, LimitedKept
  <2>3. CASE UNCHANGED vars
    BY <2>1, <2>3 DEF vars, accessVars, Limited, Drained, Bounded
  <2> QED BY <2>2, <2>3
<1>3. Limited => RateBounded
  BY DEF Limited, Bounded, RateBounded
<1> QED BY <1>1, <1>2, <1>3, PTL DEF Spec

-----------------------------------------------------------------------------
(* Authentication *)

\* What a call has met is kept until another call begins, and no more is
\* added when it has ended.
LEMMA HeldKept ==
  ASSUME ObserveKeys, NEW d \in Clients, calls[d].at \notin Ended \/ calls'[d].at \in Ended
  PROVE  /\ \A v \in held[d] : v \in held'[d]
         /\ calls[d].at \in Ended => held'[d] = held[d]
BY DEF ObserveKeys

LEMMA HeldSeen ==
  ASSUME ObserveKeys, NEW d \in Clients, calls[d].at \notin Ended, calls'[d].key # None
  PROVE  Stored(calls[d].key)' \in held'[d]
BY DEF ObserveKeys

\* A call that takes no step: what was refused stays refused for its reason,
\* and what was let through came no later.
LEMMA OtherJudged ==
  ASSUME CallsOK, ObserveKeys, clock \in Time, clock' \in Time, clock <= clock',
         NEW d \in Clients, Judged(d), calls'[d] = calls[d]
  PROVE  Judged(d)'
<1>1. /\ \A v \in held[d] : v \in held'[d]
      /\ calls[d].at = "denied" => held'[d] = held[d]
  BY HeldKept DEF Ended
<1>2. /\ calls[d].stamp \in Int /\ calls[d].expires \in Int /\ calls[d].begun \in Int
      /\ clock \in Int /\ clock' \in Int /\ Skew \in Int
  BY AccessAssumption DEF CallsOK, CallRecord, Time
<1>3. /\ ~InTime(calls[d]) => ~InTime(calls[d])'
      /\ calls[d].stamp - clock <= Skew => calls[d].stamp - clock' <= Skew
  BY <1>2 DEF InTime
<1> QED BY <1>1, <1>3 DEF Judged, Dated

\* The copy of the record is what the store holds then; without a record the
\* call ends.
LEMMA LookupJudged ==
  ASSUME CallsOK, KeysOK, ObserveKeys, NEW c \in Clients, Judged(c), AuthLookup(c), Handled(c)
  PROVE  Judged(c)'
<1> DEFINE k == calls[c].key
<1>1. calls[c].at = "lookup" /\ keys' = keys /\ signing' = signing /\ "lookup" \notin Ended
  BY DEF AuthLookup, At, Ended
<1>2. k \in KeyIds /\ keys[k] \in Identities \cup {None} /\ signing[k] \in Nat /\ k # None
  BY <1>1, NoneAssumption DEF CallsOK, Shaped, KeysOK, KeyIds
<1>3. LookedUp(c, keys[k], signing[k], IF keys[k] = None THEN "denied" ELSE "verify")
  BY DEF AuthLookup, LookedUp
<1>4. /\ calls'[c].at = IF keys[k] = None THEN "denied" ELSE "verify"
      /\ calls'[c].secret = signing[k] /\ calls'[c].key = k /\ calls'[c].signer = calls[c].signer
  <2> DEFINE s == IF keys[k] = None THEN "denied" ELSE "verify"
  <2>1. s \in Stages /\ calls \in [Clients -> CallRecord]
    BY DEF CallsOK, Stages, Ended
  <2>2. calls'[c].key = calls[c].key
    BY DEF Handled
  <2> HIDE DEF k, s
  <2>3. LookedUp(c, keys[k], signing[k], s)
    BY <1>3 DEF s
  <2>4. calls'[c].at = s /\ calls'[c].secret = signing[k] /\ calls'[c].signer = calls[c].signer
    BY <1>2, <2>1, <2>3, LookedUpEffect
  <2> QED BY <2>2, <2>4 DEF s, k
<1>5. Stored(k) \in held'[c]
  <2>1. Stored(k)' = Stored(k)
    BY <1>1, <1>4 DEF Stored
  <2> QED BY <1>1, <1>2, <1>4, <2>1, HeldSeen
<1>6. calls'[c].at = "denied" => held'[c] # {calls'[c].signer}
  <2>1. calls'[c].signer # None
    BY <1>4, NoneAssumption DEF CallsOK, CallRecord
  <2> QED BY <1>4, <1>5, <2>1 DEF Stored
<1>7. calls'[c].at = "verify" => calls'[c].secret \in held'[c]
  BY <1>4, <1>5 DEF Stored
<1>8. Dated(c)'
  BY DEF Judged, Dated, Handled
<1> QED BY <1>4, <1>6, <1>7, <1>8 DEF Judged

\* The verdict, by the signing key in the copy.
LEMMA VerifyJudged ==
  ASSUME CallsOK, KeysOK, ObserveKeys, NEW c \in Clients, Judged(c), AuthVerify(c), Handled(c)
  PROVE  Judged(c)'
<1> DEFINE q == calls[c]
           good == IF q.via = "url" THEN VerifyPresignedURL(q) ELSE q.secret = NoSecret \/ VerifyRequest(q)
<1>1. /\ calls[c].at = "verify" /\ Shaped(c) /\ clock' = clock
      /\ Goto(c, IF ~good THEN "denied" ELSE IF q.op = "s3" THEN "address" ELSE q.op)
  BY DEF AuthVerify, At, CallsOK
<1>2. /\ q.stamp \in Int /\ q.expires \in Int /\ q.begun \in Int /\ clock \in Int /\ Skew \in Int
      /\ q.begun <= clock /\ q.via \in {"header", "url"} /\ q.op \in AdminOps \cup {"s3"}
  BY <1>1, AccessAssumption DEF CallsOK, CallRecord, Shaped, KeysOK, Time
<1>3. calls'[c].at = "denied" <=> ~good
  <2>1. {"denied", "address"} \cup AdminOps \subseteq Stages /\ "denied" \notin AdminOps
    BY DEF Stages, Ended, Behind, AdminOps
  <2> HIDE DEF good
  <2>2. PICK s \in Stages : Goto(c, s) /\ (s = "denied" <=> ~good)
    <3>1. CASE ~good
      BY <1>1, <2>1, <3>1
    <3>2. CASE good /\ q.op = "s3"
      BY <1>1, <2>1, <3>2
    <3>3. CASE good /\ q.op # "s3"
      BY <1>1, <1>2, <2>1, <3>3
    <3> QED BY <3>1, <3>2, <3>3
  <2>3. calls'[c].at = s
    BY <2>2, GotoEffect DEF CallsOK
  <2> QED BY <2>2, <2>3
<1>4. q.secret \in held'[c]
  <2>1. q.at \notin Ended /\ q.secret \in held[c]
    BY <1>1 DEF Judged, Ended
  <2> QED BY <2>1, HeldKept
<1>5. /\ calls'[c].via = q.via /\ calls'[c].signer = q.signer /\ calls'[c].stamp = q.stamp
      /\ calls'[c].expires = q.expires /\ calls'[c].begun = q.begun /\ calls'[c].at # "verify"
  BY <1>1 DEF Handled
<1>6. Dated(c)'
  BY DEF Judged, Dated, Handled
<1>7. CASE ~good
  <2>1. q.signer = q.secret => ~InTime(q)
    BY <1>2, <1>7 DEF VerifyPresignedURL, validatePresignedExpiry, VerifyRequest, Signed, InTime
  <2>2. held'[c] # {q.signer} \/ ~InTime(calls[c])'
    BY <1>1, <1>4, <1>5, <2>1 DEF InTime
  <2> QED BY <1>3, <1>5, <1>6, <1>7, <2>2 DEF Judged
<1>8. CASE good
  <2>1. /\ q.via = "url" => q.signer = q.secret /\ q.begun <= q.stamp + q.expires
        /\ q.via = "header" =>
             \/ q.secret = NoSecret
             \/ q.signer = q.secret /\ q.begun - q.stamp <= Skew /\ q.stamp - clock <= Skew
    BY <1>2, <1>8 DEF VerifyPresignedURL, validatePresignedExpiry, VerifyRequest, Signed
  <2> QED BY <1>1, <1>3, <1>4, <1>5, <1>6, <1>8, <2>1 DEF Judged
<1> QED BY <1>7, <1>8

\* What was let through goes on.
LEMMA BehindJudged ==
  ASSUME CallsOK, ObserveKeys, NEW c \in Clients, Judged(c), Handled(c), calls[c].at \notin {"lookup", "verify"}
  PROVE  Judged(c)'
<1>1. /\ calls[c].at \notin {"idle", "lookup", "verify", "denied"} /\ calls[c].at \notin Ended
      /\ calls'[c].at \notin {"idle", "lookup", "verify", "denied"}
  BY DEF Handled, Behind, AdminOps, Ended
<1>2. \A v \in held[c] : v \in held'[c]
  BY <1>1, HeldKept
<1> QED BY <1>1, <1>2 DEF Handled, Judged, Dated

LEMMA JudgedKept ==
  ASSUME Typed, KeysOK', \A c \in Clients : Judged(c), Next
  PROVE  \A c \in Clients : Judged(c)'
<1>0. CallsOK /\ KeysOK /\ LoginsOK /\ ObserveKeys /\ clock \in Time /\ clock' \in Time
  BY DEF Typed, KeysOK, Next
\* It is enough to look at the call that takes the step.
<1>1. ASSUME NEW c \in Clients, Alone(c), clock' = clock, Judged(c)' PROVE \A d \in Clients : Judged(d)'
  <2>1. clock <= clock'
    BY <1>0, <1>1 DEF Time
  <2>2. ASSUME NEW d \in Clients, d # c PROVE Judged(d)'
    <3>1. calls'[d] = calls[d]
      BY <1>1, <2>2 DEF Alone
    <3> QED BY <1>0, <2>1, <3>1, OtherJudged
  <2> QED BY <1>1, <2>2
<1>2. ASSUME NEW c \in Clients, Beginning(c) PROVE \A d \in Clients : Judged(d)'
  <2>1. /\ Alone(c) /\ clock' = clock
        /\ \/ calls'[c].at = "lookup" /\ Dated(c)'
           \/ calls'[c].at \in {"exchange", "failed", "findUser"} /\ calls'[c].via = "login"
    BY <1>0, <1>2, BeginShaped
  <2>2. Judged(c)'
    BY <2>1 DEF Judged, Dated
  <2> QED BY <1>1, <2>1, <2>2
<1>3. ASSUME NEW c \in Clients, Handling(c) PROVE \A d \in Clients : Judged(d)'
  <2>1. Handled(c)
    BY <1>0, <1>3, HandlingShaped
  <2>2. Judged(c)'
    <3>1. CASE AuthLookup(c)
      BY <1>0, <2>1, <3>1, LookupJudged
    <3>2. CASE AuthVerify(c)
      BY <1>0, <2>1, <3>2, VerifyJudged
    <3>3. CASE ~AuthLookup(c) /\ ~AuthVerify(c)
      <4>1. calls[c].at \notin {"lookup", "verify"}
        BY <1>3, <3>3 DEF Handling, RateLimit, create, list, delete, presign, rotateLookup, rotateDelete,
                          rotateCreate, StoreFails, At
      <4> QED BY <1>0, <2>1, <4>1, BehindJudged
    <3> QED BY <3>1, <3>2, <3>3
  <2> QED BY <1>1, <2>1, <2>2 DEF Handled
<1>4. ASSUME NEW c \in Clients, Deciding(c) PROVE \A d \in Clients : Judged(d)'
  <2>1. /\ Alone(c) /\ clock' = clock /\ calls'[c].via = "login"
        /\ calls'[c].at \in {"ok", "denied", "failed"} \cup OidcStages \cup LdapStages
    BY <1>0, <1>4, DecidingShaped DEF LoginFrame
  <2>2. Judged(c)'
    BY <2>1 DEF Judged, Dated, OidcStages, LdapStages
  <2> QED BY <1>1, <2>1, <2>2
<1>5. CASE ChangeKey \/ ChangeAccount \/ Tick
  <2>1. calls' = calls /\ clock <= clock'
    BY <1>0, <1>5 DEF ChangeKey, ChangeAccount, Tick, TickClock, accessVars, Time
  <2> QED BY <1>0, <2>1, OtherJudged
<1>6. CASE Restart
  <2>1. calls' = [c \in Clients |-> NoCall]
    BY <1>6 DEF Restart, RestartServer
  <2> QED BY <2>1, NoCallFacts DEF Judged, Dated
<1> QED BY <1>2, <1>3, <1>4, <1>5, <1>6, Steps

\* The middleware and presign: a call that comes in time, by its timestamp
\* or as the URL says, is refused only if the store did not hold its signing
\* key all along, and so is one with a URL of the server until a second
\* before the moment named for it; and what gets past came in time and with a
\* signature by a signing key that was stored under its name during the call,
\* or in its header named a record without one.  That holds for any skew,
\* any resolution of the clock within a second, any secrets, and whatever
\* happens to the keys and the configuration meanwhile.
THEOREM AuthenticationIsRight == Spec => []AuthenticatesRightly
<1> DEFINE Inv == Typed /\ \A c \in Clients : Judged(c)
<1>1. Init => Inv
  <2>1. ASSUME Init PROVE \A c \in Clients : Judged(c)
    BY <2>1, NoCallFacts DEF Init, InitAccess, Judged, Dated
  <2> QED BY <2>1, InitTyped
<1>2. Inv /\ [Next]_vars => Inv'
  <2> SUFFICES ASSUME Inv, [Next]_vars PROVE Inv'
    OBVIOUS
  <2>1. Typed'
    BY TypedKept
  <2>2. CASE Next
    <3>1. \A c \in Clients : Judged(c)'
      BY <2>1, <2>2, JudgedKept DEF Typed
    <3> QED BY <2>1, <3>1
  <2>3. CASE UNCHANGED vars
    BY <2>1, <2>3 DEF vars, accessVars, Judged, Dated, InTime
  <2> QED BY <2>2, <2>3
<1>3. Inv => AuthenticatesRightly
  <2> SUFFICES ASSUME Typed, NEW c \in Clients, Judged(c)
               PROVE  LET q == calls[c]
                          through == q.at \notin {"idle", "lookup", "verify", "denied"}
                      IN /\ q.via = "url" /\ q.at = "denied" /\ q.arg # None /\ clock <= q.arg - Second =>
                              held[c] # {q.signer}
                         /\ q.via = "url" /\ through /\ q.arg # None => q.begun <= q.arg
    BY DEF AuthenticatesRightly, Judged
  <2> DEFINE q == calls[c]
  <2>1. /\ q.stamp \in Int /\ q.expires \in Int /\ q.begun \in Int /\ clock \in Int /\ Second \in Int
    BY AccessAssumption DEF Typed, CallsOK, KeysOK, CallRecord, Time
  <2>2. q.via = "url" /\ q.arg # None =>
          q.arg \in Int /\ q.stamp + q.expires <= q.arg /\ q.arg < q.stamp + q.expires + Second
    BY DEF Judged, Dated, Announces
  <2>3. q.via = "url" /\ q.arg # None /\ clock <= q.arg - Second => InTime(q)
    BY <2>1, <2>2 DEF InTime
  <2>4. q.via = "url" /\ q.arg # None /\ q.begun <= q.stamp + q.expires => q.begun <= q.arg
    BY <2>1, <2>2
  <2> QED BY <2>3, <2>4 DEF Judged
<1> QED BY <1>1, <1>2, <1>3, PTL DEF Spec

-----------------------------------------------------------------------------
(* Rotation *)

Owners == Rotating /\ OwnerKeepsKey

\* A step of a call that neither begins nor ends a rotation's delete.
LEMMA QuietOwners ==
  ASSUME Owners, NEW c \in Clients, Alone(c), UNCHANGED <<keys, given, dropped>>,
         calls[c].at # "rotateCreate", calls'[c].at # "rotateDelete"
  PROVE  Owners'
<1>1. \A d \in Clients : d # c => calls'[d] = calls[d]
  BY DEF Alone
<1>2. Rotating'
  BY <1>1 DEF Owners, Rotating, At
<1>3. OwnerKeepsKey'
  <2> SUFFICES ASSUME NEW id \in given \ dropped
               PROVE  \/ \E k \in KeyIds : keys[k] = id
                      \/ \E d \in Clients : calls'[d].at = "rotateCreate" /\ calls'[d].rec = id
    BY DEF OwnerKeepsKey, At
  <2>1. \/ \E k \in KeyIds : keys[k] = id
        \/ \E d \in Clients : calls[d].at = "rotateCreate" /\ calls[d].rec = id
    BY DEF Owners, OwnerKeepsKey, At
  <2> QED BY <1>1, <2>1
<1> QED BY <1>2, <1>3 DEF Owners

\* A new key takes a name nobody has had.
LEMMA CreateOwners ==
  ASSUME CallsOK, KeysOK, Owners, NEW c \in Clients, create(c) \/ rotateCreate(c), Handled(c)
  PROVE  Owners'
<1>1. PICK rec \in Identities : CreateKey(rec) /\ (calls[c].at = "rotateCreate" => calls[c].rec = rec)
  <2>1. CASE create(c)
    <3>1. UserKey \in Identities
      BY DEF UserKey, Identities
    <3> QED BY <2>1, <3>1 DEF create, At
  <2>2. CASE rotateCreate(c)
    BY <2>2 DEF rotateCreate, At, CallsOK, Shaped, CallRecord
  <2> QED BY <2>1, <2>2
<1>2. dropped' = dropped /\ calls'[c].at = "ok"
  <2>1. dropped' = dropped /\ Goto(c, "ok") /\ "ok" \in Stages
    BY DEF create, rotateCreate, Stages, Ended
  <2> QED BY <2>1, GotoEffect DEF CallsOK
<1>3. \A d \in Clients : d # c => calls'[d] = calls[d]
  BY DEF Handled, Alone
<1>4. /\ made + 1 \in KeyIds /\ keys'[made + 1] = rec /\ keys[made + 1] = None
      /\ \A k \in KeyIds : k # made + 1 => keys'[k] = keys[k]
      /\ given' = given \cup {rec}
  BY <1>1, MadeKey
<1>5. 1 # made + 1 /\ 1 \in KeyIds /\ \A k \in 1..made : k \in KeyIds /\ k # made + 1
  BY AccessAssumption DEF KeysOK, KeyIds
<1>6. Rotating'
  <2>1. ASSUME NEW d \in Clients, calls'[d].at = "rotateDelete"
        PROVE  keys'[calls'[d].arg] \in {calls'[d].rec, None}
    <3>1. d # c /\ calls'[d] = calls[d]
      BY <1>2, <1>3, <2>1
    <3>2. calls[d].arg \in 1..made
      BY <2>1, <3>1 DEF CallsOK, Shaped
    <3> QED BY <1>4, <1>5, <2>1, <3>1, <3>2 DEF Owners, Rotating, At
  <2> QED BY <1>4, <1>5, <2>1 DEF Owners, Rotating, At
<1>7. OwnerKeepsKey'
  <2> SUFFICES ASSUME NEW id \in given' \ dropped
               PROVE  \/ \E k \in KeyIds : keys'[k] = id
                      \/ \E d \in Clients : calls'[d].at = "rotateCreate" /\ calls'[d].rec = id
    BY <1>2 DEF OwnerKeepsKey, At
  <2>1. CASE id = rec
    BY <1>4, <2>1
  <2>2. CASE id # rec
    <3>1. id \in given \ dropped /\ id # None
      BY <1>4, <2>2, NoneAssumption DEF KeysOK
    <3>2. \/ \E k \in KeyIds : keys[k] = id
          \/ \E d \in Clients : calls[d].at = "rotateCreate" /\ calls[d].rec = id
      BY <3>1 DEF Owners, OwnerKeepsKey, At
    <3>3. CASE \E k \in KeyIds : keys[k] = id
      BY <1>4, <3>1, <3>3
    <3>4. CASE \E d \in Clients : calls[d].at = "rotateCreate" /\ calls[d].rec = id
      BY <1>1, <1>3, <2>2, <3>4
    <3> QED BY <3>2, <3>3, <3>4
  <2> QED BY <2>1, <2>2
<1> QED BY <1>6, <1>7 DEF Owners

\* Only the key that a caller names is taken away, and its owner with it, or a
\* rotation remembers whose it was.
LEMMA DeleteOwners ==
  ASSUME CallsOK, KeysOK, Owners, NEW c \in Clients, delete(c) \/ rotateDelete(c), Handled(c)
  PROVE  Owners'
<1> DEFINE t == calls[c].arg
<1>1. t \in KeyIds
  BY AccessAssumption DEF CallsOK, Shaped, delete, rotateDelete, At, AdminOps, KeyIds, KeysOK
<1>2. /\ keys'[t] = None /\ \A k \in KeyIds : k # t => keys'[k] = keys[k]
  <2>1. DeleteKey(t) /\ made' = made
    BY DEF delete, rotateDelete
  <2> HIDE DEF t
  <2> QED BY <1>1, <2>1, DeletedKey
<1>3. \A d \in Clients : d # c => calls'[d] = calls[d]
  BY DEF Handled, Alone
<1>4. /\ given' = given /\ calls[c].at # "rotateCreate"
      /\ \/ /\ calls'[c].at = "ok" /\ dropped' = IF keys[t] = None THEN dropped ELSE dropped \cup {keys[t]}
         \/ /\ calls'[c].at = "rotateCreate" /\ calls'[c].rec = calls[c].rec /\ dropped' = dropped
            /\ calls[c].at = "rotateDelete"
  <2>1. CASE delete(c)
    <3>1. Goto(c, "ok") /\ "ok" \in Stages
      BY <2>1 DEF delete, Stages, Ended
    <3>2. calls'[c].at = "ok"
      BY <3>1, GotoEffect DEF CallsOK
    <3> QED BY <2>1, <3>2 DEF delete, At
  <2>2. CASE rotateDelete(c)
    <3>1. Goto(c, "rotateCreate") /\ "rotateCreate" \in Stages
      BY <2>2 DEF rotateDelete, Stages, Behind
    <3>2. calls'[c].at = "rotateCreate" /\ calls'[c].rec = calls[c].rec
      BY <3>1, GotoEffect DEF CallsOK, Kept
    <3> QED BY <2>2, <3>2 DEF rotateDelete, At
  <2> QED BY <2>1, <2>2
<1>5. Rotating'
  <2>1. \A k \in KeyIds : keys'[k] \in {keys[k], None}
    BY <1>2
  <2>2. ASSUME NEW d \in Clients, calls'[d].at = "rotateDelete"
        PROVE  keys'[calls'[d].arg] \in {calls'[d].rec, None}
    <3>1. calls'[d] = calls[d]
      BY <1>3, <1>4, <2>2
    <3>2. calls[d].arg \in KeyIds
      BY <2>2, <3>1, AccessAssumption DEF CallsOK, Shaped, KeysOK, KeyIds
    <3> QED BY <2>1, <2>2, <3>1, <3>2 DEF Owners, Rotating, At
  <2>3. 1 \in KeyIds
    BY AccessAssumption DEF KeyIds
  <2> QED BY <2>1, <2>2, <2>3 DEF Owners, Rotating, At
<1>6. OwnerKeepsKey'
  <2> SUFFICES ASSUME NEW id \in given \ dropped'
               PROVE  \/ \E k \in KeyIds : keys'[k] = id
                      \/ \E d \in Clients : calls'[d].at = "rotateCreate" /\ calls'[d].rec = id
    BY <1>4 DEF OwnerKeepsKey, At
  <2>1. id \in given \ dropped /\ id # None
    BY <1>4, NoneAssumption DEF KeysOK
  <2>2. \/ \E k \in KeyIds : keys[k] = id
        \/ \E d \in Clients : calls[d].at = "rotateCreate" /\ calls[d].rec = id
    BY <2>1 DEF Owners, OwnerKeepsKey, At
  <2>3. CASE keys[t] = id
    <3>1. dropped' = dropped /\ calls'[c].at = "rotateCreate" /\ calls[c].at = "rotateDelete"
      BY <1>4, <2>1, <2>3
    <3>2. calls[c].rec = id
      BY <2>1, <2>3, <3>1 DEF Owners, Rotating, At
    <3> QED BY <1>4, <3>1, <3>2
  <2>4. CASE keys[t] # id /\ \E k \in KeyIds : keys[k] = id
    BY <1>2, <2>4
  <2>5. CASE \E d \in Clients : calls[d].at = "rotateCreate" /\ calls[d].rec = id
    BY <1>3, <1>4, <2>5
  <2> QED BY <2>2, <2>3, <2>4, <2>5
<1> QED BY <1>5, <1>6 DEF Owners

LEMMA HandlingOwners ==
  ASSUME CallsOK, KeysOK, Owners, NEW c \in Clients, Handling(c), Handled(c)
  PROVE  Owners'
<1>0. calls \in [Clients -> CallRecord] /\ Shaped(c)
  BY DEF CallsOK
<1>1. CASE create(c) \/ rotateCreate(c)
  BY <1>1, CreateOwners
<1>2. CASE delete(c) \/ rotateDelete(c)
  BY <1>2, DeleteOwners
<1>3. CASE rotateLookup(c)
  <2>1. UNCHANGED <<keys, given, dropped>> /\ calls[c].at = "rotate"
    BY <1>3 DEF rotateLookup, At
  <2> DEFINE rec == keys[calls[c].arg]
  <2>2. rec \in Identities \cup {None} /\ calls[c].arg \in KeyIds
    BY <1>0, <2>1, AccessAssumption DEF Shaped, AdminOps, KeysOK, KeyIds
  <2>3. Looked(c, rec, IF rec = None THEN "failed" ELSE "rotateDelete")
    BY <1>3 DEF rotateLookup, Looked
  <2>4. {"failed", "rotateDelete"} \subseteq Stages
    BY DEF Stages, Ended, Behind
  <2>5. calls'[c].rec = rec /\ calls'[c].arg = calls[c].arg /\ Alone(c)
    BY <1>0, <2>2, <2>3, <2>4, LookedEffect
  <2>6. \A d \in Clients : d # c => calls'[d] = calls[d]
    BY <2>5 DEF Alone
  <2>7. Rotating'
    BY <2>1, <2>5, <2>6 DEF Owners, Rotating, At
  <2>8. OwnerKeepsKey'
    <3> SUFFICES ASSUME NEW id \in given \ dropped
                 PROVE  \/ \E k \in KeyIds : keys[k] = id
                        \/ \E d \in Clients : calls'[d].at = "rotateCreate" /\ calls'[d].rec = id
      BY <2>1 DEF OwnerKeepsKey, At
    <3>1. \/ \E k \in KeyIds : keys[k] = id
          \/ \E d \in Clients : calls[d].at = "rotateCreate" /\ calls[d].rec = id
      BY DEF Owners, OwnerKeepsKey, At
    <3> QED BY <2>1, <2>6, <3>1
  <2> QED BY <2>7, <2>8 DEF Owners
<1>4. CASE StoreFails(c)
  <2>1. UNCHANGED <<keys, given>> /\ Goto(c, "failed") /\ "failed" \in Stages
    BY <1>4 DEF StoreFails, Stages, Ended
  <2>2. calls'[c].at = "failed" /\ \A d \in Clients : d # c => calls'[d] = calls[d]
    BY <1>0, <2>1, GotoEffect DEF Alone
  <2>3. dropped' = IF calls[c].at = "rotateCreate" THEN dropped \cup {calls[c].rec} ELSE dropped
    BY <1>4 DEF StoreFails, At
  <2>4. Rotating'
    BY <2>1, <2>2 DEF Owners, Rotating, At
  <2>5. OwnerKeepsKey'
    <3> SUFFICES ASSUME NEW id \in given \ dropped'
                 PROVE  \/ \E k \in KeyIds : keys[k] = id
                        \/ \E d \in Clients : calls'[d].at = "rotateCreate" /\ calls'[d].rec = id
      BY <2>1 DEF OwnerKeepsKey, At
    <3>1. \/ \E k \in KeyIds : keys[k] = id
          \/ \E d \in Clients : calls[d].at = "rotateCreate" /\ calls[d].rec = id
      BY <2>3 DEF Owners, OwnerKeepsKey, At
    <3> QED BY <2>2, <2>3, <3>1
  <2> QED BY <2>4, <2>5 DEF Owners
<1>5. CASE AuthLookup(c) \/ AuthVerify(c) \/ RateLimit(c) \/ list(c) \/ presign(c)
  <2>1. /\ UNCHANGED <<keys, given, dropped>>
        /\ calls[c].at \notin {"rotate", "rotateDelete", "rotateCreate"}
    BY <1>5 DEF AuthLookup, AuthVerify, RateLimit, list, presign, At
  <2>2. calls'[c].at # "rotateDelete"
    <3>1. CASE AuthLookup(c)
      <4> DEFINE k == calls[c].key
      <4>1. LookedUp(c, keys[k], signing[k], IF keys[k] = None THEN "denied" ELSE "verify")
        BY <3>1 DEF AuthLookup, LookedUp
      <4>2. /\ keys[k] \in Identities \cup {None} /\ signing[k] \in Nat
            /\ {"denied", "verify"} \subseteq Stages
        BY <1>0, <3>1 DEF AuthLookup, At, Shaped, KeysOK, Stages, Ended
      <4> QED BY <1>0, <4>1, <4>2, LookedUpEffect
    <3>2. CASE AuthVerify(c) \/ RateLimit(c) \/ list(c) \/ presign(c)
      <4>1. PICK s \in {"denied", "address", "limited", "limitKey", "ok", "failed"} \cup AdminOps : Goto(c, s)
        <5>1. CASE AuthVerify(c)
          <6>1. calls[c].op \in AdminOps \cup {"s3"}
            BY <1>0, <5>1 DEF AuthVerify, At, Shaped
          <6> QED BY <5>1, <6>1 DEF AuthVerify
        <5>2. CASE RateLimit(c) \/ list(c) \/ presign(c)
          BY <5>2 DEF RateLimit, list, presign
        <5> QED BY <3>2, <5>1, <5>2
      <4>2. s \in Stages /\ s # "rotateDelete"
        BY DEF Stages, Ended, Behind, AdminOps
      <4> QED BY <1>0, <4>1, <4>2, GotoEffect
    <3> QED BY <1>5, <3>1, <3>2
  <2> QED BY <2>1, <2>2, QuietOwners DEF Handled
<1> QED BY <1>1, <1>2, <1>3, <1>4, <1>5 DEF Handling

LEMMA OwnersKept ==
  ASSUME Typed, Owners, Next
  PROVE  Owners'
<1>0. CallsOK /\ KeysOK /\ LoginsOK
  BY DEF Typed
<1>1. ASSUME NEW c \in Clients, Beginning(c) PROVE Owners'
  <2>1. /\ Alone(c) /\ calls[c].at \in Ended /\ UNCHANGED <<keys, given, dropped>>
        /\ calls'[c].at \in {"lookup", "exchange", "failed", "findUser"}
    BY <1>0, <1>1, BeginShaped
  <2> QED BY <2>1, QuietOwners DEF Ended
<1>2. ASSUME NEW c \in Clients, Handling(c) PROVE Owners'
  BY <1>0, <1>2, HandlingShaped, HandlingOwners
<1>3. ASSUME NEW c \in Clients, Deciding(c) PROVE Owners'
  <2>1. /\ Alone(c) /\ UNCHANGED <<keys, given, dropped>>
        /\ calls[c].at # "rotateCreate" /\ calls'[c].at # "rotateDelete"
    BY <1>0, <1>3, DecidingShaped DEF LoginFrame, OidcStages, LdapStages
  <2> QED BY <2>1, QuietOwners
<1>4. CASE ChangeKey \/ ChangeAccount \/ Tick
  <2>1. UNCHANGED <<keys, given, dropped, calls>>
    BY <1>4 DEF ChangeKey, ChangeAccount, Tick, TickClock, accessVars
  <2> QED BY <2>1 DEF Owners, Rotating, OwnerKeepsKey, At
<1>5. CASE Restart
  <2> DEFINE lost == dropped \cup {calls[c].rec : c \in {d \in Clients : At(d, "rotateCreate")}}
  <2>1. /\ calls' = [c \in Clients |-> NoCall] /\ given' = given
        /\ \/ keys' = [keys EXCEPT ![1] = RootKey] /\ dropped' = lost \ {RootKey}
           \/ keys' = keys /\ dropped' = lost
    BY <1>5 DEF Restart, RestartServer, UpsertKey
\* The root key is provisioned, or left as it is.
  <2>2. /\ 1 \in KeyIds /\ keys'[1] \in {RootKey, None}
        /\ \A k \in KeyIds : k # 1 => keys'[k] = keys[k]
        /\ keys'[1] = keys[1] \/ keys'[1] = RootKey
    <3>1. 1 \in KeyIds /\ keys[1] \in {RootKey, None}
      BY AccessAssumption DEF KeyIds, Owners, Rotating
    <3>2. CASE keys' = keys
      BY <3>1, <3>2
    <3>3. CASE keys' = [keys EXCEPT ![1] = RootKey]
      BY <1>0, <3>1, <3>3 DEF KeysOK
    <3> QED BY <2>1, <3>2, <3>3
  <2>3. Rotating'
    BY <2>1, <2>2, NoCallFacts DEF Rotating, At
  <2>4. OwnerKeepsKey'
    <3> SUFFICES ASSUME NEW id \in given \ dropped' PROVE \E k \in KeyIds : keys'[k] = id
      BY <2>1 DEF OwnerKeepsKey
    <3>1. CASE id = RootKey /\ keys'[1] = RootKey
      BY <2>2, <3>1
    <3>2. CASE ~(id = RootKey /\ keys'[1] = RootKey)
      <4>1. /\ id \notin lost /\ id # None
            /\ id = RootKey => keys' = keys
        BY <1>0, <2>1, <2>2, <3>2, NoneAssumption DEF KeysOK
      <4>2. /\ id \in given \ dropped
            /\ ~ \E c \in Clients : calls[c].at = "rotateCreate" /\ calls[c].rec = id
        BY <4>1 DEF At
      <4>3. PICK k \in KeyIds : keys[k] = id
        BY <4>2 DEF Owners, OwnerKeepsKey, At
      <4>4. k = 1 => id = RootKey
        BY <4>1, <4>3 DEF Owners, Rotating
      <4> QED BY <2>2, <4>1, <4>3, <4>4
    <3> QED BY <3>1, <3>2
  <2> QED BY <2>3, <2>4 DEF Owners
<1> QED BY <1>1, <1>2, <1>3, <1>4, <1>5, Steps

\* rotateKey: whoever was given a key keeps one in the same role through every
\* interleaving of rotations, however many callers rotate however many keys;
\* only a delete, a rotation that fails behind its delete or a restart in the
\* middle of one loses it, and a restart gives root its key back.
THEOREM OwnersKeepKeys == Spec => []OwnerKeepsKey
<1>1. Init => Typed /\ Owners
  <2>1. ASSUME Init PROVE Owners
    <3>1. /\ keys = [k \in KeyIds |-> CASE k = 1 -> RootKey [] k = 2 -> UserKey [] OTHER -> None]
          /\ calls = [c \in Clients |-> NoCall] /\ given = {RootKey, UserKey}
      BY <2>1 DEF Init, InitAccess
    <3>2. 1 \in KeyIds /\ 2 \in KeyIds
      BY AccessAssumption DEF KeyIds
    <3>3. keys[1] = RootKey /\ keys[2] = UserKey
      BY <3>1, <3>2
    <3>4. \A c \in Clients : calls[c].at = "idle"
      BY <3>1, NoCallFacts
    <3> QED BY <3>1, <3>2, <3>3, <3>4 DEF Owners, Rotating, OwnerKeepsKey, At
  <2> QED BY <2>1, InitTyped
<1>2. Typed /\ Owners /\ [Next]_vars => (Typed /\ Owners)'
  <2> SUFFICES ASSUME Typed, Owners, [Next]_vars PROVE Typed' /\ Owners'
    OBVIOUS
  <2>1. Typed'
    BY TypedKept
  <2>2. CASE Next
    BY <2>1, <2>2, OwnersKept
  <2>3. CASE UNCHANGED vars
    BY <2>1, <2>3 DEF vars, accessVars, Owners, Rotating, OwnerKeepsKey, At
  <2> QED BY <2>2, <2>3
<1>3. Owners => OwnerKeepsKey
  BY DEF Owners
<1> QED BY <1>1, <1>2, <1>3, PTL DEF Spec

-----------------------------------------------------------------------------
(* How old a login's knowledge is *)

Ages == CacheAge /\ \A c \in Clients : TokenAge(c)

LEMMA Numbers ==
  ASSUME Typed
  PROVE  /\ clock \in Int /\ idp.gen \in Int /\ idp.changed \in Int /\ idp.changed <= clock
         /\ Ttl \in Int /\ Ttl > 0 /\ FetchTimeout \in Int /\ FetchTimeout >= 0
         /\ keyCache # None => keyCache.gen \in Int /\ keyCache.fetchedAt \in Int
         /\ \A c \in Clients : /\ calls[c].signer \in Int /\ calls[c].stamp \in Int
                               /\ calls[c].expires \in Int /\ calls[c].begun \in Int
                               /\ calls[c].begun <= clock
BY IdentityAssumption DEF Typed, KeysOK, LoginsOK, CallsOK, CallRecord, Shaped, Cache, Time

\* What the directory has said is kept until another call begins.
LEMMA SeenKept ==
  ASSUME ObserveAccount, NEW d \in Clients, calls'[d].op = "ldap",
         calls[d].at \notin Ended \/ calls'[d].at \in Ended
  PROVE  seen'[d] = seen[d] \cup {account'}
BY DEF ObserveAccount

\* A call that takes no step while the provider keeps its key.
LEMMA OtherAge ==
  ASSUME Typed, ObserveAccount, idp' = idp, clock' \in Int, clock <= clock', NEW d \in Clients,
         calls'[d] = calls[d], TokenAge(d)
  PROVE  TokenAge(d)'
<1>1. calls[d].stamp <= clock => calls[d].stamp <= clock'
  BY Numbers
<1>2. calls[d].op = "ldap" /\ "admin" \in seen[d] => "admin" \in seen'[d]
  BY SeenKept
<1> QED BY <1>1, <1>2 DEF TokenAge

\* The cached keys, or the ones just fetched, decide.
LEMMA Decided ==
  ASSUME Typed, Ages, NEW c \in Clients, calls[c].at \in {"jwks", "store"}, NEW gen \in Nat,
         gen <= idp.gen, gen < idp.gen => clock < idp.changed + Ttl + FetchTimeout,
         verifySignatureWithKeys(c, gen), UNCHANGED <<clock, idp>>
  PROVE  /\ TokenAge(c)' /\ Alone(c) /\ calls'[c].at \in {"ok", "denied"}
<1>0. clock \in Int /\ {"ok", "denied"} \subseteq Stages /\ calls \in [Clients -> CallRecord]
  BY Numbers DEF Stages, Ended, Typed, CallsOK
<1>1. Stamped(c, IF verifyJWKSignature(calls[c], gen) THEN "ok" ELSE "denied", clock)
  BY DEF verifySignatureWithKeys, Stamped
<1>2. /\ calls'[c].at = (IF calls[c].signer = gen THEN "ok" ELSE "denied") /\ Alone(c)
      /\ calls'[c].stamp = clock /\ calls'[c].signer = calls[c].signer
      /\ calls'[c].begun = calls[c].begun /\ calls'[c].op = calls[c].op
  BY <1>0, <1>1, StampedEffect DEF verifyJWKSignature
<1>3. calls[c].op = "oidc"
  BY DEF Typed, CallsOK, Shaped, OidcStages
<1>4. calls[c].signer <= idp.gen /\ (calls[c].signer < idp.gen => calls[c].begun <= idp.changed)
  BY DEF Ages, TokenAge
<1>5. /\ calls[c].signer = gen /\ calls[c].signer < idp.gen => clock < idp.changed + Ttl + FetchTimeout
      /\ calls[c].signer # gen =>
           clock < idp.changed + Ttl + FetchTimeout \/ idp.changed >= calls[c].begun
      /\ clock <= clock
  BY <1>4, Numbers
<1> QED BY <1>2, <1>3, <1>5 DEF TokenAge

\* A step that leaves the cache alone and is about no fetch.
LEMMA CacheQuiet ==
  ASSUME Ages, NEW c \in Clients, Alone(c), UNCHANGED <<clock, idp, keyCache>>,
         calls'[c].at \notin {"fetch", "store"}
  PROVE  CacheAge'
<1>1. \A d \in Clients : d # c => calls'[d] = calls[d]
  BY DEF Alone
<1> QED BY <1>1 DEF Ages, CacheAge, At

LEMMA DecidingAges ==
  ASSUME Typed, Ages, ObserveAccount, NEW c \in Clients, Deciding(c)
  PROVE  CacheAge' /\ TokenAge(c)'
<1>0. /\ calls \in [Clients -> CallRecord] /\ clock \in Int /\ idp.gen \in Nat /\ clock <= clock
      /\ Shaped(c)
  BY Numbers DEF Typed, CallsOK, LoginsOK
<1>1. /\ Alone(c) /\ clock' = clock /\ idp' = idp /\ account' = account
      /\ calls'[c].op = calls[c].op /\ calls'[c].begun = calls[c].begun
  <2>1. idp' = idp /\ account' = account
    BY DEF Deciding, Exchange, VerifyIDToken, fetchJWKS, FetchAnswer, FetchFails, StoreKeys, findUserDN,
           Authenticate, findGroups, DirectoryFails
  <2> QED BY <2>1, DecidingShaped DEF Typed, LoginFrame
<1>2. \A d \in Clients : d # c => calls'[d] = calls[d]
  BY <1>1 DEF Alone
<1>3. {"claims", "jwks", "fetch", "store", "failed", "bind", "groups", "ok"} \subseteq Stages
  BY DEF Stages, Ended, OidcStages, LdapStages
<1>4. CASE Exchange(c)
  <2>1. keyCache' = keyCache
    BY <1>4 DEF Exchange
  <2>2. (\E life \in TokenLives : Issued(c, "claims", idp.gen, WholeSecond(clock + life))) \/ Goto(c, "failed")
    BY <1>4 DEF Exchange, Issued
  <2>3. CASE Goto(c, "failed")
    <3>1. calls'[c].at = "failed"
      BY <1>0, <1>3, <2>3, GotoEffect
    <3> QED BY <1>1, <2>1, <3>1, CacheQuiet DEF TokenAge
  <2>4. ASSUME NEW life \in TokenLives, Issued(c, "claims", idp.gen, WholeSecond(clock + life))
        PROVE  CacheAge' /\ TokenAge(c)'
    <3>1. WholeSecond(clock + life) \in Int
      <4>1. clock + life \in Int
        BY <1>0, IdentityAssumption
      <4> QED BY <4>1, SecondsCut
    <3>2. calls'[c].at = "claims" /\ calls'[c].signer = idp.gen
      BY <1>0, <1>3, <2>4, <3>1, IssuedEffect
    <3>3. idp.gen <= idp.gen /\ ~(idp.gen < idp.gen)
      BY <1>0
    <3> QED BY <1>1, <2>1, <3>2, <3>3, CacheQuiet DEF TokenAge
  <2> QED BY <2>2, <2>3, <2>4
<1>5. CASE VerifyIDToken(c) \/ FetchFails(c) \/ findUserDN(c) \/ Authenticate(c) \/ DirectoryFails(c)
  <2>1. PICK s \in {"jwks", "failed", "bind", "groups"} : Goto(c, s) /\ (s = "jwks" => calls[c].at = "claims")
    BY <1>5 DEF VerifyIDToken, FetchFails, findUserDN, Authenticate, DirectoryFails, At
  <2>2. calls'[c].at = s /\ calls'[c].signer = calls[c].signer
    BY <1>0, <1>3, <2>1, GotoEffect DEF Kept
  <2>3. keyCache' = keyCache
    BY <1>5 DEF VerifyIDToken, FetchFails, findUserDN, Authenticate, DirectoryFails
  <2>4. TokenAge(c)'
    BY <1>1, <2>1, <2>2 DEF Ages, TokenAge
  <2> QED BY <1>1, <2>2, <2>3, <2>4, CacheQuiet
<1>6. CASE fetchJWKS(c)
  <2>1. calls[c].at = "jwks" /\ keyCache' = keyCache
    BY <1>6 DEF fetchJWKS, At
  <2>2. CASE Fresh
    <3>1. verifySignatureWithKeys(c, keyCache.gen) /\ keyCache # None /\ clock - keyCache.fetchedAt < Ttl
      BY <1>6, <2>2 DEF fetchJWKS, Fresh
    <3>2. /\ keyCache.gen \in Nat /\ keyCache.gen <= idp.gen
          /\ keyCache.gen < idp.gen => clock < idp.changed + Ttl + FetchTimeout
      <4>1. keyCache.gen \in Nat /\ keyCache.gen <= idp.gen
        BY <3>1 DEF Typed, LoginsOK, Cache
      <4>2. keyCache.gen < idp.gen => keyCache.fetchedAt <= idp.changed + FetchTimeout
        BY <3>1 DEF Ages, CacheAge
      <4> QED BY <3>1, <4>1, <4>2, Numbers
    <3>3. TokenAge(c)' /\ calls'[c].at \in {"ok", "denied"}
      BY <1>1, <2>1, <3>1, <3>2, Decided
    <3> QED BY <1>1, <2>1, <3>3, CacheQuiet
  <2>3. CASE ~Fresh
    <3>1. Sent(c, "fetch", clock + FetchTimeout)
      BY <1>6, <2>3 DEF fetchJWKS, Sent
    <3>2. clock + FetchTimeout \in Int /\ clock <= clock + FetchTimeout
      BY Numbers
    <3>3. /\ calls'[c].at = "fetch" /\ calls'[c].expires = clock + FetchTimeout
          /\ calls'[c].signer = calls[c].signer
      BY <1>0, <1>3, <3>1, <3>2, SentEffect
    <3>4. TokenAge(c)'
      BY <1>1, <2>1, <3>3 DEF Ages, TokenAge
    <3>5. clock + FetchTimeout <= clock + FetchTimeout
      BY <3>2
    <3>6. CacheAge'
      BY <1>1, <1>2, <2>1, <3>2, <3>3, <3>5 DEF Ages, CacheAge, At
    <3> QED BY <3>4, <3>6
  <2> QED BY <2>2, <2>3
<1>7. CASE FetchAnswer(c)
  <2>1. calls[c].at = "fetch" /\ keyCache' = keyCache /\ Answered(c, "store", idp.gen)
    BY <1>7 DEF FetchAnswer, At, Answered
  <2>2. idp.gen \in Int \cup Accounts \cup {None} /\ ~(idp.gen < idp.gen)
    BY <1>0
  <2>3. /\ calls'[c].at = "store" /\ calls'[c].arg = idp.gen /\ calls'[c].expires = calls[c].expires
        /\ calls'[c].signer = calls[c].signer
    BY <1>0, <1>3, <2>1, <2>2, AnsweredEffect
  <2>4. TokenAge(c)'
    BY <1>1, <2>1, <2>3 DEF Ages, TokenAge
  <2>5. CacheAge'
    BY <1>1, <1>2, <2>1, <2>2, <2>3 DEF Ages, CacheAge, At
  <2> QED BY <2>4, <2>5
<1>8. CASE StoreKeys(c)
  <2>1. calls[c].at = "store" /\ verifySignatureWithKeys(c, calls[c].arg)
    BY <1>8 DEF StoreKeys, At
  <2>2. /\ keyCache' # None /\ keyCache'.gen = calls[c].arg /\ keyCache'.fetchedAt = clock
    BY <1>8, StoreKeysEffect DEF Typed
  <2>3. calls[c].arg \in Nat /\ calls[c].arg <= idp.gen
    BY <2>1 DEF Typed, LoginsOK
  <2>4. calls[c].arg < idp.gen => clock <= idp.changed + FetchTimeout
    <3>1. clock <= calls[c].expires
      BY <2>1 DEF Ages, CacheAge
    <3>2. calls[c].arg < idp.gen => calls[c].expires <= idp.changed + FetchTimeout
      BY <2>1 DEF Ages, CacheAge, At
    <3> QED BY <3>1, <3>2, Numbers
  <2>5. calls[c].arg < idp.gen => clock < idp.changed + Ttl + FetchTimeout
    BY <2>4, Numbers
  <2>6. TokenAge(c)' /\ calls'[c].at \in {"ok", "denied"}
    BY <1>1, <2>1, <2>3, <2>5, Decided
  <2>7. CacheAge'
    BY <1>1, <1>2, <2>2, <2>4, <2>6 DEF Ages, CacheAge, At
  <2> QED BY <2>6, <2>7
<1>9. CASE findGroups(c)
  <2>1. calls[c].at = "groups" /\ keyCache' = keyCache /\ Answered(c, "ok", account)
    BY <1>9 DEF findGroups, At, Answered
  <2>2. account \in Int \cup Accounts \cup {None}
    BY DEF Typed, LoginsOK
  <2>3. calls'[c].at = "ok" /\ calls'[c].arg = account
    BY <1>0, <1>3, <2>1, <2>2, AnsweredEffect
  <2>4. calls[c].op = "ldap" /\ calls[c].at \notin Ended
    BY <1>0, <2>1 DEF Shaped, LdapStages, Ended
  <2>5. account \in seen'[c]
    BY <1>1, <2>4, SeenKept
  <2>6. TokenAge(c)'
    BY <1>1, <2>3, <2>4, <2>5 DEF TokenAge
  <2> QED BY <1>1, <2>1, <2>3, <2>6, CacheQuiet
<1> QED BY <1>4, <1>5, <1>6, <1>7, <1>8, <1>9 DEF Deciding

\* The provider changes its key: whatever knows the old one is from before.
LEMMA ChangeKeyAges ==
  ASSUME Typed, Ages, ObserveAccount, ChangeKey
  PROVE  Ages'
<1>1. UNCHANGED <<calls, clock, keyCache, account>>
  BY DEF ChangeKey, accessVars
<1>2. idp'.gen = idp.gen + 1 /\ idp'.changed = clock
  BY DEF ChangeKey
<1>3. CacheAge'
  <2>1. keyCache # None => keyCache.fetchedAt <= clock + FetchTimeout
    BY Numbers DEF Typed, LoginsOK
  <2> QED BY <1>1, <1>2, <2>1 DEF Ages, CacheAge, At
<1>4. ASSUME NEW c \in Clients PROVE TokenAge(c)'
  <2>1. /\ calls[c].signer <= idp.gen => calls[c].signer <= idp'.gen
        /\ calls[c].begun <= idp'.changed /\ idp'.changed >= calls[c].begun
        /\ calls[c].stamp <= clock => calls[c].stamp <= idp'.changed
    BY <1>2, Numbers
  <2>2. calls[c].op = "ldap" /\ "admin" \in seen[c] => "admin" \in seen'[c]
    BY <1>1, SeenKept
  <2> QED BY <1>1, <2>1, <2>2 DEF Ages, TokenAge
<1> QED BY <1>3, <1>4 DEF Ages

LEMMA AgesKept ==
  ASSUME Typed, Ages, Next
  PROVE  Ages'
<1>0. CallsOK /\ KeysOK /\ LoginsOK /\ ObserveAccount /\ clock \in Int /\ clock <= clock
  BY Numbers DEF Typed, Next
<1>1. ASSUME NEW c \in Clients, Alone(c), UNCHANGED <<clock, idp>>, CacheAge', TokenAge(c)' PROVE Ages'
  <2>1. ASSUME NEW d \in Clients, d # c PROVE TokenAge(d)'
    <3>1. calls'[d] = calls[d] /\ TokenAge(d) /\ clock' \in Int /\ clock <= clock'
      BY <1>0, <1>1, <2>1 DEF Alone, Ages
    <3> QED BY <1>0, <1>1, <3>1, OtherAge
  <2> QED BY <1>1, <2>1 DEF Ages
<1>2. ASSUME NEW c \in Clients, Beginning(c), UNCHANGED <<idp, account, changes, provider, keyCache>>
      PROVE  Ages'
  <2>1. Alone(c) /\ clock' = clock /\ calls'[c].at \in {"lookup", "exchange", "failed", "findUser"}
    BY <1>0, <1>2, BeginShaped
  <2>2. TokenAge(c)'
    BY <2>1 DEF TokenAge
  <2>3. CacheAge'
    BY <1>2, <2>1, CacheQuiet
  <2> QED BY <1>1, <1>2, <2>1, <2>2, <2>3
<1>3. ASSUME NEW c \in Clients, Handling(c), UNCHANGED <<idp, account, changes, provider, keyCache>>
      PROVE  Ages'
  <2>1. Handled(c)
    BY <1>0, <1>3, HandlingShaped
  <2>2. calls'[c].op \notin {"oidc", "ldap"}
    BY <1>0, <2>1 DEF Handled, CallsOK, Shaped, AdminOps
  <2>3. calls'[c].at \notin {"claims", "jwks", "fetch", "store"}
    BY <2>1 DEF Handled, Behind, AdminOps
  <2>4. TokenAge(c)'
    BY <2>2, <2>3 DEF TokenAge
  <2>5. CacheAge'
    BY <1>3, <2>1, <2>3, CacheQuiet DEF Handled
  <2> QED BY <1>1, <1>3, <2>1, <2>4, <2>5 DEF Handled
<1>4. ASSUME NEW c \in Clients, Deciding(c) PROVE Ages'
  <2>1. Alone(c) /\ clock' = clock
    BY <1>0, <1>4, DecidingShaped DEF LoginFrame
  <2>2. idp' = idp
    BY <1>4 DEF Deciding, Exchange, VerifyIDToken, fetchJWKS, FetchAnswer, FetchFails, StoreKeys,
                findUserDN, Authenticate, findGroups, DirectoryFails
  <2>3. CacheAge' /\ TokenAge(c)'
    BY <1>0, <1>4, DecidingAges
  <2> QED BY <1>1, <2>1, <2>2, <2>3
<1>5. CASE ChangeKey
  BY <1>0, <1>5, ChangeKeyAges
<1>6. CASE ChangeAccount
  <2>1. UNCHANGED <<calls, clock, idp, keyCache>>
    BY <1>6 DEF ChangeAccount, accessVars
  <2>2. CacheAge'
    BY <2>1 DEF Ages, CacheAge, At
  <2>3. clock' \in Int /\ clock <= clock'
    BY <1>0, <2>1
  <2>4. \A d \in Clients : TokenAge(d)'
    BY <1>0, <2>1, <2>3, OtherAge DEF Ages
  <2> QED BY <2>2, <2>4 DEF Ages
<1>7. CASE Tick
  <2>1. /\ clock' = clock + 1 /\ UNCHANGED <<calls, idp, keyCache>>
        /\ \A c \in Clients : calls[c].at \in {"fetch", "store"} => clock < calls[c].expires
    BY <1>7 DEF Tick, TickClock
  <2>2. clock' \in Int /\ clock <= clock'
    BY <1>0, <2>1
  <2>3. ASSUME NEW c \in Clients, calls[c].at \in {"fetch", "store"}
        PROVE  clock' <= calls[c].expires /\ calls[c].expires <= clock' + FetchTimeout
    <3>1. clock < calls[c].expires /\ calls[c].expires <= clock + FetchTimeout
      BY <2>1, <2>3 DEF Ages, CacheAge
    <3> QED BY <2>1, <3>1, Numbers
  <2>4. CacheAge'
    BY <2>1, <2>3 DEF Ages, CacheAge, At
  <2>5. \A d \in Clients : TokenAge(d)'
    BY <1>0, <2>1, <2>2, OtherAge DEF Ages
  <2> QED BY <2>4, <2>5 DEF Ages
<1>8. CASE Restart
  <2>1. calls' = [c \in Clients |-> NoCall] /\ keyCache' = None
    BY <1>8 DEF Restart, RestartServer, NewOIDCProvider
  <2> QED BY <2>1, NoCallFacts DEF Ages, CacheAge, TokenAge, At
<1> QED BY <1>2, <1>3, <1>4, <1>5, <1>6, <1>7, <1>8, Steps

\* VerifyIDToken and Authenticate: a signing key that the provider has
\* withdrawn is believed for less than the life of the cache and a fetch
\* together, and a good token refused only that long after a change, however
\* many logins fetch the keys at once; and an LDAP login is an admin's only if
\* the directory said so during it.
THEOREM LoginsAreCurrent == Spec => []LoginsCurrent
<1>1. Init => Typed /\ Ages
  <2>1. ASSUME Init PROVE Ages
    BY <2>1, NoCallFacts DEF Init, InitAccess, Ages, CacheAge, TokenAge, At
  <2> QED BY <2>1, InitTyped
<1>2. Typed /\ Ages /\ [Next]_vars => (Typed /\ Ages)'
  <2> SUFFICES ASSUME Typed, Ages, [Next]_vars PROVE Typed' /\ Ages'
    OBVIOUS
  <2>1. Typed'
    BY TypedKept
  <2>2. CASE Next
    BY <2>1, <2>2, AgesKept
  <2>3. CASE UNCHANGED vars
    BY <2>1, <2>3 DEF vars, accessVars, idVars, Ages, CacheAge, TokenAge, At
  <2> QED BY <2>2, <2>3
<1>3. Ages => LoginsCurrent
  BY DEF Ages, TokenAge, LoginsCurrent
<1> QED BY <1>1, <1>2, <1>3, PTL DEF Spec
=============================================================================
