------------------------------- MODULE Access -------------------------------
(***************************************************************************)
(* Who gets in: access keys (internal/auth/tokens.go), the Auth and        *)
(* RateLimit middleware in front of the S3 API, and the admin API's        *)
(* operations on keys and presigned URLs.  A call reads the key's record,  *)
(* checks signature and time against that copy, and goes on; keys are      *)
(* created, deleted and rotated meanwhile.  Each call on the metadata      *)
(* store is one step.                                                      *)
(*                                                                         *)
(* A signing key is a number, and a signature is known by the signing key  *)
(* that made it.  Time is counted in ticks, several to a second, and so    *)
(* are times in the constants below; what is written into a request or a   *)
(* URL is in whole seconds.                                                *)
(***************************************************************************)
EXTENDS Integers, Sequences

CONSTANTS
  Clients,     \* concurrent callers, all behind one address
  MaxKeys,     \* bound on the access keys ever made; key 1 is the configured root key
  Offsets,     \* how far a client's clock may be off
  Skew,        \* how far it is allowed to be (15 minutes)
  Asked,       \* the lifetimes, in seconds, that callers put or ask for in presigned URLs
  MaxExpiry,   \* the longest lifetime the admin API grants, in seconds (7 days)
  DefaultExpiry, \* the lifetime when that is not within bounds, in seconds (1 hour)
  RootSecrets, \* the secrets that may be configured for the root key
  UserSecrets, \* the signing keys that the user's key may have to begin with
  Rps,         \* requests per second, per address and per access key
  Second,      \* ticks of a second
  MaxCalls,    \* bound on the calls of a behaviour
  MaxClock,    \* bound on time
  MaxRestarts, \* bound on restarts of the server
  None

KeyIds == 1..MaxKeys
Time == 0..MaxClock

ASSUME AccessAssumption ==
  /\ MaxKeys \in Nat \ {0, 1} /\ MaxCalls \in Nat /\ MaxClock \in Nat /\ MaxRestarts \in Nat
  /\ Offsets \subseteq Int /\ Skew \in Nat
  /\ Asked \subseteq Int /\ MaxExpiry \in Nat /\ DefaultExpiry \in 1..MaxExpiry
  /\ Rps \in Nat /\ Second \in Nat \ {0}
  /\ RootSecrets \subseteq Nat \ {0} /\ 1 \in RootSecrets /\ UserSecrets \subseteq Nat

\* AccessKeyRecord but for its signing key.
Identities == [owner : {"root", "user"}, root : BOOLEAN]

\* The signing key "" that a record may have, and what no signing key makes.
NoSecret == 0
Forged == -1

\* timestampFormat knows no fractions of a second.
WholeSecond(t) == t - (t % Second)

\* A presigned URL of the admin API, and the moment, with all its digits,
\* at which its answer says it expires.
Urls == [key : KeyIds, signer : Nat, stamp : Time, expires : {s * Second : s \in 1..MaxExpiry}, until : Nat]

VARIABLES
  clock,
  keys,      \* the record of each access key, without
  signing,   \* the signing key in it
  made,      \* access keys made so far
  urls,      \* presigned URLs handed out
  buckets,   \* the token buckets: [tokens, lastFill]
  calls,     \* each client's call, see NoCall
  ncalls,    \* calls begun
  restarts,  \* restarts left
  passed,    \* when each limiter let a request pass (history)
  held,      \* for each client: what the store has held under its call's key since it began (history)
  given,     \* identities that have been given a key (history)
  dropped    \* identities a key of which was deleted or lost in a rotation (history)

accessVars == <<clock, keys, signing, made, urls, buckets, calls, ncalls, restarts, passed, held, given, dropped>>

\* None is no value of these.
ASSUME NoneAssumption ==
  None \notin Int \cup Identities \cup [tokens : Nat, lastFill : Time]

\* Limiters: the address of the clients is 0, the others are access keys.
Limiters == 0..MaxKeys

\* A call that begins: via is "header", "url" or "login", signer what signed
\* it, rec and secret what it will look up, and arg, of a URL, the moment the
\* admin API named for it.  The identity providers use arg for more.
CallOf(via, op, stage, key, signer, stamp, expires, arg) ==
  [via |-> via, op |-> op, at |-> stage, key |-> key, signer |-> signer, stamp |-> stamp,
   expires |-> expires, arg |-> arg, rec |-> None, secret |-> NoSecret, begun |-> clock]
NoCall == [via |-> "none", op |-> "none", at |-> "idle", key |-> None, signer |-> 0, stamp |-> 0,
           expires |-> 0, arg |-> None, rec |-> None, secret |-> NoSecret, begun |-> 0]

Used == [tokens |-> IF Rps = 0 THEN 0 ELSE (Rps - 1) * Second, lastFill |-> 0]

RootKey == [owner |-> "root", root |-> TRUE]
UserKey == [owner |-> "user", root |-> FALSE]

\* The server has provisioned the root key, and a user has one key, in a
\* record with a signing key or in one without, which no operation stores but
\* the Auth middleware expects.  The bucket of the address has been used: it
\* lacks a token.
InitAccess ==
  /\ clock = 0
  /\ keys = [k \in KeyIds |-> CASE k = 1 -> RootKey [] k = 2 -> UserKey [] OTHER -> None]
  /\ \E s \in UserSecrets : signing = [k \in KeyIds |-> IF k = 2 THEN s ELSE k]
  /\ made = 2
  /\ urls = {}
  /\ buckets = [l \in Limiters |-> IF l = 0 THEN Used ELSE None]
  /\ calls = [c \in Clients |-> NoCall]
  /\ ncalls = 0
  /\ restarts = MaxRestarts
  /\ passed = [l \in Limiters |-> <<>>]
  /\ held = [c \in Clients |-> {}]
  /\ given = {RootKey, UserKey}
  /\ dropped = {}

-----------------------------------------------------------------------------
(* A call and its authentication.                                          *)

At(c, stage) == calls[c].at = stage
Goto(c, stage) == calls' = [calls EXCEPT ![c].at = stage]
Ended == {"idle", "denied", "limited", "failed", "ok"}

Begin(c, call) ==
  /\ calls[c].at \in Ended
  /\ ncalls < MaxCalls
  /\ ncalls' = ncalls + 1
  /\ calls' = [calls EXCEPT ![c] = call]

\* An S3 request signed in its header, with the signing key of its access key
\* or not.
S3Request(c) ==
  \E k \in 1..made, d \in Offsets : \E s \in {signing[k], Forged} :
    /\ Begin(c, CallOf("header", "s3", "lookup", k, s, WholeSecond(clock + d), 0, None))
    /\ UNCHANGED <<clock, keys, signing, made, urls, buckets, restarts, passed, given, dropped>>

\* An S3 request with a presigned URL of the server.
UrlRequest(c) ==
  \E u \in urls :
    /\ Begin(c, CallOf("url", "s3", "lookup", u.key, u.signer, u.stamp, u.expires, u.until))
    /\ UNCHANGED <<clock, keys, signing, made, urls, buckets, restarts, passed, given, dropped>>

\* One with a URL that the client made, in the same way or with a bad
\* signature, for any lifetime short of what overflows a time.Duration.
OwnUrlRequest(c) ==
  \E k \in 1..made, d \in Offsets, life \in Asked : \E s \in {signing[k], Forged} :
    /\ Begin(c, CallOf("url", "s3", "lookup", k, s, WholeSecond(clock + d), life * Second, None))
    /\ UNCHANGED <<clock, keys, signing, made, urls, buckets, restarts, passed, given, dropped>>

\* A request to the admin API, about key t or with the lifetime arg.
AdminRequest(c) ==
  \E k \in 1..made, op \in {"create", "list", "delete", "rotate", "presign"} :
  \E arg \in CASE op = "presign" -> Asked [] op \in {"delete", "rotate"} -> 1..made [] OTHER -> {None} :
    /\ keys[k] # None
    /\ Begin(c, CallOf("header", op, "lookup", k, signing[k], WholeSecond(clock), 0, arg))
    /\ UNCHANGED <<clock, keys, signing, made, urls, buckets, restarts, passed, given, dropped>>

\* keyStore.Lookup: from here on the call has its own copy of the record.
AuthLookup(c) ==
  LET rec == keys[calls[c].key]
  IN /\ At(c, "lookup")
     /\ calls' = [calls EXCEPT ![c].rec = rec, ![c].secret = signing[calls[c].key],
                               ![c].at = IF rec = None THEN "denied" ELSE "verify"]
     /\ UNCHANGED <<clock, keys, signing, made, urls, buckets, ncalls, restarts, passed, given, dropped>>

\* The signature over the canonical request is the one that the signing key
\* in the record makes, the empty one too.
Signed(q) == q.signer = q.secret

\* Seeded fault: only a timestamp of the past is compared with the clock.
TrustsFuture(q) == Signed(q) /\ clock - q.stamp <= Skew

\* VerifyRequest: the timestamp is within the skew on both sides and the
\* signature is good.
VerifyRequest(q) == Signed(q) /\ clock - q.stamp <= Skew /\ q.stamp - clock <= Skew

\* A URL is valid up to and including the moment it expires, counted from
\* the second in which it was made.
validatePresignedExpiry(q) == clock <= q.stamp + q.expires

VerifyPresignedURL(q) == validatePresignedExpiry(q) /\ Signed(q)

\* A request signed in its header is not verified at all if the record has no
\* signing key.  Behind the authentication is the limiter of the S3 API, or
\* the operation of the admin API.
AuthVerify(c) ==
  LET q == calls[c]
      good == IF q.via = "url" THEN VerifyPresignedURL(q) ELSE q.secret = NoSecret \/ VerifyRequest(q)
  IN /\ At(c, "verify")
     /\ Goto(c, IF ~good THEN "denied" ELSE IF q.op = "s3" THEN "address" ELSE q.op)
     /\ UNCHANGED <<clock, keys, signing, made, urls, buckets, ncalls, restarts, passed, given, dropped>>

-----------------------------------------------------------------------------
(* The rate limiter.  A token is Second units, so a tick adds Rps of them.  *)

\* The units in a bucket now; a new one is full.
Filled(l) ==
  LET full == Rps * Second
      sum == IF buckets[l] = None THEN full ELSE buckets[l].tokens + (clock - buckets[l].lastFill) * Rps
  IN IF sum > full THEN full ELSE sum

\* allow: refill, then take a token if there is a whole one.
allow(l) == Filled(l) >= Second

\* Seeded fault: a bucket does not note when it was refilled.
ForgetsRefill(l) ==
  /\ buckets' = [buckets EXCEPT ![l] =
                   [tokens |-> IF allow(l) THEN Filled(l) - Second ELSE Filled(l),
                    lastFill |-> IF buckets[l] = None THEN clock ELSE buckets[l].lastFill]]
  /\ passed' = IF allow(l) THEN [passed EXCEPT ![l] = Append(@, clock)] ELSE passed

TakeToken(l) ==
  /\ buckets' = [buckets EXCEPT ![l] =
                   [tokens |-> IF allow(l) THEN Filled(l) - Second ELSE Filled(l), lastFill |-> clock]]
  /\ passed' = IF allow(l) THEN [passed EXCEPT ![l] = Append(@, clock)] ELSE passed

\* By address first, then by access key; what the first has taken is gone
\* when the second refuses.  With 0 requests per second there is no limiter.
RateLimit(c) ==
  LET l == IF At(c, "address") THEN 0 ELSE calls[c].key
  IN /\ calls[c].at \in {"address", "limitKey"}
     /\ IF Rps = 0 THEN Goto(c, "ok") /\ UNCHANGED <<buckets, passed>>
        ELSE /\ TakeToken(l)
             /\ Goto(c, IF ~allow(l) THEN "limited" ELSE IF l = 0 THEN "limitKey" ELSE "ok")
     /\ UNCHANGED <<clock, keys, signing, made, urls, ncalls, restarts, given, dropped>>

-----------------------------------------------------------------------------
(* The admin API's operations on keys.                                     *)

\* CreateKey: a random name and a random secret nobody has.
CreateKey(rec) ==
  /\ made < MaxKeys
  /\ made' = made + 1
  /\ keys' = [keys EXCEPT ![made + 1] = rec]
  /\ signing' = [signing EXCEPT ![made + 1] = made + 1]
  /\ given' = given \cup {rec}

create(c) ==
  /\ At(c, "create")
  /\ CreateKey(UserKey)
  /\ Goto(c, "ok")
  /\ UNCHANGED <<clock, urls, buckets, ncalls, restarts, passed, dropped>>

\* list and the lookups change nothing.
list(c) ==
  /\ At(c, "list")
  /\ Goto(c, "ok")
  /\ UNCHANGED <<clock, keys, signing, made, urls, buckets, ncalls, restarts, passed, given, dropped>>

\* The store is content with a key that does not exist.
DeleteKey(k) == keys' = [keys EXCEPT ![k] = None] /\ UNCHANGED signing

delete(c) ==
  LET t == calls[c].arg
  IN /\ At(c, "delete")
     /\ DeleteKey(t)
     /\ dropped' = IF keys[t] = None THEN dropped ELSE dropped \cup {keys[t]}
     /\ Goto(c, "ok")
     /\ UNCHANGED <<clock, made, urls, buckets, ncalls, restarts, passed, given>>

\* rotateKey: Lookup, DeleteKey, CreateKey, with nothing held between them.
rotateLookup(c) ==
  LET rec == keys[calls[c].arg]
  IN /\ At(c, "rotate")
     /\ calls' = [calls EXCEPT ![c].rec = rec, ![c].at = IF rec = None THEN "failed" ELSE "rotateDelete"]
     /\ UNCHANGED <<clock, keys, signing, made, urls, buckets, ncalls, restarts, passed, given, dropped>>

rotateDelete(c) ==
  /\ At(c, "rotateDelete")
  /\ DeleteKey(calls[c].arg)
  /\ Goto(c, "rotateCreate")
  /\ UNCHANGED <<clock, made, urls, buckets, ncalls, restarts, passed, given, dropped>>

\* Seeded fault: the new key is made for a user whoever had the old one.
ForgetsOwner(c) ==
  /\ At(c, "rotateCreate")
  /\ CreateKey(UserKey)
  /\ Goto(c, "ok")
  /\ UNCHANGED <<clock, urls, buckets, ncalls, restarts, passed, dropped>>

rotateCreate(c) ==
  /\ At(c, "rotateCreate")
  /\ CreateKey(calls[c].rec)
  /\ Goto(c, "ok")
  /\ UNCHANGED <<clock, urls, buckets, ncalls, restarts, passed, dropped>>

\* The store cannot be written: an error, with the old key already gone when
\* the new one cannot be made.
StoreFails(c) ==
  /\ calls[c].at \in {"create", "delete", "rotateDelete", "rotateCreate"}
  /\ Goto(c, "failed")
  /\ dropped' = IF At(c, "rotateCreate") THEN dropped \cup {calls[c].rec} ELSE dropped
  /\ UNCHANGED <<clock, keys, signing, made, urls, buckets, ncalls, restarts, passed, given>>

\* GeneratePresignedURL signs key, time and lifetime, in whole seconds, with
\* the signing key; the answer of the handler counts from the time it has.
GeneratePresignedURL(k, life) ==
  [key |-> k, signer |-> signing[k], stamp |-> WholeSecond(clock), expires |-> life * Second,
   until |-> clock + life * Second]

\* Seeded fault: the lifetime asked for is taken as it is.
TakesAnyLifetime(c) ==
  /\ At(c, "presign")
  /\ keys[calls[c].key] # None
  /\ Goto(c, "ok")
  /\ urls' = urls \cup {GeneratePresignedURL(calls[c].key, calls[c].arg)}
  /\ UNCHANGED <<clock, keys, signing, made, buckets, ncalls, restarts, passed, given, dropped>>

\* The admin API's presign looks the caller's key up again and signs with it;
\* a lifetime out of bounds becomes an hour.
presign(c) ==
  LET q == calls[c]
      life == IF q.arg \in 1..MaxExpiry THEN q.arg ELSE DefaultExpiry
  IN /\ At(c, "presign")
     /\ IF keys[q.key] = None
        THEN Goto(c, "failed") /\ UNCHANGED urls
        ELSE Goto(c, "ok") /\ urls' = urls \cup {GeneratePresignedURL(q.key, life)}
     /\ UNCHANGED <<clock, keys, signing, made, buckets, ncalls, restarts, passed, given, dropped>>

-----------------------------------------------------------------------------

\* UpsertKey of the root key, with the configured secret.
UpsertKey(secret) ==
  /\ keys' = [keys EXCEPT ![1] = RootKey]
  /\ signing' = [signing EXCEPT ![1] = secret]

\* The server dies and comes back: calls and limiters are gone.  If a secret
\* is configured, the same or another, the root key is provisioned again.
\* Before the first call that is no different from another initial state: it
\* is left out to bound the model.
RestartServer ==
  /\ restarts > 0 /\ ncalls > 0
  /\ restarts' = restarts - 1
  /\ calls' = [c \in Clients |-> NoCall]
  /\ buckets' = [l \in Limiters |-> None]
  /\ passed' = [l \in Limiters |-> <<>>]
  /\ LET lost == dropped \cup {calls[c].rec : c \in {d \in Clients : At(d, "rotateCreate")}}
     IN \/ \E secret \in RootSecrets : UpsertKey(secret) /\ dropped' = lost \ {RootKey}
        \/ UNCHANGED <<keys, signing>> /\ dropped' = lost
  /\ UNCHANGED <<clock, made, urls, ncalls, given>>

TickClock ==
  /\ clock < MaxClock
  /\ clock' = clock + 1
  /\ UNCHANGED <<keys, signing, made, urls, buckets, calls, ncalls, restarts, passed, given, dropped>>

Call(c) ==
  \/ S3Request(c) \/ UrlRequest(c) \/ OwnUrlRequest(c) \/ AdminRequest(c)
  \/ AuthLookup(c) \/ AuthVerify(c) \/ RateLimit(c)
  \/ create(c) \/ list(c) \/ delete(c) \/ presign(c)
  \/ rotateLookup(c) \/ rotateDelete(c) \/ rotateCreate(c) \/ StoreFails(c)

\* What the store holds under a name: a record with this signing key, or none.
Stored(k) == IF keys[k] = None THEN None ELSE signing[k]

\* From its first step to its last a call meets these under its key.
ObserveKeys ==
  held' = [c \in Clients |->
             LET now == IF calls'[c].key = None THEN {} ELSE {Stored(calls[c].key)'}
             IN IF calls[c].at \notin Ended THEN held[c] \cup now
                ELSE IF calls'[c].at \in Ended THEN held[c] ELSE now]

-----------------------------------------------------------------------------
(* Properties.                                                             *)

\* The middleware: a request that is in time now was so when it was checked.
\* The skew is 15 minutes (sigv4.go:75), where docs/security-guide.md:55 says 5.
InTime(q) ==
  IF q.via = "url" THEN clock <= q.stamp + q.expires
  ELSE clock - q.stamp <= Skew /\ q.stamp - q.begun <= Skew

\* The middleware and presign: a call in time is refused only if, at some
\* moment of it, the store did not hold the signing key that signed it.  For
\* a URL of the server time lasts until a second before the moment its answer
\* named: the stamp in it is cut to the second.  A call that gets past the
\* middleware came with a signature by a signing key that was stored under
\* its name during the call, and not too late nor, by header, too early; or
\* by header with the name of a record without a signing key.
AuthenticatesRightly ==
  \A c \in Clients :
    LET q == calls[c]
    IN /\ q.via \in {"url", "header"} /\ q.at = "denied" /\ InTime(q) => held[c] # {q.signer}
       /\ q.via = "url" /\ q.at = "denied" /\ q.arg # None /\ clock <= q.arg - Second => held[c] # {q.signer}
       /\ q.via = "url" /\ q.at \notin {"idle", "lookup", "verify", "denied"} =>
            /\ q.signer \in held[c]
            /\ q.begun <= q.stamp + q.expires
            /\ q.arg # None => q.begun <= q.arg
       /\ q.via = "header" /\ q.at \notin {"idle", "lookup", "verify", "denied"} =>
            \/ NoSecret \in held[c]
            \/ q.signer \in held[c] /\ q.begun - q.stamp <= Skew /\ q.stamp - clock <= Skew

\* rotateKey, delete and CreateKey: an owner who has been given a key has
\* one, in the same role, or a rotation is about to make it, however the
\* rotations of two callers interleave.  The exceptions are a deleted key
\* and a rotation that fails or is cut short behind its delete; a restart
\* brings the root key back even then.
OwnerKeepsKey ==
  \A id \in given \ dropped :
    \/ \E k \in KeyIds : keys[k] = id
    \/ \E c \in Clients : At(c, "rotateCreate") /\ calls[c].rec = id

\* RateLimit: in every stretch of time an address or an access key gets at
\* most a full bucket plus what that time refills, whatever calls interleave.
RateBounded ==
  \A l \in Limiters :
    \A i, j \in DOMAIN passed[l] :
      i <= j => (j - i + 1) * Second <= Rps * Second + Rps * (passed[l][j] - passed[l][i])
=============================================================================
