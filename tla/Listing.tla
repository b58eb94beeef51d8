------------------------------ MODULE Listing ------------------------------
(***************************************************************************)
(* Listing the objects of a bucket, a page per request, while clients      *)
(* write and delete (bbolt.go ListObjects behind the S3 handlers of        *)
(* list.go and the admin handler of buckets_admin.go).  A page is one read *)
(* transaction; between two pages the bucket may change.                   *)
(*                                                                         *)
(* Keys are numbered in the order of the store.  The keys with a given     *)
(* prefix are neighbours in that order, so a prefix is the interval of     *)
(* keys that have it.                                                      *)
(***************************************************************************)
EXTENDS Naturals, Sequences, FiniteSetsExt, SequencesExt

CONSTANTS
  NKeys,         \* number of keys
  PrefixSets,    \* intervals of keys, one for each prefix that is asked for
  Group,         \* Group[p][k]: the common prefix of k below p, 0 without a delimiter in it
  DefaultMax,    \* keys of a page when the request names no number (1000)
  Rewinds,       \* sets of keys that, as tokens, sort before the bucket's entries
  MaxAsked,      \* the numbers a request may name
  MaxPages,      \* bound on the pages a client asks for
  MaxOps,        \* bound on writes and deletes
  MaxClock,      \* bound on time, in days
  None

Keys == 1..NKeys

ASSUME ListingAssumption ==
  /\ NKeys \in Nat /\ DefaultMax \in Nat \ {0} /\ MaxAsked \subseteq Nat
  /\ MaxPages \in Nat /\ MaxOps \in Nat /\ MaxClock \in Nat
  /\ PrefixSets \subseteq SUBSET Keys /\ Rewinds \subseteq SUBSET Keys
  /\ \A p \in PrefixSets : \A i, j \in p : i..j \subseteq p
  /\ Group \in [PrefixSets -> [Keys -> Nat]]

\* The fields of ObjectRecord a rule looks at: LastModified and whether the
\* tags are those of the rules.
Records == [mtime : 0..MaxClock, tagged : BOOLEAN]

\* ListOptions; start 0 means from the beginning.
Queries == [prefix : PrefixSets, delimited : BOOLEAN, start : 0..NKeys, max : MaxAsked]

VARIABLES
  store,   \* the record of each key
  clock,   \* the day
  nops,    \* writes and deletes so far
  lister,  \* a client paging: [kind, at, query, from, token, rewinds, pages, keys, groups]
  stable   \* keys present since the client began (history)

storeVars == <<store, clock, nops>>

Present(s) == {k \in Keys : s[k] # None}

InitListing ==
  /\ store \in [Keys -> {None, [mtime |-> 0, tagged |-> TRUE]}]
  /\ clock = 0
  /\ nops = 0
  /\ lister = [kind |-> None, at |-> "idle", query |-> None, from |-> 0, token |-> 0,
               rewinds |-> {}, pages |-> 0, keys |-> <<>>, groups |-> {}]
  /\ stable = Present(store)

-----------------------------------------------------------------------------
(* The page.                                                               *)

\* The keys the cursor walks over.  Without a start it seeks the prefix;
\* with one it goes on behind that key and gives up at the first key without
\* the prefix, even when keys with the prefix follow.  A continuation token
\* is used as it is, without the bucket's name in front: the cursor starts
\* at the first key of the bucket (the tokens in rewinds) or finds nothing of
\* it, depending on the names of the bucket, of its neighbours and of the key.
Walk(present, p, start) == {k \in present : k > start /\ \A j \in present : start < j /\ j <= k => j \in p}

Cursor(present, q, token) ==
  CASE token # 0 -> IF token \in lister.rewinds THEN Walk(present, q.prefix, 0) ELSE {}
    [] token = 0 /\ q.start # 0 -> Walk(present, q.prefix, q.start)
    [] OTHER -> present \cap q.prefix

\* Seeded fault: the page begins with the key it should begin behind.
ListsStartAgain(present, q, token) ==
  LET walked == {k \in present \cap q.prefix : k >= q.start}
      max == IF q.max = 0 THEN DefaultMax ELSE q.max
  IN [records |-> {k \in walked : Cardinality({j \in walked : j < k}) < max}, prefixes |-> {}]

\* Keys with the delimiter fold into a common prefix and are never cut off;
\* the number of records and common prefixes is compared at the next record.
ListObjects(present, q, token) ==
  LET max == IF q.max = 0 THEN DefaultMax ELSE q.max
      walked == Cursor(present, q, token)
      group(k) == IF q.delimited THEN Group[q.prefix][k] ELSE 0
      plain == {k \in walked : group(k) = 0}
      before(S, k) == {j \in S : j < k}
      groups(S) == {group(k) : k \in S \ plain}
      full == {k \in plain : Cardinality(before(plain, k)) + Cardinality(groups(before(walked, k))) >= max}
      read == IF full = {} THEN walked ELSE before(walked, Min(full))
  IN [records |-> read \cap plain, prefixes |-> groups(read)]

\* Records come in the order of the store.
InOrder(S) ==
  CHOOSE s \in [1..Cardinality(S) -> S] : \A i, j \in DOMAIN s : i < j => s[i] < s[j]

-----------------------------------------------------------------------------
(* Clients that change the bucket.                                         *)

\* A PUT with the tags of the rules or without.
PutObject(k) ==
  /\ nops < MaxOps
  /\ nops' = nops + 1
  /\ \E t \in BOOLEAN : store' = [store EXCEPT ![k] = [mtime |-> clock, tagged |-> t]]
  /\ UNCHANGED clock

\* New tags leave LastModified alone.
SetObjectTags(k) ==
  /\ nops < MaxOps
  /\ store[k] # None
  /\ nops' = nops + 1
  /\ store' = [store EXCEPT ![k].tagged = ~@]
  /\ UNCHANGED clock

DeleteObject(k) ==
  /\ nops < MaxOps
  /\ store[k] # None
  /\ nops' = nops + 1
  /\ store' = [store EXCEPT ![k] = None]
  /\ UNCHANGED clock

Tick ==
  /\ clock < MaxClock
  /\ clock' = clock + 1
  /\ UNCHANGED <<store, nops>>

Change == (\E k \in Keys : PutObject(k) \/ SetObjectTags(k) \/ DeleteObject(k)) \/ Tick

-----------------------------------------------------------------------------
(* The client that pages.                                                  *)

\* The admin API does not know start and corrects max to 1..1000.
AdminQuery(q) == q.start = 0 /\ q.max # 0

\* listObjectsV1, listObjectsV2 and the admin API's listObjects.
BeginListing ==
  /\ lister.at = "idle"
  /\ \E kind \in {"V1", "V2", "admin"}, q \in Queries, tokens \in Rewinds \cup {{}} :
       /\ kind = "admin" => AdminQuery(q)
       /\ kind # "V2" => tokens = {}
       /\ lister' = [lister EXCEPT !.kind = kind, !.at = "page", !.query = q, !.from = q.start,
                                   !.rewinds = tokens]
  /\ UNCHANGED storeVars

\* The handlers call a listing truncated when the records alone fill the
\* page.
IsTruncated(page) == Cardinality(page.records) = lister.query.max

\* One request.  With V1 the client goes on behind the last key it has, for
\* the answer has no NextMarker; with V2 it sends NextContinuationToken, the
\* last key.  The admin API does not say whether there is more.
Page ==
  LET page == ListObjects(Present(store), lister.query, lister.token)
      more == lister.kind # "admin" /\ IsTruncated(page) /\ page.records # {}
      last == Max(page.records)
      next == [lister EXCEPT !.pages = @ + 1,
                             !.keys = @ \o InOrder(page.records),
                             !.groups = @ \cup page.prefixes]
  IN /\ lister.at = "page"
     /\ lister.pages < MaxPages
     /\ lister' = IF ~more THEN [next EXCEPT !.at = "done"]
                  ELSE IF lister.kind = "V1" THEN [next EXCEPT !.query.start = last]
                  ELSE [next EXCEPT !.token = last]
     /\ UNCHANGED storeVars

\* The bucket has been deleted or the store cannot be read.
PageFails ==
  /\ lister.at = "page"
  /\ lister' = [lister EXCEPT !.at = "failed"]
  /\ UNCHANGED storeVars

-----------------------------------------------------------------------------
(* Properties.                                                             *)

\* The promise of a listing: every key with the prefix behind its start that
\* was there all the time has been listed, and no key twice.
Listed ==
  /\ \A i, j \in DOMAIN lister.keys : i < j => lister.keys[i] < lister.keys[j]
  /\ {k \in stable \cap lister.query.prefix : k > lister.from} \subseteq ToSet(lister.keys)

\* The listings it is given for have ended, use no delimiter, ask for at
\* least one key a page and start at no key or at one with the prefix.
Judged(kind) ==
  /\ lister.at = "done" /\ lister.kind = kind
  /\ ~lister.query.delimited
  /\ lister.query.max > 0
  /\ lister.from \in {0} \cup lister.query.prefix

\* listObjectsV1 over bbolt's ListObjects: however the bucket changes between
\* the pages, a client that continues behind the last key it got sees every
\* object that was there throughout, once and in order.
PagesComplete == Judged("V1") => Listed

\* listObjectsV2 with its continuation token, of which the documentation
\* says the same.
TokenPagesComplete == Judged("V2") => Listed
=============================================================================
