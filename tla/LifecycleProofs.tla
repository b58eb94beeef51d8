-------------------------- MODULE LifecycleProofs ---------------------------
(***************************************************************************)
(* Listings and the lifecycle job, for any number of keys, prefixes and    *)
(* rules and any limit of a page.                                          *)
(***************************************************************************)
EXTENDS Lifecycle, FiniteSetTheorems, WellFoundedInduction, TLAPS

-----------------------------------------------------------------------------
(* Sets of keys and their order *)

LEMMA LeastKey ==
  ASSUME NEW S \in SUBSET Nat, S # {}
  PROVE  \E m \in S : \A j \in S : m <= j
<1>1. PICK m \in S : \A j \in S : <<j, m>> \notin OpToRel(<, Nat)
  BY NatLessThanWellFounded, WFMin
<1>2. \A j \in S : ~(j < m)
  BY <1>1 DEF OpToRel
<1> QED BY <1>2

LEMMA MinKey ==
  ASSUME NEW S \in SUBSET Keys, S # {}
  PROVE  Min(S) \in S /\ \A j \in S : Min(S) <= j
<1>1. S \in SUBSET Nat
  BY DEF Keys
<1>2. \E m \in S : \A j \in S : m <= j
  BY <1>1, LeastKey
<1> QED BY <1>2 DEF Min

LEMMA MaxKey ==
  ASSUME NEW S \in SUBSET Keys, S # {}
  PROVE  Max(S) \in S /\ \A j \in S : j <= Max(S)
<1> DEFINE T == {NKeys - k : k \in S}
<1>0. NKeys \in Nat /\ \A k \in S : k \in Nat /\ k <= NKeys
  BY ListingAssumption DEF Keys
<1>1. T \in SUBSET Nat /\ T # {}
  <2>1. \A k \in S : NKeys - k \in Nat
    BY <1>0
  <2> QED BY <2>1
<1>2. PICK m \in T : \A j \in T : m <= j
  <2> HIDE DEF T
  <2> QED BY <1>1, LeastKey
<1>3. PICK k \in S : m = NKeys - k
  OBVIOUS
<1>4. ASSUME NEW j \in S PROVE j <= k
  <2>1. m <= NKeys - j
    BY <1>2
  <2> QED BY <1>0, <1>3, <2>1 DEF Keys
<1>5. \E x \in S : \A y \in S : x >= y
  BY <1>3, <1>4 DEF Keys
<1>6. Max(S) \in S /\ \A y \in S : Max(S) >= y
  BY <1>5 DEF Max
<1> QED BY <1>6 DEF Keys

LEMMA KeysFinite ==
  ASSUME NEW S \in SUBSET Keys
  PROVE  IsFiniteSet(S) /\ Cardinality(S) \in Nat /\ Cardinality(S) <= NKeys
<1>1. NKeys \in Nat
  BY ListingAssumption
<1>2. IsFiniteSet(Keys) /\ Cardinality(Keys) = NKeys
  BY <1>1, FS_Interval DEF Keys
<1> QED BY <1>2, FS_Subset, FS_CardinalityType

\* InOrder puts the keys of a set in ascending order, each of them once: the key
\* with i - 1 smaller ones goes to place i.
LEMMA Ordered ==
  ASSUME NEW S \in SUBSET Keys
  PROVE  /\ InOrder(S) \in [1..Cardinality(S) -> S]
         /\ \A i, j \in 1..Cardinality(S) : i < j => InOrder(S)[i] < InOrder(S)[j]
         /\ \A k \in S : \E i \in 1..Cardinality(S) : InOrder(S)[i] = k
<1> DEFINE D == 1..Cardinality(S)
           Upto(k) == {j \in S : j <= k}
           rank == [k \in S |-> Cardinality(Upto(k))]
<1>1. /\ IsFiniteSet(S) /\ Cardinality(S) \in Nat /\ \A k \in S : k \in Nat
      /\ IsFiniteSet(D) /\ Cardinality(D) = Cardinality(S)
  <2>1. IsFiniteSet(S) /\ Cardinality(S) \in Nat
    BY KeysFinite
  <2> QED BY <2>1, FS_Interval DEF Keys
<1>2. ASSUME NEW k \in S PROVE IsFiniteSet(Upto(k)) /\ Cardinality(Upto(k)) \in D
  <2>1. Upto(k) \in SUBSET S /\ k \in Upto(k)
    BY <1>1
  <2> HIDE DEF Upto
  <2>2. IsFiniteSet(Upto(k)) /\ Cardinality(Upto(k)) <= Cardinality(S)
    BY <1>1, <2>1, FS_Subset
  <2>3. Cardinality(Upto(k)) \in Nat /\ Cardinality(Upto(k)) # 0
    BY <2>1, <2>2, FS_CardinalityType, FS_EmptySet
  <2> QED BY <1>1, <2>2, <2>3
<1>3. ASSUME NEW j \in S, NEW k \in S, j < k PROVE rank[j] < rank[k]
  <2>1. Upto(j) \in SUBSET Upto(k) /\ k \in Upto(k) /\ k \notin Upto(j)
    BY <1>1, <1>3
  <2>2. IsFiniteSet(Upto(k)) /\ Cardinality(Upto(j)) \in D /\ Cardinality(Upto(k)) \in D
    BY <1>2
  <2> HIDE DEF Upto
  <2>3. Cardinality(Upto(j)) <= Cardinality(Upto(k)) /\ Cardinality(Upto(j)) # Cardinality(Upto(k))
    BY <2>1, <2>2, FS_Subset
  <2> QED BY <2>2, <2>3
<1>4. rank \in [S -> D]
  BY <1>2
<1> HIDE DEF rank
<1>5. rank \in Injection(S, D)
  <2>1. ASSUME NEW j \in S, NEW k \in S, j # k PROVE rank[j] # rank[k]
    <3>1. j < k \/ k < j
      BY <1>1, <2>1
    <3>2. rank[j] \in Nat /\ rank[k] \in Nat
      BY <1>4
    <3> QED BY <1>3, <3>1, <3>2
  <2> QED BY <1>4, <2>1 DEF Injection, IsInjective
<1>6. \A i \in D : \E k \in S : rank[k] = i
  <2>1. rank \in Surjection(S, D)
    BY <1>1, <1>5, FS_Injection
  <2> QED BY <2>1 DEF Surjection
<1> DEFINE at == [i \in D |-> CHOOSE k \in S : rank[k] = i]
<1>7. at \in [D -> S] /\ \A i \in D : rank[at[i]] = i
  BY <1>6
<1> HIDE DEF at
<1>8. ASSUME NEW i \in D, NEW j \in D, i < j PROVE at[i] < at[j]
  <2>1. at[i] \in Nat /\ at[j] \in Nat /\ at[i] # at[j]
    BY <1>1, <1>7, <1>8
  <2>2. ~(at[j] < at[i])
    <3>1. at[j] < at[i] => j < i
      BY <1>3, <1>7
    <3> QED BY <1>8, <3>1
  <2> QED BY <2>1, <2>2
<1>9. \E s \in [D -> S] : \A i, j \in DOMAIN s : i < j => s[i] < s[j]
  <2>1. DOMAIN at = D
    BY <1>7
  <2> QED BY <1>7, <1>8, <2>1
<1>10. /\ InOrder(S) \in [D -> S]
       /\ \A i, j \in DOMAIN InOrder(S) : i < j => InOrder(S)[i] < InOrder(S)[j]
  BY <1>9 DEF InOrder
<1> DEFINE s == InOrder(S)
<1>11. s \in [D -> S] /\ \A i, j \in D : i < j => s[i] < s[j]
  BY <1>10
<1> HIDE DEF s
<1>12. s \in Injection(D, S)
  <2>1. ASSUME NEW i \in D, NEW j \in D, i # j PROVE s[i] # s[j]
    <3>1. i < j \/ j < i
      BY <2>1
    <3>2. s[i] \in Nat /\ s[j] \in Nat
      BY <1>1, <1>11
    <3> QED BY <1>11, <3>1, <3>2
  <2> QED BY <1>11, <2>1 DEF Injection, IsInjective
<1>13. \A k \in S : \E i \in D : s[i] = k
  <2>1. s \in Surjection(D, S)
    BY <1>1, <1>12, FS_Injection
  <2> QED BY <2>1 DEF Surjection
<1> QED BY <1>11, <1>13 DEF s

-----------------------------------------------------------------------------
(* A page *)

\* The first max keys of S, as the scan cuts them off.
Cut(S, max) ==
  LET full == {k \in S : Cardinality({j \in S : j < k}) >= max}
  IN IF full = {} THEN S ELSE {j \in S : j < Min(full)}

\* A page ends at the limit and not before the last key.
LEMMA CutRight ==
  ASSUME NEW S \in SUBSET Keys, NEW max \in Nat \ {0}
  PROVE  /\ Cut(S, max) \in SUBSET S
         /\ \A k \in Cut(S, max), j \in S : j <= k => j \in Cut(S, max)
         /\ Cardinality(Cut(S, max)) <= max
         /\ Cut(S, max) # S => Cardinality(Cut(S, max)) = max
         /\ Cardinality(S) <= max => Cut(S, max) = S
<1> DEFINE Before(k) == {j \in S : j < k}
           full == {k \in S : Cardinality(Before(k)) >= max}
<1>a. \A k \in S : k \in Nat
  BY DEF Keys
<1>b. \A k : Before(k) \in SUBSET S
  OBVIOUS
<1>c. full \in SUBSET S
  OBVIOUS
<1>0. /\ \A k : Before(k) \in SUBSET Keys /\ Before(k) \in SUBSET S
      /\ \A k \in S : k \in Nat /\ k \notin Before(k)
      /\ full \in SUBSET Keys
  BY <1>a, <1>b, <1>c
<1>1. \A k : IsFiniteSet(Before(k)) /\ Cardinality(Before(k)) \in Nat
  <2> HIDE DEF Before
  <2> QED BY <1>0, KeysFinite
<1>2. IsFiniteSet(S) /\ Cardinality(S) \in Nat
  BY KeysFinite
\* A key that is not the last of a set has less before it than the set has.
<1>3. ASSUME NEW T \in SUBSET S, NEW t \in T, \A k \in T : k <= t,
             \A k \in S, j \in T : k <= j => k \in T
      PROVE  Cardinality(Before(t)) = Cardinality(T) - 1
  <2>1. Before(t) = T \ {t}
    <3>1. ASSUME NEW k \in Before(t) PROVE k \in T \ {t}
      BY <1>a, <1>3
    <3>2. ASSUME NEW k \in T \ {t} PROVE k \in Before(t)
      <4>1. k \in S /\ k \in Nat /\ t \in Nat /\ k <= t /\ k # t
        BY <1>a, <1>3
      <4> QED BY <4>1
    <3> QED BY <3>1, <3>2
  <2>2. IsFiniteSet(T)
    BY <1>2, FS_Subset
  <2> QED BY <2>1, <2>2, FS_RemoveElement
<1>4. CASE full = {}
  <2>1. Cut(S, max) = S
    BY <1>4 DEF Cut
  <2>2. Cardinality(S) <= max
    <3>1. CASE S = {}
      BY <3>1, FS_EmptySet
    <3>2. CASE S # {}
      <4>1. Max(S) \in S /\ \A j \in S : j <= Max(S)
        BY <3>2, MaxKey
      <4>2. Cardinality(Before(Max(S))) = Cardinality(S) - 1
        BY <1>3, <4>1
      <4>3. ~(Cardinality(Before(Max(S))) >= max)
        BY <1>4, <4>1
      <4> QED BY <1>1, <1>2, <4>2, <4>3
    <3> QED BY <3>1, <3>2
  <2> QED BY <2>1, <2>2
<1>5. CASE full # {}
  <2> DEFINE m == Min(full)
  <2>1. m \in full /\ \A j \in full : m <= j
    <3> HIDE DEF full
    <3> QED BY <1>0, <1>5, MinKey
  <2> HIDE DEF m
  <2>2. Cut(S, max) = Before(m)
    BY <1>5 DEF Cut, m
  <2>3. m \in S /\ m \in Nat /\ Cardinality(Before(m)) >= max
    BY <1>0, <2>1
  <2>4. Before(m) # {} /\ Before(m) \in SUBSET S
    <3>1. Cardinality(Before(m)) # 0
      BY <1>1, <2>3
    <3> QED BY <1>0, <3>1, FS_EmptySet
  <2>5. PICK t : t \in Before(m) /\ \A k \in Before(m) : k <= t
    <3>1. PICK T : T = Before(m)
      OBVIOUS
    <3>2. T \in SUBSET Keys /\ T # {}
      BY <1>0, <2>4, <3>1
    <3> QED BY <3>1, <3>2, MaxKey
  <2>6. Cardinality(Before(t)) = Cardinality(Before(m)) - 1
    <3>1. t \in S
      BY <2>4, <2>5
    <3>2. \A k \in S, j \in Before(m) : k <= j => k \in Before(m)
      BY <1>0, <2>3
    <3> QED BY <1>3, <2>4, <2>5, <3>2
  <2>7. t \notin full
    BY <1>0, <2>1, <2>3, <2>5
  <2>8. Cardinality(Before(m)) = max
    <3>1. ~(Cardinality(Before(t)) >= max)
      BY <2>4, <2>5, <2>7
    <3> QED BY <1>1, <2>3, <2>6, <3>1
  <2>9. ~(Cardinality(S) <= max)
    <3>1. m \notin Before(m) /\ Before(m) \in SUBSET S
      BY <1>0, <2>3
    <3>2. Cardinality(Before(m)) <= Cardinality(S) /\ Cardinality(Before(m)) # Cardinality(S)
      BY <1>2, <2>3, <3>1, FS_Subset
    <3> QED BY <1>1, <1>2, <2>8, <3>2
  <2>10. \A k \in Before(m), j \in S : j <= k => j \in Before(m)
    BY <1>0, <2>3
  <2> QED BY <2>2, <2>4, <2>8, <2>9, <2>10
<1> QED BY <1>4, <1>5

-----------------------------------------------------------------------------
(* ListObjects *)

\* A page holds keys of the bucket, and its common prefixes are numbers.
LEMMA PageIsPresent ==
  ASSUME NEW present \in SUBSET Keys, NEW q, q.prefix \in PrefixSets, NEW token
  PROVE  /\ ListObjects(present, q, token).records \in SUBSET present
         /\ ListObjects(present, q, token).prefixes \in SUBSET Nat
<1>1. Cursor(present, q, token) \in SUBSET present
  BY DEF Cursor, Walk
<1>2. \A k \in Keys : Group[q.prefix][k] \in Nat
  BY ListingAssumption
<1>3. PICK walked : walked = Cursor(present, q, token)
  OBVIOUS
<1> DEFINE max == IF q.max = 0 THEN DefaultMax ELSE q.max
           group(k) == IF q.delimited THEN Group[q.prefix][k] ELSE 0
           plain == {k \in walked : group(k) = 0}
           before(S, k) == {j \in S : j < k}
           groups(S) == {group(k) : k \in S \ plain}
           full == {k \in plain : Cardinality(before(plain, k)) + Cardinality(groups(before(walked, k))) >= max}
           read == IF full = {} THEN walked ELSE before(walked, Min(full))
<1>4. ListObjects(present, q, token) = [records |-> read \cap plain, prefixes |-> groups(read)]
  BY <1>3 DEF ListObjects
<1>5. read \in SUBSET walked
  <2> HIDE DEF full
  <2> QED OBVIOUS
<1> HIDE DEF read
<1>6. groups(read) \in SUBSET Nat
  BY <1>1, <1>2, <1>3, <1>5
<1>7. read \cap plain \in SUBSET present
  BY <1>1, <1>3, <1>5
<1> QED BY <1>4, <1>6, <1>7

\* Without a delimiter and a token the page is the first max keys of the
\* prefix behind the start: the walk ends at no key that lacks the prefix.
LEMMA PlainPage ==
  ASSUME NEW present \in SUBSET Keys, NEW q,
         q.prefix \in PrefixSets, q.delimited = FALSE, q.max \in Nat \ {0},
         q.start \in {0} \cup q.prefix
  PROVE  ListObjects(present, q, 0).records = Cut({k \in present \cap q.prefix : k > q.start}, q.max)
<1> DEFINE W == {k \in present \cap q.prefix : k > q.start}
<1>1. q.prefix \in SUBSET Keys /\ \A i, j \in q.prefix : i..j \subseteq q.prefix
  BY ListingAssumption
<1>2. Cursor(present, q, 0) = W
  <2>1. CASE q.start = 0
    <3>1. W = present \cap q.prefix
      <4>1. \A k \in present : k > 0
        BY DEF Keys
      <4> QED BY <2>1, <4>1
    <3> QED BY <2>1, <3>1 DEF Cursor
  <2>2. CASE q.start # 0
    <3>1. Cursor(present, q, 0) = Walk(present, q.prefix, q.start)
      BY <2>2 DEF Cursor
    <3>2. q.start \in q.prefix /\ q.start \in Nat
      BY <1>1, <2>2 DEF Keys
    <3>3. ASSUME NEW k \in Walk(present, q.prefix, q.start) PROVE k \in W
      <4>1. k \in present /\ k \in Nat /\ k > q.start /\ k <= k
        BY <3>3 DEF Walk, Keys
      <4> QED BY <3>2, <3>3, <4>1 DEF Walk
    <3>4. ASSUME NEW k \in W PROVE k \in Walk(present, q.prefix, q.start)
      <4>1. ASSUME NEW j \in present, q.start < j, j <= k PROVE j \in q.prefix
        <5>1. j \in q.start..k
          BY <3>2, <4>1 DEF Keys
        <5> QED BY <1>1, <3>2, <5>1
      <4> QED BY <4>1 DEF Walk
    <3> QED BY <3>1, <3>3, <3>4
  <2> QED BY <2>1, <2>2
<1>3. PICK walked : walked = W
  OBVIOUS
<1>4. walked = Cursor(present, q, 0) /\ walked \in SUBSET Keys
  BY <1>2, <1>3
<1> HIDE DEF W
<1> DEFINE max == IF q.max = 0 THEN DefaultMax ELSE q.max
           group(k) == IF q.delimited THEN Group[q.prefix][k] ELSE 0
           plain == {k \in walked : group(k) = 0}
           before(S, k) == {j \in S : j < k}
           groups(S) == {group(k) : k \in S \ plain}
           full == {k \in plain : Cardinality(before(plain, k)) + Cardinality(groups(before(walked, k))) >= max}
           read == IF full = {} THEN walked ELSE before(walked, Min(full))
<1>5. ListObjects(present, q, 0) = [records |-> read \cap plain, prefixes |-> groups(read)]
  BY <1>4 DEF ListObjects
<1>6. plain = walked /\ max = q.max
  OBVIOUS
<1>7. full = {k \in walked : Cardinality(before(walked, k)) >= q.max}
  <2>1. ASSUME NEW k \in walked PROVE groups(before(walked, k)) = {}
    BY <1>6
  <2>2. ASSUME NEW k \in walked PROVE Cardinality(before(walked, k)) \in Nat
    BY <1>4, KeysFinite
  <2>3. Cardinality({}) = 0
    BY FS_EmptySet
  <2>4. ASSUME NEW k \in walked
        PROVE  Cardinality(before(plain, k)) + Cardinality(groups(before(walked, k)))
                 = Cardinality(before(walked, k))
    <3>1. Cardinality(groups(before(walked, k))) = 0
      BY <2>1, <2>3
    <3>2. before(plain, k) = before(walked, k)
      BY <1>6
    <3> HIDE DEF before, groups
    <3> QED BY <2>2, <3>1, <3>2
  <2> HIDE DEF before, groups
  <2> QED BY <1>6, <2>4
<1>8. read = Cut(walked, q.max)
  BY <1>7 DEF Cut
<1>9. read \in SUBSET walked
  <2> HIDE DEF full
  <2> QED OBVIOUS
<1> HIDE DEF read, plain, groups
<1>10. ListObjects(present, q, 0).records = read
  <2>1. ListObjects(present, q, 0).records = read \cap plain
    BY <1>5
  <2> QED BY <1>6, <1>9, <2>1
<1> QED BY <1>3, <1>8, <1>10 DEF W

-----------------------------------------------------------------------------
(* Types *)

Listers == [kind : {None, "V1", "V2", "admin"}, at : {"idle", "page", "done", "failed"},
            query : Queries \cup {None}, from : 0..NKeys, token : 0..NKeys, rewinds : SUBSET Keys,
            pages : 0..MaxPages, keys : Seq(Keys), groups : SUBSET Nat]

\* What the job remembers of an object.
Entries == [key : Keys, rec : Records]

Jobs == [at : {"idle", "bucket", "rule", "expire", "uploads", "abort", "done"},
         all : Seq(Rules), left : Seq(Rules), now : 0..MaxClock, batch : Seq(Entries),
         old : SUBSET Uploads, cut : BOOLEAN, failed : BOOLEAN]

\* The types, and what a listing and a job have in which state.
TypeInv ==
  /\ TypeOK
  /\ lister \in Listers /\ job \in Jobs
  /\ IF lister.at = "idle" THEN lister.token = 0 /\ lister.keys = <<>> ELSE lister.query \in Queries
  /\ job.at \in {"expire", "uploads", "abort"} => job.left # <<>>

\* A client's request leaves the time, the records and the histories typed.
LEMMA TypesOfStore ==
  ASSUME TypeInv, Observe, UNCHANGED <<lister, uploads, rules, job>>,
         store' \in [Keys -> Records \cup {None}], clock' \in 0..MaxClock, nops' \in 0..MaxOps,
         clock <= clock'
  PROVE  TypeInv'
<1>1. stable' \subseteq Present(store)' /\ steady' \subseteq Keys
  BY DEF TypeInv, TypeOK, Observe, Present
<1>2. job.now <= clock'
  BY DEF TypeInv, TypeOK, Jobs
<1> QED BY <1>1, <1>2 DEF TypeInv, TypeOK

\* The keys of a set, in order, are a sequence of keys.
LEMMA OrderedSeq ==
  ASSUME NEW S \in SUBSET Keys
  PROVE  /\ InOrder(S) \in Seq(Keys) /\ Len(InOrder(S)) = Cardinality(S)
         /\ \A i \in 1..Len(InOrder(S)) : InOrder(S)[i] \in S
         /\ \A i, j \in 1..Len(InOrder(S)) : i < j => InOrder(S)[i] < InOrder(S)[j]
         /\ \A k \in S : \E i \in 1..Len(InOrder(S)) : InOrder(S)[i] = k
<1>1. PICK s : s = InOrder(S)
  OBVIOUS
<1>2. /\ s \in [1..Cardinality(S) -> S]
      /\ \A i, j \in 1..Cardinality(S) : i < j => s[i] < s[j]
      /\ \A k \in S : \E i \in 1..Cardinality(S) : s[i] = k
  BY <1>1, Ordered
<1>3. PICK n : n = Cardinality(S)
  OBVIOUS
<1>4. n \in Nat
  BY <1>3, KeysFinite
<1>5. s \in Seq(Keys) /\ Len(s) = n
  BY <1>2, <1>3, <1>4
<1> QED BY <1>1, <1>2, <1>3, <1>5

\* What a page of the records R and the common prefixes G adds to the listing.
Adds(R, G, next) ==
  /\ R = ListObjects(Present(store), lister.query, lister.token).records
  /\ next = [lister EXCEPT !.pages = @ + 1, !.keys = @ \o InOrder(R), !.groups = @ \cup G]
  /\ lister.at = "page" /\ lister.pages < MaxPages
  /\ IF lister.kind # "admin" /\ Cardinality(R) = lister.query.max /\ R # {}
     THEN IF lister.kind = "V1" THEN lister' = [next EXCEPT !.query.start = Max(R)]
          ELSE lister' = [next EXCEPT !.token = Max(R)]
     ELSE lister' = [next EXCEPT !.at = "done"]
  /\ UNCHANGED storeVars

LEMMA PageAdds ==
  ASSUME TypeInv, Page
  PROVE  \E R \in SUBSET Present(store), G \in SUBSET Nat : \E next : Adds(R, G, next)
<1>1. PICK page : page = ListObjects(Present(store), lister.query, lister.token)
  OBVIOUS
<1>2. lister.query \in Queries
  BY DEF TypeInv, Page
<1>3. lister.query.prefix \in PrefixSets
  BY <1>2 DEF Queries
<1>4. Present(store) \in SUBSET Keys
  BY DEF Present
<1>5. page.records \in SUBSET Present(store) /\ page.prefixes \in SUBSET Nat
  BY <1>1, <1>3, <1>4, PageIsPresent
<1>6. PICK R \in SUBSET Present(store), G \in SUBSET Nat : R = page.records /\ G = page.prefixes
  BY <1>5
<1>7. PICK next : next = [lister EXCEPT !.pages = @ + 1, !.keys = @ \o InOrder(R), !.groups = @ \cup G]
  OBVIOUS
<1>8. /\ lister.at = "page" /\ lister.pages < MaxPages
      /\ IF lister.kind # "admin" /\ Cardinality(R) = lister.query.max /\ R # {}
         THEN IF lister.kind = "V1" THEN lister' = [next EXCEPT !.query.start = Max(R)]
              ELSE lister' = [next EXCEPT !.token = Max(R)]
         ELSE lister' = [next EXCEPT !.at = "done"]
      /\ UNCHANGED storeVars
  BY <1>1, <1>6, <1>7 DEF Page, IsTruncated
<1>9. Adds(R, G, next)
  BY <1>1, <1>6, <1>7, <1>8 DEF Adds
<1> QED BY <1>9

\* The listing leaves everything else alone.
LEMMA TypesBeside ==
  ASSUME TypeInv, Observe, UNCHANGED <<storeVars, rules, uploads, job>>,
         lister' \in Listers, lister'.at # "idle", lister'.query \in Queries
  PROVE  TypeInv'
<1>1. stable' \subseteq Present(store)' /\ steady' \subseteq Keys
  BY DEF TypeInv, TypeOK, Observe, Present, storeVars
<1>2. /\ store' = store /\ clock' = clock /\ nops' = nops /\ rules' = rules /\ uploads' = uploads
      /\ job' = job
  BY DEF storeVars
<1>3. /\ lister'.query \in Queries \cup {None} /\ lister'.pages \in 0..MaxPages
      /\ lister'.keys \in Seq(Keys)
  BY DEF Listers
<1> QED BY <1>1, <1>2, <1>3 DEF TypeInv, TypeOK

LEMMA TypesOfLister ==
  ASSUME TypeInv, Observe, BeginListing \/ Page \/ PageFails, UNCHANGED <<rules, uploads, job>>
  PROVE  TypeInv'
<1>1. lister \in Listers
  BY DEF TypeInv
<1>2. CASE BeginListing
  <2>1. PICK kind \in {"V1", "V2", "admin"}, q \in Queries, tokens \in Rewinds \cup {{}} :
          lister' = [lister EXCEPT !.kind = kind, !.at = "page", !.query = q, !.from = q.start,
                                   !.rewinds = tokens]
    BY <1>2 DEF BeginListing
  <2>2. tokens \in SUBSET Keys /\ q.start \in 0..NKeys
    BY ListingAssumption DEF Queries
  <2>3. lister' \in Listers /\ lister'.query \in Queries /\ lister'.at # "idle"
    BY <1>1, <2>1, <2>2 DEF Listers
  <2> QED BY <1>2, <2>3, TypesBeside DEF BeginListing
<1>3. CASE Page
  <2>1. PICK R \in SUBSET Present(store), G \in SUBSET Nat : \E next : Adds(R, G, next)
    BY <1>3, PageAdds
  <2>2. PICK next :
           /\ next = [lister EXCEPT !.pages = @ + 1, !.keys = @ \o InOrder(R), !.groups = @ \cup G]
           /\ lister.at = "page" /\ lister.pages < MaxPages
           /\ \/ R # {} /\ lister' = [next EXCEPT !.query.start = Max(R)]
              \/ R # {} /\ lister' = [next EXCEPT !.token = Max(R)]
              \/ lister' = [next EXCEPT !.at = "done"]
           /\ UNCHANGED storeVars
    BY <2>1 DEF Adds
  <2>3. R \in SUBSET Keys
    BY DEF Present
  <2>4. PICK s : s = InOrder(R)
    OBVIOUS
  <2>5. lister.keys \o s \in Seq(Keys)
    <3>1. s \in Seq(Keys)
      BY <2>3, <2>4, OrderedSeq
    <3> QED BY <1>1, <3>1 DEF Listers
  <2>6. lister.pages + 1 \in 0..MaxPages
    BY <1>1, <2>2, ListingAssumption DEF Listers
  <2>7. lister.groups \cup G \in SUBSET Nat
    BY <1>1 DEF Listers
  <2>8. next = [lister EXCEPT !.pages = @ + 1, !.keys = @ \o s, !.groups = @ \cup G]
    BY <2>2, <2>4
  <2>9. next \in Listers /\ next.query = lister.query /\ next.at = "page"
    BY <1>1, <2>2, <2>5, <2>6, <2>7, <2>8 DEF Listers
  <2>10. lister.query \in Queries
    BY <2>2 DEF TypeInv
  <2>11. R # {} => Max(R) \in 0..NKeys
    <3>1. R # {} => Max(R) \in R
      BY <2>3, MaxKey
    <3>2. Keys \in SUBSET (0..NKeys)
      BY ListingAssumption DEF Keys
    <3> QED BY <2>3, <3>1, <3>2
  <2>12. lister' \in Listers /\ lister'.query \in Queries /\ lister'.at # "idle"
    <3>1. PICK m : m = Max(R)
      OBVIOUS
    <3>2. CASE R # {} /\ lister' = [next EXCEPT !.query.start = Max(R)]
      <4>1. [lister.query EXCEPT !.start = m] \in Queries
        BY <2>10, <2>11, <3>1, <3>2 DEF Queries
      <4>2. lister' = [next EXCEPT !.query = [lister.query EXCEPT !.start = m]]
        BY <2>9, <3>1, <3>2
      <4> QED BY <2>9, <4>1, <4>2 DEF Listers
    <3>3. CASE R # {} /\ lister' = [next EXCEPT !.token = Max(R)]
      BY <2>9, <2>10, <2>11, <3>1, <3>3 DEF Listers
    <3>4. CASE lister' = [next EXCEPT !.at = "done"]
      BY <2>9, <2>10, <3>4 DEF Listers
    <3> QED BY <2>2, <3>2, <3>3, <3>4
  <2> QED BY <2>2, <2>12, TypesBeside
<1>4. CASE PageFails
  <2>1. lister' \in Listers /\ lister'.query \in Queries /\ lister'.at # "idle"
    BY <1>1, <1>4 DEF PageFails, Listers, TypeInv
  <2> QED BY <1>4, <2>1, TypesBeside DEF PageFails
<1> QED BY <1>2, <1>3, <1>4

\* The job leaves the clock, the client and the rules alone.
LEMMA TypesOfJob ==
  ASSUME TypeInv, Observe, UNCHANGED <<clock, nops, lister, rules>>,
         store' \in [Keys -> Records \cup {None}], uploads' \in [Uploads -> 0..MaxClock \cup {None}],
         job' \in Jobs, job'.now = job.now \/ job'.now = clock, Len(job'.batch) <= ListLimit,
         job'.at \in {"expire", "uploads", "abort"} => job'.left # <<>>
  PROVE  TypeInv'
<1>1. stable' \subseteq Present(store)' /\ steady' \subseteq Keys
  BY DEF TypeInv, TypeOK, Observe, Present
<1>2. job'.now <= clock'
  BY DEF TypeInv, TypeOK
<1>3. job'.old \subseteq Uploads
  BY DEF Jobs
<1> QED BY <1>1, <1>2, <1>3 DEF TypeInv, TypeOK

\* What a rule finds: the keys in order, each with what it held, no more than
\* a page and all of them old enough.
LEMMA FindsRight ==
  ASSUME TypeInv, NEW rule \in Rules
  PROVE  /\ Finds(rule) \in Seq(Entries) /\ Len(Finds(rule)) <= ListLimit
         /\ \A i \in DOMAIN Finds(rule) : Expired(Finds(rule)[i].rec, rule, job.now)
         /\ Cardinality(Present(store) \cap rule.prefix) <= ListLimit =>
              \A k \in Present(store) \cap rule.prefix :
                Expired(store[k], rule, job.now) => \E i \in DOMAIN Finds(rule) : Finds(rule)[i].key = k
<1> DEFINE q == [prefix |-> rule.prefix, delimited |-> FALSE, start |-> 0, max |-> ListLimit]
           under == Present(store) \cap rule.prefix
           found == {k \in ListObjects(Present(store), q, 0).records : Expired(store[k], rule, job.now)}
<1>1. /\ Present(store) \in SUBSET Keys /\ rule.prefix \in PrefixSets
      /\ ListLimit \in Nat \ {0}
  BY LifecycleAssumption DEF Present, Rules
<1>2. {k \in Present(store) \cap q.prefix : k > q.start} = under
  <2>1. \A k \in Present(store) : k > 0
    BY <1>1 DEF Keys
  <2> QED BY <2>1
<1>3. ListObjects(Present(store), q, 0).records = Cut(under, ListLimit)
  <2>1. /\ q.prefix \in PrefixSets /\ q.delimited = FALSE /\ q.max \in Nat \ {0}
        /\ q.start \in {0} \cup q.prefix /\ q.max = ListLimit
    BY <1>1
  <2> HIDE DEF q, under
  <2> QED BY <1>1, <1>2, <2>1, PlainPage
<1>4. PICK U : U = under /\ U \in SUBSET Keys
  BY <1>1
<1>5. PICK F : F = found
  OBVIOUS
<1>6. F = {k \in Cut(U, ListLimit) : Expired(store[k], rule, job.now)}
  BY <1>3, <1>4, <1>5
<1>7. /\ Cut(U, ListLimit) \in SUBSET U /\ Cardinality(Cut(U, ListLimit)) <= ListLimit
      /\ Cardinality(U) <= ListLimit => Cut(U, ListLimit) = U
  BY <1>1, <1>4, CutRight
<1>8. F \in SUBSET U /\ F \in SUBSET Keys /\ F \in SUBSET Cut(U, ListLimit)
  BY <1>4, <1>6, <1>7
<1>9. Cardinality(F) \in Nat /\ Cardinality(F) <= ListLimit
  <2>1. PICK C : C = Cut(U, ListLimit) /\ C \in SUBSET Keys
    BY <1>4, <1>7
  <2>2. IsFiniteSet(C) /\ Cardinality(C) \in Nat /\ Cardinality(F) \in Nat
    BY <1>8, <2>1, KeysFinite
  <2>3. Cardinality(F) <= Cardinality(C)
    BY <1>8, <2>1, <2>2, FS_Subset
  <2> QED BY <1>1, <1>7, <2>1, <2>2, <2>3
<1>10. PICK n : n = Cardinality(F) /\ n \in Nat /\ n <= ListLimit
  BY <1>9
<1>11. PICK s : s = InOrder(F)
  OBVIOUS
<1>12. /\ s \in [1..n -> F]
       /\ \A k \in F : \E i \in 1..n : s[i] = k
  BY <1>8, <1>10, <1>11, Ordered
<1>13. PICK b : b = Finds(rule)
  OBVIOUS
<1>14. b = [i \in 1..n |-> [key |-> s[i], rec |-> store[s[i]]]]
  BY <1>5, <1>10, <1>11, <1>13 DEF Finds
<1>15. \A k \in F : k \in Keys /\ store[k] \in Records /\ Expired(store[k], rule, job.now)
  <2>1. F \in SUBSET Present(store)
    BY <1>4, <1>8
  <2> QED BY <1>6, <1>8, <2>1 DEF Present, TypeInv, TypeOK
<1>16. ASSUME NEW i \in 1..n
       PROVE  b[i] \in Entries /\ b[i].key = s[i] /\ Expired(b[i].rec, rule, job.now)
  <2>1. s[i] \in F /\ b[i] = [key |-> s[i], rec |-> store[s[i]]]
    BY <1>12, <1>14
  <2> QED BY <1>15, <2>1 DEF Entries
<1>17. b \in Seq(Entries) /\ Len(b) = n /\ DOMAIN b = 1..n
  BY <1>10, <1>14, <1>16
<1>18. Cardinality(U) <= ListLimit =>
         \A k \in U : Expired(store[k], rule, job.now) => \E i \in 1..n : b[i].key = k
  BY <1>6, <1>7, <1>12, <1>16
<1> QED BY <1>4, <1>10, <1>13, <1>16, <1>17, <1>18

LEMMA TypesOfJobSteps ==
  ASSUME TypeInv, Observe, Job
  PROVE  TypeInv'
<1>1. /\ job \in Jobs /\ job.left \in Seq(Rules) /\ job.batch \in Seq(Entries)
      /\ store \in [Keys -> Records \cup {None}] /\ uploads \in [Uploads -> 0..MaxClock \cup {None}]
      /\ Len(job.batch) <= ListLimit /\ clock \in 0..MaxClock
      /\ job.at \in {"expire", "uploads", "abort"} => job.left # <<>>
  BY DEF TypeInv, TypeOK, Jobs
<1>2. job.left # <<>> => Head(job.left) \in Rules /\ Tail(job.left) \in Seq(Rules)
  BY <1>1
<1>3. ASSUME UNCHANGED <<storeVars, lister, rules, uploads>>,
             job' \in Jobs, job'.now = job.now \/ job'.now = clock, Len(job'.batch) <= ListLimit,
             job'.at \in {"expire", "uploads", "abort"} => job'.left # <<>>
      PROVE  TypeInv'
  BY <1>1, <1>3, TypesOfJob DEF storeVars
<1>4. CASE ApplyLifecycle
  <2>1. rules \in Seq(Rules)
    <3>1. <<>> \in Seq(Rules) /\ RuleLists \subseteq Seq(Rules)
      BY LifecycleAssumption
    <3> QED BY <3>1 DEF TypeInv, TypeOK, xmlLifecycleToMeta
  <2>2. job' \in Jobs /\ job'.now = job.now /\ job'.batch = job.batch /\ job'.at = "bucket"
    BY <1>1, <1>4, <2>1 DEF ApplyLifecycle, ListBuckets, Jobs
  <2> QED BY <1>1, <1>3, <1>4, <2>2 DEF ApplyLifecycle
<1>5. CASE applyBucketLifecycle
  <2>1. job' \in Jobs /\ job'.now = clock /\ job'.batch = job.batch /\ job'.at = "rule"
    BY <1>1, <1>5 DEF applyBucketLifecycle, Jobs
  <2> QED BY <1>1, <1>3, <1>5, <2>1 DEF applyBucketLifecycle
<1>6. CASE expireObjects
  <2>1. job.left # <<>>
    BY <1>6 DEF expireObjects
  <2>2. PICK rule \in Rules : rule = Head(job.left)
    BY <1>2, <2>1
  <2>3. PICK b : b = Finds(rule)
    OBVIOUS
  <2>4. b \in Seq(Entries) /\ Len(b) <= ListLimit
    BY <2>3, FindsRight
  <2>5. \/ job' = [job EXCEPT !.at = "expire", !.batch = b,
                              !.cut = @ \/ Cardinality(Present(store) \cap rule.prefix) > ListLimit]
        \/ job' = [job EXCEPT !.at = "uploads", !.failed = TRUE]
        \/ job' = [job EXCEPT !.at = "uploads"]
        \/ job' = [job EXCEPT !.left = Tail(@)] /\ job.at = "rule"
    BY <1>6, <2>2, <2>3 DEF expireObjects
  <2>6. /\ job' \in Jobs /\ job'.now = job.now /\ (job'.batch = b \/ job'.batch = job.batch)
        /\ job'.left = job.left \/ job'.at = "rule"
    <3>1. PICK cut \in BOOLEAN : cut = (job.cut \/ Cardinality(Present(store) \cap rule.prefix) > ListLimit)
      OBVIOUS
    <3>2. CASE job' = [job EXCEPT !.at = "expire", !.batch = b, !.cut = cut]
      BY <1>1, <2>4, <3>2 DEF Jobs
    <3>3. CASE job' = [job EXCEPT !.at = "uploads", !.failed = TRUE] \/ job' = [job EXCEPT !.at = "uploads"]
      BY <1>1, <3>3 DEF Jobs
    <3>4. CASE job' = [job EXCEPT !.left = Tail(@)] /\ job.at = "rule"
      BY <1>1, <1>2, <2>1, <3>4 DEF Jobs
    <3> QED BY <2>5, <3>1, <3>2, <3>3, <3>4
  <2> QED BY <1>1, <1>3, <1>6, <2>1, <2>4, <2>6 DEF expireObjects
<1>7. CASE ExpireOne
  <2>1. Head(job.batch).key \in Keys /\ Tail(job.batch) \in Seq(Entries)
        /\ Len(Tail(job.batch)) <= ListLimit
    <3>1. job.batch # <<>> /\ Head(job.batch) \in Entries /\ Tail(job.batch) \in Seq(Entries)
      BY <1>1, <1>7 DEF ExpireOne
    <3>2. Len(Tail(job.batch)) = Len(job.batch) - 1 /\ Len(job.batch) \in Nat
      BY <1>1, <3>1
    <3> QED BY <1>1, <3>1, <3>2, LifecycleAssumption DEF Entries
  <2>2. job' \in Jobs /\ job'.now = job.now /\ job'.batch = Tail(job.batch)
        /\ job'.left = job.left /\ job'.at = job.at
    BY <1>1, <1>7, <2>1 DEF ExpireOne, Jobs
  <2>3. store' \in [Keys -> Records \cup {None}]
    BY <1>1, <1>7, <2>1 DEF ExpireOne
  <2>4. UNCHANGED <<clock, nops, lister, rules, uploads>>
    BY <1>7 DEF ExpireOne
  <2> QED BY <1>1, <2>1, <2>2, <2>3, <2>4, TypesOfJob
<1>8. CASE abortIncompleteMultiparts
  <2>1. job.left # <<>>
    BY <1>1, <1>8 DEF abortIncompleteMultiparts
  <2>2. job' \in Jobs /\ job'.now = job.now /\ job'.batch = job.batch
        /\ (job'.left = job.left \/ job'.at = "rule")
    <3>1. PICK old \in SUBSET Uploads :
            \/ job' = [job EXCEPT !.at = "abort", !.old = old]
            \/ job' = [job EXCEPT !.at = "rule", !.left = Tail(@), !.failed = TRUE]
      BY <1>8 DEF abortIncompleteMultiparts, ListMultiparts
    <3> QED BY <1>1, <1>2, <2>1, <3>1 DEF Jobs
  <2> QED BY <1>1, <1>3, <1>8, <2>1, <2>2 DEF abortIncompleteMultiparts
<1>9. CASE AbortOne
  <2>1. PICK u \in job.old :
          \/ /\ uploads' = [uploads EXCEPT ![u] = None]
             /\ job' = [job EXCEPT !.old = @ \ {u}]
          \/ /\ UNCHANGED uploads
             /\ job' = [job EXCEPT !.old = @ \ {u}, !.failed = TRUE]
    BY <1>9 DEF AbortOne
  <2>2. /\ job' \in Jobs /\ job'.now = job.now /\ job'.batch = job.batch
        /\ job'.left = job.left /\ job'.at = job.at
        /\ uploads' \in [Uploads -> 0..MaxClock \cup {None}]
    <3>1. uploads' \in [Uploads -> 0..MaxClock \cup {None}]
      BY <1>1, <2>1
    <3>2. job.old \ {u} \in SUBSET Uploads
      BY <1>1 DEF Jobs
    <3> QED BY <1>1, <2>1, <3>1, <3>2 DEF Jobs
  <2>3. UNCHANGED <<clock, nops, lister, rules>> /\ store' = store
    BY <1>9 DEF AbortOne, storeVars
  <2> QED BY <1>1, <2>2, <2>3, TypesOfJob
<1>10. CASE RuleDone
  <2>1. job' \in Jobs /\ job'.now = job.now /\ job'.batch = job.batch /\ job'.at = "rule"
    BY <1>1, <1>2, <1>10 DEF RuleDone, Jobs
  <2> QED BY <1>1, <1>3, <1>10, <2>1 DEF RuleDone
<1>11. CASE JobDone
  <2>1. job' \in Jobs /\ job'.now = job.now /\ job'.batch = job.batch /\ job'.at = "done"
    BY <1>1, <1>11 DEF JobDone, Jobs
  <2> QED BY <1>1, <1>3, <1>11, <2>1 DEF JobDone
<1> QED BY <1>4, <1>5, <1>6, <1>7, <1>8, <1>9, <1>10, <1>11 DEF Job

LEMMA TypesInit ==
  ASSUME Init
  PROVE  TypeInv
<1>1. NKeys \in Nat /\ MaxClock \in Nat /\ MaxOps \in Nat /\ MaxPages \in Nat /\ ListLimit \in Nat
  BY ListingAssumption, LifecycleAssumption
<1>2. [mtime |-> 0, tagged |-> TRUE] \in Records
  BY <1>1 DEF Records
<1>3. store \in [Keys -> Records \cup {None}]
  BY <1>2 DEF Init, InitListing
<1>4. /\ lister \in Listers /\ lister.query = None /\ lister.at = "idle"
      /\ lister.token = 0 /\ lister.keys = <<>>
  BY <1>1 DEF Init, InitListing, Listers
<1>5. job \in Jobs /\ job.now = 0 /\ job.batch = <<>> /\ job.at = "idle" /\ job.old = {}
  BY <1>1 DEF Init, Jobs
<1>6. uploads \in [Uploads -> 0..MaxClock \cup {None}] /\ rules \in xmlLifecycleToMeta
  BY DEF Init, xmlLifecycleToMeta
<1> QED BY <1>1, <1>3, <1>4, <1>5, <1>6 DEF TypeInv, TypeOK, Listers, Init, InitListing

LEMMA TypesStep ==
  ASSUME TypeInv, [Next]_vars
  PROVE  TypeInv'
<1>1. CASE UNCHANGED vars
  BY <1>1 DEF TypeInv, TypeOK, vars, storeVars, Present
<1>2. CASE Next
  <2> USE <1>2
  <2>1. Observe
    BY DEF Next
  <2>2. /\ store \in [Keys -> Records \cup {None}] /\ clock \in 0..MaxClock /\ nops \in 0..MaxOps
        /\ MaxClock \in Nat /\ MaxOps \in Nat
    BY ListingAssumption DEF TypeInv, TypeOK
  <2>3. CASE Change /\ UNCHANGED <<lister, rules, uploads, job>>
    <3>1. ASSUME NEW k \in Keys, PutObject(k) \/ SetObjectTags(k) \/ DeleteObject(k) PROVE TypeInv'
      <4>1. \A t \in BOOLEAN : [mtime |-> clock, tagged |-> t] \in Records
        BY <2>2 DEF Records
      <4>2. store[k] # None => [store[k] EXCEPT !.tagged = ~@] \in Records
        BY <2>2 DEF Records
      <4>3. store' \in [Keys -> Records \cup {None}]
        BY <2>2, <3>1, <4>1, <4>2 DEF PutObject, SetObjectTags, DeleteObject
      <4>4. nops' \in 0..MaxOps /\ clock' = clock
        BY <2>2, <3>1 DEF PutObject, SetObjectTags, DeleteObject
      <4> QED BY <2>1, <2>2, <2>3, <4>3, <4>4, TypesOfStore
    <3>2. ASSUME Tick PROVE TypeInv'
      <4>1. clock' \in 0..MaxClock /\ clock <= clock' /\ store' = store /\ nops' = nops
        BY <2>2, <3>2 DEF Tick
      <4> QED BY <2>1, <2>2, <2>3, <4>1, TypesOfStore
    <3> QED BY <2>3, <3>1, <3>2 DEF Change
  <2>4. CASE (BeginListing \/ Page \/ PageFails) /\ UNCHANGED <<rules, uploads, job>>
    BY <2>1, <2>4, TypesOfLister
  <2>5. CASE putBucketLifecycle
    <3>1. rules' \in xmlLifecycleToMeta /\ nops' \in 0..MaxOps
      BY <2>2, <2>5 DEF putBucketLifecycle, SetLifecycleRules, xmlLifecycleToMeta
    <3>2. stable' \subseteq Present(store)' /\ steady' \subseteq Keys
      BY <2>1, <2>5 DEF putBucketLifecycle, TypeInv, TypeOK, Observe, Present
    <3> QED BY <2>5, <3>1, <3>2 DEF putBucketLifecycle, TypeInv, TypeOK, xmlLifecycleToMeta
  <2>6. ASSUME NEW u \in Uploads, ChangeUpload(u) PROVE TypeInv'
    <3>1. uploads' \in [Uploads -> 0..MaxClock \cup {None}] /\ nops' \in 0..MaxOps
      BY <2>2, <2>6 DEF ChangeUpload, TypeInv, TypeOK
    <3>2. stable' \subseteq Present(store)' /\ steady' \subseteq Keys
      BY <2>1, <2>6 DEF ChangeUpload, TypeInv, TypeOK, Observe, Present
    <3> QED BY <2>6, <3>1, <3>2 DEF ChangeUpload, TypeInv, TypeOK
  <2>7. CASE Job
    BY <2>1, <2>7, TypesOfJobSteps
  <2> QED BY <2>3, <2>4, <2>5, <2>6, <2>7 DEF Next
<1> QED BY <1>1, <1>2

-----------------------------------------------------------------------------
(* Pages *)

\* The listings the promise is about.
Paging ==
  /\ lister.kind = "V1" /\ lister.at \in {"page", "done"}
  /\ ~lister.query.delimited /\ lister.query.max > 0
  /\ lister.from \in {0} \cup lister.query.prefix

\* The keys that were there throughout from the start of the listing up to k
\* have been listed.
ListedUpto(k) ==
  \A j \in stable \cap lister.query.prefix :
    lister.from < j /\ j <= k => \E i \in DOMAIN lister.keys : lister.keys[i] = j

\* Between two pages the client's start divides the keys: what it has lies at
\* or before it, and nothing at or before it is missing.
PagingInv ==
  Paging =>
    /\ lister.token = 0
    /\ \A i, j \in DOMAIN lister.keys : i < j => lister.keys[i] < lister.keys[j]
    /\ lister.at = "page" =>
         /\ lister.query.start \in {0} \cup lister.query.prefix
         /\ lister.from <= lister.query.start
         /\ \A i \in DOMAIN lister.keys : lister.keys[i] <= lister.query.start
         /\ ListedUpto(lister.query.start)
    /\ lister.at = "done" => ListedUpto(NKeys)

\* Whoever else takes a step makes the keys that were there throughout fewer.
LEMMA PagingBeside ==
  ASSUME PagingInv, Observe, UNCHANGED lister
  PROVE  PagingInv'
<1>1. lister.at # "idle" => stable' \subseteq stable
  BY DEF Observe
<1> QED BY <1>1 DEF PagingInv, Paging, ListedUpto

\* A page of such a listing: the keys in order behind those the client has,
\* and every key that was there throughout up to the last of them or, when the
\* page is not full, to the end.
LEMMA PagingPage ==
  ASSUME TypeInv, PagingInv, Page, Observe
  PROVE  PagingInv'
<1>1. SUFFICES ASSUME Paging' PROVE PagingInv'
  BY DEF PagingInv
<1>2. PICK R \in SUBSET Present(store), G \in SUBSET Nat : \E next : Adds(R, G, next)
  BY PageAdds
<1>3. PICK next :
         /\ R = ListObjects(Present(store), lister.query, lister.token).records
         /\ next = [lister EXCEPT !.pages = @ + 1, !.keys = @ \o InOrder(R), !.groups = @ \cup G]
         /\ lister.at = "page"
         /\ IF lister.kind # "admin" /\ Cardinality(R) = lister.query.max /\ R # {}
            THEN IF lister.kind = "V1" THEN lister' = [next EXCEPT !.query.start = Max(R)]
                 ELSE lister' = [next EXCEPT !.token = Max(R)]
            ELSE lister' = [next EXCEPT !.at = "done"]
         /\ UNCHANGED storeVars
  BY <1>2 DEF Adds
<1>4. PICK q \in Queries : q = lister.query
  BY <1>3 DEF TypeInv
<1>5. PICK s : s = InOrder(R)
  OBVIOUS
<1>6. PICK more \in BOOLEAN : more = (lister.kind # "admin" /\ Cardinality(R) = q.max /\ R # {})
  OBVIOUS
<1>7. lister \in Listers /\ lister.keys \in Seq(Keys)
  BY DEF TypeInv, Listers
<1>8. next = [lister EXCEPT !.pages = @ + 1, !.keys = @ \o s, !.groups = @ \cup G]
  BY <1>3, <1>5
<1>9. /\ next.kind = lister.kind /\ next.at = "page" /\ next.query = q /\ next.from = lister.from
      /\ next.token = lister.token /\ next.keys = lister.keys \o s
      /\ next \in [kind : {None, "V1", "V2", "admin"}, at : {"idle", "page", "done", "failed"},
                   query : Queries \cup {None}, from : 0..NKeys, token : 0..NKeys, rewinds : SUBSET Keys,
                   pages : {lister.pages + 1}, keys : {lister.keys \o s}, groups : {lister.groups \cup G}]
  BY <1>3, <1>4, <1>7, <1>8 DEF Listers
<1>10. /\ lister'.kind = lister.kind /\ lister'.from = lister.from /\ lister'.keys = lister.keys \o s
       /\ lister'.query.prefix = q.prefix /\ lister'.query.delimited = q.delimited
       /\ lister'.query.max = q.max
       /\ lister.kind = "V1" =>
            /\ lister'.token = lister.token
            /\ IF more THEN lister'.at = "page" /\ lister'.query.start = Max(R) ELSE lister'.at = "done"
  <2>1. PICK x : x = Max(R)
    OBVIOUS
  <2>2. IF more THEN IF lister.kind = "V1" THEN lister' = [next EXCEPT !.query = [q EXCEPT !.start = x]]
                     ELSE lister' = [next EXCEPT !.token = x]
        ELSE lister' = [next EXCEPT !.at = "done"]
    BY <1>3, <1>4, <1>6, <1>9, <2>1
  <2>3. PICK new : new = [q EXCEPT !.start = x]
    OBVIOUS
  <2>4. new.prefix = q.prefix /\ new.delimited = q.delimited /\ new.max = q.max /\ new.start = x
    BY <1>4, <2>3 DEF Queries
  <2>5. CASE ~more
    BY <1>9, <2>2, <2>5
  <2>6. CASE more /\ lister.kind # "V1"
    BY <1>9, <2>2, <2>6
  <2>7. CASE more /\ lister.kind = "V1"
    <3>1. lister' = [next EXCEPT !.query = new]
      BY <2>2, <2>3, <2>7
    <3> QED BY <1>9, <2>1, <2>4, <2>7, <3>1
  <2> QED BY <2>5, <2>6, <2>7
<1>11. Paging
  BY <1>1, <1>3, <1>4, <1>10 DEF Paging
<1>12. /\ lister.token = 0 /\ q.delimited = FALSE /\ q.max \in Nat \ {0} /\ q.prefix \in PrefixSets
       /\ q.start \in {0} \cup q.prefix /\ q.prefix \in SUBSET Keys /\ lister.kind = "V1"
  BY <1>3, <1>4, <1>11, ListingAssumption DEF PagingInv, Paging, Queries
<1>13. PICK W : W = {k \in Present(store) \cap q.prefix : k > q.start}
  OBVIOUS
<1>14. Present(store) \in SUBSET Keys /\ W \in SUBSET Keys
  BY <1>13 DEF Present
<1>15. R = Cut(W, q.max)
  <2>1. R = ListObjects(Present(store), q, 0).records
    BY <1>3, <1>4, <1>12
  <2>2. ListObjects(Present(store), q, 0).records
          = Cut({k \in Present(store) \cap q.prefix : k > q.start}, q.max)
    BY <1>12, <1>14, PlainPage
  <2> QED BY <1>13, <2>1, <2>2
<1>16. /\ R \in SUBSET W /\ \A k \in R, j \in W : j <= k => j \in R
       /\ R # W => Cardinality(R) = q.max
  BY <1>12, <1>14, <1>15, CutRight
<1>17. R \in SUBSET Keys /\ (R = {} => R = W)
  <2>1. R = {} => Cardinality(R) = 0
    BY FS_EmptySet
  <2> QED BY <1>12, <1>14, <1>16, <2>1
<1>18. /\ s \in Seq(Keys) /\ \A i \in 1..Len(s) : s[i] \in R
       /\ \A i, j \in 1..Len(s) : i < j => s[i] < s[j]
       /\ \A k \in R : \E i \in 1..Len(s) : s[i] = k
  BY <1>5, <1>17, OrderedSeq
<1>a. PICK keys \in Seq(Keys), t \in Seq(Keys) : keys = lister.keys /\ t = s
  BY <1>7, <1>18
<1>b. PICK m \in Nat, n \in Nat : m = Len(keys) /\ n = Len(t)
  OBVIOUS
<1>c. PICK new \in Seq(Keys) : new = keys \o t
  <2>1. keys \o t \in Seq(Keys)
    OBVIOUS
  <2> QED BY <2>1
<1>19. /\ keys = lister.keys /\ n = Len(s) /\ new = lister.keys \o s
       /\ DOMAIN keys = 1..m /\ DOMAIN new = 1..(m + n)
       /\ \A i \in 1..m : new[i] = keys[i]
       /\ \A i \in 1..n : new[m + i] = s[i]
  <2>1. /\ DOMAIN keys = 1..m /\ DOMAIN new = 1..(m + n)
        /\ \A i \in 1..m : new[i] = keys[i]
        /\ \A i \in 1..n : new[m + i] = t[i]
    BY <1>b, <1>c
  <2> QED BY <1>a, <1>b, <1>c, <2>1
<1>20. /\ \A i, j \in 1..m : i < j => keys[i] < keys[j]
       /\ \A i \in 1..m : keys[i] <= q.start
       /\ lister.from <= q.start /\ ListedUpto(q.start)
  BY <1>3, <1>4, <1>11, <1>19 DEF PagingInv
<1>21. q.start \in Nat /\ lister.from \in Nat /\ NKeys \in Nat /\ \A k \in Keys : k \in Nat /\ k <= NKeys
  <2>1. NKeys \in Nat
    BY ListingAssumption
  <2> QED BY <1>4, <1>7, <2>1 DEF Keys, Queries, Listers
<1>22. \A k \in R : k \in Nat /\ k > q.start /\ k \in q.prefix
  BY <1>13, <1>16, <1>17, <1>21
<1>23. \A i, j \in 1..(m + n) : i < j => new[i] < new[j]
  <2>1. SUFFICES ASSUME NEW i \in 1..(m + n), NEW j \in 1..(m + n), i < j PROVE new[i] < new[j]
    OBVIOUS
  <2>2. CASE j \in 1..m
    BY <1>19, <1>20, <2>1, <2>2
  <2>3. CASE i \in 1..m /\ j \notin 1..m
    <3>1. j - m \in 1..n /\ new[j] = s[j - m]
      <4>1. j - m \in 1..n /\ m + (j - m) = j
        BY <2>1, <2>3
      <4> QED BY <1>19, <4>1
    <3>2. new[j] \in Nat /\ new[j] > q.start
      BY <1>18, <1>19, <1>22, <3>1
    <3>3. new[i] <= q.start /\ new[i] \in Nat
      BY <1>19, <1>20, <1>21, <2>3
    <3> QED BY <1>21, <3>2, <3>3
  <2>4. CASE i \notin 1..m
    <3>1. /\ i - m \in 1..n /\ m + (i - m) = i /\ j - m \in 1..n /\ m + (j - m) = j /\ i - m < j - m
      BY <2>1, <2>4
    <3>2. new[i] = s[i - m] /\ new[j] = s[j - m]
      BY <1>19, <3>1
    <3> QED BY <1>18, <1>19, <3>1, <3>2
  <2> QED BY <2>2, <2>3, <2>4
<1>24. ASSUME NEW k \in R PROVE \E i \in 1..(m + n) : new[i] = k
  <2>1. PICK i \in 1..n : s[i] = k
    BY <1>18, <1>19
  <2>2. m + i \in 1..(m + n)
    OBVIOUS
  <2> QED BY <1>19, <2>1, <2>2
<1>25. \A j \in 1..m : \E i \in 1..(m + n) : new[i] = keys[j]
  <2>1. ASSUME NEW j \in 1..m PROVE j \in 1..(m + n)
    OBVIOUS
  <2> QED BY <1>19, <2>1
\* Up to the last key of the page, or to the end behind a page that is not full.
<1>26. ASSUME NEW j \in stable \cap q.prefix, lister.from < j, j <= q.start \/ j \in R
       PROVE  \E i \in 1..(m + n) : new[i] = j
  <2>1. CASE j <= q.start
    <3>1. PICK i \in 1..m : keys[i] = j
      BY <1>4, <1>19, <1>20, <1>26, <2>1 DEF ListedUpto
    <3> QED BY <1>25, <3>1
  <2> QED BY <1>24, <1>26, <2>1
<1>27. stable' \subseteq stable /\ stable \subseteq Present(store)
  BY <1>3 DEF Observe, TypeInv, TypeOK
<1>28. ASSUME NEW k \in Nat,
              \A j \in stable' \cap q.prefix : lister.from < j /\ j <= k => \E i \in 1..(m + n) : new[i] = j
       PROVE  ListedUpto(k)'
  <2>1. lister'.keys = new /\ DOMAIN lister'.keys = 1..(m + n)
    BY <1>10, <1>19
  <2> QED BY <1>10, <1>28, <2>1 DEF ListedUpto
<1>29. CASE ~more
  <2>1. R = W
    BY <1>6, <1>12, <1>16, <1>17, <1>29
  <2>2. ASSUME NEW j \in stable' \cap q.prefix, lister.from < j
        PROVE  \E i \in 1..(m + n) : new[i] = j
    <3>1. j \in Present(store) /\ j \in Nat
      BY <1>21, <1>27, <2>2 DEF Present
    <3>2. j <= q.start \/ j \in W
      BY <1>13, <1>21, <2>2, <3>1
    <3> QED BY <1>26, <1>27, <2>1, <2>2, <3>2
  <2>3. lister'.at = "done" /\ lister'.token = 0
    BY <1>10, <1>12, <1>29
  <2>4. ListedUpto(NKeys)'
    BY <1>21, <1>28, <2>2
  <2> QED BY <1>10, <1>19, <1>23, <2>3, <2>4 DEF PagingInv
<1>30. CASE more
  <2>1. PICK x : x = Max(R)
    OBVIOUS
  <2>2. x \in R /\ \A j \in R : j <= x
    BY <1>6, <1>17, <1>30, <2>1, MaxKey
  <2>3. x \in Nat /\ x > q.start /\ x \in q.prefix
    BY <1>22, <2>2
  <2>4. ASSUME NEW j \in stable' \cap q.prefix, lister.from < j, j <= x
        PROVE  \E i \in 1..(m + n) : new[i] = j
    <3>1. j \in Present(store) /\ j \in Nat
      BY <1>21, <1>27, <2>4 DEF Present
    <3>2. j <= q.start \/ j \in W
      BY <1>13, <1>21, <2>4, <3>1
    <3>3. j <= q.start \/ j \in R
      BY <1>16, <2>2, <2>4, <3>2
    <3> QED BY <1>26, <1>27, <2>4, <3>3
  <2>5. ASSUME NEW i \in 1..(m + n) PROVE new[i] <= x
    <3>1. CASE i \in 1..m
      <4>1. new[i] <= q.start /\ new[i] \in Nat
        BY <1>19, <1>20, <1>21, <3>1
      <4> QED BY <1>21, <2>3, <4>1
    <3>2. CASE i \notin 1..m
      <4>1. i - m \in 1..n /\ m + (i - m) = i
        BY <3>2
      <4> QED BY <1>18, <1>19, <2>2, <4>1
    <3> QED BY <3>1, <3>2
  <2>6. lister'.at = "page" /\ lister'.token = 0 /\ lister'.query.start = x
    BY <1>10, <1>12, <1>30, <2>1
  <2>7. lister'.from <= x
    BY <1>10, <1>20, <1>21, <2>3
  <2>8. ListedUpto(x)'
    BY <1>28, <2>3, <2>4
  <2> QED BY <1>10, <1>19, <1>23, <2>3, <2>5, <2>6, <2>7, <2>8 DEF PagingInv, ListedUpto
<1> QED BY <1>29, <1>30

LEMMA PagingStep ==
  ASSUME TypeInv, PagingInv, [Next]_vars
  PROVE  PagingInv'
<1>1. CASE UNCHANGED vars
  BY <1>1 DEF PagingInv, Paging, ListedUpto, vars
<1>2. CASE Next
  <2>1. Observe
    BY <1>2 DEF Next
  <2>2. CASE UNCHANGED lister
    BY <2>1, <2>2, PagingBeside
  <2>3. CASE BeginListing
    <3>1. PICK kind \in {"V1", "V2", "admin"}, q \in Queries, tokens \in Rewinds \cup {{}} :
            lister' = [lister EXCEPT !.kind = kind, !.at = "page", !.query = q, !.from = q.start,
                                     !.rewinds = tokens]
      BY <2>3 DEF BeginListing
    <3>2. lister.token = 0 /\ lister.keys = <<>> /\ lister \in Listers
      BY <2>3 DEF BeginListing, TypeInv
    <3>3. /\ lister'.token = 0 /\ lister'.keys = <<>> /\ lister'.query = q /\ lister'.from = q.start
          /\ lister'.at = "page" /\ q.start \in Nat
      BY <3>1, <3>2 DEF Listers, Queries
    <3>4. DOMAIN lister'.keys = {}
      BY <3>3
    <3>5. ListedUpto(q.start)'
      <4>1. \A j \in Keys : j \in Nat
        BY DEF Keys
      <4>2. stable' \subseteq Keys
        BY <2>1 DEF Observe, Present
      <4> QED BY <3>3, <4>1, <4>2 DEF ListedUpto
    <3> QED BY <3>3, <3>4, <3>5 DEF PagingInv, Paging, ListedUpto
  <2>4. CASE PageFails
    <3>1. lister'.at = "failed"
      BY <2>4 DEF PageFails, TypeInv, Listers
    <3> QED BY <3>1 DEF PagingInv, Paging
  <2>5. CASE Page
    BY <2>1, <2>5, PagingPage
  <2>6. putBucketLifecycle \/ (\E u \in Uploads : ChangeUpload(u)) \/ Job => UNCHANGED lister
    BY DEF putBucketLifecycle, ChangeUpload, Job, ApplyLifecycle, applyBucketLifecycle, expireObjects,
           ExpireOne, abortIncompleteMultiparts, AbortOne, RuleDone, JobDone
  <2> QED BY <1>2, <2>2, <2>3, <2>4, <2>5, <2>6 DEF Next
<1> QED BY <1>1, <1>2

\* Every listing starts idle.
LEMMA PagingInit == Init => PagingInv
BY DEF Init, InitListing, PagingInv, Paging

-----------------------------------------------------------------------------
(* The job *)

\* What ApplyLifecycle promises of one rule.
Swept(rule) ==
  rule.enabled =>
    /\ rule.days > 0 /\ ~job.cut =>
         \A k \in steady \cap Present(store) \cap rule.prefix : ~Expired(store[k], rule, job.now)
    /\ rule.abortDays > 0 =>
         \A u \in Uploads : uploads[u] # None => uploads[u] + rule.abortDays >= job.now

\* The rules the job has finished, the first Len(all) - Len(left) ones.
Finished == Len(job.all) - Len(job.left)

\* Of the rule the job is at, what is still to go is in the batch or in the
\* list of old uploads; behind the batch its objects are swept.
Current(rule) ==
  /\ rule.enabled
  /\ rule.days > 0 /\ ~job.cut =>
       \A k \in steady \cap Present(store) \cap rule.prefix :
         Expired(store[k], rule, job.now) =>
           job.at = "expire" /\ \E i \in DOMAIN job.batch : job.batch[i].key = k
  /\ job.at = "abort" /\ rule.abortDays > 0 =>
       \A u \in Uploads : uploads[u] # None /\ uploads[u] + rule.abortDays < job.now => u \in job.old

AtRule == job.at \in {"expire", "uploads", "abort"}

\* While the job runs and no call has failed, the rules behind it are swept and
\* those ahead of it are the rest of its copy.
SweepInv ==
  /\ job.at = "bucket" => job.left = job.all
  /\ job.at \notin {"idle", "bucket"} /\ ~job.failed =>
       /\ Finished \in Nat
       /\ \A i \in 1..Len(job.left) : job.left[i] = job.all[Finished + i]
       /\ \A i \in 1..Finished : Swept(job.all[i])
       /\ AtRule => Current(Head(job.left))
       /\ job.at = "done" => job.left = <<>>

\* What is in the batch was old enough when it was listed.
BatchInv ==
  job.at = "expire" => \A i \in DOMAIN job.batch : Expired(job.batch[i].rec, Head(job.left), job.now)

\* What a step of anybody may do to what the job has behind it: records that
\* nobody touched stay or go, uploads that come are young.
Undone ==
  /\ job'.now = job.now /\ (job.cut => job'.cut)
  /\ \A k \in steady' : k \in steady /\ (store'[k] = store[k] \/ store'[k] = None)
  /\ \A u \in Uploads : uploads'[u] \in {uploads[u], None, clock}

LEMMA SweptStays ==
  ASSUME TypeInv, NEW rule \in Rules, Swept(rule), Undone
  PROVE  Swept(rule)'
<1>1. /\ job.now \in Nat /\ clock \in Nat /\ job.now <= clock
      /\ \A u \in Uploads : uploads[u] = None \/ uploads[u] \in Nat
      /\ rule.days \in Nat /\ rule.abortDays \in Nat
  <2>1. MaxClock \in Nat
    BY ListingAssumption
  <2> QED BY <2>1 DEF TypeInv, TypeOK, Jobs, Rules
<1>2. ASSUME rule.enabled, rule.days > 0, ~job'.cut,
             NEW k \in steady' \cap Present(store') \cap rule.prefix
      PROVE  ~Expired(store'[k], rule, job'.now)
  <2>1. k \in steady /\ k \in Present(store) /\ store'[k] = store[k]
    BY <1>2 DEF Undone, Present
  <2> QED BY <1>2, <2>1 DEF Swept, Undone
<1>3. ASSUME rule.enabled, rule.abortDays > 0, NEW u \in Uploads, uploads'[u] # None
      PROVE  uploads'[u] + rule.abortDays >= job'.now
  <2>1. CASE uploads'[u] = uploads[u]
    BY <1>3, <2>1 DEF Swept, Undone
  <2>2. CASE uploads'[u] = clock
    BY <1>1, <2>2 DEF Undone
  <2> QED BY <1>3, <2>1, <2>2 DEF Undone
<1> QED BY <1>2, <1>3 DEF Swept

LEMMA SweptAll ==
  ASSUME TypeInv, Undone, job'.all = job.all, Finished \in Nat,
         \A i \in 1..Finished : Swept(job.all[i])
  PROVE  \A i \in 1..Finished : (Swept(job.all[i]))'
<1>1. ASSUME NEW i \in 1..Finished PROVE (Swept(job.all[i]))'
  <2>1. PICK rule \in Rules : rule = job.all[i]
    <3>1. job.all \in Seq(Rules) /\ Len(job.left) \in Nat
      BY DEF TypeInv, Jobs
    <3> QED BY <3>1 DEF Finished
  <2>2. Swept(rule)'
    BY <1>1, <2>1, SweptStays
  <2>3. job'.all[i] = rule
    BY <2>1
  <2> QED BY <2>2, <2>3 DEF Swept
<1> QED BY <1>1

\* A step that stays with the rule.
LEMMA SameRule ==
  ASSUME TypeInv, SweepInv, Undone, job.at \notin {"idle", "bucket"}, ~job.failed,
         job'.all = job.all, job'.left = job.left, job'.at # "bucket",
         job'.at = "done" => job.left = <<>>,
         AtRule' => Current(Head(job.left))'
  PROVE  SweepInv'
<1>1. /\ Finished \in Nat /\ Finished' = Finished
      /\ \A i \in 1..Len(job.left) : job.left[i] = job.all[Finished + i]
      /\ \A i \in 1..Finished : Swept(job.all[i])
  BY DEF SweepInv, Finished
<1>2. \A i \in 1..Finished : (Swept(job.all[i]))'
  BY <1>1, SweptAll
<1> QED BY <1>1, <1>2 DEF SweepInv

LEMMA OneLess == \A a, n \in Nat : a - (n - 1) = (a - n) + 1
OBVIOUS

\* A step that puts a swept rule behind the job.
LEMMA NextRule ==
  ASSUME TypeInv, SweepInv, Undone, job.at \notin {"idle", "bucket"}, ~job.failed,
         job.left # <<>>, Swept(Head(job.left)),
         job'.all = job.all, job'.left = Tail(job.left), job'.at = "rule"
  PROVE  SweepInv'
<1>1. /\ Finished \in Nat
      /\ \A i \in 1..Len(job.left) : job.left[i] = job.all[Finished + i]
      /\ \A i \in 1..Finished : Swept(job.all[i])
  BY DEF SweepInv
<1>2. \A i \in 1..Finished : (Swept(job.all[i]))'
  BY <1>1, SweptAll
<1>3. PICK l \in Seq(Rules), n \in Nat : l = job.left /\ n = Len(l)
  BY DEF TypeInv, Jobs
<1>4. /\ n > 0 /\ Len(Tail(l)) = n - 1 /\ Head(l) = l[1] /\ Head(l) \in Rules
      /\ \A i \in 1..(n - 1) : Tail(l)[i] = l[i + 1]
  BY <1>3
<1>5. Finished' = Finished + 1
  <2>1. job.all \in Seq(Rules) /\ Len(job.all) \in Nat
    BY DEF TypeInv, Jobs
  <2>2. PICK a \in Nat : a = Len(job.all)
    BY <2>1
  <2>3. Finished' = a - Len(Tail(l)) /\ Finished = a - n
    BY <1>3, <2>2 DEF Finished
  <2>4. Len(Tail(l)) = n - 1
    BY <1>4
  <2> QED BY <2>3, <2>4, OneLess
<1>6. PICK f \in Nat : f = Finished
  BY <1>1
<1>7. \A i \in 1..(n - 1) : Tail(l)[i] = job.all[(f + 1) + i]
  <2>1. ASSUME NEW i \in 1..(n - 1) PROVE Tail(l)[i] = job.all[(f + 1) + i]
    <3>1. i + 1 \in 1..n /\ f + (i + 1) = (f + 1) + i
      BY <1>4
    <3>2. l[i + 1] = job.all[f + (i + 1)]
      BY <1>1, <1>3, <1>6, <3>1
    <3> QED BY <1>4, <3>1, <3>2
  <2> QED BY <2>1
<1>8. (Swept(job.all[f + 1]))'
  <2>1. job.all[f + 1] = Head(l)
    BY <1>1, <1>3, <1>4, <1>6
  <2>2. PICK rule \in Rules : rule = Head(l)
    BY <1>4
  <2>3. Swept(rule)'
    BY <1>3, <2>2, SweptStays
  <2>4. job'.all[f + 1] = rule
    BY <2>1, <2>2
  <2> QED BY <2>3, <2>4 DEF Swept
<1>9. \A i \in 1..(f + 1) : (Swept(job.all[i]))'
  <2>1. \A i \in 1..(f + 1) : i \in 1..f \/ i = f + 1
    OBVIOUS
  <2> QED BY <1>2, <1>6, <1>8, <2>1
<1>10. \A i \in 1..Len(job'.left) : job'.left[i] = job'.all[Finished' + i]
  BY <1>3, <1>4, <1>5, <1>6, <1>7
<1>11. Finished' \in Nat
  BY <1>1, <1>5
<1>12. \A i \in 1..Finished' : (Swept(job.all[i]))'
  BY <1>5, <1>6, <1>9
<1> QED BY <1>10, <1>11, <1>12 DEF SweepInv, AtRule

\* A client's step leaves the promise as it is.
LEMMA SweepBeside ==
  ASSUME TypeInv, SweepInv, BatchInv, Observe, job' = job,
         \A u \in Uploads : uploads'[u] \in {uploads[u], None, clock}
  PROVE  SweepInv' /\ BatchInv'
<1>1. BatchInv'
  BY DEF BatchInv, Expired, objectMatchesFilter
<1>2. SUFFICES ASSUME job.at \notin {"idle", "bucket"}, ~job.failed PROVE SweepInv'
  BY <1>1 DEF SweepInv
<1>3. \A k \in steady' : k \in steady /\ store'[k] = store[k]
  BY <1>2 DEF Observe
<1>4. Undone
  BY <1>3 DEF Undone
<1>5. ASSUME AtRule, NEW rule \in Rules, rule = Head(job.left) PROVE Current(rule)'
  <2>1. Current(rule)
    BY <1>2, <1>5 DEF SweepInv
  <2>2. \A k \in steady' \cap Present(store') : k \in steady \cap Present(store) /\ store'[k] = store[k]
    BY <1>3 DEF Present
  <2>3. ~(clock + rule.abortDays < job.now)
    <3>1. job.now \in Nat /\ clock \in Nat /\ job.now <= clock /\ rule.abortDays \in Nat
      BY ListingAssumption DEF TypeInv, TypeOK, Jobs, Rules
    <3> QED BY <3>1
  <2>4. ASSUME job.at = "abort", rule.abortDays > 0, NEW u \in Uploads,
               uploads'[u] # None, uploads'[u] + rule.abortDays < job.now
        PROVE  u \in job.old
    <3>1. uploads'[u] = uploads[u]
      BY <2>3, <2>4
    <3> QED BY <2>1, <2>4, <3>1 DEF Current
  <2> QED BY <2>1, <2>2, <2>4 DEF Current
<1>6. AtRule => Head(job.left) \in Rules
  BY DEF TypeInv, Jobs, AtRule
<1>7. AtRule' => Current(Head(job.left))'
  BY <1>5, <1>6 DEF AtRule
<1>8. job.at = "done" => job.left = <<>>
  BY <1>2 DEF SweepInv
<1> QED BY <1>2, <1>4, <1>7, <1>8, SameRule

LEMMA SweepJob ==
  ASSUME TypeInv, SweepInv, BatchInv, Observe, Job
  PROVE  SweepInv' /\ BatchInv'
<1>1. /\ job \in Jobs /\ job.left \in Seq(Rules) /\ job.batch \in Seq(Entries)
      /\ job.left # <<>> => Head(job.left) \in Rules
      /\ AtRule => job.left # <<>>
  BY DEF TypeInv, Jobs, AtRule
<1>2. job.at # "idle" => steady' = {k \in steady : store'[k] = store[k]}
  BY DEF Observe
<1>3. CASE ApplyLifecycle
  BY <1>1, <1>3 DEF ApplyLifecycle, Jobs, SweepInv, BatchInv
<1>4. CASE applyBucketLifecycle
  <2>1. /\ job'.at = "rule" /\ job'.all = job.all /\ job'.left = job.left /\ job.left = job.all
    BY <1>1, <1>4 DEF applyBucketLifecycle, Jobs, SweepInv
  <2>2. PICK l \in Seq(Rules) : l = job.all
    BY <1>1, <2>1
  <2>3. Finished' = 0
    <3>1. Len(l) \in Nat
      OBVIOUS
    <3> QED BY <2>1, <2>2, <3>1 DEF Finished
  <2>4. \A i \in 1..Len(job'.left) : job'.left[i] = job'.all[Finished' + i]
    BY <2>1, <2>2, <2>3
  <2>5. \A i \in 1..0 : (Swept(job.all[i]))'
    OBVIOUS
  <2> QED BY <2>1, <2>3, <2>4, <2>5 DEF SweepInv, BatchInv, AtRule
<1>5. CASE expireObjects
  <2>1. job.at = "rule" /\ job.left # <<>>
    BY <1>5 DEF expireObjects
  <2>2. PICK rule \in Rules : rule = Head(job.left)
    BY <1>1, <2>1
  <2>3. PICK b : b = Finds(rule)
    OBVIOUS
  <2>4. PICK U : U = Present(store) \cap rule.prefix
    OBVIOUS
  <2>5. /\ \A i \in DOMAIN b : Expired(b[i].rec, rule, job.now)
        /\ Cardinality(U) <= ListLimit =>
             \A k \in U : Expired(store[k], rule, job.now) => \E i \in DOMAIN b : b[i].key = k
    BY <2>3, <2>4, FindsRight
  <2>6. \/ ~rule.enabled /\ job' = [job EXCEPT !.left = Tail(@)]
        \/ rule.enabled /\ rule.days = 0 /\ job' = [job EXCEPT !.at = "uploads"]
        \/ rule.enabled /\ job' = [job EXCEPT !.at = "expire", !.batch = b,
                                              !.cut = @ \/ Cardinality(U) > ListLimit]
        \/ job' = [job EXCEPT !.at = "uploads", !.failed = TRUE]
    BY <1>5, <2>2, <2>3, <2>4 DEF expireObjects
  <2>7. UNCHANGED <<storeVars, uploads>> /\ store' = store
    BY <1>5 DEF expireObjects, storeVars
  <2>8. CASE ~rule.enabled /\ job' = [job EXCEPT !.left = Tail(@)]
    <3>1. /\ job'.at = "rule" /\ job'.all = job.all /\ job'.left = Tail(job.left)
          /\ job'.now = job.now /\ job'.cut = job.cut /\ job'.failed = job.failed
      BY <1>1, <2>1, <2>8 DEF Jobs
    <3>2. Undone /\ Swept(Head(job.left))
      BY <1>2, <2>1, <2>2, <2>7, <2>8, <3>1 DEF Undone, Swept
    <3>3. ~job.failed => SweepInv'
      BY <2>1, <3>1, <3>2, NextRule
    <3> QED BY <3>1, <3>3 DEF SweepInv, BatchInv
  <2>9. CASE rule.enabled /\ rule.days = 0 /\ job' = [job EXCEPT !.at = "uploads"]
    <3>1. /\ job'.at = "uploads" /\ job'.all = job.all /\ job'.left = job.left
          /\ job'.now = job.now /\ job'.cut = job.cut /\ job'.failed = job.failed
      BY <1>1, <2>9 DEF Jobs
    <3>2. Undone
      BY <1>2, <2>1, <2>7, <3>1 DEF Undone
    <3>3. Current(rule)'
      BY <2>9, <3>1 DEF Current
    <3>4. Current(Head(job.left))'
      BY <2>2, <3>1, <3>3 DEF Current
    <3>5. ~job.failed => SweepInv'
      BY <2>1, <3>1, <3>2, <3>4, SameRule
    <3> QED BY <3>1, <3>5 DEF SweepInv, BatchInv
  <2>10. CASE rule.enabled /\ job' = [job EXCEPT !.at = "expire", !.batch = b,
                                                 !.cut = @ \/ Cardinality(U) > ListLimit]
    <3>1. /\ job'.at = "expire" /\ job'.all = job.all /\ job'.left = job.left /\ job'.batch = b
          /\ job'.now = job.now /\ job'.cut = (job.cut \/ Cardinality(U) > ListLimit)
          /\ job'.failed = job.failed
      BY <1>1, <2>10 DEF Jobs
    <3>2. Undone
      BY <1>2, <2>1, <2>7, <3>1 DEF Undone
    <3>3. ~job'.cut => Cardinality(U) <= ListLimit
      <4>1. Cardinality(U) \in Nat /\ ListLimit \in Nat
        <5>1. U \in SUBSET Keys
          BY <2>4 DEF Present
        <5> QED BY <5>1, KeysFinite, LifecycleAssumption
      <4>2. ~job'.cut => ~(Cardinality(U) > ListLimit)
        BY <3>1
      <4>3. ~(Cardinality(U) > ListLimit) => Cardinality(U) <= ListLimit
        BY <4>1
      <4> QED BY <4>2, <4>3
    <3>4. Present(store)' = Present(store)
      BY <2>7 DEF Present
    <3>5. Current(rule)'
      BY <2>4, <2>5, <2>7, <2>10, <3>1, <3>3, <3>4 DEF Current
    <3>6. Current(Head(job.left))'
      BY <2>2, <3>1, <3>5 DEF Current
    <3>7. ~job.failed => SweepInv'
      BY <2>1, <3>1, <3>2, <3>6, SameRule
    <3>8. BatchInv'
      BY <2>2, <2>5, <3>1 DEF BatchInv
    <3> QED BY <3>1, <3>7, <3>8 DEF SweepInv
  <2>11. CASE job' = [job EXCEPT !.at = "uploads", !.failed = TRUE]
    <3>1. job'.at = "uploads" /\ job'.failed
      BY <1>1, <2>11 DEF Jobs
    <3> QED BY <3>1 DEF SweepInv, BatchInv
  <2> QED BY <2>6, <2>8, <2>9, <2>10, <2>11
<1>6. CASE ExpireOne
  <2>1. /\ job.at = "expire" /\ job.batch # <<>> /\ uploads' = uploads
        /\ \/ store' = [store EXCEPT ![Head(job.batch).key] = None] /\ job' = [job EXCEPT !.batch = Tail(@)]
           \/ job' = [job EXCEPT !.batch = Tail(@), !.failed = TRUE]
    BY <1>6 DEF ExpireOne
  <2>2. PICK b \in Seq(Entries) : b = job.batch
    BY <1>1
  <2>3. /\ b # <<>> /\ Head(b) = b[1] /\ DOMAIN Tail(b) = 1..(Len(b) - 1) /\ Len(b) \in Nat
        /\ DOMAIN b = 1..Len(b) /\ \A i \in 1..(Len(b) - 1) : Tail(b)[i] = b[i + 1]
    BY <2>1, <2>2
  <2>4. /\ job'.at = "expire" /\ job'.all = job.all /\ job'.left = job.left /\ job'.batch = Tail(b)
        /\ job'.now = job.now /\ job'.cut = job.cut /\ (job.failed => job'.failed)
    BY <1>1, <2>1, <2>2 DEF Jobs
  <2>5. BatchInv'
    <3>1. \A i \in 1..Len(b) : Expired(b[i].rec, Head(job.left), job.now)
      BY <2>1, <2>2, <2>3 DEF BatchInv
    <3>2. \A i \in 1..(Len(b) - 1) : i + 1 \in 1..Len(b)
      BY <2>3
    <3> QED BY <2>3, <2>4, <3>1, <3>2 DEF BatchInv
  <2>6. CASE job'.failed
    BY <2>4, <2>5, <2>6 DEF SweepInv
  <2>7. CASE ~job'.failed
    <3>1. ~job.failed
      BY <2>4, <2>7
    <3>2. store' = [store EXCEPT ![b[1].key] = None]
      <4>1. job' # [job EXCEPT !.batch = Tail(@), !.failed = TRUE]
        BY <1>1, <2>7 DEF Jobs
      <4> QED BY <2>1, <2>2, <2>3, <4>1
    <3>3. store \in [Keys -> Records \cup {None}]
      BY DEF TypeInv, TypeOK
    <3>4. Undone
      BY <1>2, <2>1, <2>4 DEF Undone
    <3>5. PICK rule \in Rules : rule = Head(job.left)
      BY <1>1, <2>1 DEF AtRule
    <3>6. Current(rule)
      BY <2>1, <3>1, <3>5 DEF SweepInv, AtRule
    <3>7. ASSUME rule.days > 0, ~job'.cut, NEW k \in steady' \cap Present(store') \cap rule.prefix,
                 Expired(store'[k], rule, job'.now)
          PROVE  \E i \in DOMAIN Tail(b) : Tail(b)[i].key = k
      <4>1. k \in steady /\ store'[k] = store[k] /\ store'[k] # None /\ k \in Keys
        BY <1>2, <2>1, <3>7 DEF Present
      <4>2. k \in Present(store)
        BY <4>1 DEF Present
      <4>3. PICK i \in 1..Len(b) : b[i].key = k
        BY <2>2, <2>3, <2>4, <3>6, <3>7, <4>1, <4>2 DEF Current
      <4>4. i # 1
        BY <3>2, <3>3, <4>1, <4>3
      <4>5. i - 1 \in 1..(Len(b) - 1) /\ (i - 1) + 1 = i
        BY <2>3, <4>4
      <4> QED BY <2>3, <4>3, <4>5
    <3>8. Current(rule)'
      BY <2>4, <3>6, <3>7 DEF Current
    <3>9. Current(Head(job.left))'
      BY <2>4, <3>5, <3>8 DEF Current
    <3>10. SweepInv'
      BY <2>1, <2>4, <3>1, <3>4, <3>9, SameRule
    <3> QED BY <2>5, <3>10
  <2> QED BY <2>6, <2>7
<1>7. CASE abortIncompleteMultiparts
  <2>1. AtRule /\ job.at # "abort" /\ (job.at = "expire" => job.batch = <<>>) /\ UNCHANGED <<storeVars, uploads>>
    BY <1>7 DEF abortIncompleteMultiparts, AtRule
  <2>2. PICK rule \in Rules : rule = Head(job.left)
    BY <1>1, <2>1
  <2>3. PICK old : old = {u \in ListMultiparts : rule.abortDays > 0 /\ uploads[u] + rule.abortDays < job.now}
    OBVIOUS
  <2>4. \/ job' = [job EXCEPT !.at = "abort", !.old = old]
        \/ job' = [job EXCEPT !.at = "rule", !.left = Tail(@), !.failed = TRUE]
    BY <1>7, <2>2, <2>3 DEF abortIncompleteMultiparts
  <2>5. CASE job' = [job EXCEPT !.at = "rule", !.left = Tail(@), !.failed = TRUE]
    <3>1. job'.at = "rule" /\ job'.failed
      BY <1>1, <2>5 DEF Jobs
    <3> QED BY <3>1 DEF SweepInv, BatchInv
  <2>6. CASE job' = [job EXCEPT !.at = "abort", !.old = old]
    <3>1. /\ job'.at = "abort" /\ job'.all = job.all /\ job'.left = job.left /\ job'.old = old
          /\ job'.now = job.now /\ job'.cut = job.cut /\ job'.failed = job.failed
      BY <1>1, <2>6 DEF Jobs
    <3>2. store' = store /\ uploads' = uploads /\ Present(store)' = Present(store)
      BY <2>1 DEF storeVars, Present
    <3>3. Undone
      BY <1>2, <2>1, <3>1, <3>2 DEF Undone, AtRule
    <3>4. steady' \subseteq steady
      BY <1>2, <2>1 DEF AtRule
    <3>5. ~job.failed => Current(rule)
      BY <2>1, <2>2 DEF SweepInv, AtRule
    <3>6. \A k : ~(job.at = "expire" /\ \E i \in DOMAIN job.batch : job.batch[i].key = k)
      BY <2>1
    <3>7. ~job.failed => Current(rule)'
      BY <2>3, <3>1, <3>2, <3>4, <3>5, <3>6 DEF Current, ListMultiparts
    <3>8. ~job.failed => Current(Head(job.left))'
      BY <2>2, <3>1, <3>7 DEF Current
    <3>9. ~job.failed => SweepInv'
      BY <2>1, <3>1, <3>3, <3>8, SameRule DEF AtRule
    <3> QED BY <3>1, <3>9 DEF SweepInv, BatchInv
  <2> QED BY <2>4, <2>5, <2>6
<1>8. CASE AbortOne
  <2>1. PICK u \in job.old :
          \/ /\ uploads' = [uploads EXCEPT ![u] = None]
             /\ job' = [job EXCEPT !.old = @ \ {u}]
          \/ job' = [job EXCEPT !.old = @ \ {u}, !.failed = TRUE]
    BY <1>8 DEF AbortOne
  <2>2. job.at = "abort" /\ store' = store /\ Present(store)' = Present(store)
    BY <1>8 DEF AbortOne, storeVars, Present
  <2>3. CASE job' = [job EXCEPT !.old = @ \ {u}, !.failed = TRUE]
    <3>1. job'.at = "abort" /\ job'.failed
      BY <1>1, <2>2, <2>3 DEF Jobs
    <3> QED BY <3>1 DEF SweepInv, BatchInv
  <2>4. CASE uploads' = [uploads EXCEPT ![u] = None] /\ job' = [job EXCEPT !.old = @ \ {u}]
    <3>1. /\ job'.at = "abort" /\ job'.all = job.all /\ job'.left = job.left /\ job'.old = job.old \ {u}
          /\ job'.now = job.now /\ job'.cut = job.cut /\ job'.failed = job.failed
      BY <1>1, <2>2, <2>4 DEF Jobs
    <3>2. uploads \in [Uploads -> 0..MaxClock \cup {None}] /\ u \in Uploads
      BY DEF TypeInv, TypeOK
    <3>3. \A v \in Uploads : uploads'[v] = IF v = u THEN None ELSE uploads[v]
      BY <2>4, <3>2
    <3>4. steady' = steady
      BY <1>2, <2>2
    <3>5. Undone
      BY <2>2, <3>1, <3>3, <3>4 DEF Undone
    <3>6. PICK rule \in Rules : rule = Head(job.left)
      BY <1>1, <2>2 DEF AtRule
    <3>7. ~job.failed => Current(rule)
      BY <2>2, <3>6 DEF SweepInv, AtRule
    <3>8. ~job.failed => Current(rule)'
      BY <2>2, <3>1, <3>3, <3>4, <3>7 DEF Current
    <3>9. ~job.failed => Current(Head(job.left))'
      BY <3>1, <3>6, <3>8 DEF Current
    <3>10. ~job.failed => SweepInv'
      BY <2>2, <3>1, <3>5, <3>9, SameRule
    <3> QED BY <3>1, <3>10 DEF SweepInv, BatchInv
  <2> QED BY <2>1, <2>3, <2>4
<1>9. CASE RuleDone
  <2>1. job.at = "abort" /\ job.old = {} /\ store' = store /\ uploads' = uploads
    BY <1>9 DEF RuleDone, storeVars
  <2>2. /\ job'.at = "rule" /\ job'.all = job.all /\ job'.left = Tail(job.left)
        /\ job'.now = job.now /\ job'.cut = job.cut /\ job'.failed = job.failed
    BY <1>1, <1>9 DEF RuleDone, Jobs
  <2>3. Undone
    BY <1>2, <2>1, <2>2 DEF Undone
  <2>4. PICK rule \in Rules : rule = Head(job.left) /\ job.left # <<>>
    BY <1>1, <2>1 DEF AtRule
  <2>5. ~job.failed => Current(rule)
    BY <2>1, <2>4 DEF SweepInv, AtRule
  <2>6. \A u \in Uploads : uploads[u] = None \/ uploads[u] \in Nat
    BY ListingAssumption DEF TypeInv, TypeOK
  <2>7. job.now \in Nat /\ rule.abortDays \in Nat
    BY <1>1, ListingAssumption DEF Jobs, Rules
  <2>8. ~job.failed => Swept(rule)
    BY <2>1, <2>5, <2>6, <2>7 DEF Current, Swept
  <2>9. ~job.failed => SweepInv'
    BY <2>1, <2>2, <2>3, <2>4, <2>8, NextRule
  <2> QED BY <2>2, <2>9 DEF SweepInv, BatchInv
<1>10. CASE JobDone
  <2>1. job.at = "rule" /\ job.left = <<>> /\ store' = store /\ uploads' = uploads
    BY <1>10 DEF JobDone, storeVars
  <2>2. /\ job'.at = "done" /\ job'.all = job.all /\ job'.left = job.left
        /\ job'.now = job.now /\ job'.cut = job.cut /\ job'.failed = job.failed
    BY <1>1, <1>10 DEF JobDone, Jobs
  <2>3. Undone
    BY <1>2, <2>1, <2>2 DEF Undone
  <2>4. ~job.failed => SweepInv'
    BY <2>1, <2>2, <2>3, SameRule DEF AtRule
  <2> QED BY <2>2, <2>4 DEF SweepInv, BatchInv
<1> QED BY <1>3, <1>4, <1>5, <1>6, <1>7, <1>8, <1>9, <1>10 DEF Job

LEMMA SweepInit == Init => SweepInv /\ BatchInv
BY DEF Init, SweepInv, BatchInv

LEMMA SweepStep ==
  ASSUME TypeInv, SweepInv, BatchInv, [Next]_vars
  PROVE  SweepInv' /\ BatchInv'
<1>1. CASE UNCHANGED vars
  <2>1. SweepInv'
    <3>1. job' = job /\ store' = store /\ uploads' = uploads /\ steady' = steady
      BY <1>1 DEF vars, storeVars
    <3>2. SUFFICES ASSUME job.at \notin {"idle", "bucket"}, ~job.failed PROVE SweepInv'
      BY <3>1 DEF SweepInv
    <3>3. Undone
      BY <3>1 DEF Undone
    <3>4. AtRule => Current(Head(job.left))
      BY <3>2 DEF SweepInv
    <3>5. Present(store)' = Present(store)
      BY <3>1 DEF Present
    <3>6. AtRule' => Current(Head(job.left))'
      BY <3>1, <3>4, <3>5 DEF Current, AtRule
    <3>7. job.at = "done" => job.left = <<>>
      BY <3>2 DEF SweepInv
    <3> QED BY <3>1, <3>2, <3>3, <3>6, <3>7, SameRule
  <2>2. BatchInv'
    BY <1>1 DEF BatchInv, vars
  <2> QED BY <2>1, <2>2
<1>2. CASE Next
  <2>1. Observe
    BY <1>2 DEF Next
  <2>2. CASE Job
    BY <2>1, <2>2, SweepJob
  <2>3. CASE job' = job /\ uploads' = uploads
    BY <2>1, <2>3, SweepBeside
  <2>4. ASSUME NEW u \in Uploads, ChangeUpload(u) PROVE SweepInv' /\ BatchInv'
    <3>1. uploads' = [uploads EXCEPT ![u] = IF @ = None THEN clock ELSE None] /\ job' = job
      BY <2>4 DEF ChangeUpload
    <3>2. \A v \in Uploads : uploads'[v] \in {uploads[v], None, clock}
      BY <3>1 DEF TypeInv, TypeOK
    <3> QED BY <2>1, <3>1, <3>2, SweepBeside
  <2>5. putBucketLifecycle => job' = job /\ uploads' = uploads
    BY DEF putBucketLifecycle
  <2> QED BY <1>2, <2>2, <2>3, <2>4, <2>5 DEF Next
<1> QED BY <1>1, <1>2

-----------------------------------------------------------------------------
(* The theorems *)

IInv == TypeInv /\ PagingInv /\ SweepInv /\ BatchInv

LEMMA Inductive == Spec => []IInv
<1>1. Init => IInv
  BY TypesInit, PagingInit, SweepInit DEF IInv
<1>2. IInv /\ [Next]_vars => IInv'
  BY TypesStep, PagingStep, SweepStep DEF IInv
<1> QED BY <1>1, <1>2, PTL DEF Spec

\* Every variable has its type, and a rule's batch is never longer than the
\* page ApplyLifecycle lists.
THEOREM TypesAreRight == Spec => []TypeOK
<1>1. IInv => TypeOK
  BY DEF IInv, TypeInv
<1> QED BY <1>1, Inductive, PTL

\* listObjectsV1 over ListObjects: a client that goes on behind the last key
\* it got sees every object that was there throughout, once and in order,
\* whatever others write and delete between its pages.
THEOREM ListingIsComplete == Spec => []PagesComplete
<1>1. IInv => PagesComplete
  <2> SUFFICES ASSUME IInv, Judged("V1") PROVE Listed
    BY DEF PagesComplete
  <2>1. /\ lister.query \in Queries /\ lister.keys \in Seq(Keys) /\ stable \subseteq Keys
    BY DEF IInv, TypeInv, TypeOK, Judged, Listers, Present
  <2>2. lister.query.max \in Nat
    BY <2>1, ListingAssumption DEF Queries
  <2>3. Paging
    BY <2>2 DEF Judged, Paging
  <2>4. /\ \A i, j \in DOMAIN lister.keys : i < j => lister.keys[i] < lister.keys[j]
        /\ ListedUpto(NKeys)
    BY <2>3 DEF IInv, PagingInv, Judged
  <2>5. \A k \in Keys : k \in Nat /\ k <= NKeys
    BY ListingAssumption DEF Keys
  <2>6. ASSUME NEW k \in stable \cap lister.query.prefix, k > lister.from
        PROVE  k \in ToSet(lister.keys)
    <3>1. lister.from < k /\ k <= NKeys
      <4>1. lister.from \in Nat
        BY DEF IInv, TypeInv, Listers
      <4> QED BY <2>1, <2>5, <2>6, <4>1
    <3>2. PICK i \in DOMAIN lister.keys : lister.keys[i] = k
      BY <2>4, <3>1 DEF ListedUpto
    <3> QED BY <3>2 DEF ToSet
  <2> QED BY <2>4, <2>6 DEF Listed
<1> QED BY <1>1, Inductive, PTL

\* ApplyLifecycle: when it is done and no call of it failed, nothing that
\* nobody touched meanwhile is left that one of its rules would remove, but
\* for rules whose prefix holds more than one page.
THEOREM SweepIsComplete == Spec => []SweepComplete
<1>1. IInv => SweepComplete
  <2> SUFFICES ASSUME IInv, job.at = "done", ~job.failed, NEW i \in DOMAIN job.all
               PROVE  Swept(job.all[i])
    BY DEF SweepComplete, Swept
  <2>1. job.left = <<>> /\ \A j \in 1..Finished : Swept(job.all[j])
    BY DEF IInv, SweepInv
  <2>2. PICK l \in Seq(Rules) : l = job.all
    BY DEF IInv, TypeInv, Jobs
  <2>3. Finished = Len(l) /\ DOMAIN l = 1..Len(l)
    BY <2>1, <2>2 DEF Finished
  <2> QED BY <2>1, <2>2, <2>3
<1> QED BY <1>1, Inductive, PTL

\* expireObjects and DeleteObject: what the job removes was old enough for the
\* rule and had its tags, unless a client wrote or tagged it in between.
THEOREM OnlyOldExpires == Spec => ExpiresOnlyOld
<1>1. IInv /\ [Next]_vars =>
        [\A k \in Keys :
           job.at = "expire" /\ job' # job /\ store[k] # None /\ store'[k] = None
             => LET found == Head(job.batch)
                IN /\ k = found.key
                   /\ store[k] = found.rec => Expired(store[k], Head(job.left), clock)]_vars
  <2> SUFFICES ASSUME IInv, Next, NEW k \in Keys,
                      job.at = "expire", job' # job, store[k] # None, store'[k] = None
               PROVE  /\ k = Head(job.batch).key
                      /\ store[k] = Head(job.batch).rec =>
                           Expired(store[k], Head(job.left), clock)
    OBVIOUS
  <2>1. ExpireOne
    <3>1. ~(store' = store)
      OBVIOUS
    <3>2. Job
      BY DEF Next, putBucketLifecycle, ChangeUpload
    <3> QED BY <3>1, <3>2 DEF Job, ApplyLifecycle, applyBucketLifecycle, expireObjects,
                 abortIncompleteMultiparts, AbortOne, RuleDone, JobDone, storeVars
  <2>2. job.batch # <<>> /\ store' = [store EXCEPT ![Head(job.batch).key] = None]
    BY <2>1 DEF ExpireOne
  <2>3. k = Head(job.batch).key
    BY <2>2 DEF IInv, TypeInv, TypeOK
  <2>4. ASSUME store[k] = Head(job.batch).rec PROVE Expired(store[k], Head(job.left), clock)
    <3>1. job.batch \in Seq(Entries) /\ job.left \in Seq(Rules) /\ job.left # <<>>
      BY DEF IInv, TypeInv, Jobs
    <3>2. PICK b \in Seq(Entries), rule \in Rules : b = job.batch /\ rule = Head(job.left)
      BY <3>1
    <3>3. 1 \in DOMAIN b /\ Head(b) = b[1] /\ b[1].rec \in Records
      <4>1. b # <<>>
        BY <2>2, <3>2
      <4>2. 1 \in DOMAIN b /\ Head(b) = b[1] /\ b[1] \in Entries
        BY <4>1
      <4> QED BY <4>2 DEF Entries
    <3>4. Expired(b[1].rec, rule, job.now)
      BY <3>2, <3>3 DEF IInv, BatchInv
    <3>5. job.now <= clock /\ job.now \in Nat /\ clock \in Nat /\ rule.days \in Nat
          /\ b[1].rec.mtime \in Nat
      <4>1. MaxClock \in Nat
        BY ListingAssumption
      <4>2. job.now <= clock /\ job.now \in Nat /\ clock \in Nat
        BY <4>1 DEF IInv, TypeInv, TypeOK, Jobs
      <4> QED BY <3>3, <4>1, <4>2 DEF Rules, Records
    <3>6. b[1].rec.mtime + rule.days < clock
      BY <3>4, <3>5 DEF Expired
    <3> QED BY <2>4, <3>2, <3>3, <3>4, <3>6 DEF Expired
  <2> QED BY <2>3, <2>4
<1> QED BY <1>1, Inductive, PTL DEF Spec, ExpiresOnlyOld
=============================================================================
