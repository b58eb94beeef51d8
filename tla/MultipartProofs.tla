-------------------------- MODULE MultipartProofs ---------------------------
(***************************************************************************)
(* Multipart uploads, for any number of uploads, parts, requests at the    *)
(* same time, crashes and failing calls.                                   *)
(***************************************************************************)
EXTENDS Multipart, FiniteSetTheorems, WellFoundedInduction, TLAPS

-----------------------------------------------------------------------------
(* Adding up and sorting *)

LEMMA LeastNumber ==
  ASSUME NEW S \in SUBSET Nat, S # {}
  PROVE  \E m \in S : \A j \in S : m <= j
<1>1. PICK m \in S : \A j \in S : <<j, m>> \notin OpToRel(<, Nat)
  BY NatLessThanWellFounded, WFMin
<1>2. \A j \in S : ~(j < m)
  BY <1>1 DEF OpToRel
<1> QED BY <1>2

\* The partial sums of the first k sizes.
Sums(sizes, k, f) ==
  /\ f \in [0..k -> Int] /\ f[0] = 0
  /\ \A i \in 1..k : f[i] = f[i - 1] + sizes[i]

LEMMA SumsExist ==
  ASSUME NEW sizes \in Seq(Int), NEW n \in 0..Len(sizes)
  PROVE  \E f : Sums(sizes, n, f)
<1> DEFINE Bad == {k \in 0..Len(sizes) : ~ \E f : Sums(sizes, k, f)}
<1> SUFFICES ASSUME Bad # {} PROVE FALSE
  OBVIOUS
<1>0. Len(sizes) \in Nat
  OBVIOUS
<1>1. PICK k \in Bad : \A j \in Bad : k <= j
  <2>1. Bad \in SUBSET Nat
    OBVIOUS
  <2> HIDE DEF Bad
  <2> QED BY <2>1, LeastNumber
<1>2. k # 0
  <2>1. Sums(sizes, 0, [i \in 0..0 |-> 0])
    BY DEF Sums
  <2> QED BY <2>1
<1>3. k \in 1..Len(sizes) /\ k - 1 \in 0..Len(sizes) /\ ~(k <= k - 1)
  BY <1>0, <1>2
<1>4. PICK f : Sums(sizes, k - 1, f)
  BY <1>1, <1>3
<1> DEFINE g == [i \in 0..k |-> IF i = k THEN f[k - 1] + sizes[k] ELSE f[i]]
<1>5. sizes[k] \in Int /\ f[k - 1] \in Int
  BY <1>3, <1>4 DEF Sums
<1>6. g \in [0..k -> Int] /\ g[0] = 0
  BY <1>3, <1>4, <1>5 DEF Sums
<1>7. ASSUME NEW i \in 1..k PROVE g[i] = g[i - 1] + sizes[i]
  <2>1. CASE i = k
    BY <1>3, <2>1
  <2>2. CASE i # k
    BY <1>3, <1>4, <2>2 DEF Sums
  <2> QED BY <2>1, <2>2
<1>8. Sums(sizes, k, g)
  BY <1>6, <1>7 DEF Sums
<1> QED BY <1>1, <1>8

\* A total is a number.
LEMMA TotalNumber ==
  ASSUME NEW sizes \in Seq(Int)
  PROVE  Total(sizes) \in Int
<1> DEFINE n == Len(sizes)
           S(f) == f = [i \in 0..n |-> IF i = 0 THEN 0 ELSE f[i - 1] + sizes[i]]
           sum == CHOOSE f : S(f)
<1>0. n \in Nat /\ n \in 0..n /\ \A i \in 1..n : sizes[i] \in Int
  OBVIOUS
<1>1. PICK f : Sums(sizes, n, f)
  BY <1>0, SumsExist
<1>2. S(f)
  BY <1>0, <1>1 DEF Sums
<1>3. S(sum)
  BY <1>2
<1>4. Total(sizes) = sum[n]
  BY DEF Total
<1> HIDE DEF sum
<1>5. \A i \in 0..n : sum[i] = f[i]
  <2> DEFINE Bad == {i \in 0..n : sum[i] # f[i]}
  <2> SUFFICES ASSUME Bad # {} PROVE FALSE
    OBVIOUS
  <2>1. PICK k \in Bad : \A j \in Bad : k <= j
    <3>1. Bad \in SUBSET Nat
      OBVIOUS
    <3> HIDE DEF Bad
    <3> QED BY <3>1, LeastNumber
  <2>2. sum[k] = IF k = 0 THEN 0 ELSE sum[k - 1] + sizes[k]
    BY <1>3
  <2>3. f[k] = IF k = 0 THEN 0 ELSE f[k - 1] + sizes[k]
    BY <1>2
  <2>4. k # 0
    BY <2>2, <2>3
  <2>5. k - 1 \in 0..n /\ ~(k <= k - 1)
    BY <1>0, <2>4
  <2>6. sum[k - 1] = f[k - 1]
    BY <2>1, <2>5
  <2> QED BY <2>2, <2>3, <2>4, <2>6
<1> QED BY <1>0, <1>1, <1>4, <1>5 DEF Sums

\* A selection of parts, each number once.
Distinct(sel) == /\ sel \in Seq(CompletePart)
                 /\ \A i, j \in DOMAIN sel : i # j => sel[i].n # sel[j].n

\* Distinct parts can be put in order: the part with k - 1 smaller ones goes
\* to place k.
LEMMA OrderExists ==
  ASSUME NEW sel, Distinct(sel)
  PROVE  \E s \in [DOMAIN sel -> Range(sel)] : \A i, j \in DOMAIN sel : i < j => s[i].n < s[j].n
<1> DEFINE N == Len(sel)
           D == 1..N
           Upto(k) == {j \in D : sel[j].n <= sel[k].n}
           rank == [k \in D |-> Cardinality(Upto(k))]
<1>1. N \in Nat /\ DOMAIN sel = D /\ \A k \in D : sel[k] \in Range(sel) /\ sel[k].n \in Int
  <2>1. N \in Nat /\ DOMAIN sel = D
    BY DEF Distinct
  <2>2. ASSUME NEW k \in D PROVE sel[k] \in Range(sel) /\ sel[k].n \in Int
    <3>1. sel[k] \in CompletePart /\ sel[k] \in Range(sel)
      BY <2>1 DEF Distinct, Range
    <3>2. sel[k].n \in PartNumbers
      BY <3>1 DEF CompletePart
    <3> QED BY <3>1, <3>2 DEF PartNumbers
  <2> QED BY <2>1, <2>2
<1>2. IsFiniteSet(D) /\ Cardinality(D) = N
  BY <1>1, FS_Interval
<1>3. ASSUME NEW k \in D PROVE IsFiniteSet(Upto(k)) /\ Cardinality(Upto(k)) \in D
  <2>1. Upto(k) \in SUBSET D /\ k \in Upto(k)
    BY <1>1
  <2> HIDE DEF Upto
  <2>2. IsFiniteSet(Upto(k)) /\ Cardinality(Upto(k)) <= N
    BY <1>2, <2>1, FS_Subset
  <2>3. Cardinality(Upto(k)) \in Nat /\ Cardinality(Upto(k)) # 0
    BY <2>1, <2>2, FS_CardinalityType, FS_EmptySet
  <2> QED BY <1>1, <2>2, <2>3
<1>4. ASSUME NEW j \in D, NEW k \in D, sel[j].n < sel[k].n PROVE rank[j] < rank[k]
  <2>1. Upto(j) \in SUBSET Upto(k) /\ k \in Upto(k) /\ k \notin Upto(j)
    BY <1>1, <1>4
  <2>2. IsFiniteSet(Upto(k)) /\ Cardinality(Upto(j)) \in Nat /\ Cardinality(Upto(k)) \in Nat
    <3>1. IsFiniteSet(Upto(k)) /\ Cardinality(Upto(j)) \in D /\ Cardinality(Upto(k)) \in D
      BY <1>3
    <3> HIDE DEF Upto
    <3> QED BY <1>1, <3>1
  <2> HIDE DEF Upto
  <2>3. Cardinality(Upto(j)) <= Cardinality(Upto(k)) /\ Cardinality(Upto(j)) # Cardinality(Upto(k))
    BY <2>1, <2>2, FS_Subset
  <2>4. Cardinality(Upto(j)) < Cardinality(Upto(k))
    BY <2>2, <2>3
  <2> QED BY <2>4
<1>5. rank \in [D -> D]
  BY <1>3
<1> HIDE DEF rank
<1>6. \A j, k \in D : j # k => rank[j] # rank[k]
  <2> SUFFICES ASSUME NEW j \in D, NEW k \in D, j # k PROVE rank[j] # rank[k]
    OBVIOUS
  <2>1. sel[j].n < sel[k].n \/ sel[k].n < sel[j].n
    BY <1>1 DEF Distinct
  <2>2. rank[j] < rank[k] \/ rank[k] < rank[j]
    BY <1>4, <2>1
  <2>3. rank[j] \in Int /\ rank[k] \in Int
    BY <1>5
  <2> QED BY <2>2, <2>3
<1>7. \A i \in D : \E k \in D : rank[k] = i
  <2>1. rank \in Injection(D, D)
    BY <1>5, <1>6 DEF Injection, IsInjective
  <2>2. rank \in Surjection(D, D)
    BY <1>2, <2>1, FS_Injection
  <2> QED BY <2>2 DEF Surjection
<1> DEFINE at == [i \in D |-> CHOOSE k \in D : rank[k] = i]
           s == [i \in D |-> sel[at[i]]]
<1>8. \A i \in D : at[i] \in D /\ rank[at[i]] = i
  BY <1>7
<1> HIDE DEF at
<1>9. s \in [DOMAIN sel -> Range(sel)]
  BY <1>1, <1>8
<1>10. ASSUME NEW i \in D, NEW j \in D, i < j PROVE s[i].n < s[j].n
  <2>1. at[i] # at[j]
    BY <1>1, <1>8, <1>10
  <2>2. sel[at[i]].n < sel[at[j]].n \/ sel[at[j]].n < sel[at[i]].n
    BY <1>1, <1>8, <2>1 DEF Distinct
  <2>3. ~(sel[at[j]].n < sel[at[i]].n)
    <3>1. sel[at[j]].n < sel[at[i]].n => j < i
      BY <1>4, <1>8
    <3> QED BY <1>1, <1>10, <3>1
  <2> QED BY <2>2, <2>3
<1> QED BY <1>1, <1>9, <1>10

\* Sorted puts the same parts in ascending order.
LEMMA Sorted ==
  ASSUME NEW sel, Distinct(sel)
  PROVE  LET s == ByNumber(sel)
         IN /\ Distinct(s) /\ DOMAIN s = DOMAIN sel /\ Len(s) = Len(sel)
            /\ \A i, j \in DOMAIN s : i < j => s[i].n < s[j].n
            /\ \A i \in DOMAIN s : \E k \in DOMAIN sel : s[i] = sel[k]
<1> DEFINE s == ByNumber(sel)
<1>1. s \in [DOMAIN sel -> Range(sel)] /\ \A i, j \in DOMAIN sel : i < j => s[i].n < s[j].n
  BY OrderExists DEF ByNumber
<1> HIDE DEF s
<1>2. Len(sel) \in Nat /\ DOMAIN sel = 1..Len(sel) /\ Range(sel) \subseteq CompletePart
  BY DEF Distinct, Range
<1>3. s \in Seq(CompletePart) /\ Len(s) = Len(sel) /\ DOMAIN s = DOMAIN sel
  BY <1>1, <1>2
<1>4. \A i \in DOMAIN s : s[i].n \in Int
  <2>1. \A i \in DOMAIN s : s[i] \in CompletePart
    BY <1>3
  <2>2. \A c \in CompletePart : c.n \in PartNumbers
    BY DEF CompletePart
  <2> QED BY <2>1, <2>2 DEF PartNumbers
<1>5. \A i, j \in DOMAIN s : i # j => s[i].n # s[j].n
  <2> SUFFICES ASSUME NEW i \in DOMAIN s, NEW j \in DOMAIN s, i # j PROVE s[i].n # s[j].n
    OBVIOUS
  <2>1. i < j \/ j < i
    BY <1>2, <1>3
  <2>2. s[i].n < s[j].n \/ s[j].n < s[i].n
    BY <1>1, <1>3, <2>1
  <2> QED BY <1>4, <2>2
<1>6. \A i \in DOMAIN s : \E k \in DOMAIN sel : s[i] = sel[k]
  BY <1>1, <1>3 DEF Range
<1>7. Distinct(s)
  BY <1>3, <1>5 DEF Distinct
<1>8. \A i, j \in DOMAIN s : i < j => s[i].n < s[j].n
  BY <1>1, <1>3
<1> QED BY <1>3, <1>6, <1>7, <1>8 DEF s

-----------------------------------------------------------------------------
(* The invariants *)

Parting == {"part_write", "part_record"}
Listing == {"cmp_bucket", "cmp_list"}
Reading == {"cmp_read", "cmp_write", "cmp_index", "cmp_stats"}
Cleaning == {"clean_upload", "clean_parts", "clean_files"}

ChunkOf(u, n, body) == [u |-> u, n |-> n, body |-> body]

Ascending(sel) == \A i, j \in DOMAIN sel : i < j => sel[i].n < sel[j].n

Selected(sel) == {sel[i].n : i \in DOMAIN sel}

\* What a request knows at each of its steps.
LocalOK(p) ==
  LET l == loc[p]
  IN /\ pc[p] # "idle" => l.u \in created
     /\ pc[p] \in Parting => l \in PartLocal /\ ChunkOf(l.u, l.n, l.body) \in sent
     /\ pc[p] = "cmp_bucket" => l \in BucketLocal
     /\ pc[p] = "cmp_list" => l \in ListLocal
     /\ pc[p] \in Listing => Distinct(l.sel) /\ Len(l.sel) > 0
     /\ pc[p] \in Reading =>
          /\ l \in ReadLocal /\ Distinct(l.sel) /\ Len(l.sel) > 0 /\ Ascending(l.sel)
          /\ \A n \in DOMAIN l.got : ChunkOf(l.u, n, l.got[n]) \in sent
     /\ pc[p] \in Reading \ {"cmp_read"} => DOMAIN l.got = Selected(l.sel)
     /\ pc[p] \in {"cmp_index", "cmp_stats"} => file # None
     /\ pc[p] = "cmp_stats" => index # None
     /\ pc[p] = "abt_list" => l \in AbortLocal
     /\ pc[p] = "abt_files" => l \in FilesLocal
     /\ pc[p] \in Cleaning => l \in CleanLocal /\ (l.why = "complete" => index # None)

\* An upload that nobody has begun has nothing.
Blank(u) == \A n \in PartNumbers :
              parts[u][n] = None /\ partFiles[u][n] = None /\ receipts[u][n] = None

StoreOK ==
  /\ \A u \in Uploads : u \notin created => Blank(u)
  /\ \A u \in Uploads, n \in PartNumbers :
       partFiles[u][n] # None => ChunkOf(u, n, partFiles[u][n]) \in sent
  /\ AssembledFromParts
  /\ RecordAfterFile

Sound == TypeOK /\ StoreOK /\ \A p \in Requests : LocalOK(p)

-----------------------------------------------------------------------------
(* Requests one after the other *)

\* Receipt, record and file of part n of upload u say the same.
Synced(u, n) ==
  IF receipts[u][n] = None THEN parts[u][n] = None /\ partFiles[u][n] = None
  ELSE /\ partFiles[u][n] = receipts[u][n] /\ parts[u][n] # None
       /\ parts[u][n].etag = receipts[u][n]
       /\ UnknownLength = {} => parts[u][n].size = BodySize[receipts[u][n]]

SizesOf(bodies) == [i \in DOMAIN bodies |-> BodySize[bodies[i]]]
Etags(sel) == [i \in DOMAIN sel |-> sel[i].etag]

\* The file is the one that request p writes from its selection.
Written(p) ==
  LET l == loc[p]
  IN file = [i \in DOMAIN l.sel |-> ChunkOf(l.u, l.sel[i].n, l.sel[i].etag)]

\* Nobody is at work on u between its parts' files and its records.
Settled(u) == \A p \in Requests :
  pc[p] \in {"part_record", "abt_files"} \cup Cleaning => loc[p].u # u

\* What the only request knows.
Progress(p) ==
  LET l == loc[p]
  IN /\ pc[p] # "idle" => l.u \notin aborted \cup completed
     /\ pc[p] \notin {"idle", "clean_parts", "clean_files"} => l.u \in uploads
     /\ pc[p] \in {"clean_parts", "clean_files"} => l.u \notin uploads
     /\ pc[p] \in Parting /\ UnknownLength = {} => l.size = BodySize[l.body]
     /\ pc[p] = "part_record" =>
          /\ partFiles[l.u][l.n] = l.body
          /\ \A n \in PartNumbers : n # l.n => Synced(l.u, n)
     /\ pc[p] \in Listing \cup Reading =>
          \A i \in DOMAIN l.sel : receipts[l.u][l.sel[i].n] = l.sel[i].etag
     /\ pc[p] \in Reading =>
          /\ \A i \in DOMAIN l.sel : l.sel[i].n \in DOMAIN l.got => l.got[l.sel[i].n] = l.sel[i].etag
          /\ UnknownLength = {} => l.total = Total(SizesOf(Etags(l.sel)))
     /\ pc[p] \in {"cmp_index", "cmp_stats"} => Written(p)
     /\ pc[p] = "cmp_stats" => index = [etags |-> Etags(l.sel), size |-> l.total]
     /\ pc[p] = "abt_files" => \A n \in PartNumbers : partFiles[l.u][n] # None => n \in l.todo
     /\ pc[p] \in Cleaning =>
          IF l.why = "abort" THEN \A n \in PartNumbers : partFiles[l.u][n] = None
          ELSE Len(file) = l.last /\ \A i \in DOMAIN file : file[i].u = l.u
     /\ pc[p] = "clean_files" =>
          \A n \in PartNumbers : parts[l.u][n] = None /\ (n < l.next => partFiles[l.u][n] = None)

\* The object's record describes its file.
Agrees ==
  index # None =>
    /\ index.etags = [i \in DOMAIN file |-> file[i].body]
    /\ UnknownLength = {} => index.size = Total([i \in DOMAIN file |-> BodySize[file[i].body]])

\* What is left of an upload whose end was answered.
Ended(u) ==
  /\ u \notin uploads /\ \A n \in PartNumbers : parts[u][n] = None
  /\ u \in aborted => \A n \in PartNumbers : partFiles[u][n] = None
  /\ u \in completed /\ (\A i \in DOMAIN file : file[i].u = u) =>
       \A n \in PartNumbers : n <= Len(file) => partFiles[u][n] = None

Orderly ==
  /\ \A p, q \in Requests : pc[p] # "idle" /\ pc[q] # "idle" => p = q
  /\ \A p \in Requests : Progress(p)
  /\ \A u \in uploads : Settled(u) => \A n \in PartNumbers : Synced(u, n)
  /\ Agrees \/ \E p \in Requests : pc[p] = "cmp_index"
  /\ \A u \in aborted \cup completed : Ended(u)

InOrder == alone => Orderly

-----------------------------------------------------------------------------
(* What a step leaves as it is *)

StoreTyped ==
  /\ uploads \subseteq Uploads
  /\ parts \in [Uploads -> [PartNumbers -> PartRecord \cup {None}]]
  /\ partFiles \in [Uploads -> [PartNumbers -> Bodies \cup {None}]]
  /\ file \in Seq(Chunk) \cup {None}
  /\ index \in ObjectRecord \cup {None}
  /\ stats \in [count : Nat, bytes : Int]
  /\ created \subseteq Uploads /\ uploads \subseteq created
  /\ sent \subseteq Chunk
  /\ receipts \in [Uploads -> [PartNumbers -> Bodies \cup {None}]]
  /\ aborted \subseteq created /\ completed \subseteq created

BoundsTyped == started \in Nat /\ crashes \in Nat /\ faults \in Nat /\ alone \in BOOLEAN

RequestsTyped == /\ pc \in [Requests -> Labels]
                 /\ loc \in [Requests -> Locals \cup {None}]
                 /\ \A p \in Requests : pc[p] = "idle" <=> loc[p] = None

LEMMA TypeParts == TypeOK <=> StoreTyped /\ BoundsTyped /\ RequestsTyped
BY DEF TypeOK, StoreTyped, BoundsTyped, RequestsTyped

\* Only request p moves, to what it may be at.
Moves(p) ==
  /\ pc' \in [Requests -> Labels] /\ loc' \in [Requests -> Locals \cup {None}]
  /\ \A q \in Requests \ {p} : pc'[q] = pc[q] /\ loc'[q] = loc[q]
  /\ pc'[p] = "idle" <=> loc'[p] = None

LEMMA ProceedMoves ==
  ASSUME RequestsTyped, NEW p \in Requests, NEW label \in Labels \ {"idle"}, NEW l \in Locals,
         Proceed(p, label, l)
  PROVE  Moves(p) /\ pc'[p] = label /\ loc'[p] = l
<1>1. l # None
  BY NoneAssumption
<1> QED BY <1>1 DEF RequestsTyped, Proceed, Moves

LEMMA DoneMoves ==
  ASSUME RequestsTyped, NEW p \in Requests, Done(p)
  PROVE  Moves(p) /\ pc'[p] = "idle" /\ loc'[p] = None /\ LocalOK(p)'
<1>1. pc' = [pc EXCEPT ![p] = "idle"] /\ loc' = [loc EXCEPT ![p] = None] /\ "idle" \in Labels
  BY DEF Done, Proceed, Labels
<1>2. Moves(p) /\ pc'[p] = "idle" /\ loc'[p] = None
  BY <1>1 DEF RequestsTyped, Moves
<1> QED BY <1>2 DEF LocalOK, Parting, Listing, Reading, Cleaning

\* Nothing is forgotten.
Grows == /\ created \subseteq created' /\ sent \subseteq sent'
         /\ file # None => file' # None
         /\ index # None => index' # None

LEMMA OtherLocal ==
  ASSUME Grows, NEW q \in Requests, LocalOK(q), pc'[q] = pc[q], loc'[q] = loc[q]
  PROVE  LocalOK(q)'
BY DEF Grows, LocalOK

LEMMA StepSound ==
  ASSUME Sound, NEW p \in Requests, Moves(p), Grows, StoreTyped', BoundsTyped', StoreOK', LocalOK(p)'
  PROVE  Sound'
<1>1. \A q \in Requests : LocalOK(q)'
  <2> SUFFICES ASSUME NEW q \in Requests, q # p PROVE LocalOK(q)'
    OBVIOUS
  <2>1. pc'[q] = pc[q] /\ loc'[q] = loc[q] /\ LocalOK(q)
    BY DEF Moves, Sound
  <2> QED BY <2>1, OtherLocal
<1>2. RequestsTyped'
  BY TypeParts DEF Moves, RequestsTyped, Sound
<1>3. TypeOK'
  BY <1>2 DEF TypeOK, StoreTyped, BoundsTyped, RequestsTyped
<1> QED BY <1>1, <1>3 DEF Sound

\* A step that changes neither store nor history.
LEMMA QuietStore ==
  ASSUME Sound, UNCHANGED <<store, created, history>>
  PROVE  StoreTyped' /\ StoreOK' /\ Grows
<1>1. StoreTyped
  BY TypeParts DEF Sound
<1>2. StoreTyped'
  BY <1>1 DEF StoreTyped, store, history
<1>3. StoreOK'
  BY DEF Sound, StoreOK, Blank, AssembledFromParts, RecordAfterFile, store, history
<1> QED BY <1>2, <1>3 DEF Grows, store, history

LEMMA ArriveBounds ==
  ASSUME Sound, NEW p \in Requests, Arrive(p)
  PROVE  BoundsTyped' /\ pc[p] = "idle"
<1>1. BoundsTyped
  BY TypeParts DEF Sound
<1>2. started' \in Nat
  BY <1>1 DEF Arrive, BoundsTyped
<1>3. alone' \in BOOLEAN
  BY Zenon DEF Arrive
<1> QED BY <1>1, <1>2, <1>3 DEF Arrive, BoundsTyped

LEMMA SameBounds ==
  ASSUME Sound, UNCHANGED bounds
  PROVE  BoundsTyped'
BY TypeParts DEF Sound, bounds, BoundsTyped

\* One entry of a table by upload and part number is replaced.
LEMMA EntryReplaced ==
  ASSUME NEW S, NEW f \in [Uploads -> [PartNumbers -> S]], NEW u \in Uploads, NEW n, NEW v \in S
  PROVE  LET g == [f EXCEPT ![u][n] = v]
         IN /\ g \in [Uploads -> [PartNumbers -> S]]
            /\ \A w \in Uploads, m \in PartNumbers :
                 g[w][m] = IF w = u /\ m = n THEN v ELSE f[w][m]
OBVIOUS

LEMMA QuietStep ==
  ASSUME Sound, NEW p \in Requests, Moves(p), UNCHANGED <<store, created, history>>,
         BoundsTyped', LocalOK(p)'
  PROVE  Sound'
BY QuietStore, StepSound

LEMMA QuietDone ==
  ASSUME Sound, NEW p \in Requests, Done(p), UNCHANGED <<store, created, history>>, BoundsTyped'
  PROVE  Sound'
<1>1. RequestsTyped
  BY TypeParts DEF Sound
<1> QED BY <1>1, DoneMoves, QuietStep

-----------------------------------------------------------------------------
(* Every step keeps Sound: uploads and their parts *)

LEMMA CreateSound ==
  ASSUME Sound, NEW p \in Requests, createMultipartUpload(p)
  PROVE  Sound'
<1>1. PICK u \in Uploads : CreateMultipartUpload(u)
  BY DEF createMultipartUpload
<1>2. BoundsTyped' /\ pc[p] = "idle" /\ UNCHANGED <<pc, loc, history>>
  BY ArriveBounds DEF createMultipartUpload
<1>3. StoreTyped /\ RequestsTyped /\ StoreOK /\ LocalOK(p)
  BY TypeParts DEF Sound
<1>4. Moves(p)
  BY <1>2, <1>3 DEF Moves, RequestsTyped
<1>5. Grows
  BY <1>1, <1>2 DEF Grows, CreateMultipartUpload, history
<1>6. StoreTyped'
  BY <1>1, <1>2, <1>3 DEF StoreTyped, CreateMultipartUpload, history
<1>7. StoreOK'
  BY <1>1, <1>2, <1>3
     DEF StoreOK, Blank, AssembledFromParts, RecordAfterFile, CreateMultipartUpload, history
<1>8. LocalOK(p)'
  BY <1>2, <1>3, <1>5, OtherLocal
<1> QED BY <1>2, <1>4, <1>5, <1>6, <1>7, <1>8, StepSound

LEMMA UploadSound ==
  ASSUME Sound, NEW p \in Requests, uploadPart(p)
  PROVE  Sound'
<1>1. PICK u \in created, n \in PartNumbers, body \in Bodies :
        \E size \in {BodySize[body]} \cup UnknownLength : UploadPart(p, u, n, body, size)
  BY DEF uploadPart
<1>2. PICK size \in {BodySize[body]} \cup UnknownLength : UploadPart(p, u, n, body, size)
  BY <1>1
<1>3. BoundsTyped' /\ UNCHANGED <<store, created, receipts, aborted, completed>>
  BY ArriveBounds DEF uploadPart
<1>4. StoreTyped /\ RequestsTyped /\ StoreOK
  BY TypeParts DEF Sound
<1>5. CASE u \notin uploads
  BY <1>2, <1>3, <1>5, QuietDone DEF UploadPart, Lookup, history
<1>6. CASE u \in uploads
  <2> DEFINE l == [u |-> u, n |-> n, body |-> body, size |-> size]
  <2>1. u \in Uploads /\ size \in Int
    BY <1>4, MultipartAssumption DEF StoreTyped
  <2>2. l \in PartLocal /\ ChunkOf(u, n, body) \in Chunk
    BY <2>1 DEF PartLocal, ChunkOf, Chunk
  <2>3. /\ Proceed(p, "part_write", l)
        /\ sent' = sent \cup {ChunkOf(u, n, body)}
    BY <1>2, <1>6 DEF UploadPart, Lookup, ChunkOf
  <2>4. l \in Locals /\ "part_write" \in Labels \ {"idle"}
    BY <2>2 DEF Locals, Labels
  <2>5. Moves(p) /\ pc'[p] = "part_write" /\ loc'[p] = l
    BY <1>4, <2>3, <2>4, ProceedMoves
  <2>6. Grows
    BY <1>3, <2>3 DEF Grows, store
  <2>7. StoreTyped'
    BY <1>3, <1>4, <2>2, <2>3 DEF StoreTyped, store
  <2>8. StoreOK'
    BY <1>3, <1>4, <2>3 DEF StoreOK, Blank, AssembledFromParts, RecordAfterFile, store
  <2>9. LocalOK(p)'
    <3>1. l.u = u /\ ChunkOf(l.u, l.n, l.body) \in sent' /\ u \in created'
      BY <1>3, <2>3
    <3> HIDE DEF l
    <3> QED BY <2>2, <2>5, <3>1 DEF LocalOK, Parting, Listing, Reading, Cleaning
  <2> QED BY <1>3, <2>5, <2>6, <2>7, <2>8, <2>9, StepSound
<1> QED BY <1>5, <1>6

LEMMA WriteSound ==
  ASSUME Sound, NEW p \in Requests, PartWrite(p)
  PROVE  Sound'
<1> DEFINE l == loc[p]
           c == ChunkOf(l.u, l.n, l.body)
<1>1. /\ pc[p] = "part_write"
      /\ partFiles' = [partFiles EXCEPT ![l.u][l.n] = l.body]
      /\ Proceed(p, "part_record", l)
      /\ UNCHANGED <<uploads, parts, file, index, stats, created, bounds, history>>
  BY DEF PartWrite
<1>2. StoreTyped /\ RequestsTyped /\ StoreOK /\ LocalOK(p)
  BY TypeParts DEF Sound
<1>3. l \in PartLocal /\ c \in sent /\ l.u \in created
  BY <1>1, <1>2 DEF LocalOK, Parting
<1>4. l.u \in Uploads /\ l.n \in PartNumbers /\ l.body \in Bodies /\ l \in Locals
  BY <1>3 DEF PartLocal, Locals
<1>5. Moves(p) /\ pc'[p] = "part_record" /\ loc'[p] = l
  <2>1. "part_record" \in Labels \ {"idle"}
    BY DEF Labels
  <2> HIDE DEF l
  <2> QED BY <1>1, <1>2, <1>4, <2>1, ProceedMoves
<1> HIDE DEF l
<1>6. /\ partFiles' \in [Uploads -> [PartNumbers -> Bodies \cup {None}]]
      /\ \A w \in Uploads, m \in PartNumbers :
           partFiles'[w][m] = IF w = l.u /\ m = l.n THEN l.body ELSE partFiles[w][m]
  BY <1>1, <1>2, <1>4, EntryReplaced DEF StoreTyped
<1>7. Grows
  BY <1>1 DEF Grows, history
<1>8. StoreTyped'
  BY <1>1, <1>2, <1>6 DEF StoreTyped, history
<1>9. StoreOK'
  <2>1. ASSUME NEW w \in Uploads, w \notin created' PROVE Blank(w)'
    <3>1. w # l.u /\ Blank(w)
      BY <1>1, <1>2, <1>3, <2>1 DEF StoreOK
    <3> QED BY <1>1, <1>6, <3>1 DEF Blank, history
  <2>2. ASSUME NEW w \in Uploads, NEW m \in PartNumbers, partFiles'[w][m] # None
        PROVE  ChunkOf(w, m, partFiles'[w][m]) \in sent'
    BY <1>1, <1>2, <1>3, <1>6, <2>2 DEF StoreOK, history
  <2>3. AssembledFromParts' /\ RecordAfterFile'
    BY <1>1, <1>2 DEF StoreOK, AssembledFromParts, RecordAfterFile, history
  <2> QED BY <2>1, <2>2, <2>3 DEF StoreOK
<1>10. LocalOK(p)'
  BY <1>1, <1>3, <1>5 DEF LocalOK, Parting, Listing, Reading, Cleaning, history
<1>11. BoundsTyped'
  BY <1>1, SameBounds
<1> QED BY <1>5, <1>7, <1>8, <1>9, <1>10, <1>11, StepSound

LEMMA RecordSound ==
  ASSUME Sound, NEW p \in Requests, PutPart(p)
  PROVE  Sound'
<1> DEFINE l == loc[p]
           record == [etag |-> l.body, size |-> l.size]
<1>1. /\ pc[p] = "part_record"
      /\ parts' = [parts EXCEPT ![l.u][l.n] = record]
      /\ receipts' = [receipts EXCEPT ![l.u][l.n] = l.body]
      /\ Done(p)
      /\ UNCHANGED <<uploads, partFiles, file, index, stats, created, bounds,
                     sent, aborted, completed>>
  BY DEF PutPart
<1>2. StoreTyped /\ RequestsTyped /\ StoreOK /\ LocalOK(p)
  BY TypeParts DEF Sound
<1>3. l \in PartLocal /\ l.u \in created
  BY <1>1, <1>2 DEF LocalOK, Parting
<1>4. l.u \in Uploads /\ l.n \in PartNumbers /\ l.body \in Bodies /\ record \in PartRecord
  BY <1>3 DEF PartLocal, PartRecord
<1>5. Moves(p) /\ LocalOK(p)'
  BY <1>1, <1>2, DoneMoves
<1> HIDE DEF l, record
<1>6. /\ parts' \in [Uploads -> [PartNumbers -> PartRecord \cup {None}]]
      /\ \A w \in Uploads, m \in PartNumbers :
           parts'[w][m] = IF w = l.u /\ m = l.n THEN record ELSE parts[w][m]
  BY <1>1, <1>2, <1>4, EntryReplaced DEF StoreTyped
<1>7. /\ receipts' \in [Uploads -> [PartNumbers -> Bodies \cup {None}]]
      /\ \A w \in Uploads, m \in PartNumbers :
           receipts'[w][m] = IF w = l.u /\ m = l.n THEN l.body ELSE receipts[w][m]
  BY <1>1, <1>2, <1>4, EntryReplaced DEF StoreTyped
<1>8. Grows
  BY <1>1 DEF Grows
<1>9. StoreTyped'
  BY <1>1, <1>2, <1>6, <1>7 DEF StoreTyped
<1>10. StoreOK'
  <2>1. ASSUME NEW w \in Uploads, w \notin created' PROVE Blank(w)'
    <3>1. w # l.u /\ Blank(w)
      BY <1>1, <1>2, <1>3, <2>1 DEF StoreOK
    <3> QED BY <1>1, <1>6, <1>7, <3>1 DEF Blank
  <2>2. /\ \A w \in Uploads, m \in PartNumbers :
             partFiles'[w][m] # None => ChunkOf(w, m, partFiles'[w][m]) \in sent'
        /\ AssembledFromParts' /\ RecordAfterFile'
    BY <1>1, <1>2 DEF StoreOK, AssembledFromParts, RecordAfterFile
  <2> QED BY <2>1, <2>2 DEF StoreOK
<1>11. BoundsTyped'
  BY <1>1, SameBounds
<1> QED BY <1>5, <1>8, <1>9, <1>10, <1>11, StepSound

-----------------------------------------------------------------------------
(* Every step keeps Sound: CompleteMultipartUpload *)

\* What a client may complete its upload with.
LEMMA SelectionOK ==
  ASSUME NEW u \in Uploads, receipts \in [Uploads -> [PartNumbers -> Bodies \cup {None}]],
         NEW sel \in Selections(u)
  PROVE  /\ Distinct(sel) /\ Len(sel) > 0
         /\ \A i \in DOMAIN sel : receipts[u][sel[i].n] = sel[i].etag
<1> DEFINE Held == {n \in PartNumbers : receipts[u][n] # None}
<1>1. PICK s \in UNION {SetToSeqs(S) : S \in (SUBSET Held) \ {{}}} :
        sel = [i \in DOMAIN s |-> [n |-> s[i], etag |-> receipts[u][s[i]]]]
  BY Zenon DEF Selections
<1>0. PICK S \in (SUBSET Held) \ {{}} : s \in SetToSeqs(S)
  OBVIOUS
<1> DEFINE D == 1..Cardinality(S)
<1>2. s \in [D -> S] /\ \A i, j \in D : i # j => s[i] # s[j]
  BY <1>0 DEF SetToSeqs
<1>3. IsFiniteSet(S)
  <2>1. IsFiniteSet(PartNumbers)
    BY MultipartAssumption, FS_Interval DEF PartNumbers
  <2>2. S \in SUBSET PartNumbers
    BY <1>0
  <2> QED BY <2>1, <2>2, FS_Subset
<1>4. Cardinality(S) \in Nat /\ Cardinality(S) # 0
  <2>1. S # {}
    BY <1>0
  <2> QED BY <1>3, <2>1, FS_CardinalityType, FS_EmptySet
<1>5. DOMAIN sel = D /\ \A i \in D : sel[i] = [n |-> s[i], etag |-> receipts[u][s[i]]]
  BY <1>1, <1>2
<1>6. \A i \in D : s[i] \in PartNumbers /\ receipts[u][s[i]] \in Bodies
  BY <1>0, <1>2
<1>7. \A i \in D : sel[i] \in CompletePart
  BY <1>5, <1>6 DEF CompletePart
<1>8. sel \in [D -> CompletePart]
  BY <1>1, <1>2, <1>7
<1>9. sel \in Seq(CompletePart) /\ Len(sel) = Cardinality(S)
  BY <1>4, <1>8
<1>10. Distinct(sel)
  BY <1>2, <1>5, <1>9 DEF Distinct
<1>11. Len(sel) > 0 /\ \A i \in DOMAIN sel : receipts[u][sel[i].n] = sel[i].etag
  BY <1>4, <1>5, <1>9
<1> QED BY <1>10, <1>11

LEMMA CompleteSound ==
  ASSUME Sound, NEW p \in Requests, CompleteMultipartUpload(p)
  PROVE  Sound'
<1>1. PICK u \in created : \E sel \in Selections(u) :
        Lookup(p, u, "cmp_bucket", [u |-> u, sel |-> sel])
  BY DEF CompleteMultipartUpload
<1>2. PICK sel \in Selections(u) : Lookup(p, u, "cmp_bucket", [u |-> u, sel |-> sel])
  BY <1>1
<1>3. BoundsTyped' /\ UNCHANGED <<store, created, history>>
  BY ArriveBounds DEF CompleteMultipartUpload
<1>4. StoreTyped /\ RequestsTyped
  BY TypeParts DEF Sound
<1>5. CASE u \notin uploads
  BY <1>2, <1>3, <1>5, QuietDone DEF Lookup
<1>6. CASE u \in uploads
  <2> DEFINE l == [u |-> u, sel |-> sel]
  <2>1. u \in Uploads /\ Distinct(sel) /\ Len(sel) > 0
    BY <1>4, SelectionOK DEF StoreTyped
  <2>2. l \in BucketLocal /\ l.u = u /\ l.sel = sel
    BY <2>1 DEF BucketLocal, Distinct
  <2>3. Proceed(p, "cmp_bucket", l)
    BY <1>2, <1>6 DEF Lookup
  <2> HIDE DEF l
  <2>4. l \in Locals /\ "cmp_bucket" \in Labels \ {"idle"}
    BY <2>2 DEF Locals, Labels
  <2>5. Moves(p) /\ pc'[p] = "cmp_bucket" /\ loc'[p] = l
    BY <1>4, <2>3, <2>4, ProceedMoves
  <2>6. u \in created'
    BY <1>3
  <2>7. LocalOK(p)'
    BY <2>1, <2>2, <2>5, <2>6 DEF LocalOK, Parting, Listing, Reading, Cleaning
  <2> QED BY <1>3, <2>5, <2>7, QuietStep
<1> QED BY <1>5, <1>6

LEMMA BucketSound ==
  ASSUME Sound, NEW p \in Requests, CompleteBucket(p)
  PROVE  Sound'
<1> DEFINE l == loc[p]
           m == [u |-> l.u, sel |-> l.sel, seen |-> stats]
<1>1. pc[p] = "cmp_bucket" /\ Proceed(p, "cmp_list", m) /\ UNCHANGED <<store, created, bounds, history>>
  BY DEF CompleteBucket
<1>2. StoreTyped /\ RequestsTyped /\ LocalOK(p) /\ BoundsTyped'
  BY <1>1, TypeParts, SameBounds DEF Sound
<1>3. l \in BucketLocal /\ Distinct(l.sel) /\ Len(l.sel) > 0 /\ l.u \in created'
  BY <1>1, <1>2 DEF LocalOK, Listing
<1>4. m \in ListLocal /\ m.u = l.u /\ m.sel = l.sel
  BY <1>2, <1>3 DEF BucketLocal, ListLocal, StoreTyped
<1> HIDE DEF m
<1>5. m \in Locals /\ "cmp_list" \in Labels \ {"idle"}
  BY <1>4 DEF Locals, Labels
<1>6. Moves(p) /\ pc'[p] = "cmp_list" /\ loc'[p] = m
  BY <1>1, <1>2, <1>5, ProceedMoves
<1>7. LocalOK(p)'
  BY <1>3, <1>4, <1>6 DEF LocalOK, Parting, Listing, Reading, Cleaning
<1> QED BY <1>1, <1>2, <1>6, <1>7, QuietStep

LEMMA TotalSizeNumber ==
  ASSUME StoreTyped, NEW u \in Uploads, NEW sel, Distinct(sel)
  PROVE  multipartTotalSize(u, sel) \in Int
<1> DEFINE size(i) == IF parts[u][sel[i].n] = None THEN 0 ELSE parts[u][sel[i].n].size
           sizes == [i \in DOMAIN sel |-> size(i)]
<1>1. Len(sel) \in Nat /\ DOMAIN sel = 1..Len(sel) /\ \A i \in DOMAIN sel : sel[i] \in CompletePart
  BY DEF Distinct
<1>2. ASSUME NEW i \in DOMAIN sel PROVE size(i) \in Int
  <2>1. sel[i].n \in PartNumbers
    BY <1>1 DEF CompletePart
  <2>2. parts[u][sel[i].n] \in PartRecord \cup {None}
    BY <2>1 DEF StoreTyped
  <2> QED BY <2>2 DEF PartRecord
<1> HIDE DEF size
<1>3. sizes \in Seq(Int)
  BY <1>1, <1>2
<1>4. Total(sizes) \in Int
  BY <1>3, TotalNumber
<1> QED BY <1>4 DEF multipartTotalSize, size

LEMMA ListSound ==
  ASSUME Sound, NEW p \in Requests, CompleteList(p)
  PROVE  Sound'
<1> DEFINE l == loc[p]
           sorted == ByNumber(l.sel)
           total == multipartTotalSize(l.u, sorted)
           m == [u |-> l.u, sel |-> sorted, total |-> total, got |-> <<>>]
<1>1. pc[p] = "cmp_list" /\ UNCHANGED <<store, created, bounds, history>>
  BY DEF CompleteList
<1>2. StoreTyped /\ RequestsTyped /\ LocalOK(p) /\ BoundsTyped'
  BY <1>1, TypeParts, SameBounds DEF Sound
<1>3. CASE Done(p)
  BY <1>1, <1>2, <1>3, QuietDone
<1>4. CASE Proceed(p, "cmp_read", m)
  <2>1. l \in ListLocal /\ Distinct(l.sel) /\ Len(l.sel) > 0 /\ l.u \in created'
    BY <1>1, <1>2 DEF LocalOK, Listing
  <2>2. l.u \in Uploads
    BY <2>1 DEF ListLocal
  <2>3. Distinct(sorted) /\ Len(sorted) = Len(l.sel) /\ Ascending(sorted)
    BY <2>1, Sorted DEF Ascending
  <2> HIDE DEF sorted
  <2>4. total \in Int
    BY <1>2, <2>2, <2>3, TotalSizeNumber
  <2> HIDE DEF total
  <2>5. <<>> \in [{} -> Bodies] /\ DOMAIN <<>> = {}
    OBVIOUS
  <2>6. <<>> \in UNION {[S -> Bodies] : S \in SUBSET PartNumbers}
    BY <2>5
  <2>7. m \in ReadLocal /\ m.u = l.u /\ m.sel = sorted /\ DOMAIN m.got = {}
    BY <2>2, <2>3, <2>4, <2>5, <2>6 DEF ReadLocal, Distinct
  <2> HIDE DEF m
  <2>8. m \in Locals /\ "cmp_read" \in Labels \ {"idle"}
    BY <2>7 DEF Locals, Labels
  <2>9. Moves(p) /\ pc'[p] = "cmp_read" /\ loc'[p] = m
    BY <1>2, <1>4, <2>8, ProceedMoves
  <2>10. LocalOK(p)'
    BY <2>1, <2>3, <2>7, <2>9 DEF LocalOK, Parting, Listing, Reading, Cleaning
  <2> QED BY <1>1, <1>2, <2>9, <2>10, QuietStep
<1> QED BY <1>3, <1>4 DEF CompleteList

LEMMA ReadSound ==
  ASSUME Sound, NEW p \in Requests, assemblePartReaders(p)
  PROVE  Sound'
<1> DEFINE l == loc[p]
           selected == Selected(l.sel)
<1>1. pc[p] = "cmp_read" /\ UNCHANGED <<store, created, bounds, history>>
  BY DEF assemblePartReaders
<1>2. StoreTyped /\ RequestsTyped /\ LocalOK(p) /\ BoundsTyped' /\ StoreOK
  BY <1>1, TypeParts, SameBounds DEF Sound
<1>3. PICK n \in selected \ DOMAIN l.got :
        LET body == partFiles[l.u][n]
            got == [k \in DOMAIN l.got \cup {n} |-> IF k = n THEN body ELSE l.got[k]]
        IN IF body = None THEN Done(p)
           ELSE Proceed(p, IF DOMAIN got = selected THEN "cmp_write" ELSE "cmp_read",
                        [u |-> l.u, sel |-> l.sel, total |-> l.total, got |-> got])
  BY DEF assemblePartReaders, Selected
<1> DEFINE body == partFiles[l.u][n]
           got == [k \in DOMAIN l.got \cup {n} |-> IF k = n THEN body ELSE l.got[k]]
           m == [u |-> l.u, sel |-> l.sel, total |-> l.total, got |-> got]
           label == IF DOMAIN got = selected THEN "cmp_write" ELSE "cmp_read"
<1>4. CASE body = None
  BY <1>1, <1>2, <1>3, <1>4, QuietDone
<1>5. CASE body # None
  <2>1. /\ l \in ReadLocal /\ Distinct(l.sel) /\ Len(l.sel) > 0 /\ Ascending(l.sel) /\ l.u \in created'
        /\ \A k \in DOMAIN l.got : ChunkOf(l.u, k, l.got[k]) \in sent
    BY <1>1, <1>2 DEF LocalOK, Reading
  <2>2. n \in PartNumbers /\ l.u \in Uploads
    <3>1. \A i \in DOMAIN l.sel : l.sel[i] \in CompletePart
      BY <2>1 DEF Distinct
    <3>2. selected \subseteq PartNumbers
      BY <3>1 DEF Selected, CompletePart
    <3> QED BY <1>3, <2>1, <3>2 DEF ReadLocal
  <2>3. body \in Bodies /\ ChunkOf(l.u, n, body) \in sent
    BY <1>2, <1>5, <2>2 DEF StoreTyped, StoreOK
  <2>4. PICK S \in SUBSET PartNumbers : l.got \in [S -> Bodies]
    BY <2>1 DEF ReadLocal
  <2>5. got \in [S \cup {n} -> Bodies] /\ S \cup {n} \in SUBSET PartNumbers
    BY <2>2, <2>3, <2>4
  <2>6. \A k \in DOMAIN got : ChunkOf(l.u, k, got[k]) \in sent
    BY <2>1, <2>3
  <2>7. Proceed(p, label, m)
    BY <1>3, <1>5
  <2> HIDE DEF got
  <2>8. m \in ReadLocal /\ m.u = l.u /\ m.sel = l.sel /\ m.got = got
    <3>1. got \in UNION {[T -> Bodies] : T \in SUBSET PartNumbers}
      BY <2>5
    <3> QED BY <2>1, <3>1 DEF ReadLocal
  <2>9. label \in {"cmp_read", "cmp_write"} /\ (label # "cmp_read" => DOMAIN got = Selected(l.sel))
    OBVIOUS
  <2> HIDE DEF m, label
  <2>10. m \in Locals /\ label \in Labels \ {"idle"}
    BY <2>8, <2>9 DEF Locals, Labels
  <2>11. Moves(p) /\ pc'[p] = label /\ loc'[p] = m
    BY <1>2, <2>7, <2>10, ProceedMoves
  <2>12. sent' = sent
    BY <1>1 DEF history
  <2>13. LocalOK(p)'
    BY <2>1, <2>6, <2>8, <2>9, <2>11, <2>12 DEF LocalOK, Parting, Listing, Reading, Cleaning
  <2> QED BY <1>1, <1>2, <2>11, <2>13, QuietStep
<1> QED BY <1>4, <1>5

\* The file is written from the parts read.
LEMMA FileSound ==
  ASSUME Sound, NEW p \in Requests, CompleteWrite(p)
  PROVE  Sound'
<1> DEFINE l == loc[p]
           c(i) == ChunkOf(l.u, l.sel[i].n, l.got[l.sel[i].n])
<1>1. /\ pc[p] = "cmp_write" /\ file' = [i \in DOMAIN l.sel |-> c(i)]
      /\ Proceed(p, "cmp_index", l)
      /\ UNCHANGED <<uploads, parts, partFiles, index, stats, created, bounds, history>>
  BY DEF CompleteWrite, ChunkOf
<1>2. StoreTyped /\ RequestsTyped /\ LocalOK(p) /\ BoundsTyped' /\ StoreOK
  BY <1>1, TypeParts, SameBounds DEF Sound
<1>3. /\ l \in ReadLocal /\ Distinct(l.sel) /\ Len(l.sel) > 0 /\ Ascending(l.sel) /\ l.u \in created
      /\ \A k \in DOMAIN l.got : ChunkOf(l.u, k, l.got[k]) \in sent
      /\ DOMAIN l.got = Selected(l.sel)
  BY <1>1, <1>2 DEF LocalOK, Reading
<1>4. \A i \in DOMAIN l.sel : c(i) \in sent /\ c(i) \in Chunk
  BY <1>2, <1>3 DEF Selected, StoreTyped
<1>5. \A i \in DOMAIN l.sel : c(i).u = l.u /\ c(i).n = l.sel[i].n
  BY DEF ChunkOf
<1> HIDE DEF c
<1>6. DOMAIN l.sel = 1..Len(l.sel) /\ Len(l.sel) \in Nat
  BY <1>3 DEF Distinct
<1>7. file' \in Seq(Chunk) /\ DOMAIN file' = DOMAIN l.sel /\ \A i \in DOMAIN l.sel : file'[i] = c(i)
  BY <1>1, <1>4, <1>6
<1>8. file' # None
  BY <1>7, NoneAssumption
<1>9. l \in Locals /\ "cmp_index" \in Labels \ {"idle"}
  BY <1>3 DEF Locals, Labels
<1> HIDE DEF l
<1>10. Moves(p) /\ pc'[p] = "cmp_index" /\ loc'[p] = l
  BY <1>1, <1>2, <1>9, ProceedMoves
<1>11. Grows
  BY <1>1, <1>8 DEF Grows, history
<1>12. StoreTyped'
  BY <1>1, <1>2, <1>7 DEF StoreTyped, history
<1>13. StoreOK'
  <2>1. AssembledFromParts'
    <3>1. \A i \in DOMAIN file' : file'[i] \in sent'
      BY <1>1, <1>4, <1>7 DEF history
    <3>2. \A i, j \in DOMAIN file' : i < j => file'[i].u = file'[j].u /\ file'[i].n < file'[j].n
      BY <1>3, <1>5, <1>7 DEF Ascending
    <3> QED BY <3>1, <3>2 DEF AssembledFromParts
  <2>2. RecordAfterFile'
    BY <1>1, <1>2, <1>8 DEF StoreOK, RecordAfterFile, history
  <2> QED BY <1>1, <1>2, <2>1, <2>2 DEF StoreOK, Blank, history
<1>14. LocalOK(p)'
  <2>1. sent' = sent /\ created' = created
    BY <1>1 DEF history
  <2> QED BY <1>3, <1>8, <1>10, <2>1 DEF LocalOK, Parting, Listing, Reading, Cleaning
<1> QED BY <1>2, <1>10, <1>11, <1>12, <1>13, <1>14, StepSound

LEMMA IndexSound ==
  ASSUME Sound, NEW p \in Requests, CompleteIndex(p)
  PROVE  Sound'
<1> DEFINE l == loc[p]
<1>1. /\ pc[p] = "cmp_index" /\ index' = [etags |-> Etags(l.sel), size |-> l.total]
      /\ Proceed(p, "cmp_stats", l)
      /\ UNCHANGED <<uploads, parts, partFiles, file, stats, created, bounds, history>>
  BY DEF CompleteIndex, Etags
<1>2. StoreTyped /\ RequestsTyped /\ LocalOK(p) /\ BoundsTyped' /\ StoreOK
  BY <1>1, TypeParts, SameBounds DEF Sound
<1>3. /\ l \in ReadLocal /\ Distinct(l.sel) /\ Len(l.sel) > 0 /\ Ascending(l.sel) /\ l.u \in created
      /\ \A k \in DOMAIN l.got : ChunkOf(l.u, k, l.got[k]) \in sent
      /\ DOMAIN l.got = Selected(l.sel) /\ file # None
  BY <1>1, <1>2 DEF LocalOK, Reading
<1>4. index' \in ObjectRecord /\ index' # None
  <2>1. \A i \in 1..Len(l.sel) : l.sel[i] \in CompletePart
    BY <1>3 DEF Distinct
  <2>2. DOMAIN l.sel = 1..Len(l.sel) /\ Len(l.sel) \in Nat
    BY <1>3 DEF Distinct
  <2>3. \A i \in 1..Len(l.sel) : l.sel[i].etag \in Bodies
    BY <2>1 DEF CompletePart
  <2>4. Etags(l.sel) \in Seq(Bodies)
    BY <2>2, <2>3 DEF Etags
  <2>5. index' \in ObjectRecord
    BY <1>1, <1>3, <2>4 DEF ReadLocal, ObjectRecord
  <2> QED BY <2>5, NoneAssumption
<1>5. l \in Locals /\ "cmp_stats" \in Labels \ {"idle"}
  BY <1>3 DEF Locals, Labels
<1> HIDE DEF l
<1>6. Moves(p) /\ pc'[p] = "cmp_stats" /\ loc'[p] = l
  BY <1>1, <1>2, <1>5, ProceedMoves
<1>7. Grows
  BY <1>1, <1>4 DEF Grows, history
<1>8. StoreTyped'
  BY <1>1, <1>2, <1>4 DEF StoreTyped, history
<1>9. StoreOK'
  BY <1>1, <1>2, <1>3, <1>4 DEF StoreOK, Blank, AssembledFromParts, RecordAfterFile, history
<1>10. LocalOK(p)'
  <2>1. sent' = sent /\ created' = created /\ file' = file
    BY <1>1 DEF history
  <2> QED BY <1>3, <1>4, <1>6, <2>1 DEF LocalOK, Parting, Listing, Reading, Cleaning
<1> QED BY <1>2, <1>6, <1>7, <1>8, <1>9, <1>10, StepSound

\* A request begins its clean-up.
LEMMA CleanupMoves ==
  ASSUME RequestsTyped, NEW p \in Requests, NEW u \in created, u \in Uploads,
         NEW why \in {"abort", "complete"}, NEW last \in Nat, Cleanup(p, u, why, last),
         created' = created, why = "complete" => index' # None
  PROVE  /\ Moves(p) /\ LocalOK(p)' /\ pc'[p] = "clean_upload"
         /\ loc'[p] = [u |-> u, why |-> why, next |-> 1, last |-> last]
<1> DEFINE m == [u |-> u, why |-> why, next |-> 1, last |-> last]
<1>1. m \in CleanLocal /\ m.u = u /\ m.why = why
  BY DEF CleanLocal
<1>2. Proceed(p, "clean_upload", m)
  BY DEF Cleanup
<1> HIDE DEF m
<1>3. m \in Locals /\ "clean_upload" \in Labels \ {"idle"}
  BY <1>1 DEF Locals, Labels
<1>4. Moves(p) /\ pc'[p] = "clean_upload" /\ loc'[p] = m
  BY <1>2, <1>3, ProceedMoves
<1>5. LocalOK(p)'
  BY <1>1, <1>4 DEF LocalOK, Parting, Listing, Reading, Cleaning
<1> QED BY <1>4, <1>5 DEF m

LEMMA StatsSound ==
  ASSUME Sound, NEW p \in Requests, CompleteStats(p)
  PROVE  Sound'
<1> DEFINE l == loc[p]
<1>1. /\ pc[p] = "cmp_stats"
      /\ stats' = [count |-> stats.count + 1, bytes |-> stats.bytes + l.total]
      /\ Cleanup(p, l.u, "complete", Len(l.sel))
      /\ UNCHANGED <<uploads, parts, partFiles, file, index, created, bounds, history>>
  BY DEF CompleteStats, Cleanup
<1>2. StoreTyped /\ RequestsTyped /\ LocalOK(p) /\ BoundsTyped' /\ StoreOK
  BY <1>1, TypeParts, SameBounds DEF Sound
<1>3. l \in ReadLocal /\ Distinct(l.sel) /\ l.u \in created /\ index # None
  BY <1>1, <1>2 DEF LocalOK, Reading
<1>4. l.u \in Uploads /\ l.total \in Int /\ Len(l.sel) \in Nat
  BY <1>3 DEF ReadLocal, Distinct
<1> HIDE DEF l
<1>5. Moves(p) /\ LocalOK(p)'
  <2>1. index' # None /\ created' = created
    BY <1>1, <1>3
  <2> QED BY <1>1, <1>2, <1>3, <1>4, <2>1, CleanupMoves
<1>6. Grows
  BY <1>1 DEF Grows, history
<1>7. StoreTyped'
  <2>1. stats' \in [count : Nat, bytes : Int]
    BY <1>1, <1>2, <1>4 DEF StoreTyped
  <2> QED BY <1>1, <1>2, <2>1 DEF StoreTyped, history
<1>8. StoreOK'
  BY <1>1, <1>2 DEF StoreOK, Blank, AssembledFromParts, RecordAfterFile, history
<1> QED BY <1>2, <1>5, <1>6, <1>7, <1>8, StepSound

-----------------------------------------------------------------------------
(* Every step keeps Sound: AbortMultipartUpload and the clean-up *)

LEMMA AbortSound ==
  ASSUME Sound, NEW p \in Requests, AbortMultipartUpload(p)
  PROVE  Sound'
<1>1. PICK u \in created : Lookup(p, u, "abt_list", [u |-> u])
  BY DEF AbortMultipartUpload
<1>2. BoundsTyped' /\ UNCHANGED <<store, created, history>>
  BY ArriveBounds DEF AbortMultipartUpload
<1>3. StoreTyped /\ RequestsTyped
  BY TypeParts DEF Sound
<1>4. CASE u \notin uploads
  BY <1>1, <1>2, <1>4, QuietDone DEF Lookup
<1>5. CASE u \in uploads
  <2> DEFINE m == [u |-> u]
  <2>1. m \in AbortLocal /\ m.u = u
    BY <1>3 DEF AbortLocal, StoreTyped
  <2>2. Proceed(p, "abt_list", m)
    BY <1>1, <1>5 DEF Lookup
  <2> HIDE DEF m
  <2>3. m \in Locals /\ "abt_list" \in Labels \ {"idle"}
    BY <2>1 DEF Locals, Labels
  <2>4. Moves(p) /\ pc'[p] = "abt_list" /\ loc'[p] = m
    BY <1>3, <2>2, <2>3, ProceedMoves
  <2>5. LocalOK(p)'
    BY <1>2, <2>1, <2>4 DEF LocalOK, Parting, Listing, Reading, Cleaning
  <2> QED BY <1>2, <2>4, <2>5, QuietStep
<1> QED BY <1>4, <1>5

\* Going on with the files still to be removed.
FilesLeft(l, n) == [u |-> l.u, todo |-> l.todo \ {n}, last |-> l.last]

\* The next file of an abort, whether it is removed or not.
LEMMA FilesMoves ==
  ASSUME RequestsTyped, NEW p \in Requests, LocalOK(p), created' = created, pc[p] = "abt_files",
         NEW n \in loc[p].todo,
         IF loc[p].todo = {n} THEN Cleanup(p, loc[p].u, "abort", loc[p].last)
         ELSE Proceed(p, "abt_files", FilesLeft(loc[p], n))
  PROVE  Moves(p) /\ LocalOK(p)'
<1> DEFINE l == loc[p]
           m == FilesLeft(l, n)
<1>1. l \in FilesLocal /\ l.u \in created
  BY DEF LocalOK
<1>2. l.u \in Uploads /\ l.todo \subseteq PartNumbers /\ l.last \in Nat
  BY <1>1 DEF FilesLocal
<1>3. CASE l.todo = {n}
  <2>1. Cleanup(p, l.u, "abort", l.last)
    BY <1>3
  <2> HIDE DEF l
  <2> QED BY <1>1, <1>2, <2>1, CleanupMoves
<1>4. CASE l.todo # {n}
  <2>1. m \in FilesLocal /\ m.u = l.u
    BY <1>2 DEF FilesLocal, FilesLeft
  <2>2. Proceed(p, "abt_files", m)
    BY <1>4
  <2> HIDE DEF l, m
  <2>3. m \in Locals /\ "abt_files" \in Labels \ {"idle"}
    BY <2>1 DEF Locals, Labels
  <2>4. Moves(p) /\ pc'[p] = "abt_files" /\ loc'[p] = m
    BY <2>2, <2>3, ProceedMoves
  <2> QED BY <1>1, <2>1, <2>4 DEF LocalOK, Parting, Listing, Reading, Cleaning
<1> QED BY <1>3, <1>4

LEMMA AbortListSound ==
  ASSUME Sound, NEW p \in Requests, AbortList(p)
  PROVE  Sound'
<1> DEFINE u == loc[p].u
           last == Cardinality(Recorded(u))
           m == [u |-> u, todo |-> Recorded(u), last |-> last]
<1>1. /\ pc[p] = "abt_list" /\ UNCHANGED <<store, created, bounds, history>>
      /\ IF Recorded(u) = {} THEN Cleanup(p, u, "abort", 0) ELSE Proceed(p, "abt_files", m)
  BY DEF AbortList
<1>2. StoreTyped /\ RequestsTyped /\ LocalOK(p) /\ BoundsTyped'
  BY <1>1, TypeParts, SameBounds DEF Sound
<1>3. u \in created /\ u \in Uploads
  BY <1>1, <1>2 DEF LocalOK, AbortLocal
<1> HIDE DEF u
<1>4. CASE Recorded(u) = {}
  <2>1. Cleanup(p, u, "abort", 0) /\ created' = created
    BY <1>1, <1>4
  <2>2. Moves(p) /\ LocalOK(p)'
    BY <1>2, <1>3, <2>1, CleanupMoves
  <2> QED BY <1>1, <1>2, <2>2, QuietStep
<1>5. CASE Recorded(u) # {}
  <2>1. Recorded(u) \in SUBSET PartNumbers
    BY DEF Recorded
  <2>2. last \in Nat
    <3>1. IsFiniteSet(PartNumbers)
      BY MultipartAssumption, FS_Interval DEF PartNumbers
    <3>2. IsFiniteSet(Recorded(u))
      BY <2>1, <3>1, FS_Subset
    <3> QED BY <3>2, FS_CardinalityType
  <2> HIDE DEF last
  <2>3. m \in FilesLocal /\ m.u = u
    BY <1>3, <2>1, <2>2 DEF FilesLocal
  <2>4. Proceed(p, "abt_files", m)
    BY <1>1, <1>5
  <2> HIDE DEF m
  <2>5. m \in Locals /\ "abt_files" \in Labels \ {"idle"}
    BY <2>3 DEF Locals, Labels
  <2>6. Moves(p) /\ pc'[p] = "abt_files" /\ loc'[p] = m
    BY <1>2, <2>4, <2>5, ProceedMoves
  <2>7. LocalOK(p)'
    BY <1>1, <1>3, <2>3, <2>6 DEF LocalOK, Parting, Listing, Reading, Cleaning
  <2> QED BY <1>1, <1>2, <2>6, <2>7, QuietStep
<1> QED BY <1>4, <1>5

\* Part files disappear, nothing else changes in the store.
LEMMA FileGone ==
  ASSUME StoreTyped, StoreOK, NEW u \in Uploads, NEW n,
         partFiles' = [partFiles EXCEPT ![u][n] = None],
         UNCHANGED <<uploads, parts, file, index, stats, created, sent, receipts>>,
         aborted' \subseteq created, completed' \subseteq created,
         completed' # {} => index # None
  PROVE  StoreTyped' /\ StoreOK' /\ Grows
<1>1. /\ partFiles' \in [Uploads -> [PartNumbers -> Bodies \cup {None}]]
      /\ \A w \in Uploads, m \in PartNumbers :
           partFiles'[w][m] = IF w = u /\ m = n THEN None ELSE partFiles[w][m]
  <2>1. partFiles \in [Uploads -> [PartNumbers -> Bodies \cup {None}]] /\ None \in Bodies \cup {None}
    BY DEF StoreTyped
  <2> DEFINE g == [partFiles EXCEPT ![u][n] = None]
  <2>2. /\ g \in [Uploads -> [PartNumbers -> Bodies \cup {None}]]
        /\ \A w \in Uploads, m \in PartNumbers :
             g[w][m] = IF w = u /\ m = n THEN None ELSE partFiles[w][m]
    BY <2>1
  <2>3. partFiles' = g
    OBVIOUS
  <2> HIDE DEF g
  <2> QED BY <2>2, <2>3
<1>2. StoreTyped'
  BY <1>1 DEF StoreTyped
<1>3. StoreOK'
  <2>1. ASSUME NEW w \in Uploads, w \notin created' PROVE Blank(w)'
    <3>1. Blank(w)
      BY <2>1 DEF StoreOK
    <3> QED BY <1>1, <3>1 DEF Blank
  <2>2. ASSUME NEW w \in Uploads, NEW m \in PartNumbers, partFiles'[w][m] # None
        PROVE  ChunkOf(w, m, partFiles'[w][m]) \in sent'
    BY <1>1, <2>2 DEF StoreOK
  <2>3. AssembledFromParts' /\ RecordAfterFile'
    BY DEF StoreOK, AssembledFromParts, RecordAfterFile
  <2> QED BY <2>1, <2>2, <2>3 DEF StoreOK
<1> QED BY <1>2, <1>3 DEF Grows

LEMMA AbortFilesSound ==
  ASSUME Sound, NEW p \in Requests, AbortFiles(p)
  PROVE  Sound'
<1> DEFINE l == loc[p]
<1>1. PICK n \in l.todo :
        /\ partFiles' = [partFiles EXCEPT ![l.u][n] = None]
        /\ IF l.todo = {n} THEN Cleanup(p, l.u, "abort", l.last)
           ELSE Proceed(p, "abt_files", FilesLeft(l, n))
  BY DEF AbortFiles, FilesLeft
<1>2. /\ pc[p] = "abt_files"
      /\ UNCHANGED <<uploads, parts, file, index, stats, created, bounds, history>>
  BY DEF AbortFiles
<1>3. StoreTyped /\ RequestsTyped /\ LocalOK(p) /\ BoundsTyped' /\ StoreOK
  BY <1>2, TypeParts, SameBounds DEF Sound
<1>4. l.u \in Uploads
  BY <1>2, <1>3 DEF LocalOK, FilesLocal
<1>5. Moves(p) /\ LocalOK(p)'
  BY <1>1, <1>2, <1>3, FilesMoves
<1>6. StoreTyped' /\ StoreOK' /\ Grows
  <2>1. /\ UNCHANGED <<uploads, parts, file, index, stats, created, sent, receipts>>
        /\ aborted' \subseteq created /\ completed' \subseteq created
        /\ completed' # {} => index # None
    BY <1>2, <1>3 DEF history, StoreTyped, StoreOK, RecordAfterFile
  <2> HIDE DEF l
  <2> QED BY <1>1, <1>3, <1>4, <2>1, FileGone
<1> QED BY <1>3, <1>5, <1>6, StepSound

LEMMA CleanUploadSound ==
  ASSUME Sound, NEW p \in Requests, CleanUpload(p)
  PROVE  Sound'
<1> DEFINE l == loc[p]
<1>1. /\ pc[p] = "clean_upload" /\ uploads' = uploads \ {l.u} /\ Proceed(p, "clean_parts", l)
      /\ UNCHANGED <<parts, partFiles, file, index, stats, created, bounds, history>>
  BY DEF CleanUpload
<1>2. StoreTyped /\ RequestsTyped /\ LocalOK(p) /\ BoundsTyped' /\ StoreOK
  BY <1>1, TypeParts, SameBounds DEF Sound
<1>3. l \in CleanLocal /\ (l.why = "complete" => index # None) /\ l.u \in created
  BY <1>1, <1>2 DEF LocalOK, Cleaning
<1> HIDE DEF l
<1>4. l \in Locals /\ "clean_parts" \in Labels \ {"idle"}
  BY <1>3 DEF Locals, Labels
<1>5. Moves(p) /\ pc'[p] = "clean_parts" /\ loc'[p] = l
  BY <1>1, <1>2, <1>4, ProceedMoves
<1>6. LocalOK(p)'
  BY <1>1, <1>3, <1>5 DEF LocalOK, Parting, Listing, Reading, Cleaning
<1>7. Grows
  BY <1>1 DEF Grows, history
<1>8. StoreTyped'
  BY <1>1, <1>2 DEF StoreTyped, history
<1>9. StoreOK'
  BY <1>1, <1>2 DEF StoreOK, Blank, AssembledFromParts, RecordAfterFile, history
<1> QED BY <1>2, <1>5, <1>6, <1>7, <1>8, <1>9, StepSound

\* On to the next part file, or to the answer.
LEMMA CleanNextMoves ==
  ASSUME Sound, NEW p \in Requests, pc[p] \in Cleaning, UNCHANGED <<created, index>>,
         NEW next \in Nat, CleanNext(p, next)
  PROVE  /\ Moves(p) /\ LocalOK(p)' /\ UNCHANGED <<sent, receipts>>
         /\ aborted' \subseteq created /\ completed' \subseteq created
         /\ completed' # {} => index # None
<1> DEFINE l == loc[p]
           m == [u |-> l.u, why |-> l.why, next |-> next, last |-> l.last]
<1>1. StoreTyped /\ RequestsTyped /\ LocalOK(p) /\ StoreOK
  BY TypeParts DEF Sound
<1>2. l \in CleanLocal /\ (l.why = "complete" => index # None) /\ l.u \in created
  BY <1>1 DEF LocalOK, Cleaning
<1>3. aborted \subseteq created /\ completed \subseteq created /\ (completed # {} => index # None)
  BY <1>1 DEF StoreTyped, StoreOK, RecordAfterFile
<1>4. CASE next > l.last
  <2>1. Answer(p)
    BY <1>4 DEF CleanNext
  <2>2. /\ aborted' = IF l.why = "abort" THEN aborted \cup {l.u} ELSE aborted
        /\ completed' = IF l.why = "abort" THEN completed ELSE completed \cup {l.u}
        /\ Done(p) /\ UNCHANGED <<sent, receipts>>
    BY <2>1 DEF Answer
  <2>3. Moves(p) /\ LocalOK(p)'
    BY <1>1, <2>2, DoneMoves
  <2>4. l.why \in {"abort", "complete"}
    BY <1>2 DEF CleanLocal
  <2> QED BY <1>2, <1>3, <2>2, <2>3, <2>4
<1>5. CASE ~(next > l.last)
  <2>1. Proceed(p, "clean_files", m) /\ UNCHANGED history
    BY <1>5 DEF CleanNext
  <2>2. m \in CleanLocal /\ m.u = l.u /\ m.why = l.why
    BY <1>2 DEF CleanLocal
  <2> HIDE DEF m
  <2>3. m \in Locals /\ "clean_files" \in Labels \ {"idle"}
    BY <2>2 DEF Locals, Labels
  <2>4. Moves(p) /\ pc'[p] = "clean_files" /\ loc'[p] = m
    BY <1>1, <2>1, <2>3, ProceedMoves
  <2>5. LocalOK(p)'
    BY <1>2, <2>2, <2>4 DEF LocalOK, Parting, Listing, Reading, Cleaning
  <2> QED BY <1>3, <2>1, <2>4, <2>5 DEF history
<1> QED BY <1>4, <1>5

LEMMA CleanPartsSound ==
  ASSUME Sound, NEW p \in Requests, CleanParts(p)
  PROVE  Sound'
<1> DEFINE u == loc[p].u
           none == [n \in PartNumbers |-> None]
<1>1. /\ pc[p] = "clean_parts" /\ parts' = [parts EXCEPT ![u] = none] /\ CleanNext(p, 1)
      /\ UNCHANGED <<uploads, partFiles, file, index, stats, created, bounds>>
  BY DEF CleanParts
<1>2. StoreTyped /\ BoundsTyped' /\ StoreOK
  BY <1>1, TypeParts, SameBounds DEF Sound
<1>3. /\ Moves(p) /\ LocalOK(p)' /\ UNCHANGED <<sent, receipts>>
      /\ aborted' \subseteq created /\ completed' \subseteq created
      /\ completed' # {} => index # None
  <2>1. pc[p] \in Cleaning /\ UNCHANGED <<created, index>>
    BY <1>1 DEF Cleaning
  <2> QED BY <1>1, <2>1, CleanNextMoves
<1> HIDE DEF u
<1>4. none \in [PartNumbers -> PartRecord \cup {None}] /\ \A n \in PartNumbers : none[n] = None
  OBVIOUS
<1> HIDE DEF none
<1>5. /\ parts' \in [Uploads -> [PartNumbers -> PartRecord \cup {None}]]
      /\ \A w \in Uploads : parts'[w] = parts[w] \/ parts'[w] = none
  BY <1>1, <1>2, <1>4 DEF StoreTyped
<1>6. StoreTyped'
  BY <1>1, <1>2, <1>3, <1>5 DEF StoreTyped
<1>7. StoreOK'
  <2>1. ASSUME NEW w \in Uploads, w \notin created' PROVE Blank(w)'
    <3>1. Blank(w)
      BY <1>1, <1>2, <2>1 DEF StoreOK
    <3> QED BY <1>1, <1>3, <1>4, <1>5, <3>1 DEF Blank
  <2>2. /\ \A w \in Uploads, m \in PartNumbers :
             partFiles'[w][m] # None => ChunkOf(w, m, partFiles'[w][m]) \in sent'
        /\ AssembledFromParts' /\ RecordAfterFile'
    BY <1>1, <1>2, <1>3 DEF StoreOK, AssembledFromParts, RecordAfterFile
  <2> QED BY <2>1, <2>2 DEF StoreOK
<1>8. Grows
  BY <1>1, <1>3 DEF Grows
<1> QED BY <1>2, <1>3, <1>6, <1>7, <1>8, StepSound

LEMMA CleanFilesSound ==
  ASSUME Sound, NEW p \in Requests, CleanFiles(p)
  PROVE  Sound'
<1> DEFINE l == loc[p]
<1>1. /\ pc[p] = "clean_files" /\ partFiles' = [partFiles EXCEPT ![l.u][l.next] = None]
      /\ CleanNext(p, l.next + 1)
      /\ UNCHANGED <<uploads, parts, file, index, stats, created, bounds>>
  BY DEF CleanFiles
<1>2. StoreTyped /\ BoundsTyped' /\ StoreOK /\ LocalOK(p)
  BY <1>1, TypeParts, SameBounds DEF Sound
<1>3. l.u \in Uploads /\ l.next + 1 \in Nat
  BY <1>1, <1>2 DEF LocalOK, Cleaning, CleanLocal
<1>4. /\ Moves(p) /\ LocalOK(p)' /\ UNCHANGED <<sent, receipts>>
      /\ aborted' \subseteq created /\ completed' \subseteq created
      /\ completed' # {} => index # None
  <2>1. pc[p] \in Cleaning /\ UNCHANGED <<created, index>>
    BY <1>1 DEF Cleaning
  <2> QED BY <1>1, <1>3, <2>1, CleanNextMoves
<1>5. StoreTyped' /\ StoreOK' /\ Grows
  <2> HIDE DEF l
  <2>1. UNCHANGED <<uploads, parts, file, index, stats, created, sent, receipts>>
    BY <1>1, <1>4
  <2> QED BY <1>1, <1>2, <1>3, <1>4, <2>1, FileGone
<1> QED BY <1>2, <1>4, <1>5, StepSound

-----------------------------------------------------------------------------
(* Every step keeps Sound: failures *)

\* A call fails and its request goes on, or ends.
LEMMA FailsSound ==
  ASSUME Sound, NEW p \in Requests, CallFails(p)
  PROVE  Sound'
<1> DEFINE l == loc[p]
<1>1. faults' = faults + 1 /\ alone' = FALSE /\ UNCHANGED <<store, created, started, crashes>>
  BY DEF CallFails
<1>2. StoreTyped /\ RequestsTyped /\ BoundsTyped /\ StoreOK /\ LocalOK(p)
  BY TypeParts DEF Sound
<1>3. BoundsTyped' /\ created' = created /\ index' = index
  <2>1. faults' \in Nat
    BY <1>1, <1>2 DEF BoundsTyped
  <2>2. alone' \in BOOLEAN
    BY <1>1
  <2> QED BY <1>1, <1>2, <2>1, <2>2 DEF BoundsTyped, store
<1>4. /\ Moves(p) /\ LocalOK(p)' /\ UNCHANGED <<sent, receipts>>
      /\ aborted' \subseteq created /\ completed' \subseteq created
      /\ completed' # {} => index # None
  <2>0. aborted \subseteq created /\ completed \subseteq created /\ (completed # {} => index # None)
    BY <1>2 DEF StoreTyped, StoreOK, RecordAfterFile
  <2>1. CASE Done(p) /\ UNCHANGED history
    BY <1>2, <2>0, <2>1, DoneMoves DEF history
  <2>2. CASE pc[p] = "cmp_stats" /\ Cleanup(p, l.u, "complete", Len(l.sel)) /\ UNCHANGED history
    <3>1. l \in ReadLocal /\ Distinct(l.sel) /\ l.u \in created /\ index # None
      BY <1>2, <2>2 DEF LocalOK, Reading
    <3>2. l.u \in Uploads /\ Len(l.sel) \in Nat
      BY <3>1 DEF ReadLocal, Distinct
    <3> HIDE DEF l
    <3>3. Moves(p) /\ LocalOK(p)'
      BY <1>2, <1>3, <2>2, <3>1, <3>2, CleanupMoves
    <3> QED BY <2>0, <2>2, <3>3 DEF history
  <2>3. CASE /\ pc[p] = "abt_files"
             /\ \E n \in l.todo :
                  IF l.todo = {n} THEN Cleanup(p, l.u, "abort", l.last)
                  ELSE Proceed(p, "abt_files", FilesLeft(l, n))
             /\ UNCHANGED history
    <3>1. Moves(p) /\ LocalOK(p)'
      BY <1>2, <1>3, <2>3, FilesMoves
    <3> QED BY <2>0, <2>3, <3>1 DEF history
  <2>4. CASE pc[p] = "clean_upload" /\ Proceed(p, "clean_parts", l) /\ UNCHANGED history
    <3>1. l \in CleanLocal /\ (l.why = "complete" => index # None) /\ l.u \in created
      BY <1>2, <2>4 DEF LocalOK, Cleaning
    <3> HIDE DEF l
    <3>2. l \in Locals /\ "clean_parts" \in Labels \ {"idle"}
      BY <3>1 DEF Locals, Labels
    <3>3. Moves(p) /\ pc'[p] = "clean_parts" /\ loc'[p] = l
      BY <1>2, <2>4, <3>2, ProceedMoves
    <3>4. LocalOK(p)'
      BY <1>3, <3>1, <3>3 DEF LocalOK, Parting, Listing, Reading, Cleaning
    <3> QED BY <2>0, <2>4, <3>3, <3>4 DEF history
  <2>5. CASE pc[p] = "clean_parts" /\ CleanNext(p, 1)
    <3>1. pc[p] \in Cleaning /\ UNCHANGED <<created, index>> /\ 1 \in Nat
      BY <1>3, <2>5 DEF Cleaning
    <3> QED BY <2>5, <3>1, CleanNextMoves
  <2>6. CASE pc[p] = "clean_files" /\ CleanNext(p, l.next + 1)
    <3>1. pc[p] \in Cleaning /\ UNCHANGED <<created, index>>
      BY <1>3, <2>6 DEF Cleaning
    <3>2. l.next + 1 \in Nat
      BY <1>2, <2>6 DEF LocalOK, Cleaning, CleanLocal
    <3> QED BY <2>6, <3>1, <3>2, CleanNextMoves
  <2> QED BY <2>1, <2>2, <2>3, <2>4, <2>5, <2>6 DEF CallFails, FilesLeft
<1>5. StoreTyped' /\ StoreOK' /\ Grows
  <2>1. StoreTyped'
    BY <1>1, <1>2, <1>4 DEF StoreTyped, store
  <2>2. StoreOK'
    BY <1>1, <1>2, <1>4 DEF StoreOK, Blank, AssembledFromParts, RecordAfterFile, store
  <2> QED BY <1>1, <1>4, <2>1, <2>2 DEF Grows, store
<1> QED BY <1>3, <1>4, <1>5, StepSound

\* The process dies: every request is gone.
LEMMA CrashSound ==
  ASSUME Sound, Crash
  PROVE  Sound'
<1>1. /\ crashes' = crashes + 1 /\ alone' = FALSE
      /\ pc' = [p \in Requests |-> "idle"] /\ loc' = [p \in Requests |-> None]
      /\ UNCHANGED <<store, created, started, faults, history>>
  BY DEF Crash
<1>2. StoreTyped' /\ StoreOK'
  BY <1>1, QuietStore
<1>3. BoundsTyped'
  <2>1. BoundsTyped
    BY TypeParts DEF Sound
  <2>2. crashes' \in Nat
    BY <1>1, <2>1 DEF BoundsTyped
  <2>3. alone' \in BOOLEAN
    BY <1>1
  <2> QED BY <1>1, <2>1, <2>2, <2>3 DEF BoundsTyped
<1>4. RequestsTyped'
  BY <1>1 DEF RequestsTyped, Labels
<1>5. \A p \in Requests : LocalOK(p)'
  BY <1>1 DEF LocalOK, Parting, Listing, Reading, Cleaning
<1>6. TypeOK'
  BY <1>2, <1>3, <1>4 DEF TypeOK, StoreTyped, BoundsTyped, RequestsTyped
<1> QED BY <1>2, <1>5, <1>6 DEF Sound

LEMMA InitSound == Init => Sound
<1> SUFFICES ASSUME Init PROVE Sound
  OBVIOUS
<1>1. StoreTyped /\ BoundsTyped /\ RequestsTyped
  BY DEF Init, StoreTyped, BoundsTyped, RequestsTyped, Labels
<1>2. StoreOK
  BY DEF Init, StoreOK, Blank, AssembledFromParts, RecordAfterFile
<1>3. \A p \in Requests : LocalOK(p)
  BY DEF Init, LocalOK, Parting, Listing, Reading, Cleaning
<1> QED BY <1>1, <1>2, <1>3, TypeParts DEF Sound

LEMMA NextSound == Sound /\ [Next]_vars => Sound'
<1> SUFFICES ASSUME Sound, [Next]_vars PROVE Sound'
  OBVIOUS
<1>1. CASE UNCHANGED vars
  <2>1. UNCHANGED <<store, pc, loc, created, bounds, history>>
    BY <1>1 DEF vars
  <2>2. StoreTyped' /\ StoreOK' /\ Grows /\ BoundsTyped'
    BY <2>1, QuietStore, SameBounds
  <2>3. RequestsTyped'
    BY <2>1, TypeParts DEF Sound, RequestsTyped
  <2>4. \A p \in Requests : LocalOK(p)'
    BY <2>1, <2>2, OtherLocal DEF Sound
  <2>5. TypeOK'
    BY <2>2, <2>3 DEF TypeOK, StoreTyped, BoundsTyped, RequestsTyped
  <2> QED BY <2>2, <2>4, <2>5 DEF Sound
<1>2. CASE Next
  BY <1>2, CreateSound, UploadSound, WriteSound, RecordSound, CompleteSound, BucketSound,
     ListSound, ReadSound, FileSound, IndexSound, StatsSound, AbortSound, AbortListSound,
     AbortFilesSound, CleanUploadSound, CleanPartsSound, CleanFilesSound, FailsSound,
     CrashSound DEF Next
<1> QED BY <1>1, <1>2

LEMMA AlwaysSound == Spec => []Sound
BY InitSound, NextSound, PTL DEF Spec

\* The state is well typed: the local variables of every request are those of
\* the step it is at.
THEOREM MultipartTypeCorrect == Spec => []TypeOK
<1>1. Sound => TypeOK
  BY DEF Sound
<1> QED BY <1>1, AlwaysSound, PTL

\* The object's file is made of whole parts of one upload, in ascending order,
\* however many requests upload, complete and abort at the same time.
THEOREM PartsInOrder == Spec => []AssembledFromParts
<1>1. Sound => AssembledFromParts
  BY DEF Sound, StoreOK
<1> QED BY <1>1, AlwaysSound, PTL

\* Whichever call fails and wherever the process dies, a listed object has its
\* file and a completed upload its record.
THEOREM FileFirst == Spec => []RecordAfterFile
<1>1. Sound => RecordAfterFile
  BY DEF Sound, StoreOK
<1> QED BY <1>1, AlwaysSound, PTL

-----------------------------------------------------------------------------
(* Requests one after the other: what the only request p keeps *)

Only(p) == \A q \in Requests : q # p => pc[q] = "idle"

\* Orderly, seen from the only request.
OthersSynced(p) ==
  \A u \in uploads :
    (pc[p] \in {"part_record", "abt_files"} \cup Cleaning => loc[p].u # u)
      => \A n \in PartNumbers : Synced(u, n)

EndsKept == \A u \in aborted \cup completed : Ended(u)

Steady(p) == /\ Progress(p) /\ OthersSynced(p) /\ EndsKept
             /\ Agrees \/ pc[p] = "cmp_index"

LEMMA OnlyOne ==
  ASSUME NEW p \in Requests, Only(p)
  PROVE  Orderly => Steady(p)
<1>1. \A u \in uploads : Settled(u) <=>
        (pc[p] \in {"part_record", "abt_files"} \cup Cleaning => loc[p].u # u)
  BY DEF Only, Settled, Cleaning
<1>2. (\E q \in Requests : pc[q] = "cmp_index") <=> pc[p] = "cmp_index"
  BY DEF Only
<1> QED BY <1>1, <1>2 DEF Orderly, Steady, OthersSynced, EndsKept

LEMMA OrderlyNext ==
  ASSUME NEW p \in Requests, Only(p)', Steady(p)'
  PROVE  Orderly'
<1>1. \A u \in uploads' : Settled(u)' <=>
        (pc'[p] \in {"part_record", "abt_files"} \cup Cleaning => loc'[p].u # u)
  BY DEF Only, Settled, Cleaning
<1>2. \A q \in Requests : Progress(q)'
  BY DEF Only, Steady, Progress, Parting, Listing, Reading, Cleaning
<1>3. \A q, r \in Requests : pc'[q] # "idle" /\ pc'[r] # "idle" => q = r
  BY DEF Only
<1> QED BY <1>1, <1>2, <1>3 DEF Orderly, Steady, OthersSynced, EndsKept

\* An upload in progress has no answered end.
LEMMA NotEnded ==
  ASSUME EndsKept, NEW u \in uploads
  PROVE  u \notin aborted \cup completed
BY DEF EndsKept, Ended

\* A step that changes neither the store nor what was answered.
LEMMA SteadyQuiet ==
  ASSUME NEW p \in Requests, Steady(p), UNCHANGED <<store, receipts, aborted, completed>>,
         pc[p] # "cmp_index", Progress(p)',
         \/ pc[p] \notin {"part_record", "abt_files"} \cup Cleaning
         \/ pc'[p] \in {"part_record", "abt_files"} \cup Cleaning /\ loc'[p].u = loc[p].u
  PROVE  Steady(p)'
<1>1. OthersSynced(p)'
  BY DEF Steady, OthersSynced, Synced, store
<1>2. EndsKept'
  BY DEF Steady, EndsKept, Ended, store
<1>3. Agrees'
  BY DEF Steady, Agrees, store
<1> QED BY <1>1, <1>2, <1>3 DEF Steady

LEMMA SteadyDone ==
  ASSUME RequestsTyped, NEW p \in Requests, Steady(p), UNCHANGED <<store, history>>, Done(p),
         pc[p] \notin {"part_record", "abt_files", "cmp_index"} \cup Cleaning
  PROVE  Steady(p)'
<1>1. pc'[p] = "idle"
  BY DoneMoves
<1>2. Progress(p)'
  BY <1>1 DEF Progress, Parting, Listing, Reading, Cleaning
<1> QED BY <1>2, SteadyQuiet DEF history

LEMMA CreateSteady ==
  ASSUME Sound, NEW p \in Requests, Steady(p), createMultipartUpload(p)
  PROVE  Steady(p)'
<1>1. PICK u \in Uploads : CreateMultipartUpload(u)
  BY DEF createMultipartUpload
<1>2. /\ pc[p] = "idle" /\ UNCHANGED <<pc, loc, history>>
      /\ uploads' = uploads \cup {u} /\ u \notin created
      /\ UNCHANGED <<parts, partFiles, file, index, stats>>
  BY <1>1 DEF createMultipartUpload, CreateMultipartUpload, Arrive
<1>3. StoreTyped /\ StoreOK
  BY TypeParts DEF Sound
<1>4. Progress(p)'
  BY <1>2 DEF Progress, Parting, Listing, Reading, Cleaning
<1>5. OthersSynced(p)'
  <2>1. \A n \in PartNumbers : Synced(u, n)
    BY <1>2, <1>3 DEF StoreOK, Blank, Synced
  <2>2. \A w \in uploads, n \in PartNumbers : Synced(w, n)
    BY <1>2 DEF Steady, OthersSynced, Cleaning
  <2> QED BY <1>2, <2>1, <2>2 DEF OthersSynced, Synced, history
<1>6. EndsKept'
  <2>1. \A w \in aborted \cup completed : w # u
    BY <1>2, <1>3 DEF StoreTyped
  <2> QED BY <1>2, <2>1 DEF Steady, EndsKept, Ended, history
<1>7. Agrees'
  BY <1>2 DEF Steady, Agrees
<1> QED BY <1>4, <1>5, <1>6, <1>7 DEF Steady

LEMMA UploadSteady ==
  ASSUME Sound, NEW p \in Requests, Steady(p), uploadPart(p)
  PROVE  Steady(p)'
<1>1. PICK u \in created, n \in PartNumbers, body \in Bodies :
        \E size \in {BodySize[body]} \cup UnknownLength : UploadPart(p, u, n, body, size)
  BY DEF uploadPart
<1>2. PICK size \in {BodySize[body]} \cup UnknownLength : UploadPart(p, u, n, body, size)
  BY <1>1
<1>3. pc[p] = "idle" /\ UNCHANGED <<store, created, receipts, aborted, completed>>
  BY DEF uploadPart, Arrive
<1>4. StoreTyped /\ RequestsTyped
  BY TypeParts DEF Sound
<1>5. CASE u \notin uploads
  BY <1>2, <1>3, <1>4, <1>5, SteadyDone DEF UploadPart, Lookup, history, Cleaning
<1>6. CASE u \in uploads
  <2> DEFINE l == [u |-> u, n |-> n, body |-> body, size |-> size]
  <2>1. Proceed(p, "part_write", l)
    BY <1>2, <1>6 DEF UploadPart, Lookup
  <2>2. pc'[p] = "part_write" /\ loc'[p] = l
    BY <1>4, <2>1 DEF Proceed, RequestsTyped
  <2>3. u \in uploads' /\ u \notin aborted' \cup completed'
    BY <1>3, <1>6, NotEnded DEF Steady, store
  <2>4. l.u = u /\ (UnknownLength = {} => l.size = BodySize[l.body])
    OBVIOUS
  <2> HIDE DEF l
  <2>5. Progress(p)'
    BY <2>2, <2>3, <2>4 DEF Progress, Parting, Listing, Reading, Cleaning
  <2> QED BY <1>3, <2>5, SteadyQuiet DEF Cleaning
<1> QED BY <1>5, <1>6

LEMMA WriteSteady ==
  ASSUME Sound, NEW p \in Requests, Steady(p), PartWrite(p)
  PROVE  Steady(p)'
<1>0. PICK l : l = loc[p]
  OBVIOUS
<1>1. /\ pc[p] = "part_write"
      /\ partFiles' = [partFiles EXCEPT ![l.u][l.n] = l.body]
      /\ Proceed(p, "part_record", l)
      /\ UNCHANGED <<uploads, parts, file, index, stats, created, bounds, history>>
  BY <1>0 DEF PartWrite
<1>2. StoreTyped /\ RequestsTyped /\ LocalOK(p)
  BY TypeParts DEF Sound
<1>3. l.u \in Uploads /\ l.n \in PartNumbers /\ l.body \in Bodies
  BY <1>0, <1>1, <1>2 DEF LocalOK, Parting, PartLocal
<1>4. pc'[p] = "part_record" /\ loc'[p] = l
  BY <1>1, <1>2 DEF Proceed, RequestsTyped
<1>5. /\ l.u \notin aborted \cup completed /\ l.u \in uploads
      /\ UnknownLength = {} => l.size = BodySize[l.body]
  BY <1>0, <1>1 DEF Steady, Progress, Parting
<1>6. \A w \in uploads, n \in PartNumbers : Synced(w, n)
  BY <1>1 DEF Steady, OthersSynced, Cleaning
<1>7. \A w \in Uploads, m \in PartNumbers :
        partFiles'[w][m] = IF w = l.u /\ m = l.n THEN l.body ELSE partFiles[w][m]
  BY <1>1, <1>2, <1>3, EntryReplaced DEF StoreTyped
<1>8. \A w \in uploads, m \in PartNumbers : w # l.u \/ m # l.n => Synced(w, m)'
  BY <1>1, <1>2, <1>6, <1>7 DEF Synced, StoreTyped, history
<1>9. Progress(p)'
  <2>1. /\ l.u \notin aborted' \cup completed' /\ l.u \in uploads'
        /\ partFiles'[l.u][l.n] = l.body
        /\ \A n \in PartNumbers : n # l.n => Synced(l.u, n)'
    BY <1>1, <1>3, <1>5, <1>7, <1>8 DEF history
  <2> QED BY <1>4, <1>5, <2>1 DEF Progress, Parting, Listing, Reading, Cleaning
<1>10. OthersSynced(p)'
  BY <1>1, <1>4, <1>8 DEF OthersSynced
<1>11. EndsKept'
  <2> SUFFICES ASSUME NEW w \in aborted' \cup completed' PROVE Ended(w)'
    BY DEF EndsKept
  <2>1. w \in Uploads /\ w # l.u /\ Ended(w)
    BY <1>1, <1>2, <1>5 DEF Steady, EndsKept, StoreTyped, history
  <2> QED BY <1>1, <1>7, <2>1 DEF Ended, history
<1>12. Agrees'
  BY <1>1 DEF Steady, Agrees
<1> QED BY <1>9, <1>10, <1>11, <1>12 DEF Steady

LEMMA RecordSteady ==
  ASSUME Sound, NEW p \in Requests, Steady(p), PutPart(p)
  PROVE  Steady(p)'
<1> DEFINE l == loc[p]
           record == [etag |-> l.body, size |-> l.size]
<1>1. /\ pc[p] = "part_record"
      /\ parts' = [parts EXCEPT ![l.u][l.n] = record]
      /\ receipts' = [receipts EXCEPT ![l.u][l.n] = l.body]
      /\ Done(p)
      /\ UNCHANGED <<uploads, partFiles, file, index, stats, created, bounds,
                     sent, aborted, completed>>
  BY DEF PutPart
<1>2. StoreTyped /\ RequestsTyped /\ LocalOK(p)
  BY TypeParts DEF Sound
<1>3. l.u \in Uploads /\ l.n \in PartNumbers /\ l.body \in Bodies /\ record \in PartRecord
  BY <1>1, <1>2 DEF LocalOK, Parting, PartLocal, PartRecord
<1>4. pc'[p] = "idle"
  BY <1>1, <1>2, DoneMoves
<1>5. /\ l.u \notin aborted \cup completed /\ l.u \in uploads
      /\ UnknownLength = {} => l.size = BodySize[l.body]
      /\ partFiles[l.u][l.n] = l.body
      /\ \A n \in PartNumbers : n # l.n => Synced(l.u, n)
  BY <1>1 DEF Steady, Progress, Parting
<1>6. \A w \in uploads, n \in PartNumbers : w # l.u => Synced(w, n)
  BY <1>1 DEF Steady, OthersSynced, Cleaning
<1>7. record.etag = l.body /\ record.size = l.size /\ record # None /\ l.body # None
  BY <1>3, NoneAssumption
<1> HIDE DEF l, record
<1>8. \A w \in Uploads, m \in PartNumbers :
        /\ parts'[w][m] = IF w = l.u /\ m = l.n THEN record ELSE parts[w][m]
        /\ receipts'[w][m] = IF w = l.u /\ m = l.n THEN l.body ELSE receipts[w][m]
  BY <1>1, <1>2, <1>3, EntryReplaced DEF StoreTyped
<1>9. Progress(p)'
  BY <1>4 DEF Progress, Parting, Listing, Reading, Cleaning
<1>10. \A w \in uploads, m \in PartNumbers : Synced(w, m)'
  <2> SUFFICES ASSUME NEW w \in uploads, NEW m \in PartNumbers PROVE Synced(w, m)'
    OBVIOUS
  <2>0. w \in Uploads
    BY <1>2 DEF StoreTyped
  <2>1. CASE w = l.u /\ m = l.n
    BY <1>1, <1>5, <1>7, <1>8, <2>0, <2>1 DEF Synced
  <2>2. CASE ~(w = l.u /\ m = l.n)
    BY <1>1, <1>5, <1>6, <1>8, <2>0, <2>2 DEF Synced
  <2> QED BY <2>1, <2>2
<1>11. OthersSynced(p)'
  BY <1>1, <1>10 DEF OthersSynced
<1>12. EndsKept'
  <2> SUFFICES ASSUME NEW w \in aborted' \cup completed' PROVE Ended(w)'
    BY DEF EndsKept
  <2>1. w \in Uploads /\ w # l.u /\ Ended(w)
    BY <1>1, <1>2, <1>5 DEF Steady, EndsKept, StoreTyped
  <2> QED BY <1>1, <1>8, <2>1 DEF Ended
<1>13. Agrees'
  BY <1>1 DEF Steady, Agrees
<1> QED BY <1>9, <1>11, <1>12, <1>13 DEF Steady

LEMMA CompleteSteady ==
  ASSUME Sound, NEW p \in Requests, Steady(p), CompleteMultipartUpload(p)
  PROVE  Steady(p)'
<1>1. PICK u \in created : \E sel \in Selections(u) :
        Lookup(p, u, "cmp_bucket", [u |-> u, sel |-> sel])
  BY DEF CompleteMultipartUpload
<1>2. PICK sel \in Selections(u) : Lookup(p, u, "cmp_bucket", [u |-> u, sel |-> sel])
  BY <1>1
<1>3. pc[p] = "idle" /\ UNCHANGED <<store, created, history>>
  BY DEF CompleteMultipartUpload, Arrive
<1>4. StoreTyped /\ RequestsTyped
  BY TypeParts DEF Sound
<1>5. CASE u \notin uploads
  BY <1>2, <1>3, <1>4, <1>5, SteadyDone DEF Lookup, Cleaning
<1>6. CASE u \in uploads
  <2> DEFINE l == [u |-> u, sel |-> sel]
  <2>1. Proceed(p, "cmp_bucket", l) /\ l.u = u /\ l.sel = sel
    BY <1>2, <1>6 DEF Lookup
  <2> HIDE DEF l
  <2>2. pc'[p] = "cmp_bucket" /\ loc'[p] = l
    BY <1>4, <2>1 DEF Proceed, RequestsTyped
  <2>3. u \in uploads' /\ u \notin aborted' \cup completed'
    BY <1>3, <1>6, NotEnded DEF Steady, store, history
  <2>4. \A i \in DOMAIN sel : receipts'[u][sel[i].n] = sel[i].etag
    BY <1>3, <1>4, SelectionOK DEF StoreTyped, history
  <2>5. Progress(p)'
    BY <2>1, <2>2, <2>3, <2>4 DEF Progress, Parting, Listing, Reading, Cleaning
  <2> QED BY <1>3, <2>5, SteadyQuiet DEF Cleaning, history
<1> QED BY <1>5, <1>6

LEMMA BucketSteady ==
  ASSUME Sound, NEW p \in Requests, Steady(p), CompleteBucket(p)
  PROVE  Steady(p)'
<1> DEFINE l == loc[p]
           m == [u |-> l.u, sel |-> l.sel, seen |-> stats]
<1>1. pc[p] = "cmp_bucket" /\ Proceed(p, "cmp_list", m) /\ UNCHANGED <<store, created, bounds, history>>
  BY DEF CompleteBucket
<1>2. m.u = l.u /\ m.sel = l.sel
  OBVIOUS
<1>3. /\ l.u \notin aborted' \cup completed' /\ l.u \in uploads'
      /\ \A i \in DOMAIN l.sel : receipts'[l.u][l.sel[i].n] = l.sel[i].etag
  BY <1>1 DEF Steady, Progress, Listing, store, history
<1> HIDE DEF m
<1>4. pc'[p] = "cmp_list" /\ loc'[p] = m
  BY <1>1, TypeParts DEF Sound, RequestsTyped, Proceed
<1>5. Progress(p)'
  BY <1>2, <1>3, <1>4 DEF Progress, Parting, Listing, Reading, Cleaning
<1> QED BY <1>1, <1>5, SteadyQuiet DEF Cleaning, history

\* The recorded sizes are those of the bodies.
LEMMA SizesRecorded ==
  ASSUME UnknownLength = {}, NEW u, NEW sel, Distinct(sel), \A n \in PartNumbers : Synced(u, n),
         \A i \in DOMAIN sel : receipts[u][sel[i].n] = sel[i].etag
  PROVE  multipartTotalSize(u, sel) = Total(SizesOf(Etags(sel)))
<1> DEFINE size(i) == IF parts[u][sel[i].n] = None THEN 0 ELSE parts[u][sel[i].n].size
<1>1. ASSUME NEW i \in DOMAIN sel PROVE size(i) = BodySize[sel[i].etag]
  <2>1. sel[i] \in CompletePart
    BY DEF Distinct
  <2>2. sel[i].n \in PartNumbers /\ sel[i].etag \in Bodies /\ sel[i].etag # None
    BY <2>1, NoneAssumption DEF CompletePart
  <2>3. Synced(u, sel[i].n)
    BY <2>2
  <2> QED BY <2>2, <2>3 DEF Synced
<1>2. [i \in DOMAIN sel |-> size(i)] = SizesOf(Etags(sel))
  BY <1>1 DEF SizesOf, Etags
<1> QED BY <1>2 DEF multipartTotalSize

LEMMA ListSteady ==
  ASSUME Sound, NEW p \in Requests, Steady(p), CompleteList(p)
  PROVE  Steady(p)'
<1> DEFINE l == loc[p]
           sorted == ByNumber(l.sel)
           total == multipartTotalSize(l.u, sorted)
           m == [u |-> l.u, sel |-> sorted, total |-> total, got |-> <<>>]
<1>1. pc[p] = "cmp_list" /\ UNCHANGED <<store, created, bounds, history>>
  BY DEF CompleteList
<1>2. RequestsTyped /\ LocalOK(p)
  BY TypeParts DEF Sound
<1>3. CASE Done(p)
  BY <1>1, <1>2, <1>3, SteadyDone DEF Cleaning
<1>4. CASE Proceed(p, "cmp_read", m)
  <2>1. Distinct(l.sel)
    BY <1>1, <1>2 DEF LocalOK, Listing
  <2>2. /\ Distinct(sorted)
        /\ \A i \in DOMAIN sorted : \E k \in DOMAIN l.sel : sorted[i] = l.sel[k]
    BY <2>1, Sorted
  <2>3. /\ l.u \notin aborted \cup completed /\ l.u \in uploads
        /\ \A i \in DOMAIN l.sel : receipts[l.u][l.sel[i].n] = l.sel[i].etag
    BY <1>1 DEF Steady, Progress, Listing
  <2> HIDE DEF sorted
  <2>4. \A i \in DOMAIN sorted : receipts[l.u][sorted[i].n] = sorted[i].etag
    BY <2>2, <2>3
  <2>5. \A n \in PartNumbers : Synced(l.u, n)
    BY <1>1, <2>3 DEF Steady, OthersSynced, Cleaning
  <2>6. UnknownLength = {} => total = Total(SizesOf(Etags(sorted)))
    BY <2>2, <2>4, <2>5, SizesRecorded
  <2> HIDE DEF total
  <2>7. m.u = l.u /\ m.sel = sorted /\ m.total = total /\ DOMAIN m.got = {}
    OBVIOUS
  <2> HIDE DEF m
  <2>8. pc'[p] = "cmp_read" /\ loc'[p] = m
    BY <1>2, <1>4 DEF RequestsTyped, Proceed
  <2>9. /\ l.u \notin aborted' \cup completed' /\ l.u \in uploads'
        /\ \A i \in DOMAIN sorted : receipts'[l.u][sorted[i].n] = sorted[i].etag
    BY <1>1, <2>3, <2>4 DEF store, history
  <2>10. Progress(p)'
    BY <2>6, <2>7, <2>8, <2>9 DEF Progress, Parting, Listing, Reading, Cleaning
  <2> QED BY <1>1, <2>10, SteadyQuiet DEF Cleaning, history
<1> QED BY <1>3, <1>4 DEF CompleteList

LEMMA ReadSteady ==
  ASSUME Sound, NEW p \in Requests, Steady(p), assemblePartReaders(p)
  PROVE  Steady(p)'
<1> DEFINE l == loc[p]
           selected == Selected(l.sel)
<1>1. pc[p] = "cmp_read" /\ UNCHANGED <<store, created, bounds, history>>
  BY DEF assemblePartReaders
<1>2. RequestsTyped /\ LocalOK(p)
  BY TypeParts DEF Sound
<1>3. PICK n \in selected \ DOMAIN l.got :
        LET body == partFiles[l.u][n]
            got == [k \in DOMAIN l.got \cup {n} |-> IF k = n THEN body ELSE l.got[k]]
        IN IF body = None THEN Done(p)
           ELSE Proceed(p, IF DOMAIN got = selected THEN "cmp_write" ELSE "cmp_read",
                        [u |-> l.u, sel |-> l.sel, total |-> l.total, got |-> got])
  BY DEF assemblePartReaders, Selected
<1> DEFINE body == partFiles[l.u][n]
           got == [k \in DOMAIN l.got \cup {n} |-> IF k = n THEN body ELSE l.got[k]]
           m == [u |-> l.u, sel |-> l.sel, total |-> l.total, got |-> got]
           label == IF DOMAIN got = selected THEN "cmp_write" ELSE "cmp_read"
<1>4. CASE body = None
  BY <1>1, <1>2, <1>3, <1>4, SteadyDone DEF Cleaning
<1>5. CASE body # None
  <2>1. /\ l.u \notin aborted \cup completed /\ l.u \in uploads
        /\ \A i \in DOMAIN l.sel : receipts[l.u][l.sel[i].n] = l.sel[i].etag
        /\ \A i \in DOMAIN l.sel : l.sel[i].n \in DOMAIN l.got => l.got[l.sel[i].n] = l.sel[i].etag
        /\ UnknownLength = {} => l.total = Total(SizesOf(Etags(l.sel)))
    BY <1>1 DEF Steady, Progress, Reading
  <2>2. \A k \in PartNumbers : Synced(l.u, k)
    BY <1>1, <2>1 DEF Steady, OthersSynced, Cleaning
  <2>3. \A i \in DOMAIN l.sel : l.sel[i].n \in PartNumbers
    <3>1. Distinct(l.sel)
      BY <1>1, <1>2 DEF LocalOK, Reading
    <3>2. \A i \in DOMAIN l.sel : l.sel[i] \in CompletePart
      BY <3>1 DEF Distinct
    <3> QED BY <3>2 DEF CompletePart
  <2>4. n \in PartNumbers /\ \A i \in DOMAIN l.sel : l.sel[i].n = n => body = l.sel[i].etag
    <3>1. n \in PartNumbers
      BY <1>3, <2>3 DEF Selected
    <3>2. body = receipts[l.u][n]
      BY <1>5, <2>2, <3>1 DEF Synced
    <3> QED BY <2>1, <3>1, <3>2
  <2>5. \A i \in DOMAIN l.sel : l.sel[i].n \in DOMAIN got => got[l.sel[i].n] = l.sel[i].etag
    BY <2>1, <2>4
  <2>6. Proceed(p, label, m) /\ label \in {"cmp_read", "cmp_write"}
    BY <1>3, <1>5
  <2> HIDE DEF got, label
  <2>7. m.u = l.u /\ m.sel = l.sel /\ m.total = l.total /\ m.got = got
    OBVIOUS
  <2> HIDE DEF m
  <2>8. pc'[p] = label /\ loc'[p] = m
    BY <1>2, <2>6 DEF RequestsTyped, Proceed
  <2>9. /\ l.u \notin aborted' \cup completed' /\ l.u \in uploads' /\ receipts' = receipts
    BY <1>1, <2>1 DEF store, history
  <2>10. Progress(p)'
    BY <2>1, <2>5, <2>6, <2>7, <2>8, <2>9 DEF Progress, Parting, Listing, Reading, Cleaning
  <2> QED BY <1>1, <2>10, SteadyQuiet DEF Cleaning, history
<1> QED BY <1>4, <1>5

LEMMA FileSteady ==
  ASSUME Sound, NEW p \in Requests, Steady(p), CompleteWrite(p)
  PROVE  Steady(p)'
<1> DEFINE l == loc[p]
<1>1. /\ pc[p] = "cmp_write"
      /\ file' = [i \in DOMAIN l.sel |-> ChunkOf(l.u, l.sel[i].n, l.got[l.sel[i].n])]
      /\ Proceed(p, "cmp_index", l)
      /\ UNCHANGED <<uploads, parts, partFiles, index, stats, created, bounds, history>>
  BY DEF CompleteWrite, ChunkOf
<1>2. RequestsTyped /\ LocalOK(p)
  BY TypeParts DEF Sound
<1>3. Distinct(l.sel) /\ Len(l.sel) > 0 /\ DOMAIN l.got = Selected(l.sel)
  BY <1>1, <1>2 DEF LocalOK, Reading
<1>4. /\ l.u \notin aborted \cup completed /\ l.u \in uploads
      /\ \A i \in DOMAIN l.sel : receipts[l.u][l.sel[i].n] = l.sel[i].etag
      /\ \A i \in DOMAIN l.sel : l.sel[i].n \in DOMAIN l.got => l.got[l.sel[i].n] = l.sel[i].etag
      /\ UnknownLength = {} => l.total = Total(SizesOf(Etags(l.sel)))
  BY <1>1 DEF Steady, Progress, Reading
<1> HIDE DEF l
<1>5. pc'[p] = "cmp_index" /\ loc'[p] = l
  BY <1>1, <1>2 DEF RequestsTyped, Proceed
<1>6. file' = [i \in DOMAIN l.sel |-> ChunkOf(l.u, l.sel[i].n, l.sel[i].etag)]
  BY <1>1, <1>3, <1>4 DEF Selected
<1>7. Progress(p)'
  <2>1. Written(p)'
    BY <1>5, <1>6 DEF Written
  <2>2. l.u \notin aborted' \cup completed' /\ l.u \in uploads' /\ receipts' = receipts
    BY <1>1, <1>4 DEF history
  <2> QED BY <1>4, <1>5, <2>1, <2>2 DEF Progress, Parting, Listing, Reading, Cleaning
<1>8. OthersSynced(p)'
  <2>1. \A w \in uploads, n \in PartNumbers : Synced(w, n)
    BY <1>1 DEF Steady, OthersSynced, Cleaning
  <2> QED BY <1>1, <2>1 DEF OthersSynced, Synced, history
<1>9. EndsKept'
  <2> SUFFICES ASSUME NEW w \in aborted' \cup completed' PROVE Ended(w)'
    BY DEF EndsKept
  <2>1. w # l.u /\ Ended(w)
    BY <1>1, <1>4 DEF Steady, EndsKept, history
  <2>2. 1 \in DOMAIN file' /\ file'[1].u = l.u
    <3>1. 1 \in DOMAIN l.sel
      BY <1>3 DEF Distinct
    <3> QED BY <1>6, <3>1 DEF ChunkOf
  <2> QED BY <1>1, <2>1, <2>2 DEF Ended, history
<1> QED BY <1>5, <1>7, <1>8, <1>9 DEF Steady

LEMMA IndexSteady ==
  ASSUME Sound, NEW p \in Requests, Steady(p), CompleteIndex(p)
  PROVE  Steady(p)'
<1> DEFINE l == loc[p]
<1>1. /\ pc[p] = "cmp_index" /\ index' = [etags |-> Etags(l.sel), size |-> l.total]
      /\ Proceed(p, "cmp_stats", l)
      /\ UNCHANGED <<uploads, parts, partFiles, file, stats, created, bounds, history>>
  BY DEF CompleteIndex, Etags
<1>2. RequestsTyped
  BY TypeParts DEF Sound
<1>3. /\ l.u \notin aborted \cup completed /\ l.u \in uploads
      /\ \A i \in DOMAIN l.sel : receipts[l.u][l.sel[i].n] = l.sel[i].etag
      /\ \A i \in DOMAIN l.sel : l.sel[i].n \in DOMAIN l.got => l.got[l.sel[i].n] = l.sel[i].etag
      /\ UnknownLength = {} => l.total = Total(SizesOf(Etags(l.sel)))
      /\ file = [i \in DOMAIN l.sel |-> ChunkOf(l.u, l.sel[i].n, l.sel[i].etag)]
  BY <1>1 DEF Steady, Progress, Reading, Written
<1> HIDE DEF l
<1>4. pc'[p] = "cmp_stats" /\ loc'[p] = l
  BY <1>1, <1>2 DEF RequestsTyped, Proceed
<1>5. Progress(p)'
  <2>1. Written(p)'
    BY <1>1, <1>3, <1>4 DEF Written
  <2>2. l.u \notin aborted' \cup completed' /\ l.u \in uploads' /\ receipts' = receipts
    BY <1>1, <1>3 DEF history
  <2> QED BY <1>1, <1>3, <1>4, <2>1, <2>2 DEF Progress, Parting, Listing, Reading, Cleaning
<1>6. OthersSynced(p)'
  <2>1. \A w \in uploads, n \in PartNumbers : Synced(w, n)
    BY <1>1 DEF Steady, OthersSynced, Cleaning
  <2> QED BY <1>1, <2>1 DEF OthersSynced, Synced, history
<1>7. EndsKept'
  BY <1>1 DEF Steady, EndsKept, Ended, history
<1>8. Agrees'
  <2>1. DOMAIN file = DOMAIN l.sel /\ \A i \in DOMAIN file : file[i].body = l.sel[i].etag
    <3>1. DOMAIN file = DOMAIN l.sel
      BY <1>3
    <3>2. \A i \in DOMAIN file : file[i] = ChunkOf(l.u, l.sel[i].n, l.sel[i].etag)
      BY <1>3
    <3>3. \A i \in DOMAIN file : file[i].body = l.sel[i].etag
      BY <3>2 DEF ChunkOf
    <3> QED BY <3>1, <3>3
  <2>2. Etags(l.sel) = [i \in DOMAIN file |-> file[i].body]
    BY <2>1 DEF Etags
  <2>3. SizesOf(Etags(l.sel)) = [i \in DOMAIN file |-> BodySize[file[i].body]]
    BY <2>1 DEF Etags, SizesOf
  <2>4. index'.etags = Etags(l.sel) /\ index'.size = l.total
    BY <1>1
  <2> QED BY <1>1, <1>3, <2>2, <2>3, <2>4 DEF Agrees
<1> QED BY <1>5, <1>6, <1>7, <1>8 DEF Steady

LEMMA StatsSteady ==
  ASSUME Sound, NEW p \in Requests, Steady(p), CompleteStats(p)
  PROVE  Steady(p)'
<1> DEFINE l == loc[p]
           m == [u |-> l.u, why |-> "complete", next |-> 1, last |-> Len(l.sel)]
<1>1. /\ pc[p] = "cmp_stats" /\ Proceed(p, "clean_upload", m)
      /\ UNCHANGED <<uploads, parts, partFiles, file, index, created, bounds, history>>
  BY DEF CompleteStats
<1>2. RequestsTyped /\ StoreTyped /\ LocalOK(p)
  BY TypeParts DEF Sound
<1>3. /\ l.u \notin aborted \cup completed /\ l.u \in uploads
      /\ file = [i \in DOMAIN l.sel |-> ChunkOf(l.u, l.sel[i].n, l.sel[i].etag)]
  BY <1>1 DEF Steady, Progress, Reading, Written
<1>4. Distinct(l.sel) /\ file \in Seq(Chunk)
  BY <1>1, <1>2 DEF LocalOK, Reading, StoreTyped
<1>5. Len(file) = Len(l.sel) /\ \A i \in DOMAIN file : file[i].u = l.u
  <2>1. DOMAIN file = DOMAIN l.sel /\ \A i \in DOMAIN file : file[i].u = l.u
    BY <1>3 DEF ChunkOf
  <2> QED BY <1>4, <2>1 DEF Distinct
<1>6. m.u = l.u /\ m.why = "complete" /\ m.last = Len(l.sel)
  OBVIOUS
<1> HIDE DEF l, m
<1>7. pc'[p] = "clean_upload" /\ loc'[p] = m
  BY <1>1, <1>2 DEF RequestsTyped, Proceed
<1>8. Progress(p)'
  <2>1. l.u \notin aborted' \cup completed' /\ l.u \in uploads' /\ file' = file
    BY <1>1, <1>3 DEF history
  <2> QED BY <1>5, <1>6, <1>7, <2>1 DEF Progress, Parting, Listing, Reading, Cleaning
<1>9. OthersSynced(p)'
  <2>1. \A w \in uploads, n \in PartNumbers : Synced(w, n)
    BY <1>1 DEF Steady, OthersSynced, Cleaning
  <2> QED BY <1>1, <2>1 DEF OthersSynced, Synced, history
<1>10. EndsKept' /\ Agrees'
  BY <1>1 DEF Steady, EndsKept, Ended, Agrees, history
<1> QED BY <1>8, <1>9, <1>10 DEF Steady

LEMMA AbortSteady ==
  ASSUME Sound, NEW p \in Requests, Steady(p), AbortMultipartUpload(p)
  PROVE  Steady(p)'
<1>1. PICK u \in created : Lookup(p, u, "abt_list", [u |-> u])
  BY DEF AbortMultipartUpload
<1>2. pc[p] = "idle" /\ UNCHANGED <<store, created, history>>
  BY DEF AbortMultipartUpload, Arrive
<1>3. RequestsTyped
  BY TypeParts DEF Sound
<1>4. CASE u \notin uploads
  BY <1>1, <1>2, <1>3, <1>4, SteadyDone DEF Lookup, Cleaning
<1>5. CASE u \in uploads
  <2>1. pc'[p] = "abt_list" /\ loc'[p] = [u |-> u]
    BY <1>1, <1>3, <1>5 DEF Lookup, Proceed, RequestsTyped
  <2>2. u \in uploads' /\ u \notin aborted' \cup completed'
    BY <1>2, <1>5, NotEnded DEF Steady, store, history
  <2>3. Progress(p)'
    BY <2>1, <2>2 DEF Progress, Parting, Listing, Reading, Cleaning
  <2> QED BY <1>2, <2>3, SteadyQuiet DEF Cleaning, history
<1> QED BY <1>4, <1>5

\* The only request begins the clean-up of an abort.
LEMMA CleanupProgress ==
  ASSUME RequestsTyped, NEW p \in Requests, NEW u, NEW last, Cleanup(p, u, "abort", last),
         u \notin aborted' \cup completed', u \in uploads',
         \A n \in PartNumbers : partFiles'[u][n] = None
  PROVE  pc'[p] = "clean_upload" /\ loc'[p].u = u /\ Progress(p)'
<1> DEFINE m == [u |-> u, why |-> "abort", next |-> 1, last |-> last]
<1>1. m.u = u /\ m.why = "abort"
  OBVIOUS
<1>2. Proceed(p, "clean_upload", m)
  BY DEF Cleanup
<1> HIDE DEF m
<1>3. pc'[p] = "clean_upload" /\ loc'[p] = m
  BY <1>2 DEF Proceed, RequestsTyped
<1> QED BY <1>1, <1>3 DEF Progress, Parting, Listing, Reading, Cleaning

LEMMA AbortListSteady ==
  ASSUME Sound, NEW p \in Requests, Steady(p), AbortList(p)
  PROVE  Steady(p)'
<1> DEFINE u == loc[p].u
           last == Cardinality(Recorded(u))
           m == [u |-> u, todo |-> Recorded(u), last |-> last]
<1>1. /\ pc[p] = "abt_list" /\ UNCHANGED <<store, created, bounds, history>>
      /\ IF Recorded(u) = {} THEN Cleanup(p, u, "abort", 0) ELSE Proceed(p, "abt_files", m)
  BY DEF AbortList
<1>2. RequestsTyped
  BY TypeParts DEF Sound
<1>3. u \notin aborted' \cup completed' /\ u \in uploads'
  BY <1>1 DEF Steady, Progress, store, history
<1>4. \A n \in PartNumbers : partFiles'[u][n] # None => n \in Recorded(u)
  <2>1. \A n \in PartNumbers : Synced(u, n)
    BY <1>1, <1>3 DEF Steady, OthersSynced, Cleaning, store
  <2> QED BY <1>1, <2>1 DEF Synced, Recorded, store
<1>5. Progress(p)'
  <2>1. CASE Recorded(u) = {}
    <3> HIDE DEF u
    <3> QED BY <1>1, <1>2, <1>3, <1>4, <2>1, CleanupProgress
  <2>2. CASE Recorded(u) # {}
    <3>1. Proceed(p, "abt_files", m) /\ m.u = u /\ m.todo = Recorded(u)
      BY <1>1, <2>2
    <3> HIDE DEF u, m
    <3>2. pc'[p] = "abt_files" /\ loc'[p] = m
      BY <1>2, <3>1 DEF Proceed, RequestsTyped
    <3> QED BY <1>3, <1>4, <3>1, <3>2 DEF Progress, Parting, Listing, Reading, Cleaning
  <2> QED BY <2>1, <2>2
<1> QED BY <1>1, <1>5, SteadyQuiet DEF Cleaning, history

LEMMA AbortFilesSteady ==
  ASSUME Sound, NEW p \in Requests, Steady(p), AbortFiles(p)
  PROVE  Steady(p)'
<1> DEFINE l == loc[p]
<1>1. PICK n \in l.todo :
        /\ partFiles' = [partFiles EXCEPT ![l.u][n] = None]
        /\ IF l.todo = {n} THEN Cleanup(p, l.u, "abort", l.last)
           ELSE Proceed(p, "abt_files", FilesLeft(l, n))
  BY DEF AbortFiles, FilesLeft
<1>2. /\ pc[p] = "abt_files"
      /\ UNCHANGED <<uploads, parts, file, index, stats, created, bounds, history>>
  BY DEF AbortFiles
<1>3. StoreTyped /\ RequestsTyped /\ LocalOK(p)
  BY TypeParts DEF Sound
<1>4. l.u \in Uploads
  BY <1>2, <1>3 DEF LocalOK, FilesLocal
<1>5. /\ l.u \notin aborted \cup completed /\ l.u \in uploads
      /\ \A k \in PartNumbers : partFiles[l.u][k] # None => k \in l.todo
  BY <1>2 DEF Steady, Progress
<1> DEFINE m == FilesLeft(l, n)
<1>6. m.u = l.u /\ m.todo = l.todo \ {n}
  BY DEF FilesLeft
<1> HIDE DEF l, m
<1>7. \A w \in Uploads, k \in PartNumbers :
        partFiles'[w][k] = IF w = l.u /\ k = n THEN None ELSE partFiles[w][k]
  BY <1>1, <1>3, <1>4, EntryReplaced DEF StoreTyped
<1>8. l.u \notin aborted' \cup completed' /\ l.u \in uploads'
  BY <1>2, <1>5 DEF history
<1>9. Progress(p)' /\ pc'[p] \in {"abt_files", "clean_upload"} /\ loc'[p].u = l.u
  <2>1. CASE l.todo = {n}
    <3>1. Cleanup(p, l.u, "abort", l.last)
      BY <1>1, <2>1
    <3>2. \A k \in PartNumbers : partFiles'[l.u][k] = None
      BY <1>4, <1>5, <1>7, <2>1
    <3> QED BY <1>3, <1>8, <3>1, <3>2, CleanupProgress
  <2>2. CASE l.todo # {n}
    <3>1. Proceed(p, "abt_files", m)
      BY <1>1, <2>2 DEF m
    <3>2. pc'[p] = "abt_files" /\ loc'[p] = m
      BY <1>3, <3>1 DEF Proceed, RequestsTyped
    <3>3. \A k \in PartNumbers : partFiles'[l.u][k] # None => k \in m.todo
      BY <1>4, <1>5, <1>6, <1>7
    <3> QED BY <1>6, <1>8, <3>2, <3>3 DEF Progress, Parting, Listing, Reading, Cleaning
  <2> QED BY <2>1, <2>2
<1>10. OthersSynced(p)'
  <2>1. \A w \in uploads, k \in PartNumbers : w # l.u => Synced(w, k)
    BY <1>2 DEF Steady, OthersSynced, Cleaning, l
  <2>2. uploads \subseteq Uploads
    BY <1>3 DEF StoreTyped
  <2> QED BY <1>2, <1>7, <1>9, <2>1, <2>2 DEF OthersSynced, Synced, Cleaning, history
<1>11. EndsKept'
  <2> SUFFICES ASSUME NEW w \in aborted' \cup completed' PROVE Ended(w)'
    BY DEF EndsKept
  <2>1. w \in Uploads /\ w # l.u /\ Ended(w)
    BY <1>2, <1>3, <1>5 DEF Steady, EndsKept, StoreTyped, history
  <2> QED BY <1>2, <1>7, <2>1 DEF Ended, history
<1>12. Agrees'
  BY <1>2 DEF Steady, Agrees
<1> QED BY <1>9, <1>10, <1>11, <1>12 DEF Steady

LEMMA CleanUploadSteady ==
  ASSUME Sound, NEW p \in Requests, Steady(p), CleanUpload(p)
  PROVE  Steady(p)'
<1> DEFINE l == loc[p]
<1>1. /\ pc[p] = "clean_upload" /\ uploads' = uploads \ {l.u} /\ Proceed(p, "clean_parts", l)
      /\ UNCHANGED <<parts, partFiles, file, index, stats, created, bounds, history>>
  BY DEF CleanUpload
<1>2. /\ l.u \notin aborted \cup completed
      /\ IF l.why = "abort" THEN \A n \in PartNumbers : partFiles[l.u][n] = None
         ELSE Len(file) = l.last /\ \A i \in DOMAIN file : file[i].u = l.u
  BY <1>1 DEF Steady, Progress, Cleaning
<1>3. \A w \in uploads, n \in PartNumbers : w # l.u => Synced(w, n)
  BY <1>1 DEF Steady, OthersSynced, Cleaning
<1> HIDE DEF l
<1>4. pc'[p] = "clean_parts" /\ loc'[p] = l
  BY <1>1, TypeParts DEF Sound, RequestsTyped, Proceed
<1>5. Progress(p)'
  BY <1>1, <1>2, <1>4 DEF Progress, Parting, Listing, Reading, Cleaning, history
<1>6. OthersSynced(p)'
  BY <1>1, <1>3, <1>4 DEF OthersSynced, Synced, history
<1>7. EndsKept'
  BY <1>1 DEF Steady, EndsKept, Ended, history
<1>8. Agrees'
  BY <1>1 DEF Steady, Agrees
<1> QED BY <1>5, <1>6, <1>7, <1>8 DEF Steady

\* The clean-up of u has removed its record, its parts' records and, up to
\* next, its files.
Cleared(u, why, last, next) ==
  /\ u \notin uploads
  /\ \A n \in PartNumbers : parts[u][n] = None /\ (n < next => partFiles[u][n] = None)
  /\ IF why = "abort" THEN \A n \in PartNumbers : partFiles[u][n] = None
     ELSE Len(file) = last /\ \A i \in DOMAIN file : file[i].u = u

\* On to the next part file, or to the answer.
LEMMA CleanNextSteady ==
  ASSUME RequestsTyped, NEW p \in Requests, NEW l \in CleanLocal, loc[p] = l,
         l.u \notin aborted \cup completed,
         NEW next \in Nat, CleanNext(p, next),
         Cleared(l.u, l.why, l.last, next)',
         \A w \in aborted \cup completed : Ended(w)'
  PROVE  /\ Progress(p)' /\ EndsKept' /\ UNCHANGED receipts
         /\ pc'[p] \in {"idle", "clean_files"} /\ (pc'[p] = "clean_files" => loc'[p].u = l.u)
<1> DEFINE m == [u |-> l.u, why |-> l.why, next |-> next, last |-> l.last]
<1>1. CASE next > l.last
  <2>1. Answer(p)
    BY <1>1 DEF CleanNext
  <2>2. /\ aborted' = IF l.why = "abort" THEN aborted \cup {l.u} ELSE aborted
        /\ completed' = IF l.why = "abort" THEN completed ELSE completed \cup {l.u}
        /\ Done(p) /\ UNCHANGED <<sent, receipts>>
    BY <2>1 DEF Answer
  <2>3. pc'[p] = "idle"
    BY <2>2, DoneMoves
  <2>4. Progress(p)'
    BY <2>3 DEF Progress, Parting, Listing, Reading, Cleaning
  <2>5. Ended(l.u)'
    <3>1. l.last \in Nat /\ l.why \in {"abort", "complete"}
      BY DEF CleanLocal
    <3>2. l.u \in aborted' => l.why = "abort"
      BY <2>2
    <3>3. l.u \in completed' => l.why # "abort"
      BY <2>2
    <3>4. l.why # "abort" => \A n \in PartNumbers : n <= Len(file)' => partFiles'[l.u][n] = None
      <4>1. \A n \in PartNumbers : n <= l.last => n < next
        BY <1>1, <3>1 DEF PartNumbers
      <4> QED BY <4>1 DEF Cleared
    <3> QED BY <3>2, <3>3, <3>4 DEF Ended, Cleared
  <2>6. EndsKept'
    <3>1. aborted' \cup completed' \subseteq aborted \cup completed \cup {l.u}
      BY <2>2
    <3> QED BY <2>5, <3>1 DEF EndsKept
  <2> QED BY <2>2, <2>3, <2>4, <2>6
<1>2. CASE ~(next > l.last)
  <2>1. Proceed(p, "clean_files", m) /\ UNCHANGED history
    BY <1>2 DEF CleanNext
  <2>2. m.u = l.u /\ m.why = l.why /\ m.next = next /\ m.last = l.last
    OBVIOUS
  <2> HIDE DEF m
  <2>3. pc'[p] = "clean_files" /\ loc'[p] = m
    BY <2>1 DEF Proceed, RequestsTyped
  <2>4. l.u \notin aborted' \cup completed'
    BY <2>1 DEF history
  <2>5. Cleared(l.u, l.why, l.last, next)'
    OBVIOUS
  <2>6. Progress(p)'
    BY <2>2, <2>3, <2>4, <2>5 DEF Progress, Parting, Listing, Reading, Cleaning, Cleared
  <2>7. EndsKept'
    BY <2>1 DEF EndsKept, history
  <2> QED BY <2>1, <2>2, <2>3, <2>6, <2>7 DEF history
<1> QED BY <1>1, <1>2

LEMMA CleanPartsSteady ==
  ASSUME Sound, NEW p \in Requests, Steady(p), CleanParts(p)
  PROVE  Steady(p)'
<1>0. PICK l : l = loc[p]
  OBVIOUS
<1>1. /\ pc[p] = "clean_parts" /\ parts' = [parts EXCEPT ![l.u] = [n \in PartNumbers |-> None]]
      /\ CleanNext(p, 1)
      /\ UNCHANGED <<uploads, partFiles, file, index, stats, created, bounds>>
  BY <1>0 DEF CleanParts
<1>2. StoreTyped /\ RequestsTyped /\ LocalOK(p)
  BY TypeParts DEF Sound
<1>3. l \in CleanLocal /\ l.u \in Uploads
  BY <1>0, <1>1, <1>2 DEF LocalOK, Cleaning, CleanLocal
<1>4. /\ l.u \notin aborted \cup completed /\ l.u \notin uploads
      /\ IF l.why = "abort" THEN \A n \in PartNumbers : partFiles[l.u][n] = None
         ELSE Len(file) = l.last /\ \A i \in DOMAIN file : file[i].u = l.u
  BY <1>0, <1>1 DEF Steady, Progress, Cleaning
<1>5. \A w \in Uploads : w # l.u => parts'[w] = parts[w]
  BY <1>1, <1>2 DEF StoreTyped
<1>6. \A n \in PartNumbers : parts'[l.u][n] = None
  BY <1>1, <1>2, <1>3 DEF StoreTyped
<1>7. Cleared(l.u, l.why, l.last, 1)'
  <2>1. \A n \in PartNumbers : ~(n < 1)
    BY DEF PartNumbers
  <2> QED BY <1>1, <1>4, <1>6, <2>1 DEF Cleared
<1>8. \A w \in aborted \cup completed : w \in Uploads /\ w # l.u /\ Ended(w)
  BY <1>2, <1>4 DEF Steady, EndsKept, StoreTyped
<1>9. \A w \in aborted \cup completed : Ended(w)'
  <2>1. aborted' \subseteq aborted \cup {l.u} /\ completed' \subseteq completed \cup {l.u}
    BY <1>0, <1>1 DEF CleanNext, Answer, history
  <2> QED BY <1>1, <1>5, <1>8, <2>1 DEF Ended
<1>10. /\ Progress(p)' /\ EndsKept' /\ UNCHANGED receipts
       /\ pc'[p] \in {"idle", "clean_files"} /\ (pc'[p] = "clean_files" => loc'[p].u = l.u)
  BY <1>0, <1>1, <1>2, <1>3, <1>4, <1>7, <1>9, CleanNextSteady
<1>11. OthersSynced(p)'
  <2>1. \A w \in uploads, n \in PartNumbers : w # l.u /\ Synced(w, n)
    BY <1>0, <1>1, <1>4 DEF Steady, OthersSynced, Cleaning
  <2>2. uploads \subseteq Uploads
    BY <1>2 DEF StoreTyped
  <2> QED BY <1>1, <1>5, <1>10, <2>1, <2>2 DEF OthersSynced, Synced
<1>12. Agrees'
  BY <1>1 DEF Steady, Agrees
<1> QED BY <1>10, <1>11, <1>12 DEF Steady

LEMMA CleanFilesSteady ==
  ASSUME Sound, NEW p \in Requests, Steady(p), CleanFiles(p)
  PROVE  Steady(p)'
<1>0. PICK l : l = loc[p]
  OBVIOUS
<1>1. /\ pc[p] = "clean_files" /\ partFiles' = [partFiles EXCEPT ![l.u][l.next] = None]
      /\ CleanNext(p, l.next + 1)
      /\ UNCHANGED <<uploads, parts, file, index, stats, created, bounds>>
  BY <1>0 DEF CleanFiles
<1>2. StoreTyped /\ RequestsTyped /\ LocalOK(p)
  BY TypeParts DEF Sound
<1>3. l \in CleanLocal /\ l.u \in Uploads /\ l.next \in Nat
  BY <1>0, <1>1, <1>2 DEF LocalOK, Cleaning, CleanLocal
<1>4. /\ l.u \notin aborted \cup completed /\ l.u \notin uploads
      /\ IF l.why = "abort" THEN \A n \in PartNumbers : partFiles[l.u][n] = None
         ELSE Len(file) = l.last /\ \A i \in DOMAIN file : file[i].u = l.u
      /\ \A n \in PartNumbers : parts[l.u][n] = None /\ (n < l.next => partFiles[l.u][n] = None)
  BY <1>0, <1>1 DEF Steady, Progress, Cleaning
<1>5. \A w \in Uploads, n \in PartNumbers :
        partFiles'[w][n] = IF w = l.u /\ n = l.next THEN None ELSE partFiles[w][n]
  <2> QED BY <1>1, <1>2, <1>3, EntryReplaced DEF StoreTyped
<1>6. Cleared(l.u, l.why, l.last, l.next + 1)'
  <2>1. \A n \in PartNumbers : n < l.next + 1 => n < l.next \/ n = l.next
    BY <1>3 DEF PartNumbers
  <2> QED BY <1>1, <1>3, <1>4, <1>5, <2>1 DEF Cleared
<1>7. \A w \in aborted \cup completed : w \in Uploads /\ w # l.u /\ Ended(w)
  BY <1>2, <1>4 DEF Steady, EndsKept, StoreTyped
<1>8. \A w \in aborted \cup completed : Ended(w)'
  <2>1. aborted' \subseteq aborted \cup {l.u} /\ completed' \subseteq completed \cup {l.u}
    BY <1>0, <1>1 DEF CleanNext, Answer, history
  <2> QED BY <1>1, <1>5, <1>7, <2>1 DEF Ended
<1>9. /\ Progress(p)' /\ EndsKept' /\ UNCHANGED receipts
      /\ pc'[p] \in {"idle", "clean_files"} /\ (pc'[p] = "clean_files" => loc'[p].u = l.u)
  <2>1. l.next + 1 \in Nat
    BY <1>3
  <2> QED BY <1>0, <1>1, <1>2, <1>3, <1>4, <1>6, <1>8, <2>1, CleanNextSteady
<1>10. OthersSynced(p)'
  <2>1. \A w \in uploads, n \in PartNumbers : w # l.u /\ Synced(w, n)
    BY <1>0, <1>1, <1>4 DEF Steady, OthersSynced, Cleaning
  <2>2. uploads \subseteq Uploads
    BY <1>2 DEF StoreTyped
  <2> QED BY <1>1, <1>5, <1>9, <2>1, <2>2 DEF OthersSynced, Synced
<1>11. Agrees'
  BY <1>1 DEF Steady, Agrees
<1> QED BY <1>9, <1>10, <1>11 DEF Steady

-----------------------------------------------------------------------------
(* Requests one after the other: the theorems *)

\* A request is the only one from its arrival on.
LEMMA OnlyArrival ==
  ASSUME NEW p \in Requests, Arrive(p), alone'
  PROVE  Only(p) /\ alone
BY DEF Arrive, Only

LEMMA OnlyRunning ==
  ASSUME Orderly, NEW p \in Requests, pc[p] # "idle"
  PROVE  Only(p)
BY DEF Orderly, Only

\* Request p moves, the others stay where they are.
Alters(p) == \E label : pc' = [pc EXCEPT ![p] = label]

LEMMA OnlyAlters ==
  ASSUME RequestsTyped, NEW p \in Requests, Only(p), Alters(p) \/ UNCHANGED pc
  PROVE  Only(p)'
BY DEF RequestsTyped, Only, Alters

LEMMA ProceedAlters ==
  ASSUME NEW p, NEW label, NEW l, Proceed(p, label, l)
  PROVE  Alters(p)
BY DEF Proceed, Alters

LEMMA DoneAlters ==
  ASSUME NEW p, Done(p)
  PROVE  Alters(p)
BY ProceedAlters DEF Done

LEMMA LookupAlters ==
  ASSUME NEW p, NEW u, NEW label, NEW l, Lookup(p, u, label, l)
  PROVE  Alters(p)
BY ProceedAlters, DoneAlters DEF Lookup

LEMMA CleanNextAlters ==
  ASSUME NEW p, NEW next, CleanNext(p, next)
  PROVE  Alters(p)
BY ProceedAlters, DoneAlters DEF CleanNext, Answer

LEMMA InitInOrder == Init => InOrder
<1> SUFFICES ASSUME Init PROVE Orderly
  BY DEF InOrder
<1>1. \A p \in Requests : Progress(p)
  BY DEF Init, Progress, Parting, Listing, Reading, Cleaning
<1> QED BY <1>1 DEF Init, Orderly, Agrees

LEMMA NextInOrder == Sound /\ InOrder /\ [Next]_vars => InOrder'
<1> SUFFICES ASSUME Sound, InOrder, [Next]_vars, alone' PROVE Orderly'
  BY DEF InOrder
<1>1. CASE UNCHANGED vars
  <2>1. Orderly /\ UNCHANGED <<store, pc, loc, history>>
    BY <1>1 DEF InOrder, vars, bounds
  <2>2. \A p \in Requests : Progress(p)'
    <3>1. /\ pc' = pc /\ loc' = loc /\ uploads' = uploads /\ parts' = parts /\ partFiles' = partFiles
          /\ file' = file /\ index' = index /\ receipts' = receipts
          /\ aborted' = aborted /\ completed' = completed
      BY <2>1 DEF store, history
    <3>2. ASSUME NEW p \in Requests PROVE Progress(p)'
      <4>1. Progress(p)
        BY <2>1 DEF Orderly
      <4>2. Written(p) => Written(p)'
        BY <3>1 DEF Written
      <4>3. \A n \in PartNumbers : Synced(loc[p].u, n) => (Synced(loc[p].u, n))'
        BY <3>1 DEF Synced
      <4> QED BY <3>1, <4>1, <4>2, <4>3 DEF Progress, Parting, Listing, Reading, Cleaning
    <3> QED BY <3>2
  <2>3. \A u \in uploads' : Settled(u)' => \A n \in PartNumbers : Synced(u, n)'
    BY <2>1 DEF Orderly, Settled, Synced, store, history
  <2>4. \A u \in aborted' \cup completed' : Ended(u)'
    BY <2>1 DEF Orderly, Ended, store, history
  <2>5. (Agrees \/ \E p \in Requests : pc[p] = "cmp_index")'
    BY <2>1 DEF Orderly, Agrees, store
  <2> QED BY <2>1, <2>2, <2>3, <2>4, <2>5 DEF Orderly
<1>2. CASE Crash
  BY <1>2 DEF Crash
<1>3. ASSUME NEW p \in Requests,
             \/ createMultipartUpload(p) \/ uploadPart(p)
             \/ CompleteMultipartUpload(p) \/ AbortMultipartUpload(p)
      PROVE  Orderly'
  <2>1. Arrive(p)
    BY <1>3 DEF createMultipartUpload, uploadPart, CompleteMultipartUpload, AbortMultipartUpload
  <2>2. Only(p) /\ Steady(p)
    BY <2>1, OnlyArrival, OnlyOne DEF InOrder
  <2>3. Steady(p)'
    BY <1>3, <2>2, CreateSteady, UploadSteady, CompleteSteady, AbortSteady
  <2>4. Alters(p) \/ UNCHANGED pc
    <3>1. CASE createMultipartUpload(p)
      BY <3>1 DEF createMultipartUpload
    <3>2. CASE uploadPart(p)
      BY <3>2, LookupAlters DEF uploadPart, UploadPart
    <3>3. CASE CompleteMultipartUpload(p)
      BY <3>3, LookupAlters DEF CompleteMultipartUpload
    <3>4. CASE AbortMultipartUpload(p)
      BY <3>4, LookupAlters DEF AbortMultipartUpload
    <3> QED BY <1>3, <3>1, <3>2, <3>3, <3>4
  <2>5. Only(p)'
    BY <2>2, <2>4, TypeParts, OnlyAlters DEF Sound
  <2> QED BY <2>3, <2>5, OrderlyNext
<1>4. ASSUME NEW p \in Requests,
             \/ PartWrite(p) \/ PutPart(p) \/ CompleteBucket(p) \/ CompleteList(p)
             \/ assemblePartReaders(p) \/ CompleteWrite(p) \/ CompleteIndex(p) \/ CompleteStats(p)
             \/ AbortList(p) \/ AbortFiles(p) \/ CleanUpload(p) \/ CleanParts(p) \/ CleanFiles(p)
      PROVE  Orderly'
  <2>1. pc[p] # "idle" /\ UNCHANGED bounds
    BY <1>4 DEF PartWrite, PutPart, CompleteBucket, CompleteList, assemblePartReaders,
       CompleteWrite, CompleteIndex, CompleteStats, AbortList, AbortFiles, CleanUpload,
       CleanParts, CleanFiles
  <2>2. Only(p) /\ Steady(p)
    BY <2>1, OnlyRunning, OnlyOne DEF InOrder, bounds
  <2>3. Steady(p)'
    BY <1>4, <2>2, WriteSteady, RecordSteady, BucketSteady, ListSteady, ReadSteady, FileSteady,
       IndexSteady, StatsSteady, AbortListSteady, AbortFilesSteady, CleanUploadSteady,
       CleanPartsSteady, CleanFilesSteady
  <2>4. Alters(p)
    <3>1. CASE PartWrite(p) \/ PutPart(p) \/ CompleteBucket(p)
      BY <3>1, ProceedAlters, DoneAlters DEF PartWrite, PutPart, CompleteBucket
    <3>2. CASE CompleteList(p) \/ assemblePartReaders(p)
      BY <3>2, ProceedAlters, DoneAlters DEF CompleteList, assemblePartReaders
    <3>3. CASE CompleteWrite(p) \/ CompleteIndex(p) \/ CompleteStats(p)
      BY <3>3, ProceedAlters DEF CompleteWrite, CompleteIndex, CompleteStats
    <3>4. CASE AbortList(p) \/ AbortFiles(p) \/ CleanUpload(p)
      BY <3>4, ProceedAlters DEF AbortList, AbortFiles, CleanUpload, Cleanup
    <3>5. CASE CleanParts(p) \/ CleanFiles(p)
      BY <3>5, CleanNextAlters DEF CleanParts, CleanFiles
    <3> QED BY <1>4, <3>1, <3>2, <3>3, <3>4, <3>5
  <2>5. Only(p)'
    BY <2>2, <2>4, TypeParts, OnlyAlters DEF Sound
  <2> QED BY <2>3, <2>5, OrderlyNext
<1>5. ASSUME NEW p \in Requests, CallFails(p) PROVE Orderly'
  BY <1>5 DEF CallFails
<1> QED BY <1>1, <1>2, <1>3, <1>4, <1>5 DEF Next

LEMMA AlwaysInOrder == Spec => [](Sound /\ InOrder)
<1>1. Init => Sound /\ InOrder
  BY InitSound, InitInOrder
<1>2. Sound /\ InOrder /\ [Next]_vars => (Sound /\ InOrder)'
  BY NextSound, NextInOrder
<1> QED BY <1>1, <1>2, PTL DEF Spec

\* As long as requests come one after the other, nothing is left of an aborted
\* upload, and of a completed one what cleanupMultipart does not count.
THEOREM NothingIsLeft == Spec => []UploadsCleanUp
<1>1. Sound /\ InOrder => UploadsCleanUp
  <2> SUFFICES ASSUME Sound, Orderly
               PROVE  /\ \A u \in aborted : Gone(u)
                      /\ \A u \in completed :
                           /\ u \notin uploads /\ \A n \in PartNumbers : parts[u][n] = None
                           /\ Numbers(u) = 1..Len(file) /\ (\A i \in DOMAIN file : file[i].u = u)
                                => Gone(u)
    BY DEF UploadsCleanUp, InOrder
  <2>1. \A u \in aborted : Gone(u)
    BY DEF Orderly, Ended, Gone
  <2>2. ASSUME NEW u \in completed
        PROVE  /\ u \notin uploads /\ \A n \in PartNumbers : parts[u][n] = None
               /\ Numbers(u) = 1..Len(file) /\ (\A i \in DOMAIN file : file[i].u = u)
                    => Gone(u)
    <3>1. u \in Uploads /\ Ended(u)
      BY TypeParts DEF Sound, StoreTyped, Orderly
    <3>2. \A n \in PartNumbers : partFiles[u][n] # None => n \in Numbers(u)
      <4> SUFFICES ASSUME NEW n \in PartNumbers, partFiles[u][n] # None PROVE n \in Numbers(u)
        OBVIOUS
      <4> DEFINE c == ChunkOf(u, n, partFiles[u][n])
      <4>1. c \in sent
        BY <3>1 DEF Sound, StoreOK
      <4>2. c.u = u /\ c.n = n
        BY DEF ChunkOf
      <4> HIDE DEF c
      <4> QED BY <4>1, <4>2 DEF Numbers
    <3>3. Numbers(u) = 1..Len(file) /\ (\A i \in DOMAIN file : file[i].u = u) => Gone(u)
      <4> SUFFICES ASSUME Numbers(u) = 1..Len(file), \A i \in DOMAIN file : file[i].u = u
                   PROVE  Gone(u)
        OBVIOUS
      <4>1. \A n \in PartNumbers : n <= Len(file) => partFiles[u][n] = None
        BY <3>1, <2>2 DEF Ended
      <4>2. \A n \in PartNumbers : partFiles[u][n] = None
        BY <3>2, <4>1
      <4> QED BY <3>1, <4>2 DEF Ended, Gone
    <3> QED BY <3>1, <3>3 DEF Ended
  <2> QED BY <2>1, <2>2
<1> QED BY <1>1, AlwaysInOrder, PTL

\* As long as requests come one after the other and every part has its
\* Content-Length, ETag and size of the object are those of the bytes in its
\* file.  The condition on Content-Length is needed: a part without one is
\* recorded with the size -1.
THEOREM ObjectsAreExact ==
  ASSUME UnknownLength = {}
  PROVE  Spec => []CompletedExact
<1>1. Sound /\ InOrder => CompletedExact
  <2> SUFFICES ASSUME Orderly, Idle, index # None
               PROVE  /\ index.etags = [i \in DOMAIN file |-> file[i].body]
                      /\ index.size = Total([i \in DOMAIN file |-> BodySize[file[i].body]])
    BY DEF CompletedExact, InOrder
  <2>1. Agrees
    BY DEF Orderly, Idle
  <2> QED BY <2>1 DEF Agrees
<1> QED BY <1>1, AlwaysInOrder, PTL
=============================================================================
