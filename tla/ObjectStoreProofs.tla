------------------------- MODULE ObjectStoreProofs --------------------------
(***************************************************************************)
(* Proofs, for every value of the constants, that the engine keeps its     *)
(* types, and that versions are intact, durable, read consistently and     *)
(* listed only when stored, whatever requests run beside each other,       *)
(* whichever calls fail and wherever the process dies.                     *)
(*                                                                         *)
(* The argument for versions: every id is issued for one body only, so     *)
(* whoever writes "key.v.<id>" or a record of it writes that body          *)
(* (StoredAsIssued, LocalsAsIssued); and only a request that has doomed a  *)
(* version removes a part of it (LocalsOnDisk).                            *)
(***************************************************************************)
EXTENDS ObjectStoreProps, FiniteSetTheorems, TLAPS

-----------------------------------------------------------------------------
(* Control *)

\* What a request holds at a label is one of the kinds of local variables.
LEMMA FitIsLocals ==
    ASSUME NEW label \in Labels, NEW l, LocalsFit(label, l)
    PROVE  l \in Locals
BY DEF Labels, LocalsFit, Locals, PutLabels, KeyLabels, RecLabels, DvLabels,
   CopySrcLabels, CopyDstLabels, BucketLabels

\* A request that moves to a label with fitting local variables keeps control
\* well typed, whatever the other requests are doing.
LEMMA ProceedOK ==
    ASSUME ControlOK, NEW p \in Requests, NEW label \in Labels, NEW l,
           LocalsFit(label, l), Proceed(p, label, l)
    PROVE  ControlOK'
<1>1. l \in Locals
    BY FitIsLocals
<1>2. pc' = [pc EXCEPT ![p] = label] /\ loc' = [loc EXCEPT ![p] = l]
    BY DEF Proceed, Goto
<1>3. (pc \in [Requests -> Labels])' /\ (loc \in [Requests -> Locals])'
    BY <1>1, <1>2 DEF ControlOK
<1>4. ASSUME NEW q \in Requests PROVE LocalsFit(pc[q], loc[q])'
    <2>1. CASE q = p
        <3>1. pc'[q] = label /\ loc'[q] = l
            BY <2>1, <1>2 DEF ControlOK
        <3> QED BY <3>1 DEF LocalsFit
    <2>2. CASE q # p
        <3>1. pc'[q] = pc[q] /\ loc'[q] = loc[q]
            BY <2>2, <1>2 DEF ControlOK
        <3> QED BY <3>1 DEF ControlOK, LocalsFit
    <2> QED BY <2>1, <2>2
<1> QED BY <1>3, <1>4 DEF ControlOK

\* The same for a request that keeps its local variables.
LEMMA GotoOK ==
    ASSUME ControlOK, NEW p \in Requests, NEW label \in Labels,
           LocalsFit(label, loc[p]), Goto(p, label), UNCHANGED loc
    PROVE  ControlOK'
<1>1. pc' = [pc EXCEPT ![p] = label] /\ loc' = loc
    BY DEF Goto
<1>2. (pc \in [Requests -> Labels])' /\ (loc \in [Requests -> Locals])'
    BY <1>1 DEF ControlOK
<1>3. ASSUME NEW q \in Requests PROVE LocalsFit(pc[q], loc[q])'
    <2>1. CASE q = p
        <3>1. pc'[q] = label /\ loc'[q] = loc[p]
            BY <2>1, <1>1 DEF ControlOK
        <3> QED BY <3>1 DEF LocalsFit
    <2>2. CASE q # p
        <3>1. pc'[q] = pc[q] /\ loc'[q] = loc[q]
            BY <2>2, <1>1 DEF ControlOK
        <3> QED BY <3>1 DEF ControlOK, LocalsFit
    <2> QED BY <2>1, <2>2
<1> QED BY <1>2, <1>3 DEF ControlOK

\* A request may end at any point.
LEMMA DoneOK ==
    ASSUME ControlOK, NEW p \in Requests, Done(p)
    PROVE  ControlOK'
<1>1. "idle" \in Labels
    BY DEF Labels
<1>2. LocalsFit("idle", None)
    BY DEF LocalsFit, PutLabels, KeyLabels, RecLabels, DvLabels,
       CopySrcLabels, CopyDstLabels, BucketLabels
<1> QED BY <1>1, <1>2, ProceedOK DEF Done

\* The local variables a request has at the label it is at.
LEMMA LocalTypes ==
    ASSUME ControlOK, NEW p \in Requests
    PROVE  /\ pc[p] \in PutLabels =>
                 /\ loc[p].key \in Keys /\ loc[p].body \in Bodies
                 /\ loc[p].vid \in Slots
                 /\ loc[p].dCount \in Int /\ loc[p].dBytes \in Int
           /\ pc[p] \in {"put_mark", "put_version"} => loc[p].vid # None
           /\ pc[p] \in KeyLabels => loc[p].key \in Keys
           /\ pc[p] \in RecLabels =>
                 loc[p].key \in Keys /\ loc[p].rec \in ObjectRecord
           /\ pc[p] = "get_reply" => loc[p].rec \in ObjectRecord
           /\ pc[p] \in DvLabels =>
                 /\ loc[p].key \in Keys /\ loc[p].vid \in VersionIds
                 /\ loc[p].size \in Nat
           /\ pc[p] \in CopySrcLabels =>
                 /\ loc[p].key \in Keys /\ loc[p].dst \in Keys
                 /\ loc[p].rec \in ObjectRecord
           /\ pc[p] \in CopyDstLabels =>
                 /\ loc[p].dst \in Keys /\ loc[p].etag \in Bodies
                 /\ loc[p].got \in Bodies
           /\ pc[p] \in BucketLabels => loc[p].bucket \in Buckets
           /\ pc[p] = "bucket_write" =>
                 loc[p].bucket \in Buckets /\ loc[p].rec \in BucketRecord
<1> LocalsFit(pc[p], loc[p])
    BY DEF ControlOK
<1> QED
    BY DEF LocalsFit, PutLocals, KeyLocals, RecLocals, ReplyLocals, DvLocals,
       CopySrcLocals, CopyDstLocals, BucketLocals, RewriteLocals

\* Fields of the records.
LEMMA RecordFields ==
    /\ \A r \in ObjectRecord : r.vid \in Slots /\ r.etag \in Bodies
                              /\ r.size \in Nat
    /\ \A r \in VersionRecord : /\ r.kind \in {"data", "marker"} /\ r.size \in Nat
                               /\ r.kind = "data" => r.etag \in Bodies
    /\ \A r \in BucketRecord : /\ r.versioning \in Versioning
                              /\ r.count \in Int /\ r.bytes \in Int
                              /\ r.quota \in Nat \X Nat
BY DEF ObjectRecord, VersionRecord, BucketRecord

\* What the fields of a version record are, for data and for a delete marker.
LEMMA VersionFields ==
    ASSUME NEW r, r \in VersionRecord
    PROVE  /\ r.kind \in {"data", "marker"} /\ r.size \in Nat
           /\ r.kind # "marker" => r.etag \in Bodies
BY DEF VersionRecord

\* The bucket records that the setters and UpdateBucketStats build are well typed.
LEMMA BucketType ==
    ASSUME NEW s \in Versioning, NEW c \in Int, NEW n \in Int,
           NEW q \in Nat \X Nat
    PROVE  Bucket(s, c, n, q) \in BucketRecord
BY DEF Bucket, BucketRecord

\* MarkVersionsNotLatest turns a record into a record and never drops it.
LEMMA NotLatestType ==
    ASSUME NEW r \in VersionRecord
    PROVE  /\ NotLatest(r) \in VersionRecord
           /\ NotLatest(r) # None
           /\ NotLatest(r).kind = r.kind
           /\ NotLatest(r).etag = r.etag
<1>1. r # None
    BY NoneAssumption
<1>2. NotLatest(r) = [kind |-> r.kind, latest |-> FALSE,
                      etag |-> r.etag, size |-> r.size]
    BY <1>1 DEF NotLatest
<1>3. NotLatest(r) \in VersionRecord
    BY <1>2 DEF VersionRecord
<1>4. NotLatest(r).kind = r.kind /\ NotLatest(r).etag = r.etag
    BY <1>2
<1>5. NotLatest(r) # None
    BY <1>3, NoneAssumption
<1> QED BY <1>3, <1>4, <1>5

\* A request that holds an object record.
LEMMA RecOK ==
    ASSUME ControlOK, NEW p \in Requests, NEW label \in RecLabels,
           NEW k \in Keys, NEW r \in ObjectRecord,
           Proceed(p, label, [key |-> k, rec |-> r])
    PROVE  ControlOK'
<1> DEFINE l == [key |-> k, rec |-> r]
<1>1. l \in RecLocals
    BY DEF RecLocals
<1>2. label \in Labels /\ LocalsFit(label, l)
    BY <1>1 DEF LocalsFit, Labels, PutLabels, KeyLabels, RecLabels, DvLabels,
           CopySrcLabels, CopyDstLabels, BucketLabels
<1> HIDE DEF l
<1>3. Proceed(p, label, l)
    BY DEF l
<1> QED BY <1>2, <1>3, ProceedOK

\* computeStatDelta, with the record it found or with None.
LEMMA StatDeltaOK ==
    ASSUME ControlOK, DataOK, NEW p \in Requests, pc[p] = "put_delta",
           NEW old \in ObjectRecord \cup {None}, StatDelta(p, old)
    PROVE  ControlOK'
<1> USE DEF Labels, PutLabels, KeyLabels, RecLabels, DvLabels,
           CopySrcLabels, CopyDstLabels, BucketLabels
<1> DEFINE n == BodySize[loc[p].body]
           enabled == loc[p].vid # None
           overwrite == ~enabled /\ old # None
           dc == IF overwrite THEN 0 ELSE 1
           db == IF overwrite THEN n - old.size ELSE n
           l == [key |-> loc[p].key, body |-> loc[p].body, vid |-> loc[p].vid,
                 dCount |-> dc, dBytes |-> db]
<1>1. /\ loc[p].key \in Keys /\ loc[p].body \in Bodies
      /\ loc[p].vid \in Slots
    BY LocalTypes
<1>2. n \in Nat
    BY <1>1, ConstantsAssumption
<1>3. dc \in Int /\ db \in Int
    BY <1>2, RecordFields
<1>4. Proceed(p, IF enabled THEN "put_mark" ELSE "put_index", l)
    BY DEF StatDelta
<1> HIDE DEF dc, db
<1>5. l \in PutLocals
    BY <1>1, <1>3 DEF PutLocals
<1>6. l.vid = loc[p].vid
    OBVIOUS
<1> HIDE DEF l
<1>7. CASE enabled
    BY <1>4, <1>5, <1>6, <1>7, ProceedOK DEF LocalsFit
<1>8. CASE ~enabled
    BY <1>4, <1>5, <1>8, ProceedOK DEF LocalsFit
<1> QED BY <1>7, <1>8

\* Every step leaves each request at a label with the variables that fit it.
LEMMA ControlStep == TypeOK /\ [Next]_vars => ControlOK'
<1> SUFFICES ASSUME DataOK, ControlOK, [Next]_vars PROVE ControlOK'
    BY DEF TypeOK
<1> USE DEF Labels, PutLabels, KeyLabels, RecLabels, DvLabels,
        CopySrcLabels, CopyDstLabels, BucketLabels
<1>1. ASSUME NEW p \in Requests, putObject(p) PROVE ControlOK'
    <2> PICK k \in Keys, body \in Bodies :
           \E size \in {BodySize[body]} \cup UnknownLength :
              PutObject(p, k, body, size)
        BY <1>1 DEF putObject
    <2>1. CASE Done(p)
        BY <2>1, DoneOK
    <2>2. ASSUME NEW v \in Slots,
                 Proceed(p, "put_write", [key |-> k, body |-> body, vid |-> v,
                                          dCount |-> 0, dBytes |-> 0])
          PROVE  ControlOK'
        <3> DEFINE l == [key |-> k, body |-> body, vid |-> v,
                         dCount |-> 0, dBytes |-> 0]
        <3>1. l \in PutLocals
            BY DEF PutLocals
        <3>2. "put_write" \in Labels /\ LocalsFit("put_write", l)
            BY <3>1 DEF LocalsFit
        <3>3. Proceed(p, "put_write", l)
            BY <2>2
        <3> HIDE DEF l
        <3> QED BY <3>2, <3>3, ProceedOK
    <2> QED BY <2>1, <2>2 DEF PutObject
<1>2. ASSUME NEW p \in Requests, getObject(p) PROVE ControlOK'
    <2>1. ASSUME NEW k \in Keys, GetObject(p, k) PROVE ControlOK'
        <3>1. CASE index[k] = None
            BY <2>1, <3>1, DoneOK DEF GetObject
        <3>2. CASE index[k] # None
            <4>1. Proceed(p, "get_read", [key |-> k, rec |-> index[k]])
                BY <2>1, <3>2 DEF GetObject
            <4>2. index[k] \in ObjectRecord
                BY <3>2 DEF DataOK
            <4> QED BY <4>1, <4>2, RecOK
        <3> QED BY <3>1, <3>2
    <2>2. ASSUME NEW k \in Keys, NEW v \in VersionIds,
                 GetObjectVersion(p, k, v)
          PROVE  ControlOK'
        <3> DEFINE ver == versions[k][v]
                   r == [vid |-> v, etag |-> ver.etag, size |-> ver.size]
        <3>1. CASE ver = None \/ ver.kind = "marker"
            BY <2>2, <3>1, DoneOK DEF GetObjectVersion
        <3>2. CASE ver # None /\ ver.kind # "marker"
            <4>1. Proceed(p, "get_read", [key |-> k, rec |-> r])
                BY <2>2, <3>2 DEF GetObjectVersion
            <4>2. ver \in VersionRecord
                BY <3>2 DEF DataOK
            <4> HIDE DEF ver
            <4>3. ver.etag \in Bodies /\ ver.size \in Nat
                BY <3>2, <4>2, VersionFields
            <4>4. r \in ObjectRecord
                BY <4>3 DEF ObjectRecord, Slots
            <4> HIDE DEF r
            <4> QED BY <4>1, <4>4, RecOK
        <3> QED BY <3>1, <3>2
    <2> QED BY <1>2, <2>1, <2>2 DEF getObject
<1>3. ASSUME NEW p \in Requests, deleteObject(p) PROVE ControlOK'
    <2>1. ASSUME NEW k \in Keys, DeleteObject(p, k) PROVE ControlOK'
        <3>1. CASE buckets[BucketOf[k]] = None
            BY <2>1, <3>1, DoneOK DEF DeleteObject
        <3>2. ASSUME NEW label \in {"del_mark", "del_lookup"},
                     Proceed(p, label, [key |-> k])
              PROVE  ControlOK'
            <4> DEFINE l == [key |-> k]
            <4>1. l \in KeyLocals
                BY DEF KeyLocals
            <4>2. label \in Labels /\ LocalsFit(label, l)
                BY <4>1 DEF LocalsFit
            <4> HIDE DEF l
            <4>3. Proceed(p, label, l)
                BY <3>2 DEF l
            <4> QED BY <4>2, <4>3, ProceedOK
        <3> QED BY <2>1, <3>1, <3>2 DEF DeleteObject
    <2>2. ASSUME NEW k \in Keys, NEW v \in VersionIds,
                 DeleteObjectVersion(p, k, v)
          PROVE  ControlOK'
        <3> DEFINE ver == versions[k][v]
                   l == [key |-> k, vid |-> v, size |-> ver.size]
        <3>1. CASE ver = None
            BY <2>2, <3>1, DoneOK DEF DeleteObjectVersion
        <3>2. CASE ver # None
            <4>1. PICK label \in {"dv_record", "dv_file"} :
                     Proceed(p, label, l)
                BY <2>2, <3>2 DEF DeleteObjectVersion
            <4>2. ver \in VersionRecord
                BY <3>2 DEF DataOK
            <4>3. ver.size \in Nat
                BY <4>2, VersionFields
            <4> HIDE DEF ver
            <4>5. l \in DvLocals
                BY <4>3 DEF DvLocals
            <4>4. label \in Labels /\ LocalsFit(label, l)
                BY <4>5 DEF LocalsFit
            <4> HIDE DEF l
            <4> QED BY <4>1, <4>4, ProceedOK
        <3> QED BY <3>1, <3>2
    <2> QED BY <1>3, <2>1, <2>2 DEF deleteObject
<1>4. ASSUME NEW p \in Requests, copyObject(p) PROVE ControlOK'
    <2> PICK src \in Keys, dst \in Keys : CopyObject(p, src, dst)
        BY <1>4 DEF copyObject
    <2> DEFINE l == [key |-> src, dst |-> dst, rec |-> index[src]]
    <2>1. CASE index[src] = None
        BY <2>1, DoneOK DEF CopyObject
    <2>2. CASE index[src] # None
        <3>1. Proceed(p, "copy_check", l)
            BY <2>2 DEF CopyObject
        <3>2. l \in CopySrcLocals
            BY <2>2 DEF CopySrcLocals, DataOK
        <3>3. "copy_check" \in Labels /\ LocalsFit("copy_check", l)
            BY <3>2 DEF LocalsFit
        <3> HIDE DEF l
        <3> QED BY <3>1, <3>3, ProceedOK
    <2> QED BY <2>1, <2>2
<1>5. ASSUME NEW p \in Requests, putObjectTagging(p) PROVE ControlOK'
    <2> PICK k \in Keys : SetObjectTags(p, k)
        BY <1>5 DEF putObjectTagging
    <2>1. CASE index[k] = None
        BY <2>1, DoneOK DEF SetObjectTags
    <2>2. CASE index[k] # None
        <3>1. Proceed(p, "tag_write", [key |-> k, rec |-> index[k]])
            BY <2>2 DEF SetObjectTags
        <3>2. index[k] \in ObjectRecord
            BY <2>2 DEF DataOK
        <3> QED BY <3>1, <3>2, RecOK
    <2> QED BY <2>1, <2>2
<1>6. ASSUME NEW p \in Requests, putBucketConfig(p) PROVE ControlOK'
    <2> PICK b \in Buckets :
           \/ \E s \in {"enabled", "suspended"} : SetBucketVersioning(p, b, s)
           \/ \E q \in Quotas : SetBucketQuota(p, b, q)
           \/ SetBucketPolicy(p, b)
        BY <1>6 DEF putBucketConfig, putBucketVersioning, putQuota
    <2>1. CASE buckets[b] = None
        BY <2>1, DoneOK DEF SetBucketVersioning, SetBucketQuota,
           SetBucketPolicy
    <2>2. CASE buckets[b] # None
        <3>1. /\ buckets[b] \in BucketRecord
              /\ buckets[b].versioning \in Versioning
              /\ buckets[b].count \in Int /\ buckets[b].bytes \in Int
              /\ buckets[b].quota \in Nat \X Nat
            BY <2>2, RecordFields DEF DataOK
        <3>2. ASSUME NEW rec \in BucketRecord, RewriteBucket(p, b, rec)
              PROVE  ControlOK'
            <4> DEFINE l == [bucket |-> b, rec |-> rec]
            <4>1. l \in RewriteLocals
                BY <3>2 DEF RewriteLocals
            <4>2. "bucket_write" \in Labels /\ LocalsFit("bucket_write", l)
                BY <4>1 DEF LocalsFit
            <4>3. Proceed(p, "bucket_write", l)
                BY <3>2 DEF RewriteBucket
            <4> HIDE DEF l
            <4> QED BY <4>2, <4>3, ProceedOK
        <3>3. ASSUME NEW s \in {"enabled", "suspended"},
                     SetBucketVersioning(p, b, s)
              PROVE  ControlOK'
            BY <2>2, <3>1, <3>2, <3>3, BucketType
               DEF SetBucketVersioning, Versioning
        <3>4. ASSUME NEW q \in Quotas, SetBucketQuota(p, b, q)
              PROVE  ControlOK'
            <4>1. q \in Nat \X Nat
                BY ConstantsAssumption
            <4> QED BY <2>2, <3>1, <3>2, <3>4, <4>1, BucketType
                    DEF SetBucketQuota
        <3>5. CASE SetBucketPolicy(p, b)
            BY <2>2, <3>1, <3>2, <3>5 DEF SetBucketPolicy
        <3> QED BY <3>3, <3>4, <3>5
    <2> QED BY <2>1, <2>2
<1>7. ASSUME NEW p \in Requests, bucketRequest(p) PROVE ControlOK'
    <2> PICK b \in Buckets : CreateBucket(p, b) \/ DeleteBucket(p, b)
        BY <1>7 DEF bucketRequest
    <2>1. ASSUME NEW label \in {"cb_dir", "db_dir"},
                 Proceed(p, label, [bucket |-> b])
          PROVE  ControlOK'
        <3> DEFINE l == [bucket |-> b]
        <3>1. l \in BucketLocals
            BY DEF BucketLocals
        <3>2. label \in Labels /\ LocalsFit(label, l)
            BY <3>1 DEF LocalsFit
        <3> HIDE DEF l
        <3>3. Proceed(p, label, l)
            BY <2>1 DEF l
        <3> QED BY <3>2, <3>3, ProceedOK
    <2> QED BY <2>1, DoneOK DEF CreateBucket, DeleteBucket
<1>8. ASSUME NEW p \in Requests, PutWrite(p) PROVE ControlOK'
    <2>1. "put_delta" \in Labels /\ LocalsFit("put_delta", loc[p])
        BY <1>8 DEF PutWrite, ControlOK, LocalsFit
    <2> QED BY <1>8, <2>1, GotoOK DEF PutWrite
<1>9. ASSUME NEW p \in Requests, computeStatDelta(p) PROVE ControlOK'
    <2>1. pc[p] = "put_delta" /\ StatDelta(p, index[loc[p].key])
        BY <1>9 DEF computeStatDelta
    <2>2. index[loc[p].key] \in ObjectRecord \cup {None}
        BY <2>1, LocalTypes DEF DataOK
    <2> QED BY <2>1, <2>2, StatDeltaOK
<1>10. ASSUME NEW p \in Requests, PutMark(p) PROVE ControlOK'
    <2>1. "put_version" \in Labels /\ LocalsFit("put_version", loc[p])
        BY <1>10 DEF PutMark, ControlOK, LocalsFit
    <2> QED BY <1>10, <2>1, GotoOK DEF PutMark
<1>11. ASSUME NEW p \in Requests, putVersionRecord(p) PROVE ControlOK'
    <2>1. "put_index" \in Labels /\ LocalsFit("put_index", loc[p])
        BY <1>11 DEF putVersionRecord, ControlOK, LocalsFit
    <2> QED BY <1>11, <2>1, GotoOK DEF putVersionRecord
<1>12. ASSUME NEW p \in Requests, PutIndex(p) PROVE ControlOK'
    <2>1. "put_stats" \in Labels /\ LocalsFit("put_stats", loc[p])
        BY <1>12 DEF PutIndex, ControlOK, LocalsFit
    <2> QED BY <1>12, <2>1, GotoOK DEF PutIndex
<1>13. ASSUME NEW p \in Requests, PutStats(p) PROVE ControlOK'
    BY <1>13, DoneOK DEF PutStats, PutReply
<1>14. ASSUME NEW p \in Requests, GetRead(p) PROVE ControlOK'
    <2> DEFINE l == [rec |-> loc[p].rec,
                     got |-> files[loc[p].key][loc[p].rec.vid]]
    <2>1. loc[p].key \in Keys /\ loc[p].rec \in ObjectRecord
        BY <1>14, LocalTypes DEF GetRead
    <2>2. files[loc[p].key][loc[p].rec.vid] \in Bodies \cup {None}
        BY <2>1, RecordFields DEF DataOK
    <2>3. l \in ReplyLocals
        BY <2>1, <2>2 DEF ReplyLocals
    <2>4. "get_reply" \in Labels /\ LocalsFit("get_reply", l)
        BY <2>3 DEF LocalsFit
    <2> HIDE DEF l
    <2>5. Proceed(p, "get_reply", l)
        BY <1>14 DEF GetRead, l
    <2> QED BY <2>4, <2>5, ProceedOK
<1>15. ASSUME NEW p \in Requests, GetReply(p) PROVE ControlOK'
    BY <1>15, DoneOK DEF GetReply
<1>16. ASSUME NEW p \in Requests, DelMark(p) PROVE ControlOK'
    <2>1. "del_marker" \in Labels /\ LocalsFit("del_marker", loc[p])
        BY <1>16 DEF DelMark, ControlOK, LocalsFit
    <2> QED BY <1>16, <2>1, GotoOK DEF DelMark
<1>17. ASSUME NEW p \in Requests, putDeleteMarker(p) PROVE ControlOK'
    <2>1. "del_hide" \in Labels /\ LocalsFit("del_hide", loc[p])
        BY <1>17 DEF putDeleteMarker, ControlOK, LocalsFit
    <2> QED BY <1>17, <2>1, GotoOK DEF putDeleteMarker
<1>18. ASSUME NEW p \in Requests, DelHide(p) PROVE ControlOK'
    BY <1>18, DoneOK DEF DelHide
<1>19. ASSUME NEW p \in Requests, DelLookup(p) PROVE ControlOK'
    <2> DEFINE l == [key |-> loc[p].key, rec |-> index[loc[p].key]]
    <2>1. CASE index[loc[p].key] = None
        BY <1>19, <2>1, DoneOK DEF DelLookup
    <2>2. CASE index[loc[p].key] # None
        <3>1. loc[p].key \in Keys
            BY <1>19, LocalTypes DEF DelLookup
        <3>2. l \in RecLocals
            BY <2>2, <3>1 DEF RecLocals, DataOK
        <3>3. "del_file" \in Labels /\ LocalsFit("del_file", l)
            BY <3>2 DEF LocalsFit
        <3> HIDE DEF l
        <3>4. Proceed(p, "del_file", l)
            BY <1>19, <2>2 DEF DelLookup, l
        <3> QED BY <3>3, <3>4, ProceedOK
    <2> QED BY <2>1, <2>2
<1>20. ASSUME NEW p \in Requests, DelFile(p) PROVE ControlOK'
    <2>1. "del_unindex" \in Labels /\ LocalsFit("del_unindex", loc[p])
        BY <1>20 DEF DelFile, ControlOK, LocalsFit
    <2> QED BY <1>20, <2>1, GotoOK DEF DelFile
<1>21. ASSUME NEW p \in Requests, DelUnindex(p) PROVE ControlOK'
    <2>1. "del_stats" \in Labels /\ LocalsFit("del_stats", loc[p])
        BY <1>21 DEF DelUnindex, ControlOK, LocalsFit
    <2> QED BY <1>21, <2>1, GotoOK DEF DelUnindex
<1>22. ASSUME NEW p \in Requests, DelStats(p) PROVE ControlOK'
    BY <1>22, DoneOK DEF DelStats
<1>23. ASSUME NEW p \in Requests, DvFile(p) PROVE ControlOK'
    <2>1. "dv_stats" \in Labels /\ LocalsFit("dv_stats", loc[p])
        BY <1>23 DEF DvFile, ControlOK, LocalsFit
    <2> QED BY <1>23, <2>1, GotoOK DEF DvFile
<1>24. ASSUME NEW p \in Requests, DvStats(p) PROVE ControlOK'
    <2>1. "dv_record" \in Labels /\ LocalsFit("dv_record", loc[p])
        BY <1>24 DEF DvStats, ControlOK, LocalsFit
    <2> QED BY <1>24, <2>1, GotoOK DEF DvStats
<1>25. ASSUME NEW p \in Requests, DvRecord(p) PROVE ControlOK'
    BY <1>25, DoneOK DEF DvRecord
<1>26. ASSUME NEW p \in Requests, CopyCheck(p) PROVE ControlOK'
    <2>1. "copy_read" \in Labels /\ LocalsFit("copy_read", loc[p])
        BY <1>26 DEF CopyCheck, ControlOK, LocalsFit
    <2> QED BY <1>26, <2>1, GotoOK, DoneOK DEF CopyCheck
<1>27. ASSUME NEW p \in Requests, CopyRead(p) PROVE ControlOK'
    <2> DEFINE body == files[loc[p].key][loc[p].rec.vid]
               l == [dst |-> loc[p].dst, etag |-> loc[p].rec.etag,
                     got |-> body]
    <2>1. CASE body = None
        BY <1>27, <2>1, DoneOK DEF CopyRead
    <2>2. CASE body # None
        <3>1. /\ loc[p].key \in Keys /\ loc[p].dst \in Keys
              /\ loc[p].rec \in ObjectRecord
            BY <1>27, LocalTypes DEF CopyRead
        <3>2. body \in Bodies
            BY <2>2, <3>1, RecordFields DEF DataOK
        <3>3. l \in CopyDstLocals
            BY <3>1, <3>2, RecordFields DEF CopyDstLocals
        <3>4. "copy_write" \in Labels /\ LocalsFit("copy_write", l)
            BY <3>3 DEF LocalsFit
        <3>5. Proceed(p, "copy_write", l)
            BY <1>27, <2>2 DEF CopyRead
        <3> HIDE DEF l
        <3> QED BY <3>4, <3>5, ProceedOK
    <2> QED BY <2>1, <2>2
<1>28. ASSUME NEW p \in Requests, CopyWrite(p) PROVE ControlOK'
    <2>1. "copy_index" \in Labels /\ LocalsFit("copy_index", loc[p])
        BY <1>28 DEF CopyWrite, ControlOK, LocalsFit
    <2> QED BY <1>28, <2>1, GotoOK DEF CopyWrite
<1>29. ASSUME NEW p \in Requests, CopyIndex(p) PROVE ControlOK'
    <2>1. "copy_stats" \in Labels /\ LocalsFit("copy_stats", loc[p])
        BY <1>29 DEF CopyIndex, ControlOK, LocalsFit
    <2> QED BY <1>29, <2>1, GotoOK DEF CopyIndex
<1>30. ASSUME NEW p \in Requests, CopyStats(p) PROVE ControlOK'
    BY <1>30, DoneOK DEF CopyStats
<1>31. ASSUME NEW p \in Requests, TagWrite(p) PROVE ControlOK'
    BY <1>31, DoneOK DEF TagWrite
<1>32. ASSUME NEW p \in Requests, PutBucket(p) PROVE ControlOK'
    BY <1>32, DoneOK DEF PutBucket
<1>33. ASSUME NEW p \in Requests, CreateBucketDir(p) PROVE ControlOK'
    <2>1. "cb_record" \in Labels /\ LocalsFit("cb_record", loc[p])
        BY <1>33 DEF CreateBucketDir, ControlOK, LocalsFit
    <2> QED BY <1>33, <2>1, GotoOK DEF CreateBucketDir
<1>34. ASSUME NEW p \in Requests, CreateBucketRecord(p) PROVE ControlOK'
    BY <1>34, DoneOK DEF CreateBucketRecord
<1>35. ASSUME NEW p \in Requests, DeleteBucketDir(p) PROVE ControlOK'
    <2>1. "db_record" \in Labels /\ LocalsFit("db_record", loc[p])
        BY <1>35 DEF DeleteBucketDir, ControlOK, LocalsFit
    <2> QED BY <1>35, <2>1, GotoOK, DoneOK DEF DeleteBucketDir
<1>36. ASSUME NEW p \in Requests, DeleteBucketRecord(p) PROVE ControlOK'
    BY <1>36, DoneOK DEF DeleteBucketRecord
<1>37. ASSUME NEW p \in Requests, CallFails(p) PROVE ControlOK'
    <2>1. CASE pc[p] = "dv_stats"
        <3>1. "dv_record" \in Labels /\ LocalsFit("dv_record", loc[p])
            BY <2>1 DEF ControlOK, LocalsFit
        <3> QED BY <1>37, <2>1, <3>1, GotoOK DEF CallFails
    <2>2. CASE pc[p] = "get_read"
        <3> DEFINE l == [rec |-> loc[p].rec, got |-> None]
        <3>1. l \in ReplyLocals
            BY <2>2, LocalTypes DEF ReplyLocals
        <3>2. "get_reply" \in Labels /\ LocalsFit("get_reply", l)
            BY <3>1 DEF LocalsFit
        <3>3. Proceed(p, "get_reply", l)
            BY <1>37, <2>2 DEF CallFails
        <3> HIDE DEF l
        <3> QED BY <3>2, <3>3, ProceedOK
    <2>3. CASE pc[p] = "put_delta"
        BY <1>37, <2>3, StatDeltaOK DEF CallFails
    <2>4. CASE pc[p] \notin {"dv_stats", "get_read", "put_delta"}
        BY <1>37, <2>4, DoneOK DEF CallFails, PutReply
    <2> QED BY <2>1, <2>2, <2>3, <2>4
<1>38. CASE Crash
    <2>1. LocalsFit("idle", None) /\ "idle" \in Labels /\ None \in Locals
        BY DEF LocalsFit, Locals
    <2> QED BY <1>38, <2>1 DEF Crash, ControlOK
<1>39. CASE UNCHANGED vars
    BY <1>39 DEF vars, ControlOK, LocalsFit
<1>40. QED
    BY <1>1, <1>2, <1>3, <1>4, <1>5, <1>6, <1>7, <1>8, <1>9, <1>10, <1>11,
       <1>12, <1>13, <1>14, <1>15, <1>16, <1>17, <1>18, <1>19, <1>20, <1>21,
       <1>22, <1>23, <1>24, <1>25, <1>26, <1>27, <1>28, <1>29, <1>30, <1>31,
       <1>32, <1>33, <1>34, <1>35, <1>36, <1>37, <1>38, <1>39
       DEF Next, Request, Step

-----------------------------------------------------------------------------
(* Data *)

\* A file operation keeps the file system well typed.
LEMMA WriteOK ==
    ASSUME DataOK, NEW k \in Keys, NEW slot \in Slots, NEW body \in Bodies,
           Write(k, slot, body)
    PROVE  /\ (files \in [Keys -> [Slots -> Bodies \cup {None}]])'
           /\ (dirs \subseteq Buckets)' /\ (residue \subseteq Keys)'
BY ConstantsAssumption DEF DataOK, Write

\* A backend Delete keeps the types of the disk.
LEMMA DeleteOK ==
    ASSUME DataOK, NEW k \in Keys, NEW slot \in Slots, Delete(k, slot)
    PROVE  /\ (files \in [Keys -> [Slots -> Bodies \cup {None}]])'
           /\ (dirs \subseteq Buckets)' /\ (residue \subseteq Keys)'
BY DEF DataOK, Delete

\* Counters move by integers.
LEMMA StatsOK ==
    ASSUME DataOK, NEW b \in Buckets, NEW dCount \in Int, NEW dBytes \in Int,
           UpdateBucketStats(b, dCount, dBytes)
    PROVE  (buckets \in [Buckets -> BucketRecord \cup {None}])'
<1>1. CASE buckets[b] = None
    BY <1>1 DEF UpdateBucketStats, DataOK
<1>2. CASE buckets[b] # None
    <2> DEFINE r == Bucket(buckets[b].versioning, buckets[b].count + dCount,
                           buckets[b].bytes + dBytes, buckets[b].quota)
    <2>1. buckets[b] \in BucketRecord
        BY <1>2 DEF DataOK
    <2>2. r \in BucketRecord
        BY <2>1, RecordFields, BucketType
    <2>3. buckets' = [buckets EXCEPT ![b] = r]
        BY <1>2 DEF UpdateBucketStats
    <2> HIDE DEF r
    <2> QED BY <2>2, <2>3 DEF DataOK
<1> QED BY <1>1, <1>2

\* MarkVersionsNotLatest keeps the type of the version table.
LEMMA MarkOK ==
    ASSUME DataOK, NEW k \in Keys, MarkVersionsNotLatest(k)
    PROVE  (versions \in [Keys -> [VersionIds -> VersionRecord \cup {None}]])'
<1>1. ASSUME NEW v \in VersionIds
      PROVE  NotLatest(versions[k][v]) \in VersionRecord \cup {None}
    <2>1. versions[k][v] \in VersionRecord \cup {None}
        BY DEF DataOK
    <2>2. CASE versions[k][v] = None
        BY <2>2 DEF NotLatest
    <2>3. CASE versions[k][v] \in VersionRecord
        BY <2>3, NotLatestType
    <2> QED BY <2>1, <2>2, <2>3
<1> QED BY <1>1 DEF DataOK, MarkVersionsNotLatest

\* Every step keeps what is stored, and the history, well typed.
LEMMA DataStep == TypeOK /\ [Next]_vars => DataOK'
<1> SUFFICES ASSUME DataOK, ControlOK, [Next]_vars PROVE DataOK'
    BY DEF TypeOK
<1> USE DEF PutLabels, KeyLabels, RecLabels, DvLabels, CopySrcLabels,
        CopyDstLabels, BucketLabels, meta, disk, bounds, history
<1>1. ASSUME NEW p \in Requests, putObject(p) PROVE DataOK'
    <2>1. PICK k \in Keys, body \in Bodies :
             \E size \in {BodySize[body]} \cup UnknownLength :
                PutObject(p, k, body, size)
        BY <1>1 DEF putObject
    <2>2. ASSUME NEW v \in Slots, NEW s, resolveVersioning(s, body, v)
          PROVE  /\ (usedIds \subseteq VersionIds)'
                 /\ (issued \in [VersionIds -> Bodies \cup {None}])'
        BY <2>2 DEF resolveVersioning, DataOK
    <2>3. /\ (usedIds \subseteq VersionIds)'
          /\ (issued \in [VersionIds -> Bodies \cup {None}])'
        BY <2>1, <2>2 DEF PutObject, DataOK
    <2> QED BY <1>1, <2>3 DEF putObject, Arrive, DataOK
<1>2. ASSUME NEW p \in Requests, getObject(p) PROVE DataOK'
    BY <1>2 DEF getObject, Arrive, DataOK
<1>3. ASSUME NEW p \in Requests, deleteObject(p) PROVE DataOK'
    BY <1>3 DEF deleteObject, Arrive, DataOK
<1>4. ASSUME NEW p \in Requests, copyObject(p) PROVE DataOK'
    BY <1>4 DEF copyObject, Arrive, DataOK
<1>5. ASSUME NEW p \in Requests, putObjectTagging(p) PROVE DataOK'
    BY <1>5 DEF putObjectTagging, Arrive, DataOK
<1>6. ASSUME NEW p \in Requests, putBucketConfig(p) PROVE DataOK'
    BY <1>6 DEF putBucketConfig, Arrive, DataOK
<1>7. ASSUME NEW p \in Requests, bucketRequest(p) PROVE DataOK'
    BY <1>7 DEF bucketRequest, Arrive, DataOK
<1>8. ASSUME NEW p \in Requests, PutWrite(p) PROVE DataOK'
    BY <1>8, WriteOK, LocalTypes DEF PutWrite, DataOK
<1>9. ASSUME NEW p \in Requests, computeStatDelta(p) PROVE DataOK'
    BY <1>9 DEF computeStatDelta, DataOK
<1>10. ASSUME NEW p \in Requests, PutMark(p) PROVE DataOK'
    BY <1>10, MarkOK, LocalTypes DEF PutMark, DataOK
<1>11. ASSUME NEW p \in Requests, putVersionRecord(p) PROVE DataOK'
    <2> DEFINE r == [kind |-> "data", latest |-> TRUE, etag |-> loc[p].body,
                     size |-> BodySize[loc[p].body]]
    <2>1. loc[p].key \in Keys /\ loc[p].vid \in VersionIds
        BY <1>11, LocalTypes DEF putVersionRecord, Slots
    <2>2. loc[p].body \in Bodies /\ BodySize[loc[p].body] \in Nat
        BY <1>11, LocalTypes, ConstantsAssumption DEF putVersionRecord
    <2>3. r \in VersionRecord
        BY <2>2 DEF VersionRecord
    <2>4. versions' = [versions EXCEPT ![loc[p].key][loc[p].vid] = r]
        BY <1>11 DEF putVersionRecord
    <2> HIDE DEF r
    <2>5. (versions \in [Keys -> [VersionIds -> VersionRecord \cup {None}]])'
        BY <2>1, <2>3, <2>4 DEF DataOK
    <2> QED BY <1>11, <2>5 DEF putVersionRecord, DataOK
<1>12. ASSUME NEW p \in Requests, PutIndex(p) PROVE DataOK'
    <2> DEFINE r == [vid |-> loc[p].vid, etag |-> loc[p].body,
                     size |-> BodySize[loc[p].body]]
    <2>1. /\ loc[p].key \in Keys /\ loc[p].body \in Bodies
          /\ loc[p].vid \in Slots
        BY <1>12, LocalTypes DEF PutIndex
    <2>2. r \in ObjectRecord
        BY <2>1, ConstantsAssumption DEF ObjectRecord
    <2>3. index' = [index EXCEPT ![loc[p].key] = r]
        BY <1>12 DEF PutIndex
    <2> HIDE DEF r
    <2>4. (index \in [Keys -> ObjectRecord \cup {None}])'
        BY <2>1, <2>2, <2>3 DEF DataOK
    <2> QED BY <1>12, <2>4 DEF PutIndex, DataOK
<1>13. ASSUME NEW p \in Requests, PutStats(p) PROVE DataOK'
    <2>1. /\ loc[p].key \in Keys /\ loc[p].vid \in Slots
          /\ loc[p].dCount \in Int /\ loc[p].dBytes \in Int
        BY <1>13, LocalTypes DEF PutStats
    <2>2. (buckets \in [Buckets -> BucketRecord \cup {None}])'
        BY <1>13, <2>1, StatsOK, ConstantsAssumption DEF PutStats
    <2>3. (acked \subseteq Keys \X VersionIds)'
        BY <1>13, <2>1 DEF PutStats, PutReply, Slots, DataOK
    <2> QED BY <1>13, <2>2, <2>3 DEF PutStats, PutReply, DataOK
<1>14. ASSUME NEW p \in Requests, GetRead(p) PROVE DataOK'
    BY <1>14 DEF GetRead, DataOK
<1>15. ASSUME NEW p \in Requests, GetReply(p) PROVE DataOK'
    BY <1>15 DEF GetReply, DataOK
<1>16. ASSUME NEW p \in Requests, DelMark(p) PROVE DataOK'
    BY <1>16, MarkOK, LocalTypes DEF DelMark, DataOK
<1>17. ASSUME NEW p \in Requests, putDeleteMarker(p) PROVE DataOK'
    <2> DEFINE r == [kind |-> "marker", latest |-> TRUE, etag |-> None,
                     size |-> 0]
    <2>1. loc[p].key \in Keys
        BY <1>17, LocalTypes DEF putDeleteMarker
    <2>2. r \in VersionRecord
        BY DEF VersionRecord
    <2>3. PICK v \in VersionIds :
             /\ usedIds' = usedIds \cup {v}
             /\ versions' = [versions EXCEPT ![loc[p].key][v] = r]
        BY <1>17 DEF putDeleteMarker
    <2> HIDE DEF r
    <2>4. (versions \in [Keys -> [VersionIds -> VersionRecord \cup {None}]])'
        BY <2>1, <2>2, <2>3 DEF DataOK
    <2> QED BY <1>17, <2>3, <2>4 DEF putDeleteMarker, DataOK
<1>18. ASSUME NEW p \in Requests, DelHide(p) PROVE DataOK'
    BY <1>18, LocalTypes DEF DelHide, DataOK
<1>19. ASSUME NEW p \in Requests, DelLookup(p) PROVE DataOK'
    <2>1. loc[p].key \in Keys
        BY <1>19, LocalTypes DEF DelLookup
    <2>2. CASE index[loc[p].key] = None
        BY <1>19, <2>2 DEF DelLookup, DataOK
    <2>3. CASE index[loc[p].key] # None
        <3>1. index[loc[p].key].vid \in Slots
            BY <2>1, <2>3, RecordFields DEF DataOK
        <3>2. (doomed \subseteq Keys \X VersionIds)'
            BY <1>19, <2>1, <2>3, <3>1 DEF DelLookup, Slots, DataOK
        <3> QED BY <1>19, <3>2 DEF DelLookup, DataOK
    <2> QED BY <2>2, <2>3
<1>20. ASSUME NEW p \in Requests, DelFile(p) PROVE DataOK'
    <2>1. loc[p].key \in Keys /\ loc[p].rec.vid \in Slots
        BY <1>20, LocalTypes, RecordFields DEF DelFile
    <2> QED BY <1>20, <2>1, DeleteOK DEF DelFile, DataOK
<1>21. ASSUME NEW p \in Requests, DelUnindex(p) PROVE DataOK'
    BY <1>21, LocalTypes DEF DelUnindex, DataOK
<1>22. ASSUME NEW p \in Requests, DelStats(p) PROVE DataOK'
    <2>1. /\ BucketOf[loc[p].key] \in Buckets
          /\ -1 \in Int /\ -loc[p].rec.size \in Int
        BY <1>22, LocalTypes, RecordFields, ConstantsAssumption DEF DelStats
    <2>2. UpdateBucketStats(BucketOf[loc[p].key], -1, -loc[p].rec.size)
        BY <1>22 DEF DelStats
    <2>3. (buckets \in [Buckets -> BucketRecord \cup {None}])'
        BY <2>1, <2>2, StatsOK
    <2> QED BY <1>22, <2>3 DEF DelStats, DataOK
<1>23. ASSUME NEW p \in Requests, DvFile(p) PROVE DataOK'
    <2>1. loc[p].key \in Keys /\ loc[p].vid \in Slots
        BY <1>23, LocalTypes DEF DvFile, Slots
    <2> QED BY <1>23, <2>1, DeleteOK DEF DvFile, DataOK
<1>24. ASSUME NEW p \in Requests, DvStats(p) PROVE DataOK'
    <2>1. /\ BucketOf[loc[p].key] \in Buckets
          /\ -1 \in Int /\ -loc[p].size \in Int
        BY <1>24, LocalTypes, RecordFields, ConstantsAssumption DEF DvStats
    <2>2. UpdateBucketStats(BucketOf[loc[p].key], -1, -loc[p].size)
        BY <1>24 DEF DvStats
    <2>3. (buckets \in [Buckets -> BucketRecord \cup {None}])'
        BY <2>1, <2>2, StatsOK
    <2> QED BY <1>24, <2>3 DEF DvStats, DataOK
<1>25. ASSUME NEW p \in Requests, DvRecord(p) PROVE DataOK'
    BY <1>25, LocalTypes DEF DvRecord, DataOK
<1>26. ASSUME NEW p \in Requests, CopyCheck(p) PROVE DataOK'
    BY <1>26 DEF CopyCheck, DataOK
<1>27. ASSUME NEW p \in Requests, CopyRead(p) PROVE DataOK'
    BY <1>27 DEF CopyRead, DataOK
<1>28. ASSUME NEW p \in Requests, CopyWrite(p) PROVE DataOK'
    <2>1. None \in Slots
        BY DEF Slots
    <2> QED BY <1>28, <2>1, WriteOK, LocalTypes DEF CopyWrite, DataOK
<1>29. ASSUME NEW p \in Requests, CopyIndex(p) PROVE DataOK'
    <2> DEFINE r == [vid |-> None, etag |-> loc[p].etag,
                     size |-> BodySize[loc[p].got]]
    <2>1. /\ loc[p].dst \in Keys /\ loc[p].etag \in Bodies
          /\ loc[p].got \in Bodies
        BY <1>29, LocalTypes DEF CopyIndex
    <2>2. r \in ObjectRecord
        BY <2>1, ConstantsAssumption DEF ObjectRecord, Slots
    <2>3. index' = [index EXCEPT ![loc[p].dst] = r]
        BY <1>29 DEF CopyIndex
    <2> HIDE DEF r
    <2>4. (index \in [Keys -> ObjectRecord \cup {None}])'
        BY <2>1, <2>2, <2>3 DEF DataOK
    <2> QED BY <1>29, <2>4 DEF CopyIndex, DataOK
<1>30. ASSUME NEW p \in Requests, CopyStats(p) PROVE DataOK'
    <2>1. /\ BucketOf[loc[p].dst] \in Buckets
          /\ 1 \in Int /\ BodySize[loc[p].got] \in Int
        BY <1>30, LocalTypes, RecordFields, ConstantsAssumption DEF CopyStats
    <2>2. UpdateBucketStats(BucketOf[loc[p].dst], 1, BodySize[loc[p].got])
        BY <1>30 DEF CopyStats
    <2>3. (buckets \in [Buckets -> BucketRecord \cup {None}])'
        BY <2>1, <2>2, StatsOK
    <2> QED BY <1>30, <2>3 DEF CopyStats, DataOK
<1>31. ASSUME NEW p \in Requests, TagWrite(p) PROVE DataOK'
    BY <1>31, LocalTypes DEF TagWrite, DataOK
<1>32. ASSUME NEW p \in Requests, PutBucket(p) PROVE DataOK'
    BY <1>32, LocalTypes DEF PutBucket, DataOK
<1>33. ASSUME NEW p \in Requests, CreateBucketDir(p) PROVE DataOK'
    BY <1>33, LocalTypes DEF CreateBucketDir, DataOK
<1>34. ASSUME NEW p \in Requests, CreateBucketRecord(p) PROVE DataOK'
    <2>1. NewBucket \in BucketRecord
        BY BucketType DEF NewBucket, Versioning
    <2> QED BY <1>34, <2>1, LocalTypes DEF CreateBucketRecord, DataOK
<1>35. ASSUME NEW p \in Requests, DeleteBucketDir(p) PROVE DataOK'
    BY <1>35, LocalTypes DEF DeleteBucketDir, DataOK
<1>36. ASSUME NEW p \in Requests, DeleteBucketRecord(p) PROVE DataOK'
    BY <1>36, LocalTypes DEF DeleteBucketRecord, DataOK
<1>37. ASSUME NEW p \in Requests, CallFails(p) PROVE DataOK'
    <2>1. CASE pc[p] = "put_stats"
        <3>1. loc[p].key \in Keys /\ loc[p].vid \in Slots
            BY <2>1, LocalTypes
        <3>2. (acked \subseteq Keys \X VersionIds)'
            BY <1>37, <2>1, <3>1 DEF CallFails, PutReply, Slots, DataOK
        <3> QED BY <1>37, <3>2 DEF CallFails, DataOK
    <2>2. CASE pc[p] # "put_stats"
        BY <1>37, <2>2 DEF CallFails, DataOK
    <2> QED BY <2>1, <2>2
<1>38. CASE Crash
    BY <1>38 DEF Crash, DataOK
<1>39. CASE UNCHANGED vars
    BY <1>39 DEF vars, DataOK
<1>40. QED
    BY <1>1, <1>2, <1>3, <1>4, <1>5, <1>6, <1>7, <1>8, <1>9, <1>10, <1>11,
       <1>12, <1>13, <1>14, <1>15, <1>16, <1>17, <1>18, <1>19, <1>20, <1>21,
       <1>22, <1>23, <1>24, <1>25, <1>26, <1>27, <1>28, <1>29, <1>30, <1>31,
       <1>32, <1>33, <1>34, <1>35, <1>36, <1>37, <1>38, <1>39
       DEF Next, Request, Step

\* The initial state is well typed.
LEMMA InitType == Init => TypeOK
<1> SUFFICES ASSUME Init PROVE TypeOK
    OBVIOUS
<1>1. PICK s \in InitVersioning, q \in Quotas, present \in SUBSET Buckets :
         /\ buckets = [b \in Buckets |->
               IF b \in present THEN Bucket(s, 0, 0, q) ELSE None]
         /\ dirs = present
    BY DEF Init
<1>2. Bucket(s, 0, 0, q) \in BucketRecord
    BY ConstantsAssumption, BucketType
<1>3. DataOK
    BY <1>1, <1>2 DEF Init, DataOK
<1>4. LocalsFit("idle", None) /\ "idle" \in Labels /\ None \in Locals
    BY DEF LocalsFit, Locals, Labels, PutLabels, KeyLabels, RecLabels,
       DvLabels, CopySrcLabels, CopyDstLabels, BucketLabels
<1>5. ControlOK
    BY <1>4 DEF Init, ControlOK
<1> QED BY <1>3, <1>5 DEF TypeOK

\* The metadata store, the files and every request in flight stay well typed:
\* no handler reaches a call without the record it dereferences there.
THEOREM TypeCorrect == Spec => []TypeOK
<1>1. TypeOK /\ [Next]_vars => TypeOK'
    BY ControlStep, DataStep DEF TypeOK
<1> QED BY <1>1, InitType, PTL DEF Spec


-----------------------------------------------------------------------------
(* What one step leaves alone *)

\* A step forgets no issued body and takes nothing from a version that is not
\* doomed.
StepKeeps ==
    /\ doomed \subseteq doomed'
    /\ \A v \in VersionIds : issued[v] # None => issued'[v] = issued[v]
    /\ \A k \in Keys, v \in VersionIds :
          <<k, v>> \notin doomed' =>
             /\ files[k][v] # None => files'[k][v] = files[k][v]
             /\ IsData(versions[k][v]) =>
                   /\ IsData(versions'[k][v])
                   /\ versions'[k][v].etag = versions[k][v].etag

\* A request that does not move keeps what it relies on.
LEMMA OthersKept ==
    ASSUME TypeOK, StepKeeps, NEW q \in Requests,
           LocalsAsIssued(q), LocalsOnDisk(q), pc'[q] = pc[q], loc'[q] = loc[q]
    PROVE  LocalsAsIssued(q)' /\ LocalsOnDisk(q)'
<1> USE DEF PutLabels, RecLabels, DvLabels, CopySrcLabels
<1>1. ControlOK
    BY DEF TypeOK
<1>2. ASSUME NEW r \in ObjectRecord, RecAsIssued(r)
      PROVE  r.vid # None => r.etag = issued'[r.vid]
    <2>1. r.vid \in Slots /\ r.etag \in Bodies
        BY RecordFields
    <2> QED BY <1>2, <2>1, NoneAssumption DEF RecAsIssued, StepKeeps, Slots
<1>3. pc[q] \in RecLabels \cup CopySrcLabels \cup {"get_reply"}
        => (loc[q].rec.vid # None => loc[q].rec.etag = issued'[loc[q].rec.vid])
    BY <1>1, <1>2, LocalTypes DEF LocalsAsIssued
<1>4. pc[q] \in PutLabels /\ loc[q].vid # None
        => loc[q].body = issued'[loc[q].vid]
    <2>1. SUFFICES ASSUME pc[q] \in PutLabels, loc[q].vid # None
                   PROVE  loc[q].body = issued'[loc[q].vid]
        OBVIOUS
    <2>2. loc[q].body \in Bodies /\ loc[q].vid \in VersionIds
        BY <1>1, <2>1, LocalTypes DEF Slots
    <2> QED BY <2>1, <2>2, NoneAssumption DEF LocalsAsIssued, StepKeeps
<1>5. LocalsAsIssued(q)'
    BY <1>3, <1>4 DEF LocalsAsIssued, RecAsIssued
<1>6. ASSUME pc[q] \in PutLabels \ {"put_write"}, loc[q].vid # None,
             <<loc[q].key, loc[q].vid>> \notin doomed'
      PROVE  /\ files'[loc[q].key][loc[q].vid] = loc[q].body
             /\ pc[q] \in {"put_index", "put_stats"}
                   => IsData(versions'[loc[q].key][loc[q].vid])
    <2>1. /\ loc[q].key \in Keys /\ loc[q].body \in Bodies
          /\ loc[q].vid \in VersionIds
        BY <1>1, <1>6, LocalTypes DEF Slots
    <2>2. <<loc[q].key, loc[q].vid>> \notin doomed
        BY <1>6 DEF StepKeeps
    <2> QED BY <1>6, <2>1, <2>2, NoneAssumption DEF LocalsOnDisk, StepKeeps
<1>7. LocalsOnDisk(q)'
    BY <1>6 DEF LocalsOnDisk, StepKeeps
<1> QED BY <1>5, <1>7

\* Acknowledged versions stay, and one more may be acknowledged.
LEMMA AckedKept ==
    ASSUME TypeOK, StepKeeps, AckedVersionsDurable,
           NEW new \in SUBSET (Keys \X VersionIds),
           \A kv \in new \ doomed :
              /\ IsData(versions[kv[1]][kv[2]])
              /\ files[kv[1]][kv[2]] = versions[kv[1]][kv[2]].etag,
           acked' = acked \cup new
    PROVE  AckedVersionsDurable'
<1> SUFFICES ASSUME NEW kv \in acked' \ doomed'
             PROVE  /\ IsData(versions'[kv[1]][kv[2]])
                    /\ files'[kv[1]][kv[2]] = versions'[kv[1]][kv[2]].etag
    BY DEF AckedVersionsDurable, IsData
<1>1. PICK k \in Keys, v \in VersionIds : kv = <<k, v>>
    BY DEF TypeOK, DataOK
<1>2. <<k, v>> \notin doomed' /\ <<k, v>> \notin doomed
    BY <1>1 DEF StepKeeps
<1>3. IsData(versions[k][v]) /\ files[k][v] = versions[k][v].etag
    BY <1>1, <1>2 DEF AckedVersionsDurable, IsData
<1>4. versions[k][v] \in VersionRecord
    BY <1>3 DEF TypeOK, DataOK, IsData
<1>5. versions[k][v].etag # None
    BY <1>3, <1>4, VersionFields, NoneAssumption DEF IsData
<1> QED BY <1>1, <1>2, <1>3, <1>5 DEF StepKeeps

\* A step that acknowledges nothing keeps the acknowledged versions durable.
LEMMA AckedSame ==
    ASSUME TypeOK, StepKeeps, AckedVersionsDurable, UNCHANGED acked
    PROVE  AckedVersionsDurable'
<1> DEFINE new == {}
<1>1. /\ new \in SUBSET (Keys \X VersionIds) /\ acked' = acked \cup new
      /\ \A kv \in new \ doomed :
            /\ IsData(versions[kv[1]][kv[2]])
            /\ files[kv[1]][kv[2]] = versions[kv[1]][kv[2]].etag
    OBVIOUS
<1> HIDE DEF new
<1> QED BY <1>1, AckedKept

\* The step of one request preserves the invariant if it keeps what is stored
\* and its own new local variables are safe.
LEMMA RequestStep ==
    ASSUME TypeOK, VersionInv, NEW p \in Requests,
           \A q \in Requests \ {p} : pc'[q] = pc[q] /\ loc'[q] = loc[q],
           StepKeeps, IssuedFirst', StoredAsIssued', AckedVersionsDurable',
           LocalsAsIssued(p)', LocalsOnDisk(p)'
    PROVE  VersionInv'
<1>1. ASSUME NEW q \in Requests PROVE LocalsAsIssued(q)' /\ LocalsOnDisk(q)'
    BY OthersKept DEF VersionInv, LocalsSafe
<1> QED BY <1>1 DEF VersionInv, LocalsSafe

\* Where a request goes, and that the others stay where they are.
LEMMA ProceedEffect ==
    ASSUME TypeOK, NEW p \in Requests, NEW label, NEW l, Proceed(p, label, l)
    PROVE  /\ pc'[p] = label /\ loc'[p] = l
           /\ \A q \in Requests \ {p} : pc'[q] = pc[q] /\ loc'[q] = loc[q]
BY DEF TypeOK, ControlOK, Proceed, Goto

\* Going on to another call moves one request and leaves all local variables.
LEMMA GotoEffect ==
    ASSUME TypeOK, NEW p \in Requests, NEW label, Goto(p, label),
           UNCHANGED loc
    PROVE  /\ pc'[p] = label /\ loc'[p] = loc[p]
           /\ \A q \in Requests \ {p} : pc'[q] = pc[q] /\ loc'[q] = loc[q]
BY DEF TypeOK, ControlOK, Goto

\* A request that has ended relies on nothing.
LEMMA IdleSafe ==
    ASSUME NEW p \in Requests, pc'[p] = "idle"
    PROVE  LocalsAsIssued(p)' /\ LocalsOnDisk(p)'
BY DEF LocalsAsIssued, LocalsOnDisk, PutLabels, RecLabels, DvLabels,
   CopySrcLabels

\* A request at a label that reads no object record and stores no version.
LEMMA OtherLabelSafe ==
    ASSUME NEW p \in Requests,
           pc'[p] \in KeyLabels \cup CopyDstLabels \cup BucketLabels
                       \cup {"bucket_write"}
    PROVE  LocalsAsIssued(p)' /\ LocalsOnDisk(p)'
BY DEF LocalsAsIssued, LocalsOnDisk, PutLabels, RecLabels, DvLabels,
   CopySrcLabels, KeyLabels, CopyDstLabels, BucketLabels

\* A step that touches no file, version, record or id keeps them.
LEMMA QuietStep ==
    ASSUME TypeOK, VersionInv, UNCHANGED <<files, versions, index, usedIds, issued>>,
           doomed \subseteq doomed'
    PROVE  /\ StepKeeps /\ IssuedFirst' /\ StoredAsIssued'
           /\ UNCHANGED acked => AckedVersionsDurable'
<1>1. StepKeeps
    BY DEF StepKeeps
<1>2. IssuedFirst' /\ StoredAsIssued'
    BY DEF VersionInv, IssuedFirst, StoredAsIssued, RecAsIssued, IsData
<1>3. UNCHANGED acked => AckedVersionsDurable'
    BY <1>1, AckedSame DEF VersionInv
<1> QED BY <1>1, <1>2, <1>3

\* A step that stores an object record of an issued body, or removes one.
LEMMA IndexStep ==
    ASSUME TypeOK, VersionInv, NEW k \in Keys,
           NEW r \in ObjectRecord \cup {None}, r # None => RecAsIssued(r),
           index' = [index EXCEPT ![k] = r],
           UNCHANGED <<files, versions, usedIds, issued, acked, doomed>>
    PROVE  /\ StepKeeps /\ IssuedFirst' /\ StoredAsIssued'
           /\ AckedVersionsDurable'
<1>1. StepKeeps
    BY DEF StepKeeps
<1>2. ASSUME NEW j \in Keys, index'[j] # None PROVE RecAsIssued(index'[j])
    BY <1>2 DEF VersionInv, StoredAsIssued, TypeOK, DataOK
<1>3. IssuedFirst' /\ StoredAsIssued'
    BY <1>2 DEF VersionInv, IssuedFirst, StoredAsIssued, RecAsIssued, IsData
<1>4. AckedVersionsDurable'
    BY <1>1, AckedSame DEF VersionInv
<1> QED BY <1>1, <1>3, <1>4

\* A step that changes files keeps the invariant if what it does to the file
\* of a version is to write the issued body or to delete a doomed version.
LEMMA FileStep ==
    ASSUME TypeOK, VersionInv,
           UNCHANGED <<versions, index, usedIds, issued, acked, doomed>>,
           \A k \in Keys, v \in VersionIds :
              \/ files'[k][v] \in {files[k][v], issued[v]}
              \/ files'[k][v] = None /\ <<k, v>> \in doomed
    PROVE  /\ StepKeeps /\ IssuedFirst' /\ StoredAsIssued'
           /\ AckedVersionsDurable'
<1>1. StepKeeps
    BY DEF StepKeeps, VersionInv, StoredAsIssued
<1>2. IssuedFirst' /\ StoredAsIssued'
    BY DEF VersionInv, IssuedFirst, StoredAsIssued, RecAsIssued, IsData
<1>3. AckedVersionsDurable'
    BY <1>1, AckedSame DEF VersionInv
<1> QED BY <1>1, <1>2, <1>3

\* A step that changes version records keeps the invariant if a data record
\* it leaves has the issued body and one it removes was doomed.
LEMMA VersionStep ==
    ASSUME TypeOK, VersionInv,
           UNCHANGED <<files, index, issued, acked, doomed>>,
           usedIds \subseteq usedIds',
           \A k \in Keys, v \in VersionIds :
              /\ IsData(versions'[k][v]) => versions'[k][v].etag = issued[v]
              /\ IsData(versions[k][v]) =>
                    IsData(versions'[k][v]) \/ <<k, v>> \in doomed
    PROVE  /\ StepKeeps /\ IssuedFirst' /\ StoredAsIssued'
           /\ AckedVersionsDurable'
<1>1. StepKeeps
    BY DEF StepKeeps, VersionInv, StoredAsIssued
<1>2. IssuedFirst' /\ StoredAsIssued'
    BY DEF VersionInv, IssuedFirst, StoredAsIssued, RecAsIssued, IsData
<1>3. AckedVersionsDurable'
    BY <1>1, AckedSame DEF VersionInv
<1> QED BY <1>1, <1>2, <1>3

\* MarkVersionsNotLatest changes nothing but the flag.
LEMMA MarkStep ==
    ASSUME TypeOK, VersionInv, NEW k \in Keys, MarkVersionsNotLatest(k),
           UNCHANGED <<files, index, issued, acked, doomed, usedIds>>
    PROVE  /\ StepKeeps /\ IssuedFirst' /\ StoredAsIssued'
           /\ AckedVersionsDurable'
           /\ \A j \in Keys, v \in VersionIds :
                 IsData(versions[j][v]) => IsData(versions'[j][v])
<1>1. ASSUME NEW j \in Keys, NEW v \in VersionIds
      PROVE  /\ IsData(versions'[j][v]) <=> IsData(versions[j][v])
             /\ IsData(versions[j][v]) =>
                   versions'[j][v].etag = versions[j][v].etag
    <2>1. CASE j # k
        BY <2>1 DEF MarkVersionsNotLatest, TypeOK, DataOK
    <2>2. CASE j = k
        <3>1. versions'[j][v] = NotLatest(versions[j][v])
            BY <2>2 DEF MarkVersionsNotLatest, TypeOK, DataOK
        <3>2. CASE versions[j][v] = None
            BY <3>1, <3>2 DEF NotLatest, IsData
        <3>3. CASE versions[j][v] # None
            <4>1. versions[j][v] \in VersionRecord
                BY <3>3 DEF TypeOK, DataOK
            <4> QED BY <3>1, <3>3, <4>1, NotLatestType DEF IsData
        <3> QED BY <3>2, <3>3
    <2> QED BY <2>1, <2>2
<1>2. \A j \in Keys, v \in VersionIds :
        IsData(versions'[j][v]) => versions'[j][v].etag = issued[v]
    BY <1>1 DEF VersionInv, StoredAsIssued
<1> QED BY <1>1, <1>2, VersionStep

-----------------------------------------------------------------------------
(* Every step preserves the invariant *)

\* Issuing a fresh id disturbs no record of an issued body.
LEMMA AsIssuedKept ==
    ASSUME TypeOK, VersionInv, UNCHANGED <<files, versions, index>>,
           \A w \in VersionIds : issued[w] # None => issued'[w] = issued[w]
    PROVE  StoredAsIssued'
<1> SUFFICES ASSUME NEW k \in Keys
             PROVE  /\ \A v \in VersionIds :
                          /\ files[k][v] \in {None, issued'[v]}
                          /\ IsData(versions[k][v]) =>
                                versions[k][v].etag = issued'[v]
                    /\ index[k] # None /\ index[k].vid # None =>
                          index[k].etag = issued'[index[k].vid]
    BY DEF StoredAsIssued, RecAsIssued, IsData
<1>1. ASSUME NEW v \in VersionIds PROVE files[k][v] \in {None, issued'[v]}
    BY DEF VersionInv, StoredAsIssued
<1>2. ASSUME NEW v \in VersionIds, IsData(versions[k][v])
      PROVE  versions[k][v].etag = issued'[v]
    <2>1. versions[k][v] \in VersionRecord
        BY <1>2 DEF IsData, TypeOK, DataOK
    <2>2. versions[k][v].etag # None
        BY <1>2, <2>1, VersionFields, NoneAssumption DEF IsData
    <2> QED BY <1>2, <2>2 DEF VersionInv, StoredAsIssued
<1>3. ASSUME index[k] # None, index[k].vid # None
      PROVE  index[k].etag = issued'[index[k].vid]
    <2>1. index[k].vid \in VersionIds /\ index[k].etag # None
        BY <1>3, RecordFields, NoneAssumption DEF TypeOK, DataOK, Slots
    <2> QED BY <1>3, <2>1 DEF VersionInv, StoredAsIssued, RecAsIssued
<1> QED BY <1>1, <1>2, <1>3

\* Computing the delta changes neither the key, the body nor the id.
LEMMA StatDeltaSafe ==
    ASSUME TypeOK, VersionInv, NEW p \in Requests, pc[p] = "put_delta",
           \E old : StatDelta(p, old), UNCHANGED <<files, issued, doomed>>
    PROVE  /\ LocalsAsIssued(p)' /\ LocalsOnDisk(p)'
           /\ \A q \in Requests \ {p} : pc'[q] = pc[q] /\ loc'[q] = loc[q]
<1>1. PICK old : StatDelta(p, old)
    OBVIOUS
<1>2. /\ pc'[p] = IF loc[p].vid # None THEN "put_mark" ELSE "put_index"
      /\ loc'[p].key = loc[p].key /\ loc'[p].body = loc[p].body
      /\ loc'[p].vid = loc[p].vid
      /\ \A q \in Requests \ {p} : pc'[q] = pc[q] /\ loc'[q] = loc[q]
    BY <1>1, ProceedEffect DEF StatDelta
<1>3. LocalsAsIssued(p)' /\ LocalsOnDisk(p)'
    BY <1>2 DEF VersionInv, LocalsSafe, LocalsAsIssued, LocalsOnDisk,
       PutLabels, RecLabels, DvLabels, CopySrcLabels
<1> QED BY <1>2, <1>3

\* PutObject answers 200 only once the file and the records are in place.
LEMMA ReplySafe ==
    ASSUME TypeOK, VersionInv, NEW p \in Requests, pc[p] = "put_stats",
           PutReply(p)
    PROVE  VersionInv'
<1> DEFINE new == IF loc[p].vid = None THEN {} ELSE {<<loc[p].key, loc[p].vid>>}
<1>1. /\ loc[p].key \in Keys /\ loc[p].vid \in Slots
      /\ loc[p].body \in Bodies
    BY LocalTypes DEF TypeOK, PutLabels
<1>2. UNCHANGED <<files, versions, index, usedIds, issued, doomed>>
    BY DEF PutReply, disk
<1>3. StepKeeps /\ IssuedFirst' /\ StoredAsIssued'
    BY <1>2, QuietStep
<1>4. new \in SUBSET (Keys \X VersionIds) /\ acked' = acked \cup new
    BY <1>1 DEF PutReply, Slots
<1>5. ASSUME NEW kv \in new \ doomed
      PROVE  /\ IsData(versions[kv[1]][kv[2]])
             /\ files[kv[1]][kv[2]] = versions[kv[1]][kv[2]].etag
    <2>1. /\ loc[p].vid # None /\ kv = <<loc[p].key, loc[p].vid>>
          /\ loc[p].vid \in VersionIds
        BY <1>1, <1>5 DEF Slots
    <2>2. /\ IsData(versions[loc[p].key][loc[p].vid])
          /\ files[loc[p].key][loc[p].vid] = loc[p].body
          /\ loc[p].body = issued[loc[p].vid]
        BY <1>5, <2>1 DEF VersionInv, LocalsSafe, LocalsOnDisk,
           LocalsAsIssued, PutLabels
    <2>3. versions[loc[p].key][loc[p].vid].etag = issued[loc[p].vid]
        BY <1>1, <2>1, <2>2 DEF VersionInv, StoredAsIssued
    <2> QED BY <2>1, <2>2, <2>3
<1> HIDE DEF new
<1>6. AckedVersionsDurable'
    BY <1>3, <1>4, <1>5, AckedKept DEF VersionInv
<1>7. pc'[p] = "idle"
      /\ \A q \in Requests \ {p} : pc'[q] = pc[q] /\ loc'[q] = loc[q]
    BY ProceedEffect DEF PutReply, Done
<1> QED BY <1>3, <1>6, <1>7, IdleSafe, RequestStep

\* Every step of the engine, of any request, a failing call or a crash, keeps
\* the inductive invariant.
LEMMA InvStep == TypeOK /\ VersionInv /\ [Next]_vars => VersionInv'
<1> SUFFICES ASSUME TypeOK, VersionInv, [Next]_vars PROVE VersionInv'
    OBVIOUS
<1>0. ControlOK
    BY DEF TypeOK
<1> USE <1>0 DEF PutLabels, RecLabels, DvLabels, CopySrcLabels, KeyLabels,
        meta, disk, history
<1>1. ASSUME NEW p \in Requests, putObject(p) PROVE VersionInv'
    <2>1. PICK k \in Keys, body \in Bodies :
             \E size \in {BodySize[body]} \cup UnknownLength :
                PutObject(p, k, body, size)
        BY <1>1 DEF putObject
    <2>2. CASE Done(p) /\ UNCHANGED <<usedIds, issued>>
        <3>1. pc'[p] = "idle"
              /\ \A q \in Requests \ {p} : pc'[q] = pc[q] /\ loc'[q] = loc[q]
            BY <2>2, ProceedEffect DEF Done
        <3> QED BY <1>1, <2>2, <3>1, QuietStep, IdleSafe, RequestStep
                DEF putObject
    <2>3. ASSUME NEW s, NEW v \in Slots, resolveVersioning(s, body, v),
                 Proceed(p, "put_write", [key |-> k, body |-> body, vid |-> v,
                                          dCount |-> 0, dBytes |-> 0])
          PROVE  VersionInv'
        <3>1. /\ pc'[p] = "put_write" /\ loc'[p].vid = v
              /\ loc'[p].body = body
              /\ \A q \in Requests \ {p} : pc'[q] = pc[q] /\ loc'[q] = loc[q]
            BY <2>3, ProceedEffect
        <3>2. CASE s # "enabled"
            <4>1. v = None /\ UNCHANGED <<usedIds, issued>>
                BY <2>3, <3>2 DEF resolveVersioning
            <4>2. LocalsAsIssued(p)' /\ LocalsOnDisk(p)'
                BY <3>1, <4>1 DEF LocalsAsIssued, LocalsOnDisk
            <4> QED BY <1>1, <3>1, <4>1, <4>2, QuietStep, RequestStep
                    DEF putObject
        <3>3. CASE s = "enabled"
            <4>1. /\ v \in VersionIds \ usedIds
                  /\ usedIds' = usedIds \cup {v}
                  /\ issued' = [issued EXCEPT ![v] = body]
                BY <2>3, <3>3 DEF resolveVersioning
            <4>2. issued[v] = None
                BY <4>1 DEF VersionInv, IssuedFirst
            <4>3. UNCHANGED <<files, versions, index, acked, doomed>>
                BY <1>1 DEF putObject
            <4>4. \A w \in VersionIds : issued[w] # None => issued'[w] = issued[w]
                BY <4>1, <4>2 DEF TypeOK, DataOK
            <4>5. StepKeeps
                BY <4>3, <4>4 DEF StepKeeps
            <4>6. IssuedFirst'
                BY <4>1 DEF VersionInv, IssuedFirst, TypeOK, DataOK
            <4>7. StoredAsIssued'
                BY <4>3, <4>4, AsIssuedKept
            <4>8. LocalsAsIssued(p)' /\ LocalsOnDisk(p)'
                BY <3>1, <4>1 DEF LocalsAsIssued, LocalsOnDisk, TypeOK, DataOK
            <4>9. AckedVersionsDurable'
                BY <4>3, <4>5, AckedSame DEF VersionInv
            <4> QED BY <3>1, <4>5, <4>6, <4>7, <4>8, <4>9, RequestStep
        <3> QED BY <3>2, <3>3
    <2> QED BY <2>1, <2>2, <2>3 DEF PutObject
<1>2. ASSUME NEW p \in Requests, getObject(p) PROVE VersionInv'
    <2>1. ASSUME NEW k \in Keys, NEW r \in ObjectRecord, RecAsIssued(r),
                 Proceed(p, "get_read", [key |-> k, rec |-> r])
          PROVE  VersionInv'
        <3>1. /\ pc'[p] = "get_read" /\ loc'[p].rec = r
              /\ \A q \in Requests \ {p} : pc'[q] = pc[q] /\ loc'[q] = loc[q]
            BY <2>1, ProceedEffect
        <3>2. LocalsAsIssued(p)' /\ LocalsOnDisk(p)'
            BY <1>2, <2>1, <3>1
               DEF getObject, LocalsAsIssued, LocalsOnDisk, RecAsIssued
        <3> QED BY <1>2, <3>1, <3>2, QuietStep, RequestStep DEF getObject
    <2>2. CASE Done(p)
        <3>1. pc'[p] = "idle"
              /\ \A q \in Requests \ {p} : pc'[q] = pc[q] /\ loc'[q] = loc[q]
            BY <2>2, ProceedEffect DEF Done
        <3> QED BY <1>2, <3>1, QuietStep, IdleSafe, RequestStep DEF getObject
    <2>3. ASSUME NEW k \in Keys, GetObject(p, k) PROVE VersionInv'
        <3>1. CASE index[k] # None
            <4>1. index[k] \in ObjectRecord /\ RecAsIssued(index[k])
                BY <3>1 DEF TypeOK, DataOK, VersionInv, StoredAsIssued
            <4> QED BY <2>1, <2>3, <3>1, <4>1 DEF GetObject
        <3> QED BY <2>2, <2>3, <3>1 DEF GetObject
    <2>4. ASSUME NEW k \in Keys, NEW v \in VersionIds,
                 GetObjectVersion(p, k, v)
          PROVE  VersionInv'
        <3> DEFINE ver == versions[k][v]
                   r == [vid |-> v, etag |-> ver.etag, size |-> ver.size]
        <3>1. CASE ver = None \/ ver.kind = "marker"
            BY <2>2, <2>4, <3>1 DEF GetObjectVersion
        <3>2. CASE ver # None /\ ver.kind # "marker"
            <4>1. ver \in VersionRecord
                BY <3>2 DEF TypeOK, DataOK
            <4>2. Proceed(p, "get_read", [key |-> k, rec |-> r])
                BY <2>4, <3>2 DEF GetObjectVersion
            <4>3. IsData(ver) => ver.etag = issued[v]
                BY DEF VersionInv, StoredAsIssued
            <4> HIDE DEF ver
            <4>4. ver.etag \in Bodies /\ ver.size \in Nat /\ IsData(ver)
                BY <3>2, <4>1, VersionFields DEF IsData
            <4>5. r \in ObjectRecord /\ RecAsIssued(r)
                BY <4>3, <4>4 DEF ObjectRecord, Slots, RecAsIssued
            <4> HIDE DEF r
            <4> QED BY <2>1, <4>2, <4>5
        <3> QED BY <3>1, <3>2
    <2> QED BY <1>2, <2>3, <2>4 DEF getObject
<1>3. ASSUME NEW p \in Requests, deleteObject(p) PROVE VersionInv'
    <2>1. doomed \subseteq doomed'
        BY <1>3 DEF deleteObject
    <2>2. ASSUME LocalsAsIssued(p)', LocalsOnDisk(p)',
             \A q \in Requests \ {p} : pc'[q] = pc[q] /\ loc'[q] = loc[q]
          PROVE  VersionInv'
        BY <1>3, <2>1, <2>2, QuietStep, RequestStep DEF deleteObject
    <2>3. CASE Done(p)
        BY <2>2, <2>3, ProceedEffect, IdleSafe DEF Done
    <2>4. ASSUME NEW k \in Keys, DeleteObject(p, k) PROVE VersionInv'
        <3>1. PICK label \in {"idle", "del_mark", "del_lookup"} :
                \E l : Proceed(p, label, l)
            BY <2>4 DEF DeleteObject, Done
        <3>2. pc'[p] = label
              /\ \A q \in Requests \ {p} : pc'[q] = pc[q] /\ loc'[q] = loc[q]
            BY <3>1, ProceedEffect
        <3>3. LocalsAsIssued(p)' /\ LocalsOnDisk(p)'
            BY <3>2, IdleSafe, OtherLabelSafe DEF KeyLabels
        <3> QED BY <2>2, <3>2, <3>3
    <2>5. ASSUME NEW k \in Keys, NEW v \in VersionIds,
                 DeleteObjectVersion(p, k, v), doomed' = doomed \cup {<<k, v>>}
          PROVE  VersionInv'
        <3>1. CASE versions[k][v] = None
            BY <2>3, <2>5, <3>1 DEF DeleteObjectVersion
        <3>2. CASE versions[k][v] # None
            <4>1. PICK label \in {"dv_record", "dv_file"} :
                    \E n : Proceed(p, label, [key |-> k, vid |-> v, size |-> n])
                BY <2>5, <3>2 DEF DeleteObjectVersion
            <4>2. /\ pc'[p] = label /\ loc'[p].key = k /\ loc'[p].vid = v
                  /\ \A q \in Requests \ {p} :
                        pc'[q] = pc[q] /\ loc'[q] = loc[q]
                BY <4>1, ProceedEffect
            <4>3. LocalsAsIssued(p)' /\ LocalsOnDisk(p)'
                BY <2>5, <4>2 DEF LocalsAsIssued, LocalsOnDisk
            <4> QED BY <2>2, <4>2, <4>3
        <3> QED BY <3>1, <3>2
    <2> QED BY <1>3, <2>4, <2>5 DEF deleteObject
<1>4. ASSUME NEW p \in Requests, copyObject(p) PROVE VersionInv'
    <2> PICK src \in Keys, dst \in Keys : CopyObject(p, src, dst)
        BY <1>4 DEF copyObject
    <2>1. CASE index[src] = None
        <3>1. pc'[p] = "idle"
              /\ \A q \in Requests \ {p} : pc'[q] = pc[q] /\ loc'[q] = loc[q]
            BY <2>1, ProceedEffect DEF CopyObject, Done
        <3> QED BY <1>4, <3>1, QuietStep, IdleSafe, RequestStep
                DEF copyObject
    <2>2. CASE index[src] # None
        <3>1. /\ pc'[p] = "copy_check" /\ loc'[p].rec = index[src]
              /\ \A q \in Requests \ {p} : pc'[q] = pc[q] /\ loc'[q] = loc[q]
            BY <2>2, ProceedEffect DEF CopyObject
        <3>2. RecAsIssued(index[src])
            BY <2>2 DEF VersionInv, StoredAsIssued
        <3>3. LocalsAsIssued(p)' /\ LocalsOnDisk(p)'
            BY <1>4, <3>1, <3>2 DEF copyObject, LocalsAsIssued,
               LocalsOnDisk, RecAsIssued
        <3> QED BY <1>4, <3>1, <3>3, QuietStep, RequestStep
                DEF copyObject
    <2> QED BY <2>1, <2>2
<1>5. ASSUME NEW p \in Requests, putObjectTagging(p) PROVE VersionInv'
    <2> PICK k \in Keys : SetObjectTags(p, k)
        BY <1>5 DEF putObjectTagging
    <2>1. CASE index[k] = None
        <3>1. pc'[p] = "idle"
              /\ \A q \in Requests \ {p} : pc'[q] = pc[q] /\ loc'[q] = loc[q]
            BY <2>1, ProceedEffect DEF SetObjectTags, Done
        <3> QED BY <1>5, <3>1, QuietStep, IdleSafe, RequestStep
                DEF putObjectTagging
    <2>2. CASE index[k] # None
        <3>1. /\ pc'[p] = "tag_write" /\ loc'[p].rec = index[k]
              /\ \A q \in Requests \ {p} : pc'[q] = pc[q] /\ loc'[q] = loc[q]
            BY <2>2, ProceedEffect DEF SetObjectTags
        <3>2. RecAsIssued(index[k])
            BY <2>2 DEF VersionInv, StoredAsIssued
        <3>3. LocalsAsIssued(p)' /\ LocalsOnDisk(p)'
            BY <1>5, <3>1, <3>2 DEF putObjectTagging, LocalsAsIssued,
               LocalsOnDisk, RecAsIssued
        <3> QED BY <1>5, <3>1, <3>3, QuietStep, RequestStep
                DEF putObjectTagging
    <2> QED BY <2>1, <2>2
<1>6. ASSUME NEW p \in Requests, putBucketConfig(p) PROVE VersionInv'
    <2>1. PICK label \in {"idle", "bucket_write"} : \E l : Proceed(p, label, l)
        BY <1>6 DEF putBucketConfig, putBucketVersioning, putQuota,
           SetBucketVersioning, SetBucketQuota, SetBucketPolicy, RewriteBucket, Done
    <2>2. pc'[p] = label
          /\ \A q \in Requests \ {p} : pc'[q] = pc[q] /\ loc'[q] = loc[q]
        BY <2>1, ProceedEffect
    <2>3. LocalsAsIssued(p)' /\ LocalsOnDisk(p)'
        BY <2>2, IdleSafe, OtherLabelSafe DEF BucketLabels
    <2> QED BY <1>6, <2>2, <2>3, QuietStep, RequestStep DEF putBucketConfig
<1>7. ASSUME NEW p \in Requests, bucketRequest(p) PROVE VersionInv'
    <2>1. PICK label \in {"idle", "cb_dir", "db_dir"} : \E l : Proceed(p, label, l)
        BY <1>7 DEF bucketRequest, CreateBucket, DeleteBucket, Done
    <2>2. pc'[p] = label
          /\ \A q \in Requests \ {p} : pc'[q] = pc[q] /\ loc'[q] = loc[q]
        BY <2>1, ProceedEffect
    <2>3. LocalsAsIssued(p)' /\ LocalsOnDisk(p)'
        BY <2>2, IdleSafe, OtherLabelSafe DEF BucketLabels
    <2> QED BY <1>7, <2>2, <2>3, QuietStep, RequestStep DEF bucketRequest
<1>8. ASSUME NEW p \in Requests, PutWrite(p) PROVE VersionInv'
    <2>1. /\ loc[p].key \in Keys /\ loc[p].body \in Bodies
          /\ loc[p].vid \in Slots
        BY <1>8, LocalTypes DEF PutWrite
    <2>2. loc[p].vid # None => loc[p].body = issued[loc[p].vid]
        BY <1>8 DEF PutWrite, VersionInv, LocalsSafe, LocalsAsIssued
    <2>3. files' = [files EXCEPT ![loc[p].key][loc[p].vid] = loc[p].body]
        BY <1>8 DEF PutWrite, Write
    <2>4. ASSUME NEW k \in Keys, NEW v \in VersionIds
          PROVE  files'[k][v] \in {files[k][v], issued[v]}
        BY <2>1, <2>2, <2>3, NoneAssumption DEF TypeOK, DataOK, Slots
    <2>5. files'[loc[p].key][loc[p].vid] = loc[p].body
        BY <2>1, <2>3 DEF TypeOK, DataOK
    <2>6. pc'[p] = "put_delta" /\ loc'[p] = loc[p]
          /\ \A q \in Requests \ {p} : pc'[q] = pc[q] /\ loc'[q] = loc[q]
        BY <1>8, GotoEffect DEF PutWrite
    <2>7. LocalsAsIssued(p)' /\ LocalsOnDisk(p)'
        BY <1>8, <2>2, <2>5, <2>6 DEF PutWrite, LocalsAsIssued, LocalsOnDisk
    <2>8. UNCHANGED <<versions, index, usedIds, issued, acked, doomed>>
        BY <1>8 DEF PutWrite
    <2> QED BY <2>4, <2>6, <2>7, <2>8, FileStep, RequestStep
<1>9. ASSUME NEW p \in Requests, computeStatDelta(p) PROVE VersionInv'
    <2>1. pc[p] = "put_delta" /\ \E old : StatDelta(p, old)
        BY <1>9 DEF computeStatDelta
    <2> QED BY <1>9, <2>1, QuietStep, StatDeltaSafe, RequestStep
            DEF computeStatDelta
<1>10. ASSUME NEW p \in Requests, PutMark(p) PROVE VersionInv'
    <2>1. /\ pc[p] = "put_mark" /\ loc[p].key \in Keys
          /\ MarkVersionsNotLatest(loc[p].key)
          /\ UNCHANGED <<files, index, issued, acked, doomed, usedIds>>
        BY <1>10, LocalTypes DEF PutMark
    <2>2. pc'[p] = "put_version" /\ loc'[p] = loc[p]
          /\ \A q \in Requests \ {p} : pc'[q] = pc[q] /\ loc'[q] = loc[q]
        BY <1>10, GotoEffect DEF PutMark
    <2>3. LocalsAsIssued(p)' /\ LocalsOnDisk(p)'
        BY <2>1, <2>2 DEF VersionInv, LocalsSafe, LocalsAsIssued, LocalsOnDisk
    <2> QED BY <2>1, <2>2, <2>3, MarkStep, RequestStep
<1>11. ASSUME NEW p \in Requests, putVersionRecord(p) PROVE VersionInv'
    <2> DEFINE r == [kind |-> "data", latest |-> TRUE, etag |-> loc[p].body,
                     size |-> BodySize[loc[p].body]]
    <2>1. loc[p].key \in Keys /\ loc[p].vid \in VersionIds
        BY <1>11, LocalTypes DEF putVersionRecord, Slots
    <2>2. loc[p].body = issued[loc[p].vid]
        BY <1>11, <2>1, NoneAssumption
           DEF putVersionRecord, VersionInv, LocalsSafe, LocalsAsIssued
    <2>3. r \in VersionRecord
        BY <1>11, LocalTypes, ConstantsAssumption
           DEF putVersionRecord, VersionRecord
    <2>4. IsData(r) /\ r.etag = issued[loc[p].vid]
        BY <2>2, <2>3, NoneAssumption DEF IsData
    <2>5. versions' = [versions EXCEPT ![loc[p].key][loc[p].vid] = r]
        BY <1>11 DEF putVersionRecord
    <2> HIDE DEF r
    <2>6. ASSUME NEW k \in Keys, NEW v \in VersionIds
          PROVE  /\ IsData(versions'[k][v]) =>
                       versions'[k][v].etag = issued[v]
                 /\ IsData(versions[k][v]) => IsData(versions'[k][v])
        <3>1. CASE k = loc[p].key /\ v = loc[p].vid
            BY <2>1, <2>4, <2>5, <3>1 DEF TypeOK, DataOK
        <3>2. CASE ~(k = loc[p].key /\ v = loc[p].vid)
            <4>1. versions'[k][v] = versions[k][v]
                BY <2>1, <2>5, <3>2 DEF TypeOK, DataOK
            <4> QED BY <4>1 DEF VersionInv, StoredAsIssued
        <3> QED BY <3>1, <3>2
    <2>7. versions'[loc[p].key][loc[p].vid] = r
        BY <2>1, <2>5 DEF TypeOK, DataOK
    <2>8. pc'[p] = "put_index" /\ loc'[p] = loc[p]
          /\ \A q \in Requests \ {p} : pc'[q] = pc[q] /\ loc'[q] = loc[q]
        BY <1>11, GotoEffect DEF putVersionRecord
    <2>9. UNCHANGED <<files, index, issued, acked, doomed, usedIds>>
        BY <1>11 DEF putVersionRecord
    <2>10. LocalsAsIssued(p)' /\ LocalsOnDisk(p)'
        BY <1>11, <2>4, <2>7, <2>8, <2>9 DEF putVersionRecord, VersionInv,
           LocalsSafe, LocalsAsIssued, LocalsOnDisk
    <2> QED BY <2>6, <2>8, <2>9, <2>10, VersionStep, RequestStep
<1>12. ASSUME NEW p \in Requests, PutIndex(p) PROVE VersionInv'
    <2> DEFINE r == [vid |-> loc[p].vid, etag |-> loc[p].body,
                     size |-> BodySize[loc[p].body]]
    <2>1. /\ loc[p].key \in Keys /\ loc[p].body \in Bodies
          /\ loc[p].vid \in Slots
        BY <1>12, LocalTypes DEF PutIndex
    <2>2. loc[p].vid # None => loc[p].body = issued[loc[p].vid]
        BY <1>12 DEF PutIndex, VersionInv, LocalsSafe, LocalsAsIssued
    <2>3. r \in ObjectRecord /\ RecAsIssued(r)
        BY <2>1, <2>2, ConstantsAssumption DEF ObjectRecord, RecAsIssued
    <2>4. index' = [index EXCEPT ![loc[p].key] = r]
        BY <1>12 DEF PutIndex
    <2> HIDE DEF r
    <2>5. UNCHANGED <<files, versions, usedIds, issued, acked, doomed>>
        BY <1>12 DEF PutIndex
    <2>6. pc'[p] = "put_stats" /\ loc'[p] = loc[p]
          /\ \A q \in Requests \ {p} : pc'[q] = pc[q] /\ loc'[q] = loc[q]
        BY <1>12, GotoEffect DEF PutIndex
    <2>7. LocalsAsIssued(p)' /\ LocalsOnDisk(p)'
        BY <1>12, <2>2, <2>5, <2>6 DEF PutIndex, VersionInv, LocalsSafe,
           LocalsAsIssued, LocalsOnDisk
    <2> QED BY <2>1, <2>3, <2>4, <2>5, <2>6, <2>7, IndexStep, RequestStep
<1>13. ASSUME NEW p \in Requests, PutStats(p) PROVE VersionInv'
    <2>1. pc[p] = "put_stats" /\ PutReply(p)
        BY <1>13 DEF PutStats
    <2> QED BY <2>1, ReplySafe
<1>14. ASSUME NEW p \in Requests, GetRead(p) PROVE VersionInv'
    <2>1. loc[p].key \in Keys /\ loc[p].rec \in ObjectRecord
        BY <1>14, LocalTypes DEF GetRead
    <2>2. RecAsIssued(loc[p].rec)
        BY <1>14 DEF GetRead, VersionInv, LocalsSafe, LocalsAsIssued
    <2>3. loc[p].rec.vid # None =>
            files[loc[p].key][loc[p].rec.vid] \in {None, loc[p].rec.etag}
        BY <2>1, <2>2, RecordFields
           DEF RecAsIssued, VersionInv, StoredAsIssued, Slots
    <2>4. /\ pc'[p] = "get_reply" /\ loc'[p].rec = loc[p].rec
          /\ loc'[p].got = files[loc[p].key][loc[p].rec.vid]
          /\ \A q \in Requests \ {p} : pc'[q] = pc[q] /\ loc'[q] = loc[q]
        BY <1>14, ProceedEffect DEF GetRead
    <2>5. LocalsAsIssued(p)' /\ LocalsOnDisk(p)'
        BY <1>14, <2>2, <2>3, <2>4
           DEF GetRead, LocalsAsIssued, LocalsOnDisk, RecAsIssued
    <2> QED BY <1>14, <2>4, <2>5, QuietStep, RequestStep DEF GetRead
<1>15. ASSUME NEW p \in Requests, GetReply(p) PROVE VersionInv'
    <2>1. pc'[p] = "idle"
          /\ \A q \in Requests \ {p} : pc'[q] = pc[q] /\ loc'[q] = loc[q]
        BY <1>15, ProceedEffect DEF GetReply, Done
    <2> QED BY <1>15, <2>1, QuietStep, IdleSafe, RequestStep DEF GetReply
<1>16. ASSUME NEW p \in Requests, DelMark(p) PROVE VersionInv'
    <2>1. /\ loc[p].key \in Keys /\ MarkVersionsNotLatest(loc[p].key)
          /\ UNCHANGED <<files, index, issued, acked, doomed, usedIds>>
        BY <1>16, LocalTypes DEF DelMark
    <2>2. pc'[p] = "del_marker"
          /\ \A q \in Requests \ {p} : pc'[q] = pc[q] /\ loc'[q] = loc[q]
        BY <1>16, GotoEffect DEF DelMark
    <2>3. LocalsAsIssued(p)' /\ LocalsOnDisk(p)'
        BY <2>2, OtherLabelSafe DEF KeyLabels
    <2> QED BY <2>1, <2>2, <2>3, MarkStep, RequestStep
<1>17. ASSUME NEW p \in Requests, putDeleteMarker(p) PROVE VersionInv'
    <2> DEFINE r == [kind |-> "marker", latest |-> TRUE, etag |-> None,
                     size |-> 0]
    <2>1. loc[p].key \in Keys
        BY <1>17, LocalTypes DEF putDeleteMarker
    <2>2. PICK w \in VersionIds \ usedIds :
             /\ usedIds' = usedIds \cup {w}
             /\ versions' = [versions EXCEPT ![loc[p].key][w] = r]
        BY <1>17 DEF putDeleteMarker
    <2>3. ~IsData(r)
        BY DEF IsData
    <2> HIDE DEF r
    <2>4. ASSUME NEW k \in Keys PROVE ~IsData(versions[k][w])
        <3>1. issued[w] = None
            BY <2>2 DEF VersionInv, IssuedFirst
        <3>2. SUFFICES ASSUME IsData(versions[k][w]) PROVE FALSE
            OBVIOUS
        <3>3. versions[k][w] \in VersionRecord
            BY <3>2 DEF IsData, TypeOK, DataOK
        <3>4. versions[k][w].etag = None
            BY <3>1, <3>2 DEF VersionInv, StoredAsIssued
        <3> QED BY <3>2, <3>3, <3>4, VersionFields, NoneAssumption DEF IsData
    <2>5. ASSUME NEW k \in Keys, NEW v \in VersionIds
          PROVE  /\ IsData(versions'[k][v]) =>
                       versions'[k][v].etag = issued[v]
                 /\ IsData(versions[k][v]) => IsData(versions'[k][v])
        <3>1. CASE k = loc[p].key /\ v = w
            BY <2>1, <2>2, <2>3, <2>4, <3>1 DEF TypeOK, DataOK
        <3>2. CASE ~(k = loc[p].key /\ v = w)
            <4>1. versions'[k][v] = versions[k][v]
                BY <2>1, <2>2, <3>2 DEF TypeOK, DataOK
            <4> QED BY <4>1 DEF VersionInv, StoredAsIssued
        <3> QED BY <3>1, <3>2
    <2>6. pc'[p] = "del_hide"
          /\ \A q \in Requests \ {p} : pc'[q] = pc[q] /\ loc'[q] = loc[q]
        BY <1>17, GotoEffect DEF putDeleteMarker
    <2>7. LocalsAsIssued(p)' /\ LocalsOnDisk(p)'
        BY <2>6, OtherLabelSafe DEF KeyLabels
    <2>8. UNCHANGED <<files, index, issued, acked, doomed>>
        BY <1>17 DEF putDeleteMarker
    <2> QED BY <2>2, <2>5, <2>6, <2>7, <2>8, VersionStep, RequestStep
<1>18. ASSUME NEW p \in Requests, DelHide(p) PROVE VersionInv'
    <2>1. pc'[p] = "idle"
          /\ \A q \in Requests \ {p} : pc'[q] = pc[q] /\ loc'[q] = loc[q]
        BY <1>18, ProceedEffect DEF DelHide, Done
    <2>2. loc[p].key \in Keys
        BY <1>18, LocalTypes DEF DelHide
    <2> QED BY <1>18, <2>1, <2>2, IndexStep, IdleSafe, RequestStep DEF DelHide
<1>19. ASSUME NEW p \in Requests, DelLookup(p) PROVE VersionInv'
    <2>1. doomed \subseteq doomed' /\ loc[p].key \in Keys
        BY <1>19, LocalTypes DEF DelLookup
    <2>2. CASE index[loc[p].key] = None
        <3>1. pc'[p] = "idle"
              /\ \A q \in Requests \ {p} : pc'[q] = pc[q] /\ loc'[q] = loc[q]
            BY <1>19, <2>2, ProceedEffect DEF DelLookup, Done
        <3> QED BY <1>19, <2>1, <3>1, QuietStep, IdleSafe, RequestStep
                DEF DelLookup
    <2>3. CASE index[loc[p].key] # None
        <3>1. /\ pc'[p] = "del_file" /\ loc'[p].key = loc[p].key
              /\ loc'[p].rec = index[loc[p].key]
              /\ \A q \in Requests \ {p} : pc'[q] = pc[q] /\ loc'[q] = loc[q]
            BY <1>19, <2>3, ProceedEffect DEF DelLookup
        <3>2. RecAsIssued(index[loc[p].key])
            BY <2>1, <2>3 DEF VersionInv, StoredAsIssued
        <3>3. index[loc[p].key].vid # None
                => <<loc[p].key, index[loc[p].key].vid>> \in doomed'
            BY <1>19, <2>3 DEF DelLookup
        <3>4. LocalsAsIssued(p)' /\ LocalsOnDisk(p)'
            BY <1>19, <3>1, <3>2, <3>3
               DEF DelLookup, LocalsAsIssued, LocalsOnDisk, RecAsIssued
        <3> QED BY <1>19, <2>1, <3>1, <3>4, QuietStep, RequestStep
                DEF DelLookup
    <2> QED BY <2>2, <2>3
<1>20. ASSUME NEW p \in Requests, DelFile(p) PROVE VersionInv'
    <2>1. loc[p].key \in Keys /\ loc[p].rec.vid \in Slots
        BY <1>20, LocalTypes, RecordFields DEF DelFile, Slots
    <2>2. loc[p].rec.vid # None => <<loc[p].key, loc[p].rec.vid>> \in doomed
        BY <1>20 DEF DelFile, VersionInv, LocalsSafe, LocalsOnDisk
    <2>3. files' = [files EXCEPT ![loc[p].key][loc[p].rec.vid] = None]
        BY <1>20 DEF DelFile, Delete
    <2>4. ASSUME NEW k \in Keys, NEW v \in VersionIds
          PROVE  \/ files'[k][v] = files[k][v]
                 \/ files'[k][v] = None /\ <<k, v>> \in doomed
        <3>1. files \in [Keys -> [Slots -> Bodies \cup {None}]] /\ v \in Slots /\ v # None
            BY NoneAssumption DEF TypeOK, DataOK, Slots
        <3> QED BY <2>1, <2>2, <2>3, <3>1
    <2>5. pc'[p] = "del_unindex" /\ loc'[p] = loc[p]
          /\ \A q \in Requests \ {p} : pc'[q] = pc[q] /\ loc'[q] = loc[q]
        BY <1>20, GotoEffect DEF DelFile
    <2>6. UNCHANGED <<versions, index, usedIds, issued, acked, doomed>>
        BY <1>20 DEF DelFile
    <2>7. LocalsAsIssued(p)' /\ LocalsOnDisk(p)'
        BY <1>20, <2>2, <2>5, <2>6 DEF DelFile, VersionInv, LocalsSafe,
           LocalsAsIssued, LocalsOnDisk, RecAsIssued
    <2> QED BY <2>4, <2>5, <2>6, <2>7, FileStep, RequestStep
<1>21. ASSUME NEW p \in Requests, DelUnindex(p) PROVE VersionInv'
    <2>1. pc'[p] = "del_stats" /\ loc'[p] = loc[p]
          /\ \A q \in Requests \ {p} : pc'[q] = pc[q] /\ loc'[q] = loc[q]
        BY <1>21, GotoEffect DEF DelUnindex
    <2>2. loc[p].key \in Keys
        BY <1>21, LocalTypes DEF DelUnindex
    <2>3. LocalsAsIssued(p)' /\ LocalsOnDisk(p)'
        BY <1>21, <2>1 DEF DelUnindex, VersionInv, LocalsSafe, LocalsAsIssued,
           LocalsOnDisk, RecAsIssued
    <2> QED BY <1>21, <2>1, <2>2, <2>3, IndexStep, RequestStep DEF DelUnindex
<1>22. ASSUME NEW p \in Requests, DelStats(p) PROVE VersionInv'
    <2>1. pc'[p] = "idle"
          /\ \A q \in Requests \ {p} : pc'[q] = pc[q] /\ loc'[q] = loc[q]
        BY <1>22, ProceedEffect DEF DelStats, Done
    <2> QED BY <1>22, <2>1, QuietStep, IdleSafe, RequestStep DEF DelStats
<1>23. ASSUME NEW p \in Requests, DvFile(p) PROVE VersionInv'
    <2>1. loc[p].key \in Keys /\ loc[p].vid \in Slots
        BY <1>23, LocalTypes, RecordFields DEF DvFile, Slots
    <2>2. loc[p].vid # None => <<loc[p].key, loc[p].vid>> \in doomed
        BY <1>23 DEF DvFile, VersionInv, LocalsSafe, LocalsOnDisk
    <2>3. files' = [files EXCEPT ![loc[p].key][loc[p].vid] = None]
        BY <1>23 DEF DvFile, Delete
    <2>4. ASSUME NEW k \in Keys, NEW v \in VersionIds
          PROVE  \/ files'[k][v] = files[k][v]
                 \/ files'[k][v] = None /\ <<k, v>> \in doomed
        <3>1. files \in [Keys -> [Slots -> Bodies \cup {None}]] /\ v \in Slots /\ v # None
            BY NoneAssumption DEF TypeOK, DataOK, Slots
        <3> QED BY <2>1, <2>2, <2>3, <3>1
    <2>5. pc'[p] = "dv_stats" /\ loc'[p] = loc[p]
          /\ \A q \in Requests \ {p} : pc'[q] = pc[q] /\ loc'[q] = loc[q]
        BY <1>23, GotoEffect DEF DvFile
    <2>6. UNCHANGED <<versions, index, usedIds, issued, acked, doomed>>
        BY <1>23 DEF DvFile
    <2>7. LocalsAsIssued(p)' /\ LocalsOnDisk(p)'
        BY <1>23, <2>2, <2>5, <2>6 DEF DvFile, VersionInv, LocalsSafe,
           LocalsAsIssued, LocalsOnDisk, RecAsIssued
    <2> QED BY <2>4, <2>5, <2>6, <2>7, FileStep, RequestStep
<1>24. ASSUME NEW p \in Requests, DvStats(p) PROVE VersionInv'
    <2>1. pc'[p] = "dv_record" /\ loc'[p] = loc[p]
          /\ \A q \in Requests \ {p} : pc'[q] = pc[q] /\ loc'[q] = loc[q]
        BY <1>24, GotoEffect DEF DvStats
    <2>2. LocalsAsIssued(p)' /\ LocalsOnDisk(p)'
        BY <1>24, <2>1 DEF DvStats, VersionInv, LocalsSafe, LocalsAsIssued,
           LocalsOnDisk
    <2> QED BY <1>24, <2>1, <2>2, QuietStep, RequestStep DEF DvStats
<1>25. ASSUME NEW p \in Requests, DvRecord(p) PROVE VersionInv'
    <2>1. loc[p].key \in Keys /\ loc[p].vid \in VersionIds
        BY <1>25, LocalTypes DEF DvRecord
    <2>2. <<loc[p].key, loc[p].vid>> \in doomed
        BY <1>25 DEF DvRecord, VersionInv, LocalsSafe, LocalsOnDisk
    <2>3. versions' = [versions EXCEPT ![loc[p].key][loc[p].vid] = None]
        BY <1>25 DEF DvRecord
    <2>4. ASSUME NEW k \in Keys, NEW v \in VersionIds
          PROVE  /\ IsData(versions'[k][v]) =>
                       versions'[k][v].etag = issued[v]
                 /\ IsData(versions[k][v]) =>
                       IsData(versions'[k][v]) \/ <<k, v>> \in doomed
        <3>1. CASE k = loc[p].key /\ v = loc[p].vid
            BY <2>1, <2>2, <2>3, <3>1 DEF TypeOK, DataOK, IsData
        <3>2. CASE ~(k = loc[p].key /\ v = loc[p].vid)
            <4>1. versions'[k][v] = versions[k][v]
                BY <2>1, <2>3, <3>2 DEF TypeOK, DataOK
            <4> QED BY <4>1 DEF VersionInv, StoredAsIssued
        <3> QED BY <3>1, <3>2
    <2>5. pc'[p] = "idle"
          /\ \A q \in Requests \ {p} : pc'[q] = pc[q] /\ loc'[q] = loc[q]
        BY <1>25, ProceedEffect DEF DvRecord, Done
    <2>6. UNCHANGED <<files, index, usedIds, issued, acked, doomed>>
        BY <1>25 DEF DvRecord
    <2> QED BY <2>4, <2>5, <2>6, VersionStep, IdleSafe, RequestStep
<1>26. ASSUME NEW p \in Requests, CopyCheck(p) PROVE VersionInv'
    <2>1. CASE Done(p)
        <3>1. pc'[p] = "idle"
              /\ \A q \in Requests \ {p} : pc'[q] = pc[q] /\ loc'[q] = loc[q]
            BY <2>1, ProceedEffect DEF Done
        <3> QED BY <1>26, <3>1, QuietStep, IdleSafe, RequestStep DEF CopyCheck
    <2>2. CASE Goto(p, "copy_read") /\ UNCHANGED loc
        <3>1. pc'[p] = "copy_read" /\ loc'[p] = loc[p]
              /\ \A q \in Requests \ {p} : pc'[q] = pc[q] /\ loc'[q] = loc[q]
            BY <2>2, GotoEffect
        <3>2. LocalsAsIssued(p)' /\ LocalsOnDisk(p)'
            BY <1>26, <3>1 DEF CopyCheck, VersionInv, LocalsSafe,
               LocalsAsIssued, LocalsOnDisk, RecAsIssued
        <3> QED BY <1>26, <3>1, <3>2, QuietStep, RequestStep DEF CopyCheck
    <2> QED BY <1>26, <2>1, <2>2 DEF CopyCheck
<1>27. ASSUME NEW p \in Requests, CopyRead(p) PROVE VersionInv'
    <2>1. pc'[p] \in {"idle", "copy_write"}
          /\ \A q \in Requests \ {p} : pc'[q] = pc[q] /\ loc'[q] = loc[q]
        BY <1>27, ProceedEffect DEF CopyRead, Done
    <2>2. LocalsAsIssued(p)' /\ LocalsOnDisk(p)'
        BY <2>1, IdleSafe, OtherLabelSafe DEF CopyDstLabels
    <2> QED BY <1>27, <2>1, <2>2, QuietStep, RequestStep DEF CopyRead
<1>28. ASSUME NEW p \in Requests, CopyWrite(p) PROVE VersionInv'
    <2>1. loc[p].dst \in Keys /\ None \in Slots
        BY <1>28, LocalTypes DEF CopyWrite, CopyDstLabels, Slots
    <2>2. files' = [files EXCEPT ![loc[p].dst][None] = loc[p].got]
        BY <1>28 DEF CopyWrite, Write
    <2>3. ASSUME NEW k \in Keys, NEW v \in VersionIds
          PROVE  files'[k][v] = files[k][v]
        BY <2>1, <2>2, NoneAssumption DEF TypeOK, DataOK, Slots
    <2>4. pc'[p] = "copy_index"
          /\ \A q \in Requests \ {p} : pc'[q] = pc[q] /\ loc'[q] = loc[q]
        BY <1>28, GotoEffect DEF CopyWrite
    <2>5. LocalsAsIssued(p)' /\ LocalsOnDisk(p)'
        BY <2>4, OtherLabelSafe DEF CopyDstLabels
    <2>6. UNCHANGED <<versions, index, usedIds, issued, acked, doomed>>
        BY <1>28 DEF CopyWrite
    <2> QED BY <2>3, <2>4, <2>5, <2>6, FileStep, RequestStep
<1>29. ASSUME NEW p \in Requests, CopyIndex(p) PROVE VersionInv'
    <2> DEFINE r == [vid |-> None, etag |-> loc[p].etag,
                     size |-> BodySize[loc[p].got]]
    <2>1. /\ loc[p].dst \in Keys /\ loc[p].etag \in Bodies
          /\ loc[p].got \in Bodies
        BY <1>29, LocalTypes DEF CopyIndex, CopyDstLabels
    <2>2. r \in ObjectRecord /\ RecAsIssued(r)
        BY <2>1, ConstantsAssumption DEF ObjectRecord, Slots, RecAsIssued
    <2>3. index' = [index EXCEPT ![loc[p].dst] = r]
        BY <1>29 DEF CopyIndex
    <2> HIDE DEF r
    <2>4. pc'[p] = "copy_stats"
          /\ \A q \in Requests \ {p} : pc'[q] = pc[q] /\ loc'[q] = loc[q]
        BY <1>29, GotoEffect DEF CopyIndex
    <2>5. LocalsAsIssued(p)' /\ LocalsOnDisk(p)'
        BY <2>4, OtherLabelSafe DEF CopyDstLabels
    <2>6. UNCHANGED <<files, versions, usedIds, issued, acked, doomed>>
        BY <1>29 DEF CopyIndex
    <2> QED BY <2>1, <2>2, <2>3, <2>4, <2>5, <2>6, IndexStep, RequestStep
<1>30. ASSUME NEW p \in Requests, CopyStats(p) PROVE VersionInv'
    <2>1. pc'[p] = "idle"
          /\ \A q \in Requests \ {p} : pc'[q] = pc[q] /\ loc'[q] = loc[q]
        BY <1>30, ProceedEffect DEF CopyStats, Done
    <2> QED BY <1>30, <2>1, QuietStep, IdleSafe, RequestStep DEF CopyStats
<1>31. ASSUME NEW p \in Requests, TagWrite(p) PROVE VersionInv'
    <2>1. pc'[p] = "idle"
          /\ \A q \in Requests \ {p} : pc'[q] = pc[q] /\ loc'[q] = loc[q]
        BY <1>31, ProceedEffect DEF TagWrite, Done
    <2>2. /\ loc[p].key \in Keys /\ loc[p].rec \in ObjectRecord
          /\ RecAsIssued(loc[p].rec)
        BY <1>31, LocalTypes
           DEF TagWrite, VersionInv, LocalsSafe, LocalsAsIssued
    <2> QED BY <1>31, <2>1, <2>2, IndexStep, IdleSafe, RequestStep DEF TagWrite
<1>32. ASSUME NEW p \in Requests, PutBucket(p) PROVE VersionInv'
    <2>1. pc'[p] = "idle"
          /\ \A q \in Requests \ {p} : pc'[q] = pc[q] /\ loc'[q] = loc[q]
        BY <1>32, ProceedEffect DEF PutBucket, Done
    <2> QED BY <1>32, <2>1, QuietStep, IdleSafe, RequestStep DEF PutBucket
<1>33. ASSUME NEW p \in Requests, CreateBucketDir(p) PROVE VersionInv'
    <2>1. pc'[p] = "cb_record"
          /\ \A q \in Requests \ {p} : pc'[q] = pc[q] /\ loc'[q] = loc[q]
        BY <1>33, GotoEffect DEF CreateBucketDir
    <2>2. LocalsAsIssued(p)' /\ LocalsOnDisk(p)'
        BY <2>1, OtherLabelSafe DEF BucketLabels
    <2> QED BY <1>33, <2>1, <2>2, QuietStep, RequestStep DEF CreateBucketDir
<1>34. ASSUME NEW p \in Requests, CreateBucketRecord(p) PROVE VersionInv'
    <2>1. pc'[p] = "idle"
          /\ \A q \in Requests \ {p} : pc'[q] = pc[q] /\ loc'[q] = loc[q]
        BY <1>34, ProceedEffect DEF CreateBucketRecord, Done
    <2> QED BY <1>34, <2>1, QuietStep, IdleSafe, RequestStep DEF CreateBucketRecord
<1>35. ASSUME NEW p \in Requests, DeleteBucketDir(p) PROVE VersionInv'
    <2>1. pc'[p] \in {"idle", "db_record"}
          /\ \A q \in Requests \ {p} : pc'[q] = pc[q] /\ loc'[q] = loc[q]
        BY <1>35, GotoEffect, ProceedEffect DEF DeleteBucketDir, Done
    <2>2. LocalsAsIssued(p)' /\ LocalsOnDisk(p)'
        BY <2>1, IdleSafe, OtherLabelSafe DEF BucketLabels
    <2> QED BY <1>35, <2>1, <2>2, QuietStep, RequestStep DEF DeleteBucketDir
<1>36. ASSUME NEW p \in Requests, DeleteBucketRecord(p) PROVE VersionInv'
    <2>1. pc'[p] = "idle"
          /\ \A q \in Requests \ {p} : pc'[q] = pc[q] /\ loc'[q] = loc[q]
        BY <1>36, ProceedEffect DEF DeleteBucketRecord, Done
    <2> QED BY <1>36, <2>1, QuietStep, IdleSafe, RequestStep DEF DeleteBucketRecord
<1>37. ASSUME NEW p \in Requests, CallFails(p) PROVE VersionInv'
    <2>1. CASE Done(p) /\ UNCHANGED acked
        <3>1. pc'[p] = "idle"
              /\ \A q \in Requests \ {p} : pc'[q] = pc[q] /\ loc'[q] = loc[q]
            BY <2>1, ProceedEffect DEF Done
        <3> QED BY <1>37, <2>1, <3>1, QuietStep, IdleSafe, RequestStep
                DEF CallFails
    <2>2. CASE pc[p] = "put_delta" /\ StatDelta(p, None) /\ UNCHANGED acked
        BY <1>37, <2>2, QuietStep, StatDeltaSafe, RequestStep DEF CallFails
    <2>3. CASE pc[p] = "put_stats" /\ PutReply(p)
        BY <2>3, ReplySafe
    <2>4. CASE pc[p] = "dv_stats" /\ Goto(p, "dv_record")
                 /\ UNCHANGED <<loc, acked>>
        <3>1. pc'[p] = "dv_record" /\ loc'[p] = loc[p]
              /\ \A q \in Requests \ {p} : pc'[q] = pc[q] /\ loc'[q] = loc[q]
            BY <2>4, GotoEffect
        <3>2. LocalsAsIssued(p)' /\ LocalsOnDisk(p)'
            BY <1>37, <2>4, <3>1 DEF CallFails, VersionInv, LocalsSafe,
               LocalsAsIssued, LocalsOnDisk
        <3> QED BY <1>37, <2>4, <3>1, <3>2, QuietStep, RequestStep
                DEF CallFails
    <2>5. CASE pc[p] = "get_read" /\ UNCHANGED acked
                 /\ Proceed(p, "get_reply", [rec |-> loc[p].rec, got |-> None])
        <3>1. /\ pc'[p] = "get_reply" /\ loc'[p].rec = loc[p].rec
              /\ loc'[p].got = None
              /\ \A q \in Requests \ {p} : pc'[q] = pc[q] /\ loc'[q] = loc[q]
            BY <2>5, ProceedEffect
        <3>2. RecAsIssued(loc[p].rec)
            BY <2>5 DEF VersionInv, LocalsSafe, LocalsAsIssued
        <3>3. LocalsAsIssued(p)' /\ LocalsOnDisk(p)'
            BY <1>37, <3>1, <3>2
               DEF CallFails, LocalsAsIssued, LocalsOnDisk, RecAsIssued
        <3> QED BY <1>37, <2>5, <3>1, <3>3, QuietStep, RequestStep
                DEF CallFails
    <2> QED BY <1>37, <2>1, <2>2, <2>3, <2>4, <2>5 DEF CallFails
<1>38. CASE Crash
    <2>1. \A p \in Requests : pc'[p] = "idle"
        BY <1>38 DEF Crash
    <2>2. LocalsSafe'
        BY <2>1, IdleSafe DEF LocalsSafe
    <2> QED BY <1>38, <2>2, QuietStep DEF Crash, VersionInv
<1>39. CASE UNCHANGED vars
    BY <1>39 DEF vars, VersionInv, IssuedFirst, StoredAsIssued, LocalsSafe,
       LocalsAsIssued, LocalsOnDisk, RecAsIssued, IsData, AckedVersionsDurable
<1>40. QED
    BY <1>1, <1>2, <1>3, <1>4, <1>5, <1>6, <1>7, <1>8, <1>9, <1>10, <1>11,
       <1>12, <1>13, <1>14, <1>15, <1>16, <1>17, <1>18, <1>19, <1>20, <1>21,
       <1>22, <1>23, <1>24, <1>25, <1>26, <1>27, <1>28, <1>29, <1>30, <1>31,
       <1>32, <1>33, <1>34, <1>35, <1>36, <1>37, <1>38, <1>39
       DEF Next, Request, Step

\* A version id is issued once.
LEMMA IssuedStep ==
    ASSUME TypeOK, VersionInv, [Next]_vars, NEW v \in VersionIds,
           issued[v] # None
    PROVE  issued'[v] = issued[v]
<1>1. ASSUME NEW p \in Requests, putObject(p) PROVE issued'[v] = issued[v]
    <2>1. PICK k \in Keys, body \in Bodies :
             \E size \in {BodySize[body]} \cup UnknownLength :
                PutObject(p, k, body, size)
        BY <1>1 DEF putObject
    <2>2. CASE UNCHANGED issued
        BY <2>2
    <2>3. ASSUME NEW s, NEW w \in Slots, resolveVersioning(s, body, w)
          PROVE  issued'[v] = issued[v]
        BY <2>3 DEF resolveVersioning, VersionInv, IssuedFirst, TypeOK, DataOK
    <2> QED BY <2>1, <2>2, <2>3 DEF PutObject
<1>2. ASSUME NEW p \in Requests,
             \/ getObject(p) \/ deleteObject(p) \/ copyObject(p)
             \/ putObjectTagging(p) \/ putBucketConfig(p) \/ bucketRequest(p)
      PROVE  UNCHANGED issued
    BY <1>2 DEF getObject, deleteObject, copyObject, putObjectTagging,
       putBucketConfig, bucketRequest, history
<1>3. ASSUME NEW p \in Requests, Step(p) PROVE UNCHANGED issued
    BY <1>3 DEF Step, PutWrite, computeStatDelta, PutMark, putVersionRecord,
       PutIndex, PutStats, PutReply, GetRead, GetReply, DelMark,
       putDeleteMarker, DelHide, DelLookup, DelFile, DelUnindex, DelStats,
       DvFile, DvStats, DvRecord, CopyCheck, CopyRead, CopyWrite, CopyIndex,
       CopyStats, TagWrite, PutBucket, CreateBucketDir, CreateBucketRecord,
       DeleteBucketDir, DeleteBucketRecord, history
<1>4. ASSUME NEW p \in Requests, CallFails(p) PROVE UNCHANGED issued
    BY <1>4 DEF CallFails
<1>5. CASE Crash
    BY <1>5 DEF Crash, history
<1>6. CASE UNCHANGED vars
    BY <1>6 DEF vars, history
<1> QED BY <1>1, <1>2, <1>3, <1>4, <1>5, <1>6 DEF Next, Request

\* Nothing is stored, issued or acknowledged at first.
LEMMA InitInv == Init => VersionInv
BY NoneAssumption DEF Init, VersionInv, IssuedFirst, StoredAsIssued, IsData,
   LocalsSafe, LocalsAsIssued, LocalsOnDisk, AckedVersionsDurable, PutLabels,
   RecLabels, DvLabels, CopySrcLabels, Slots

\* The inductive invariant holds in every reachable state.
LEMMA InvHolds == Spec => [](TypeOK /\ VersionInv)
<1>1. TypeOK /\ VersionInv /\ [Next]_vars => TypeOK' /\ VersionInv'
    BY ControlStep, DataStep, InvStep DEF TypeOK
<1> QED BY <1>1, InitType, InitInv, PTL DEF Spec

-----------------------------------------------------------------------------
(* What follows *)

\* A stored version never holds another body than its records report: two
\* PUTs of one key, or a PUT beside a copy or a delete, cannot mix.
THEOREM VersionsIntact == Spec => []VersionedDataIntact
<1>1. TypeOK /\ VersionInv => VersionedDataIntact
    <2> SUFFICES ASSUME TypeOK, VersionInv, NEW k \in Keys
                 PROVE  /\ \A v \in VersionIds : IsData(versions[k][v])
                              => files[k][v] \in {None, versions[k][v].etag}
                        /\ index[k] # None /\ index[k].vid # None
                              => files[k][index[k].vid] \in
                                    {None, index[k].etag}
        BY DEF VersionedDataIntact, IsData
    <2>1. index[k] # None /\ index[k].vid # None
            => index[k].vid \in VersionIds
        BY RecordFields DEF TypeOK, DataOK, Slots
    <2> QED BY <2>1 DEF VersionInv, StoredAsIssued, RecAsIssued
<1> QED BY <1>1, InvHolds, PTL

\* A GET answered from a version streams the body of the ETag it announced.
THEOREM ReadsIntact == Spec => []VersionedReadIntegrity
<1>1. VersionInv => VersionedReadIntegrity
    BY DEF VersionInv, LocalsSafe, LocalsAsIssued, VersionedReadIntegrity
<1> QED BY <1>1, InvHolds, PTL

\* A version answered with 200 keeps record and body until it is doomed.
THEOREM AckedDurable == Spec => []AckedVersionsDurable
<1>1. VersionInv => AckedVersionsDurable
    BY DEF VersionInv
<1> QED BY <1>1, InvHolds, PTL

\* The file of a version is written once: later steps keep or remove it.
THEOREM FilesWriteOnce == Spec => VersionFilesWriteOnce
<1>1. VersionInv /\ VersionInv' /\ TypeOK /\ [Next]_vars => WriteOnceStep
    <2> SUFFICES ASSUME VersionInv, VersionInv', TypeOK, [Next]_vars,
                        NEW k \in Keys, NEW v \in VersionIds,
                        files[k][v] # None
                 PROVE  files'[k][v] \in {None, files[k][v]}
        BY DEF WriteOnceStep
    <2>1. files[k][v] = issued[v] /\ files'[k][v] \in {None, issued'[v]}
        BY DEF VersionInv, StoredAsIssued
    <2>2. issued[v] # None => issued'[v] = issued[v]
        BY IssuedStep
    <2> QED BY <2>1, <2>2
<1> QED BY <1>1, InvHolds, PTL DEF Spec, VersionFilesWriteOnce

-----------------------------------------------------------------------------
(* What the index lists can be read *)

\* No step takes record or body from a version that is not doomed.
LEMMA VersionsStay ==
    ASSUME TypeOK, VersionInv, [Next]_vars, NEW k \in Keys, NEW v \in VersionIds,
           <<k, v>> \notin doomed'
    PROVE  /\ <<k, v>> \notin doomed
           /\ files[k][v] # None => files'[k][v] # None
           /\ IsData(versions[k][v]) => IsData(versions'[k][v])
<1>0. ControlOK
    BY DEF TypeOK
<1> USE <1>0 DEF PutLabels, RecLabels, DvLabels, CopyDstLabels, KeyLabels
<1>1. ASSUME NEW p \in Requests, PutWrite(p) \/ CopyWrite(p)
      PROVE  UNCHANGED <<versions, doomed>> /\ (files[k][v] # None => files'[k][v] # None)
    <2>1. UNCHANGED <<versions, doomed>>
        BY <1>1 DEF PutWrite, CopyWrite, meta, history
    <2>2. \E j \in Keys, s \in Slots, body \in Bodies : files' = [files EXCEPT ![j][s] = body]
        <3>1. CASE PutWrite(p)
            <4>1. loc[p].key \in Keys /\ loc[p].vid \in Slots /\ loc[p].body \in Bodies
                BY <3>1, LocalTypes DEF PutWrite
            <4> QED BY <3>1, <4>1 DEF PutWrite, Write
        <3>2. CASE CopyWrite(p)
            <4>1. loc[p].dst \in Keys /\ None \in Slots /\ loc[p].got \in Bodies
                BY <3>2, LocalTypes DEF CopyWrite, Slots
            <4> QED BY <3>2, <4>1 DEF CopyWrite, Write
        <3> QED BY <1>1, <3>1, <3>2
    <2>3. PICK j \in Keys, s \in Slots, body \in Bodies : files' = [files EXCEPT ![j][s] = body]
        BY <2>2
    <2>4. body # None /\ v \in Slots
        BY NoneAssumption DEF Slots
    <2>5. files'[k][v] \in {files[k][v], body}
        BY <2>3, <2>4 DEF TypeOK, DataOK
    <2> QED BY <2>1, <2>4, <2>5
<1>2. ASSUME NEW p \in Requests, DelFile(p)
      PROVE  UNCHANGED <<versions, doomed>> /\ files'[k][v] = files[k][v]
    <2>1. loc[p].key \in Keys /\ loc[p].rec.vid \in Slots
        BY <1>2, LocalTypes, RecordFields DEF DelFile
    <2>2. loc[p].rec.vid # None => <<loc[p].key, loc[p].rec.vid>> \in doomed
        BY <1>2 DEF DelFile, VersionInv, LocalsSafe, LocalsOnDisk
    <2>3. v # None
        BY NoneAssumption
    <2>4. UNCHANGED <<versions, doomed>> /\ files' = [files EXCEPT ![loc[p].key][loc[p].rec.vid] = None]
        BY <1>2 DEF DelFile, Delete, meta, history
    <2>5. ~(k = loc[p].key /\ v = loc[p].rec.vid)
        BY <2>2, <2>3, <2>4
    <2> QED BY <2>1, <2>4, <2>5 DEF TypeOK, DataOK
<1>3. ASSUME NEW p \in Requests, DvFile(p)
      PROVE  UNCHANGED <<versions, doomed>> /\ files'[k][v] = files[k][v]
    <2>1. loc[p].key \in Keys /\ loc[p].vid \in VersionIds
        BY <1>3, LocalTypes DEF DvFile
    <2>2. <<loc[p].key, loc[p].vid>> \in doomed
        BY <1>3 DEF DvFile, VersionInv, LocalsSafe, LocalsOnDisk
    <2>3. UNCHANGED <<versions, doomed>> /\ files' = [files EXCEPT ![loc[p].key][loc[p].vid] = None]
        BY <1>3 DEF DvFile, Delete, meta, history
    <2>4. v \in Slots /\ ~(k = loc[p].key /\ v = loc[p].vid)
        BY <2>2, <2>3 DEF Slots
    <2> QED BY <2>1, <2>3, <2>4 DEF TypeOK, DataOK
<1>4. ASSUME NEW p \in Requests, PutMark(p) \/ DelMark(p)
      PROVE  UNCHANGED <<files, doomed>> /\ (IsData(versions[k][v]) => IsData(versions'[k][v]))
    <2>1. loc[p].key \in Keys /\ MarkVersionsNotLatest(loc[p].key)
        BY <1>4, LocalTypes DEF PutMark, DelMark
    <2>2. UNCHANGED <<files, index, issued, acked, doomed, usedIds>>
        BY <1>4 DEF PutMark, DelMark, disk, history
    <2> QED BY <2>1, <2>2, MarkStep
<1>5. ASSUME NEW p \in Requests, putVersionRecord(p)
      PROVE  UNCHANGED <<files, doomed>> /\ (IsData(versions[k][v]) => IsData(versions'[k][v]))
    <2> DEFINE record == [kind |-> "data", latest |-> TRUE, etag |-> loc[p].body,
                          size |-> BodySize[loc[p].body]]
    <2>1. UNCHANGED <<files, doomed>> /\ versions' = [versions EXCEPT ![loc[p].key][loc[p].vid] = record]
        BY <1>5 DEF putVersionRecord, disk, history
    <2>2. loc[p].body \in Bodies /\ BodySize[loc[p].body] \in Nat
        BY <1>5, LocalTypes, ConstantsAssumption DEF putVersionRecord
    <2>3. record \in VersionRecord /\ record.kind = "data"
        BY <2>2 DEF VersionRecord
    <2>4. IsData(record)
        BY <2>3, NoneAssumption DEF IsData
    <2> HIDE DEF record
    <2> QED BY <2>1, <2>4 DEF TypeOK, DataOK
<1>6. ASSUME NEW p \in Requests, putDeleteMarker(p)
      PROVE  UNCHANGED <<files, doomed>> /\ (IsData(versions[k][v]) => IsData(versions'[k][v]))
    <2>1. PICK w \in VersionIds \ usedIds :
             versions' = [versions EXCEPT ![loc[p].key][w] =
                [kind |-> "marker", latest |-> TRUE, etag |-> None, size |-> 0]]
        BY <1>6 DEF putDeleteMarker
    <2>2. IsData(versions[k][v]) => v # w
        <3> SUFFICES ASSUME IsData(versions[k][v]) PROVE v \in usedIds
            BY <2>1
        <3>1. versions[k][v] \in VersionRecord
            BY DEF IsData, TypeOK, DataOK
        <3>2. versions[k][v].etag # None
            BY <3>1, VersionFields, NoneAssumption DEF IsData
        <3> QED BY <3>2 DEF VersionInv, IssuedFirst, StoredAsIssued
    <2>3. UNCHANGED <<files, doomed>>
        BY <1>6 DEF putDeleteMarker, disk, history
    <2>4. loc[p].key \in Keys
        BY <1>6, LocalTypes DEF putDeleteMarker
    <2> DEFINE marker == [kind |-> "marker", latest |-> TRUE, etag |-> None, size |-> 0]
    <2>5. versions' = [versions EXCEPT ![loc[p].key][w] = marker]
        BY <2>1
    <2> HIDE DEF marker
    <2>6. v # w => versions'[k][v] = versions[k][v]
        BY <2>4, <2>5 DEF TypeOK, DataOK
    <2> QED BY <2>2, <2>3, <2>6
<1>7. ASSUME NEW p \in Requests, DvRecord(p)
      PROVE  UNCHANGED <<files, doomed>> /\ versions'[k][v] = versions[k][v]
    <2>1. loc[p].key \in Keys /\ loc[p].vid \in VersionIds
        BY <1>7, LocalTypes DEF DvRecord
    <2>2. <<loc[p].key, loc[p].vid>> \in doomed
        BY <1>7 DEF DvRecord, VersionInv, LocalsSafe, LocalsOnDisk
    <2>3. UNCHANGED <<files, doomed>> /\ versions' = [versions EXCEPT ![loc[p].key][loc[p].vid] = None]
        BY <1>7 DEF DvRecord, disk, history
    <2> QED BY <2>1, <2>2, <2>3 DEF TypeOK, DataOK
<1>8. ASSUME NEW p \in Requests, Request(p)
      PROVE  UNCHANGED <<files, versions>> /\ doomed \subseteq doomed'
    BY <1>8 DEF Request, putObject, getObject, deleteObject, copyObject, putObjectTagging,
       putBucketConfig, bucketRequest, meta, disk, history
<1>9. ASSUME NEW p \in Requests,
             \/ computeStatDelta(p) \/ PutIndex(p) \/ PutStats(p) \/ GetRead(p) \/ GetReply(p)
             \/ DelHide(p) \/ DelLookup(p) \/ DelUnindex(p) \/ DelStats(p) \/ DvStats(p)
             \/ CopyCheck(p) \/ CopyRead(p) \/ CopyIndex(p) \/ CopyStats(p)
             \/ TagWrite(p) \/ PutBucket(p) \/ CreateBucketDir(p) \/ CreateBucketRecord(p)
             \/ DeleteBucketDir(p) \/ DeleteBucketRecord(p)
      PROVE  UNCHANGED <<files, versions>> /\ doomed \subseteq doomed'
    BY <1>9 DEF computeStatDelta, PutIndex, PutStats, PutReply, GetRead, GetReply, DelHide,
       DelLookup, DelUnindex, DelStats, DvStats, CopyCheck, CopyRead, CopyIndex, CopyStats,
       TagWrite, PutBucket, CreateBucketDir, CreateBucketRecord, DeleteBucketDir,
       DeleteBucketRecord, meta, disk, history
<1>10. ASSUME NEW p \in Requests, CallFails(p)
       PROVE  UNCHANGED <<files, versions, doomed>>
    BY <1>10 DEF CallFails, meta, disk
<1>11. CASE Crash
    BY <1>11 DEF Crash, meta, history
<1>12. CASE UNCHANGED vars
    BY <1>12 DEF vars, meta, disk, history
<1> QED BY <1>1, <1>2, <1>3, <1>4, <1>5, <1>6, <1>7, <1>8, <1>9, <1>10, <1>11, <1>12
        DEF Next, Step

\* An object record of a version, unless some request has doomed it.
Readable(k, rec) ==
    rec.vid # None /\ <<k, rec.vid>> \notin doomed =>
        /\ IsData(versions[k][rec.vid])
        /\ files[k][rec.vid] = rec.etag

\* The records in the index, and those SetObjectTags is about to put back.
Listed ==
    /\ \A k \in Keys : index[k] # None => Readable(k, index[k])
    /\ \A p \in Requests : pc[p] = "tag_write" => Readable(loc[p].key, loc[p].rec)

LEMMA ReadableStays ==
    ASSUME TypeOK, VersionInv, VersionInv', [Next]_vars, NEW k \in Keys, NEW rec \in ObjectRecord,
           Readable(k, rec)
    PROVE  Readable(k, rec)'
<1> SUFFICES ASSUME rec.vid # None, <<k, rec.vid>> \notin doomed'
             PROVE  /\ IsData(versions'[k][rec.vid])
                    /\ files'[k][rec.vid] = rec.etag
    BY DEF Readable
<1>1. rec.vid \in VersionIds /\ rec.etag \in Bodies /\ rec.etag # None
    BY RecordFields, NoneAssumption DEF Slots
<1>2. /\ <<k, rec.vid>> \notin doomed
      /\ files[k][rec.vid] # None => files'[k][rec.vid] # None
      /\ IsData(versions[k][rec.vid]) => IsData(versions'[k][rec.vid])
    BY <1>1, VersionsStay
<1>3. IsData(versions[k][rec.vid]) /\ files[k][rec.vid] = rec.etag
    BY <1>2 DEF Readable
<1>4. files[k][rec.vid] = issued[rec.vid] /\ files'[k][rec.vid] = issued'[rec.vid]
    BY <1>1, <1>2, <1>3 DEF VersionInv, StoredAsIssued
<1>5. issued'[rec.vid] = issued[rec.vid]
    BY <1>1, <1>3, <1>4, IssuedStep
<1> QED BY <1>2, <1>3, <1>4, <1>5

\* Which records a step puts into the index.
LEMMA IndexChange ==
    ASSUME TypeOK, [Next]_vars, NEW k \in Keys, index'[k] # None
    PROVE  \/ index'[k] = index[k] \/ index'[k].vid = None
           \/ \E p \in Requests :
                 /\ k = loc[p].key /\ doomed' = doomed
                 /\ UNCHANGED <<files, versions>>
                 /\ \/ pc[p] = "tag_write" /\ index'[k] = loc[p].rec
                    \/ /\ pc[p] = "put_index" /\ index'[k].vid = loc[p].vid
                       /\ index'[k].etag = loc[p].body
<1>1. ASSUME NEW p \in Requests, PutIndex(p) \/ TagWrite(p)
      PROVE  \/ index'[k] = index[k]
             \/ /\ k = loc[p].key /\ doomed' = doomed
                /\ UNCHANGED <<files, versions>>
                /\ \/ pc[p] = "tag_write" /\ index'[k] = loc[p].rec
                   \/ /\ pc[p] = "put_index" /\ index'[k].vid = loc[p].vid
                      /\ index'[k].etag = loc[p].body
    BY <1>1 DEF PutIndex, TagWrite, TypeOK, DataOK, disk, history
<1>2. ASSUME NEW p \in Requests, DelHide(p) \/ DelUnindex(p) \/ CopyIndex(p)
      PROVE  index'[k] = index[k] \/ index'[k].vid = None
    BY <1>2 DEF DelHide, DelUnindex, CopyIndex, TypeOK, DataOK
<1>3. ASSUME NEW p \in Requests, Request(p)
      PROVE  UNCHANGED index
    BY <1>3 DEF Request, putObject, getObject, deleteObject, copyObject, putObjectTagging,
       putBucketConfig, bucketRequest, meta
<1>4. ASSUME NEW p \in Requests,
             \/ PutWrite(p) \/ computeStatDelta(p) \/ PutMark(p) \/ putVersionRecord(p)
             \/ PutStats(p) \/ GetRead(p) \/ GetReply(p) \/ DelMark(p) \/ putDeleteMarker(p)
             \/ DelLookup(p) \/ DelFile(p) \/ DelStats(p) \/ DvFile(p) \/ DvStats(p) \/ DvRecord(p)
             \/ CopyCheck(p) \/ CopyRead(p) \/ CopyWrite(p) \/ CopyStats(p)
             \/ PutBucket(p) \/ CreateBucketDir(p) \/ CreateBucketRecord(p)
             \/ DeleteBucketDir(p) \/ DeleteBucketRecord(p)
      PROVE  UNCHANGED index
    BY <1>4 DEF PutWrite, computeStatDelta, PutMark, putVersionRecord, PutStats, PutReply,
       GetRead, GetReply, DelMark, putDeleteMarker, DelLookup, DelFile, DelStats, DvFile,
       DvStats, DvRecord, CopyCheck, CopyRead, CopyWrite, CopyStats, PutBucket,
       CreateBucketDir, CreateBucketRecord, DeleteBucketDir, DeleteBucketRecord, meta
<1>5. ASSUME NEW p \in Requests, CallFails(p) PROVE UNCHANGED index
    BY <1>5 DEF CallFails, meta
<1>6. CASE Crash
    BY <1>6 DEF Crash, meta
<1>7. CASE UNCHANGED vars
    BY <1>7 DEF vars, meta
<1> QED BY <1>1, <1>2, <1>3, <1>4, <1>5, <1>6, <1>7 DEF Next, Step

\* What a step leaves a request with that is about to put an object record back.
LEMMA TagChange ==
    ASSUME TypeOK, [Next]_vars, NEW q \in Requests, pc'[q] = "tag_write"
    PROVE  \/ pc[q] = "tag_write" /\ loc'[q] = loc[q]
           \/ \E k \in Keys : /\ index[k] # None
                              /\ loc'[q] = [key |-> k, rec |-> index[k]]
<1>0. ControlOK
    BY DEF TypeOK
<1>1. ASSUME NEW p \in Requests, q # p,
             \E label, l : Proceed(p, label, l) \/ (Goto(p, label) /\ UNCHANGED loc)
      PROVE  pc'[q] = pc[q] /\ loc'[q] = loc[q]
    BY <1>0, <1>1 DEF Proceed, Goto, ControlOK
<1>2. ASSUME NEW p \in Requests, NEW label, label # "tag_write",
             \E l : Proceed(p, label, l) \/ (Goto(p, label) /\ UNCHANGED loc)
      PROVE  pc[q] = "tag_write" /\ loc'[q] = loc[q]
    <2>1. pc'[p] = label
        BY <1>0, <1>2 DEF Proceed, Goto, ControlOK
    <2>2. q # p
        BY <2>1, <1>2
    <2> QED BY <1>1, <1>2, <2>2
<1>3. ASSUME NEW p \in Requests,
             putObject(p) \/ getObject(p) \/ deleteObject(p) \/ copyObject(p)
      PROVE  \E label : /\ label # "tag_write"
                        /\ \E l : Proceed(p, label, l) \/ (Goto(p, label) /\ UNCHANGED loc)
    BY <1>3 DEF putObject, PutObject, getObject, GetObject, GetObjectVersion, deleteObject,
       DeleteObject, DeleteObjectVersion, copyObject, CopyObject, Done
<1>4. ASSUME NEW p \in Requests, putBucketConfig(p) \/ bucketRequest(p)
      PROVE  \E label : /\ label # "tag_write"
                        /\ \E l : Proceed(p, label, l) \/ (Goto(p, label) /\ UNCHANGED loc)
    BY <1>4 DEF putBucketConfig, putBucketVersioning, putQuota, SetBucketVersioning,
       SetBucketQuota, SetBucketPolicy, RewriteBucket, bucketRequest, CreateBucket,
       DeleteBucket, Done
<1>5. ASSUME NEW p \in Requests, putObjectTagging(p)
      PROVE  \/ pc[q] = "tag_write" /\ loc'[q] = loc[q]
             \/ \E k \in Keys : /\ index[k] # None
                                /\ loc'[q] = [key |-> k, rec |-> index[k]]
    <2>1. PICK k \in Keys : SetObjectTags(p, k)
        BY <1>5 DEF putObjectTagging
    <2>2. CASE index[k] = None
        <3>1. Proceed(p, "idle", None)
            BY <2>1, <2>2 DEF SetObjectTags, Done
        <3> QED BY <3>1, <1>2
    <2>3. CASE index[k] # None
        <3>1. Proceed(p, "tag_write", [key |-> k, rec |-> index[k]])
            BY <2>1, <2>3 DEF SetObjectTags
        <3>2. loc'[p] = [key |-> k, rec |-> index[k]]
            BY <1>0, <3>1 DEF Proceed, ControlOK
        <3> QED BY <1>1, <2>3, <3>1, <3>2
    <2> QED BY <2>2, <2>3
<1>6. ASSUME NEW p \in Requests, Step(p)
      PROVE  \E label : /\ label # "tag_write"
                        /\ \E l : Proceed(p, label, l) \/ (Goto(p, label) /\ UNCHANGED loc)
    <2>1. ASSUME \/ PutWrite(p) \/ computeStatDelta(p) \/ PutMark(p) \/ putVersionRecord(p)
                 \/ PutIndex(p) \/ PutStats(p) \/ GetRead(p) \/ GetReply(p)
          PROVE  \E label : /\ label # "tag_write"
                            /\ \E l : Proceed(p, label, l) \/ (Goto(p, label) /\ UNCHANGED loc)
        BY <2>1 DEF PutWrite, computeStatDelta, StatDelta, PutMark, putVersionRecord, PutIndex,
           PutStats, PutReply, GetRead, GetReply, Done
    <2>2. ASSUME \/ DelMark(p) \/ putDeleteMarker(p) \/ DelHide(p) \/ DelLookup(p)
                 \/ DelFile(p) \/ DelUnindex(p) \/ DelStats(p)
                 \/ DvFile(p) \/ DvStats(p) \/ DvRecord(p)
          PROVE  \E label : /\ label # "tag_write"
                            /\ \E l : Proceed(p, label, l) \/ (Goto(p, label) /\ UNCHANGED loc)
        BY <2>2 DEF DelMark, putDeleteMarker, DelHide, DelLookup, DelFile, DelUnindex, DelStats,
           DvFile, DvStats, DvRecord, Done
    <2>3. ASSUME \/ CopyCheck(p) \/ CopyRead(p) \/ CopyWrite(p) \/ CopyIndex(p) \/ CopyStats(p)
                 \/ TagWrite(p) \/ PutBucket(p) \/ CreateBucketDir(p) \/ CreateBucketRecord(p)
                 \/ DeleteBucketDir(p) \/ DeleteBucketRecord(p)
          PROVE  \E label : /\ label # "tag_write"
                            /\ \E l : Proceed(p, label, l) \/ (Goto(p, label) /\ UNCHANGED loc)
        BY <2>3 DEF CopyCheck, CopyRead, CopyWrite, CopyIndex, CopyStats, TagWrite, PutBucket,
           CreateBucketDir, CreateBucketRecord, DeleteBucketDir, DeleteBucketRecord, Done
    <2> QED BY <1>6, <2>1, <2>2, <2>3 DEF Step
<1>7. ASSUME NEW p \in Requests, CallFails(p)
      PROVE  \E label : /\ label # "tag_write"
                        /\ \E l : Proceed(p, label, l) \/ (Goto(p, label) /\ UNCHANGED loc)
    BY <1>7 DEF CallFails, StatDelta, PutReply, Done
<1>8. CASE Crash
    BY <1>8 DEF Crash
<1>9. CASE UNCHANGED vars
    BY <1>9 DEF vars
<1> QED BY <1>2, <1>3, <1>4, <1>5, <1>6, <1>7, <1>8, <1>9 DEF Next, Request

\* Every step leaves the records in the index readable.
LEMMA ListedStep ==
    ASSUME TypeOK, VersionInv, VersionInv', Listed, [Next]_vars
    PROVE  Listed'
<1>1. ASSUME NEW k \in Keys, index'[k] # None
      PROVE  Readable(k, index[k])'
    <2>1. CASE index'[k] = index[k]
        <3>1. index[k] \in ObjectRecord
            BY <1>1, <2>1 DEF TypeOK, DataOK
        <3>2. PICK rec \in ObjectRecord : rec = index[k] /\ rec = index'[k]
            BY <2>1, <3>1
        <3>3. Readable(k, rec)
            BY <1>1, <3>2 DEF Listed
        <3>4. Readable(k, rec)'
            BY <3>3, ReadableStays
        <3> QED BY <3>2, <3>4 DEF Readable
    <2>2. CASE index'[k].vid = None
        BY <2>2 DEF Readable
    <2>3. ASSUME NEW p \in Requests, k = loc[p].key, pc[p] = "tag_write",
                 index'[k] = loc[p].rec
          PROVE  Readable(k, index[k])'
        <3>1. PICK rec \in ObjectRecord : rec = loc[p].rec
            BY <2>3, LocalTypes DEF TypeOK, RecLabels
        <3>2. Readable(k, rec)
            BY <2>3, <3>1 DEF Listed
        <3>3. Readable(k, rec)'
            BY <3>2, ReadableStays
        <3> QED BY <2>3, <3>1, <3>3 DEF Readable
    <2>4. ASSUME NEW p \in Requests, k = loc[p].key, doomed' = doomed,
                 UNCHANGED <<files, versions>>, pc[p] = "put_index",
                 index'[k].vid = loc[p].vid, index'[k].etag = loc[p].body
          PROVE  Readable(k, index[k])'
        BY <2>4 DEF Readable, IsData, VersionInv, LocalsSafe, LocalsOnDisk, PutLabels
    <2> QED BY <1>1, <2>1, <2>2, <2>3, <2>4, IndexChange
<1>2. ASSUME NEW q \in Requests, pc'[q] = "tag_write"
      PROVE  Readable(loc[q].key, loc[q].rec)'
    <2>1. PICK k \in Keys, rec \in ObjectRecord :
             loc'[q].key = k /\ loc'[q].rec = rec /\ Readable(k, rec)
        <3>1. CASE pc[q] = "tag_write" /\ loc'[q] = loc[q]
            BY <3>1, LocalTypes DEF Listed, TypeOK, RecLabels
        <3>2. ASSUME NEW k \in Keys, index[k] # None,
                     loc'[q] = [key |-> k, rec |-> index[k]]
              PROVE  /\ k \in Keys /\ index[k] \in ObjectRecord
                     /\ loc'[q].key = k /\ loc'[q].rec = index[k]
                     /\ Readable(k, index[k])
            BY <3>2 DEF Listed, TypeOK, DataOK
        <3> QED BY <1>2, <3>1, <3>2, TagChange
    <2>2. Readable(k, rec)'
        BY <2>1, ReadableStays
    <2> QED BY <2>1, <2>2 DEF Readable
<1> QED BY <1>1, <1>2 DEF Listed

\* A version the index names can be read until some request sets out to delete
\* it: PutObject stores file and version record before the object record.
THEOREM ListedReadable == Spec => []ListedVersionReadable
<1>1. Init => Listed
    BY DEF Init, Listed
<1>2. TypeOK /\ VersionInv /\ Listed /\ (TypeOK /\ VersionInv)' /\ [Next]_vars => Listed'
    BY ListedStep
<1>3. Listed => ListedVersionReadable
    BY DEF Listed, Readable, IsData, ListedVersionReadable
<1> QED BY <1>1, <1>2, <1>3, InvHolds, PTL DEF Spec

-----------------------------------------------------------------------------
(***************************************************************************)
(* From here on: what the engine promises when requests come one after     *)
(* the other, with one request slot (Requests = {p}).  Beside each other,  *)
(* requests break each of these properties, since no step of the engine    *)
(* takes a lock.                                                           *)
(***************************************************************************)

-----------------------------------------------------------------------------
(* Where the only request goes *)

\* A step that leaves the request at a label other than those of S.
LeavesFor(p, S) ==
    \E label : /\ label \notin S
               /\ \E l : Proceed(p, label, l) \/ (Goto(p, label) /\ UNCHANGED loc)

LEMMA LeavesForEffect ==
    ASSUME TypeOK, NEW p \in Requests, NEW S, LeavesFor(p, S)
    PROVE  pc'[p] \notin S
BY DEF LeavesFor, TypeOK, ControlOK, Proceed, Goto

-----------------------------------------------------------------------------
(* One current version at most *)

NoneLatest(k) ==
    \A v \in VersionIds : ~(versions[k][v] # None /\ versions[k][v].latest)

\* Between MarkVersionsNotLatest and PutVersion no version is the latest.
LatestInv ==
    /\ AtMostOneLatest
    /\ \A q \in Requests :
          pc[q] \in {"put_version", "del_marker"} => NoneLatest(loc[q].key)

\* Every step of the only request preserves it.
LEMMA LatestStep ==
    ASSUME NEW p, Requests = {p}, TypeOK, LatestInv, [Next]_vars
    PROVE  LatestInv'
<1>0. ControlOK /\ p \in Requests
    BY DEF TypeOK
<1> USE DEF PutLabels, KeyLabels, DvLabels
<1>1. ASSUME UNCHANGED versions, pc'[p] \notin {"put_version", "del_marker"}
      PROVE  LatestInv'
    BY <1>1 DEF LatestInv, AtMostOneLatest
<1>2. ASSUME PutMark(p) \/ DelMark(p) PROVE LatestInv'
    <2>1. PICK k \in Keys : k = loc[p].key
        BY <1>0, <1>2, LocalTypes DEF PutMark, DelMark
    <2>2. versions' = [versions EXCEPT ![k] =
             [v \in VersionIds |-> NotLatest(versions[k][v])]] /\ loc' = loc
        BY <1>2, <2>1 DEF PutMark, DelMark, MarkVersionsNotLatest
    <2>3. \A v \in VersionIds : ~(versions'[k][v] # None /\ versions'[k][v].latest)
        BY <2>2 DEF NotLatest, TypeOK, DataOK
    <2>4. \A j \in Keys \ {k} : versions'[j] = versions[j]
        BY <2>2 DEF TypeOK, DataOK
    <2> QED BY <1>0, <2>1, <2>2, <2>3, <2>4 DEF LatestInv, AtMostOneLatest, NoneLatest
<1>3. ASSUME NEW k \in Keys, NEW w \in VersionIds, NEW rec, NoneLatest(k),
             versions' = [versions EXCEPT ![k][w] = rec],
             pc'[p] \notin {"put_version", "del_marker"}
      PROVE  LatestInv'
    <2>1. \A v \in VersionIds \ {w} : ~(versions'[k][v] # None /\ versions'[k][v].latest)
        BY <1>3 DEF NoneLatest, TypeOK, DataOK
    <2>2. \A j \in Keys \ {k} : versions'[j] = versions[j]
        BY <1>3 DEF TypeOK, DataOK
    <2> QED BY <1>3, <2>1, <2>2 DEF LatestInv, AtMostOneLatest
<1>4. CASE putVersionRecord(p)
    <2>1. /\ loc[p].key \in Keys /\ loc[p].vid \in VersionIds
          /\ NoneLatest(loc[p].key)
        BY <1>0, <1>4, LocalTypes DEF putVersionRecord, LatestInv, Slots
    <2>2. \E rec : versions' = [versions EXCEPT ![loc[p].key][loc[p].vid] = rec]
        BY <1>4 DEF putVersionRecord
    <2>3. pc'[p] = "put_index"
        BY <1>0, <1>4 DEF putVersionRecord, Goto, ControlOK
    <2> QED BY <1>3, <2>1, <2>2, <2>3
<1>5. CASE putDeleteMarker(p)
    <2>1. loc[p].key \in Keys /\ NoneLatest(loc[p].key)
        BY <1>0, <1>5, LocalTypes DEF putDeleteMarker, LatestInv
    <2>2. \E w \in VersionIds : \E rec : versions' = [versions EXCEPT ![loc[p].key][w] = rec]
        BY <1>5 DEF putDeleteMarker
    <2>3. pc'[p] = "del_hide"
        BY <1>0, <1>5 DEF putDeleteMarker, Goto, ControlOK
    <2> QED BY <1>3, <2>1, <2>2, <2>3
<1>6. CASE DvRecord(p)
    <2>1. loc[p].key \in Keys /\ loc[p].vid \in VersionIds
        BY <1>0, <1>6, LocalTypes DEF DvRecord
    <2>2. \A j \in Keys, v \in VersionIds : versions'[j][v] \in {versions[j][v], None}
        BY <1>6, <2>1 DEF DvRecord, TypeOK, DataOK
    <2>3. pc'[p] = "idle"
        BY <1>0, <1>6 DEF DvRecord, Done, Proceed, Goto, ControlOK
    <2> QED BY <1>0, <2>2, <2>3 DEF LatestInv, AtMostOneLatest
<1>7. ASSUME Request(p)
      PROVE  UNCHANGED versions /\ LeavesFor(p, {"put_version", "del_marker"})
    BY <1>7 DEF Request, LeavesFor, putObject, PutObject, getObject, GetObject, GetObjectVersion,
       deleteObject, DeleteObject, DeleteObjectVersion, copyObject, CopyObject, putObjectTagging,
       SetObjectTags, putBucketConfig, putBucketVersioning, putQuota, SetBucketVersioning,
       SetBucketQuota, SetBucketPolicy, RewriteBucket, bucketRequest, CreateBucket,
       DeleteBucket, Done, meta
<1>8. ASSUME \/ PutWrite(p) \/ computeStatDelta(p) \/ PutIndex(p) \/ PutStats(p)
             \/ GetRead(p) \/ GetReply(p) \/ DelHide(p) \/ DelLookup(p) \/ DelFile(p)
             \/ DelUnindex(p) \/ DelStats(p) \/ DvFile(p) \/ DvStats(p)
      PROVE  UNCHANGED versions /\ LeavesFor(p, {"put_version", "del_marker"})
    BY <1>8 DEF LeavesFor, PutWrite, computeStatDelta, StatDelta, PutIndex, PutStats, PutReply,
       GetRead, GetReply, DelHide, DelLookup, DelFile, DelUnindex, DelStats, DvFile, DvStats,
       Done, meta
<1>9. ASSUME \/ CopyCheck(p) \/ CopyRead(p) \/ CopyWrite(p) \/ CopyIndex(p) \/ CopyStats(p)
             \/ TagWrite(p) \/ PutBucket(p) \/ CreateBucketDir(p) \/ CreateBucketRecord(p)
             \/ DeleteBucketDir(p) \/ DeleteBucketRecord(p)
      PROVE  UNCHANGED versions /\ LeavesFor(p, {"put_version", "del_marker"})
    BY <1>9 DEF LeavesFor, CopyCheck, CopyRead, CopyWrite, CopyIndex, CopyStats, TagWrite,
       PutBucket, CreateBucketDir, CreateBucketRecord, DeleteBucketDir, DeleteBucketRecord,
       Done, meta
<1>10. ASSUME CallFails(p)
       PROVE  UNCHANGED versions /\ LeavesFor(p, {"put_version", "del_marker"})
    BY <1>10 DEF LeavesFor, CallFails, StatDelta, PutReply, Done, meta
<1>11. CASE Crash
    BY <1>0, <1>1, <1>11 DEF Crash, meta
<1>12. CASE UNCHANGED vars
    BY <1>12 DEF vars, meta, LatestInv, AtMostOneLatest, NoneLatest
<1>13. ASSUME UNCHANGED versions, LeavesFor(p, {"put_version", "del_marker"})
       PROVE  LatestInv'
    BY <1>0, <1>1, <1>13, LeavesForEffect
<1> QED BY <1>2, <1>4, <1>5, <1>6, <1>7, <1>8, <1>9, <1>10, <1>11, <1>12, <1>13 DEF Next, Step

\* Of the versions of an object at most one says it is the latest, even if a
\* call fails or the process dies between the two transactions of a PUT.
THEOREM OneLatest ==
    ASSUME NEW p, Requests = {p}
    PROVE  Spec => []AtMostOneLatest
<1>1. Init => LatestInv
    BY DEF Init, LatestInv, AtMostOneLatest
<1>2. TypeOK /\ LatestInv /\ [Next]_vars => LatestInv'
    BY LatestStep
<1>3. LatestInv => AtMostOneLatest
    BY DEF LatestInv
<1> QED BY <1>1, <1>2, <1>3, TypeCorrect, PTL DEF Spec

-----------------------------------------------------------------------------
(* The counters of a bucket *)

\* UpdateBucketStats changes the counters of one bucket that has a record.
LEMMA StatsEffect ==
    ASSUME TypeOK, NEW b \in Buckets, NEW c \in Int, NEW n \in Int,
           UpdateBucketStats(b, c, n), NEW d \in Buckets
    PROVE  /\ buckets'[d] = None <=> buckets[d] = None
           /\ d # b => buckets'[d] = buckets[d]
           /\ buckets[d] # None => /\ buckets'[d].versioning = buckets[d].versioning
                                   /\ buckets'[d].quota = buckets[d].quota
           /\ buckets[b] # None => /\ buckets'[b].count = buckets[b].count + c
                                   /\ buckets'[b].bytes = buckets[b].bytes + n
<1> DEFINE r == Bucket(buckets[b].versioning, buckets[b].count + c, buckets[b].bytes + n,
                       buckets[b].quota)
<1>1. CASE buckets[b] = None
    BY <1>1 DEF UpdateBucketStats
<1>2. CASE buckets[b] # None
    <2>1. buckets' = [buckets EXCEPT ![b] = r]
        BY <1>2 DEF UpdateBucketStats
    <2>2. r # None
        <3>1. buckets[b] \in BucketRecord
            BY <1>2 DEF TypeOK, DataOK
        <3>2. r \in BucketRecord
            BY <3>1, RecordFields, BucketType
        <3> QED BY <3>2, NoneAssumption
    <2>3. /\ r.versioning = buckets[b].versioning /\ r.quota = buckets[b].quota
          /\ r.count = buckets[b].count + c /\ r.bytes = buckets[b].bytes + n
        BY DEF Bucket
    <2> HIDE DEF r
    <2> QED BY <1>2, <2>1, <2>2, <2>3 DEF TypeOK, DataOK
<1> QED BY <1>1, <1>2

\* The four calls of it.
LEMMA StatsSteps ==
    ASSUME TypeOK, NEW p \in Requests
    PROVE  /\ PutStats(p) => /\ BucketOf[loc[p].key] \in Buckets
                             /\ loc[p].dCount \in Int /\ loc[p].dBytes \in Int
           /\ DelStats(p) => /\ BucketOf[loc[p].key] \in Buckets
                             /\ loc[p].rec.size \in Nat
           /\ DvStats(p) => /\ BucketOf[loc[p].key] \in Buckets
                            /\ loc[p].size \in Nat
           /\ CopyStats(p) => /\ BucketOf[loc[p].dst] \in Buckets
                              /\ BodySize[loc[p].got] \in Nat
BY LocalTypes, RecordFields, ConstantsAssumption
   DEF TypeOK, PutStats, DelStats, DvStats, CopyStats, PutLabels, RecLabels, DvLabels,
       CopyDstLabels

-----------------------------------------------------------------------------
(* A bucket that is gone holds nothing *)

NoFiles(b) == \A k \in Objects(b), s \in Slots : files[k][s] = None

\* Files lie below the directory of their bucket, a request that will write one
\* has seen the bucket's record, and one that will delete a record has seen an
\* empty directory.
KeptInv ==
    /\ \A k \in Keys, s \in Slots : files[k][s] # None => BucketOf[k] \in dirs
    /\ \A b \in Buckets : buckets[b] = None => NoFiles(b)
    /\ \A q \in Requests :
          /\ pc[q] = "put_write" => buckets[BucketOf[loc[q].key]] # None
          /\ pc[q] \in {"copy_read", "copy_write"} => buckets[BucketOf[loc[q].dst]] # None
          /\ pc[q] = "db_record" => NoFiles(loc[q].bucket)

Careful == {"put_write", "copy_read", "copy_write", "db_record"}

\* A step that writes no file and removes no record, directory or file but
\* those of the only request.
LEMMA KeptQuiet ==
    ASSUME NEW p, Requests = {p}, KeptInv, LeavesFor(p, Careful), TypeOK,
           UNCHANGED files, dirs \subseteq dirs',
           \A b \in Buckets : buckets'[b] = None => buckets[b] = None
    PROVE  KeptInv'
<1>1. pc'[p] \notin Careful
    BY LeavesForEffect
<1> QED BY <1>1 DEF KeptInv, NoFiles, Careful

\* A step that writes a file of a bucket with a record, or removes files.
LEMMA KeptFiles ==
    ASSUME NEW p, Requests = {p}, KeptInv, LeavesFor(p, Careful), TypeOK, UNCHANGED buckets,
           NEW k \in Keys, NEW s \in Slots, NEW body,
           files' = [files EXCEPT ![k][s] = body],
           \/ body = None /\ dirs' = dirs
           \/ buckets[BucketOf[k]] # None /\ dirs' = dirs \cup {BucketOf[k]}
    PROVE  KeptInv'
<1>1. pc'[p] \notin Careful
    BY LeavesForEffect
<1>2. ASSUME NEW j \in Keys, NEW t \in Slots
      PROVE  files'[j][t] = files[j][t] \/ (j = k /\ files'[j][t] = body)
    BY DEF TypeOK, DataOK
<1>3. \A j \in Keys, t \in Slots : files'[j][t] # None => BucketOf[j] \in dirs'
    BY <1>2 DEF KeptInv
<1>4. \A b \in Buckets : buckets'[b] = None =>
         \A j \in Objects(b), t \in Slots : files'[j][t] = None
    BY <1>2 DEF KeptInv, NoFiles, Objects
<1> QED BY <1>1, <1>3, <1>4 DEF KeptInv, NoFiles, Careful

\* Every step of the only request preserves it.
LEMMA KeptStep ==
    ASSUME NEW p, Requests = {p}, TypeOK, KeptInv, [Next]_vars
    PROVE  KeptInv'
<1>0. ControlOK /\ p \in Requests /\ BucketOf \in [Keys -> Buckets]
    BY ConstantsAssumption DEF TypeOK
<1> USE DEF PutLabels, RecLabels, DvLabels, CopyDstLabels
<1>1. CASE PutWrite(p)
    <2>1. /\ loc[p].key \in Keys /\ loc[p].vid \in Slots
          /\ buckets[BucketOf[loc[p].key]] # None
        BY <1>0, <1>1, LocalTypes DEF PutWrite, KeptInv
    <2>2. LeavesFor(p, Careful) /\ UNCHANGED buckets
        BY <1>1 DEF PutWrite, LeavesFor, Careful, meta
    <2> QED BY <1>0, <1>1, <2>1, <2>2, KeptFiles DEF PutWrite, Write
<1>2. CASE CopyWrite(p)
    <2>1. /\ loc[p].dst \in Keys /\ None \in Slots
          /\ buckets[BucketOf[loc[p].dst]] # None
        BY <1>0, <1>2, LocalTypes DEF CopyWrite, KeptInv, Slots
    <2>2. LeavesFor(p, Careful) /\ UNCHANGED buckets
        BY <1>2 DEF CopyWrite, LeavesFor, Careful, meta
    <2> QED BY <1>0, <1>2, <2>1, <2>2, KeptFiles DEF CopyWrite, Write
<1>3. CASE DelFile(p)
    <2>1. loc[p].key \in Keys /\ loc[p].rec.vid \in Slots
        BY <1>0, <1>3, LocalTypes, RecordFields DEF DelFile
    <2>2. LeavesFor(p, Careful) /\ UNCHANGED buckets
        BY <1>3 DEF DelFile, LeavesFor, Careful, meta
    <2> QED BY <1>0, <1>3, <2>1, <2>2, KeptFiles DEF DelFile, Delete
<1>4. CASE DvFile(p)
    <2>1. loc[p].key \in Keys /\ loc[p].vid \in Slots
        BY <1>0, <1>4, LocalTypes DEF DvFile, Slots
    <2>2. LeavesFor(p, Careful) /\ UNCHANGED buckets
        BY <1>4 DEF DvFile, LeavesFor, Careful, meta
    <2> QED BY <1>0, <1>4, <2>1, <2>2, KeptFiles DEF DvFile, Delete
<1>5. CASE putObject(p)
    <2>1. PICK k \in Keys, body \in Bodies :
             \E size \in {BodySize[body]} \cup UnknownLength : PutObject(p, k, body, size)
        BY <1>5 DEF putObject
    <2>2. UNCHANGED <<files, dirs, buckets>>
        BY <1>5 DEF putObject, meta, disk
    <2>3. CASE Done(p)
        BY <1>0, <2>2, <2>3, KeptQuiet DEF Done, LeavesFor, Careful
    <2>4. ASSUME NEW v, buckets[BucketOf[k]] # None,
                 Proceed(p, "put_write", [key |-> k, body |-> body, vid |-> v,
                                          dCount |-> 0, dBytes |-> 0])
          PROVE  KeptInv'
        <3>1. pc'[p] = "put_write" /\ loc'[p].key = k
            BY <1>0, <2>4 DEF Proceed, Goto, ControlOK
        <3> QED BY <2>2, <2>4, <3>1 DEF KeptInv, NoFiles
    <2> QED BY <2>1, <2>3, <2>4 DEF PutObject
<1>6. CASE CopyCheck(p)
    <2>1. UNCHANGED <<files, dirs, buckets>>
        BY <1>6 DEF CopyCheck, meta, disk
    <2>2. CASE Done(p)
        BY <1>0, <2>1, <2>2, KeptQuiet DEF Done, LeavesFor, Careful
    <2>3. CASE buckets[BucketOf[loc[p].dst]] # None /\ Goto(p, "copy_read") /\ UNCHANGED loc
        <3>1. pc'[p] = "copy_read" /\ loc'[p] = loc[p]
            BY <1>0, <2>3 DEF Goto, ControlOK
        <3> QED BY <2>1, <2>3, <3>1 DEF KeptInv, NoFiles
    <2> QED BY <1>6, <2>2, <2>3 DEF CopyCheck
<1>7. CASE CopyRead(p)
    <2>1. UNCHANGED <<files, dirs, buckets>>
        BY <1>7 DEF CopyRead, meta, disk
    <2>2. CASE Done(p)
        BY <1>0, <2>1, <2>2, KeptQuiet DEF Done, LeavesFor, Careful
    <2>3. ASSUME NEW body, Proceed(p, "copy_write", [dst |-> loc[p].dst,
                              etag |-> loc[p].rec.etag, got |-> body])
          PROVE  KeptInv'
        <3>1. pc'[p] = "copy_write" /\ loc'[p].dst = loc[p].dst
            BY <1>0, <2>3 DEF Proceed, Goto, ControlOK
        <3>2. pc[p] = "copy_read"
            BY <1>7 DEF CopyRead
        <3> QED BY <2>1, <3>1, <3>2 DEF KeptInv, NoFiles
    <2> QED BY <1>7, <2>2, <2>3 DEF CopyRead
<1>8. CASE DeleteBucketDir(p)
    <2>1. UNCHANGED <<files, buckets>>
        BY <1>8 DEF DeleteBucketDir, meta
    <2>2. CASE Done(p) /\ UNCHANGED dirs
        BY <1>0, <2>1, <2>2, KeptQuiet DEF Done, LeavesFor, Careful
    <2>3. CASE /\ loc[p].bucket \in dirs => ~BucketDirInUse(loc[p].bucket)
               /\ dirs' = dirs \ {loc[p].bucket}
               /\ Goto(p, "db_record") /\ UNCHANGED loc
        <3>1. \A k \in Keys, s \in Slots : BucketOf[k] = loc[p].bucket => files[k][s] = None
            BY <2>3 DEF BucketDirInUse, KeptInv
        <3>2. pc'[p] = "db_record" /\ loc'[p] = loc[p]
            BY <1>0, <2>3 DEF Goto, ControlOK
        <3>3. \A k \in Keys, s \in Slots : files'[k][s] # None => BucketOf[k] \in dirs'
            BY <2>1, <2>3, <3>1 DEF KeptInv
        <3> QED BY <2>1, <3>1, <3>2, <3>3 DEF KeptInv, NoFiles, Objects
    <2> QED BY <1>8, <2>2, <2>3 DEF DeleteBucketDir
<1>9. CASE DeleteBucketRecord(p)
    <2>1. UNCHANGED <<files, dirs>> /\ buckets' = [buckets EXCEPT ![loc[p].bucket] = None]
        BY <1>9 DEF DeleteBucketRecord, disk
    <2>2. NoFiles(loc[p].bucket)
        BY <1>0, <1>9 DEF DeleteBucketRecord, KeptInv
    <2>3. pc'[p] = "idle"
        BY <1>0, <1>9 DEF DeleteBucketRecord, Done, Proceed, Goto, ControlOK
    <2> QED BY <2>1, <2>2, <2>3 DEF KeptInv, NoFiles, TypeOK, DataOK
<1>10. ASSUME \/ getObject(p) \/ deleteObject(p) \/ copyObject(p) \/ putObjectTagging(p)
              \/ putBucketConfig(p) \/ bucketRequest(p)
       PROVE  LeavesFor(p, Careful) /\ UNCHANGED <<files, dirs, buckets>>
    BY <1>10 DEF LeavesFor, Careful, getObject, GetObject, GetObjectVersion, deleteObject,
       DeleteObject, DeleteObjectVersion, copyObject, CopyObject, putObjectTagging,
       SetObjectTags, putBucketConfig, putBucketVersioning, putQuota, SetBucketVersioning,
       SetBucketQuota, SetBucketPolicy, RewriteBucket, bucketRequest, CreateBucket,
       DeleteBucket, Done, meta, disk
<1>11. ASSUME \/ computeStatDelta(p) \/ PutMark(p) \/ putVersionRecord(p) \/ PutIndex(p)
              \/ GetRead(p) \/ GetReply(p) \/ DelMark(p) \/ putDeleteMarker(p) \/ DelHide(p)
              \/ DelLookup(p) \/ DelUnindex(p) \/ DvRecord(p) \/ CopyIndex(p) \/ TagWrite(p)
       PROVE  LeavesFor(p, Careful) /\ UNCHANGED <<files, dirs, buckets>>
    BY <1>11 DEF LeavesFor, Careful, computeStatDelta, StatDelta, PutMark, putVersionRecord,
       PutIndex, GetRead, GetReply, DelMark, putDeleteMarker, DelHide, DelLookup, DelUnindex,
       DvRecord, CopyIndex, TagWrite, Done, meta, disk
<1>12. ASSUME PutStats(p) \/ DelStats(p) \/ DvStats(p) \/ CopyStats(p)
       PROVE  /\ LeavesFor(p, Careful) /\ UNCHANGED <<files, dirs>>
              /\ \A d \in Buckets : buckets'[d] = None => buckets[d] = None
    <2>1. LeavesFor(p, Careful) /\ UNCHANGED <<files, dirs>>
        BY <1>12 DEF LeavesFor, Careful, PutStats, PutReply, DelStats, DvStats, CopyStats, Done,
           disk
    <2>2. \E b \in Buckets, c \in Int, n \in Int : UpdateBucketStats(b, c, n)
        BY <1>0, <1>12, StatsSteps DEF PutStats, DelStats, DvStats, CopyStats
    <2> QED BY <2>1, <2>2, StatsEffect
<1>13. ASSUME PutBucket(p) \/ CreateBucketDir(p) \/ CreateBucketRecord(p)
       PROVE  /\ LeavesFor(p, Careful) /\ UNCHANGED files /\ dirs \subseteq dirs'
              /\ \A d \in Buckets : buckets'[d] = None => buckets[d] = None
    <2>1. LeavesFor(p, Careful) /\ UNCHANGED files /\ dirs \subseteq dirs'
        BY <1>13 DEF LeavesFor, Careful, PutBucket, CreateBucketDir, CreateBucketRecord, Done,
           disk
    <2>2. NewBucket # None
        BY BucketType, NoneAssumption DEF NewBucket, Versioning
    <2>3. PutBucket(p) => loc[p].rec # None
        BY <1>0, LocalTypes, NoneAssumption DEF PutBucket
    <2> QED BY <1>13, <2>1, <2>2, <2>3
            DEF PutBucket, CreateBucketDir, CreateBucketRecord, TypeOK, DataOK, meta
<1>14. ASSUME CallFails(p)
       PROVE  LeavesFor(p, Careful) /\ UNCHANGED <<files, dirs, buckets>>
    BY <1>14 DEF LeavesFor, Careful, CallFails, StatDelta, PutReply, Done, meta, disk
<1>15. CASE Crash
    <2>1. UNCHANGED <<files, dirs, buckets>> /\ pc'[p] = "idle"
        BY <1>0, <1>15 DEF Crash, meta
    <2> QED BY <2>1 DEF KeptInv, NoFiles
<1>16. CASE UNCHANGED vars
    BY <1>16 DEF vars, meta, disk, KeptInv, NoFiles
<1> QED BY <1>0, <1>1, <1>2, <1>3, <1>4, <1>5, <1>6, <1>7, <1>8, <1>9, <1>10, <1>11, <1>12,
           <1>13, <1>14, <1>15, <1>16, KeptQuiet DEF Next, Request, Step

\* DeleteBucket never abandons data, whatever the counters say and whichever
\* requests failed or died before: the directory is tried before the record.
THEOREM NothingAbandoned ==
    ASSUME NEW p, Requests = {p}
    PROVE  Spec => []DeletedBucketHoldsNoData
<1>1. Init => KeptInv
    BY ConstantsAssumption DEF Init, KeptInv, NoFiles, Objects
<1>2. TypeOK /\ KeptInv /\ [Next]_vars => KeptInv'
    BY KeptStep
<1>3. KeptInv => DeletedBucketHoldsNoData
    BY DEF KeptInv, NoFiles, DeletedBucketHoldsNoData
<1> QED BY <1>1, <1>2, <1>3, TypeCorrect, PTL DEF Spec

-----------------------------------------------------------------------------
(* Quotas *)

Within(r) == /\ r.quota[1] > 0 => r.bytes <= r.quota[1]
             /\ r.quota[2] > 0 => r.count <= r.quota[2]

\* A PUT that passed checkQuota still fits, since nothing else has run, and its
\* delta is no more than what was checked.
QuotaInv ==
    /\ \A b \in Buckets : buckets[b] # None => Within(buckets[b])
    /\ \A q \in Requests :
          /\ pc[q] \in PutLabels =>
                /\ LET r == buckets[BucketOf[loc[q].key]]
                   IN  r # None => checkQuota(r, BodySize[loc[q].body])
                /\ loc[q].dCount <= 1 /\ loc[q].dBytes <= BodySize[loc[q].body]
          /\ pc[q] = "bucket_write" => Within(loc[q].rec)

\* A step that leaves the records alone and goes to no label of interest.
LEMMA QuotaQuiet ==
    ASSUME NEW p, Requests = {p}, TypeOK, QuotaInv, UNCHANGED buckets,
           LeavesFor(p, PutLabels \cup {"bucket_write"})
    PROVE  QuotaInv'
<1>1. pc'[p] \notin PutLabels \cup {"bucket_write"}
    BY LeavesForEffect
<1> QED BY <1>1 DEF QuotaInv, Within

\* Counters that do not grow stay within the quota.
LEMMA QuotaStats ==
    ASSUME NEW p, Requests = {p}, TypeOK, QuotaInv,
           LeavesFor(p, PutLabels \cup {"bucket_write"}),
           NEW b \in Buckets, NEW c \in Int, NEW n \in Int, UpdateBucketStats(b, c, n),
           \/ c <= 0 /\ n <= 0
           \/ \E m \in Nat : /\ c <= 1 /\ n <= m
                             /\ buckets[b] # None => checkQuota(buckets[b], m)
    PROVE  QuotaInv'
<1>1. pc'[p] \notin PutLabels \cup {"bucket_write"}
    BY LeavesForEffect
<1>2. ASSUME NEW d \in Buckets, buckets'[d] # None PROVE Within(buckets'[d])
    <2>1. buckets[d] # None /\ buckets'[d].quota = buckets[d].quota
        BY <1>2, StatsEffect
    <2>2. buckets[d] \in BucketRecord
        BY <2>1 DEF TypeOK, DataOK
    <2>3. /\ buckets[d].count \in Int /\ buckets[d].bytes \in Int
          /\ buckets[d].quota[1] \in Nat /\ buckets[d].quota[2] \in Nat
        BY <2>2, RecordFields
    <2>4. CASE d # b
        BY <2>1, <2>4, StatsEffect DEF QuotaInv
    <2>5. CASE d = b
        <3>1. /\ buckets'[d].count = buckets[d].count + c
              /\ buckets'[d].bytes = buckets[d].bytes + n
            BY <2>1, <2>5, StatsEffect
        <3>2. Within(buckets[d])
            BY <2>1 DEF QuotaInv
        <3> QED BY <2>1, <2>3, <2>5, <3>1, <3>2 DEF Within, checkQuota
    <2> QED BY <2>4, <2>5
<1> QED BY <1>1, <1>2 DEF QuotaInv, Within

\* The delta of a PUT is at most one object and the bytes of its body.
LEMMA QuotaDelta ==
    ASSUME NEW p, Requests = {p}, TypeOK, QuotaInv, UNCHANGED buckets, pc[p] = "put_delta",
           NEW old \in ObjectRecord \cup {None}, StatDelta(p, old)
    PROVE  QuotaInv'
<1>1. loc[p].body \in Bodies /\ BodySize[loc[p].body] \in Nat
    BY LocalTypes, ConstantsAssumption DEF TypeOK, PutLabels
<1>2. old # None => old.size \in Nat
    BY RecordFields
<1> DEFINE overwrite == loc[p].vid = None /\ old # None
           dc == IF overwrite THEN 0 ELSE 1
           db == IF overwrite THEN BodySize[loc[p].body] - old.size ELSE BodySize[loc[p].body]
           l == [key |-> loc[p].key, body |-> loc[p].body, vid |-> loc[p].vid,
                 dCount |-> dc, dBytes |-> db]
<1>3. /\ pc'[p] \in {"put_mark", "put_index"}
      /\ loc'[p].key = loc[p].key /\ loc'[p].body = loc[p].body
      /\ loc'[p].dCount = dc /\ loc'[p].dBytes = db
    <2>1. PICK label \in {"put_mark", "put_index"} : Proceed(p, label, l)
        BY DEF StatDelta
    <2>2. pc'[p] = label /\ loc'[p] = l
        BY <2>1, ProceedEffect
    <2> HIDE DEF dc, db
    <2> QED BY <2>2
<1>4. loc'[p].dCount <= 1 /\ loc'[p].dBytes <= BodySize[loc[p].body]
    BY <1>1, <1>2, <1>3
<1>5. LET r == buckets[BucketOf[loc[p].key]]
      IN  r # None => checkQuota(r, BodySize[loc[p].body])
    BY DEF QuotaInv, PutLabels
<1> QED BY <1>3, <1>4, <1>5 DEF QuotaInv, PutLabels, Within

\* Every step of the only request preserves it, when bodies come with their
\* length, nothing is copied and the quotas stay.
LEMMA QuotaStep ==
    ASSUME NEW p, Requests = {p}, UnknownLength = {}, "copy" \notin Workload,
           "setQuota" \notin Workload, TypeOK, QuotaInv, [Next]_vars,
           pc[p] # "copy_stats"
    PROVE  QuotaInv'
<1>0. ControlOK /\ p \in Requests /\ BucketOf \in [Keys -> Buckets]
    BY ConstantsAssumption DEF TypeOK
<1> USE DEF PutLabels
<1>1. CASE putObject(p)
    <2>1. PICK k \in Keys, body \in Bodies : PutObject(p, k, body, BodySize[body])
        BY <1>1 DEF putObject
    <2>2. UNCHANGED buckets /\ BodySize[body] \in Nat
        BY <1>1, ConstantsAssumption DEF putObject, meta
    <2>3. CASE Done(p)
        BY <1>0, <2>2, <2>3, QuotaQuiet DEF Done, LeavesFor
    <2>4. ASSUME NEW v, checkQuota(buckets[BucketOf[k]], BodySize[body]),
                 Proceed(p, "put_write", [key |-> k, body |-> body, vid |-> v,
                                          dCount |-> 0, dBytes |-> 0])
          PROVE  QuotaInv'
        <3>1. /\ pc'[p] = "put_write" /\ loc'[p].key = k /\ loc'[p].body = body
              /\ loc'[p].dCount = 0 /\ loc'[p].dBytes = 0
            BY <1>0, <2>4, ProceedEffect
        <3> QED BY <2>2, <2>4, <3>1 DEF QuotaInv, Within
    <2> QED BY <2>1, <2>3, <2>4 DEF PutObject
<1>2. CASE PutWrite(p) \/ PutMark(p) \/ putVersionRecord(p) \/ PutIndex(p)
    <2>1. UNCHANGED <<buckets, loc>> /\ pc[p] \in PutLabels /\ pc'[p] \in PutLabels
        BY <1>0, <1>2 DEF PutWrite, PutMark, putVersionRecord, PutIndex, Goto, ControlOK, meta
    <2> QED BY <2>1 DEF QuotaInv, Within
<1>3. CASE computeStatDelta(p)
    <2>1. UNCHANGED buckets /\ pc[p] = "put_delta" /\ StatDelta(p, index[loc[p].key])
        BY <1>3 DEF computeStatDelta, meta
    <2>2. index[loc[p].key] \in ObjectRecord \cup {None}
        BY <1>0, <2>1, LocalTypes DEF TypeOK, DataOK
    <2> QED BY <2>1, <2>2, QuotaDelta
<1>4. CASE PutStats(p)
    <2>1. /\ BucketOf[loc[p].key] \in Buckets
          /\ loc[p].dCount \in Int /\ loc[p].dBytes \in Int
          /\ UpdateBucketStats(BucketOf[loc[p].key], loc[p].dCount, loc[p].dBytes)
        BY <1>0, <1>4, StatsSteps DEF PutStats
    <2>2. LeavesFor(p, PutLabels \cup {"bucket_write"})
        BY <1>4 DEF PutStats, PutReply, Done, LeavesFor
    <2>3. BodySize[loc[p].body] \in Nat
        BY <1>0, <1>4, LocalTypes, ConstantsAssumption DEF PutStats
    <2>4. /\ loc[p].dCount <= 1 /\ loc[p].dBytes <= BodySize[loc[p].body]
          /\ buckets[BucketOf[loc[p].key]] # None
                => checkQuota(buckets[BucketOf[loc[p].key]], BodySize[loc[p].body])
        BY <1>0, <1>4 DEF PutStats, QuotaInv
    <2> QED BY <2>1, <2>2, <2>3, <2>4, QuotaStats
<1>5. CASE DelStats(p)
    <2>1. /\ BucketOf[loc[p].key] \in Buckets /\ loc[p].rec.size \in Nat
          /\ UpdateBucketStats(BucketOf[loc[p].key], -1, -loc[p].rec.size)
        BY <1>0, <1>5, StatsSteps DEF DelStats
    <2>2. LeavesFor(p, PutLabels \cup {"bucket_write"})
        BY <1>5 DEF DelStats, Done, LeavesFor
    <2> QED BY <2>1, <2>2, QuotaStats
<1>6. CASE DvStats(p)
    <2>1. /\ BucketOf[loc[p].key] \in Buckets /\ loc[p].size \in Nat
          /\ UpdateBucketStats(BucketOf[loc[p].key], -1, -loc[p].size)
        BY <1>0, <1>6, StatsSteps DEF DvStats
    <2>2. LeavesFor(p, PutLabels \cup {"bucket_write"})
        BY <1>6 DEF DvStats, LeavesFor
    <2> QED BY <2>1, <2>2, QuotaStats
<1>7. CASE putBucketConfig(p)
    <2>1. UNCHANGED buckets
        BY <1>7 DEF putBucketConfig, meta
    <2>2. CASE Done(p)
        BY <1>0, <2>1, <2>2, QuotaQuiet DEF Done, LeavesFor
    <2>3. ASSUME NEW b \in Buckets, NEW rec, Within(rec), RewriteBucket(p, b, rec)
          PROVE  QuotaInv'
        <3>1. pc'[p] = "bucket_write" /\ loc'[p].rec = rec
            BY <1>0, <2>3, ProceedEffect DEF RewriteBucket
        <3> QED BY <2>1, <2>3, <3>1 DEF QuotaInv, Within
    <2>4. ASSUME NEW b \in Buckets, buckets[b] # None, NEW s
          PROVE  /\ Within(buckets[b])
                 /\ Within(Bucket(s, buckets[b].count, buckets[b].bytes, buckets[b].quota))
        BY <2>4 DEF QuotaInv, Within, Bucket
    <2>5. PICK b \in Buckets : \/ putBucketVersioning(p, b) \/ SetBucketPolicy(p, b)
        BY <1>7 DEF putBucketConfig, Arrive
    <2> QED BY <2>2, <2>3, <2>4, <2>5 DEF putBucketVersioning, SetBucketVersioning,
               SetBucketPolicy
<1>8. CASE PutBucket(p) \/ CreateBucketRecord(p) \/ DeleteBucketRecord(p)
    <2>1. pc'[p] = "idle"
        BY <1>0, <1>8 DEF PutBucket, CreateBucketRecord, DeleteBucketRecord, Done, Proceed,
           Goto, ControlOK
    <2>2. \E b \in Buckets : \E r : buckets' = [buckets EXCEPT ![b] = r] /\ (r # None => Within(r))
        <3>1. Within(NewBucket)
            BY DEF NewBucket, Bucket, Within
        <3>2. loc[p].bucket \in Buckets /\ (PutBucket(p) => Within(loc[p].rec))
            BY <1>0, <1>8, LocalTypes DEF PutBucket, CreateBucketRecord, DeleteBucketRecord,
               QuotaInv, BucketLabels
        <3> QED BY <1>8, <3>1, <3>2 DEF PutBucket, CreateBucketRecord, DeleteBucketRecord
    <2> QED BY <2>1, <2>2 DEF QuotaInv, TypeOK, DataOK
<1>9. ASSUME getObject(p) \/ deleteObject(p) \/ putObjectTagging(p) \/ bucketRequest(p)
      PROVE  UNCHANGED buckets /\ LeavesFor(p, PutLabels \cup {"bucket_write"})
    BY <1>9 DEF LeavesFor, getObject, GetObject, GetObjectVersion, deleteObject,
       DeleteObject, DeleteObjectVersion, putObjectTagging, SetObjectTags, bucketRequest,
       CreateBucket, DeleteBucket, Done, meta
<1>10. ASSUME \/ GetRead(p) \/ GetReply(p) \/ DelMark(p) \/ putDeleteMarker(p) \/ DelHide(p)
              \/ DelLookup(p) \/ DelFile(p) \/ DelUnindex(p) \/ DvFile(p) \/ DvRecord(p)
              \/ CopyCheck(p) \/ CopyRead(p) \/ CopyWrite(p) \/ CopyIndex(p) \/ TagWrite(p)
              \/ CreateBucketDir(p) \/ DeleteBucketDir(p)
       PROVE  UNCHANGED buckets /\ LeavesFor(p, PutLabels \cup {"bucket_write"})
    BY <1>10 DEF LeavesFor, GetRead, GetReply, DelMark, putDeleteMarker, DelHide, DelLookup,
       DelFile, DelUnindex, DvFile, DvRecord, CopyCheck, CopyRead, CopyWrite, CopyIndex,
       TagWrite, CreateBucketDir, DeleteBucketDir, Done, meta
<1>11. CASE CallFails(p)
    <2>1. UNCHANGED buckets
        BY <1>11 DEF CallFails, meta
    <2>2. CASE pc[p] = "put_delta" /\ StatDelta(p, None)
        BY <2>1, <2>2, QuotaDelta
    <2>3. CASE ~(pc[p] = "put_delta" /\ StatDelta(p, None))
        <3>1. LeavesFor(p, PutLabels \cup {"bucket_write"})
            BY <1>11, <2>3 DEF CallFails, LeavesFor, PutReply, Done
        <3> QED BY <2>1, <3>1, QuotaQuiet
    <2> QED BY <2>2, <2>3
<1>12. CASE Crash
    <2>1. UNCHANGED buckets /\ pc'[p] = "idle"
        BY <1>0, <1>12 DEF Crash, meta
    <2> QED BY <2>1 DEF QuotaInv, Within
<1>13. CASE UNCHANGED vars
    BY <1>13 DEF vars, meta, QuotaInv, Within
<1>14. ~copyObject(p) /\ ~CopyStats(p)
    BY DEF copyObject, Arrive, CopyStats
<1> QED BY <1>0, <1>1, <1>2, <1>3, <1>4, <1>5, <1>6, <1>7, <1>8, <1>9, <1>10, <1>11, <1>12,
           <1>13, <1>14, QuotaQuiet DEF Next, Request, Step

\* No request is a copy if no client asks for one.
CopyPcs == CopySrcLabels \cup CopyDstLabels
NoCopies == \A q \in Requests : pc[q] \notin CopyPcs

LEMMA NoCopiesStep ==
    ASSUME NEW p, Requests = {p}, "copy" \notin Workload, TypeOK, NoCopies, [Next]_vars
    PROVE  NoCopies'
<1>0. ControlOK /\ p \in Requests
    BY DEF TypeOK
<1> USE DEF CopyPcs, CopySrcLabels, CopyDstLabels
<1>1. ASSUME Request(p) PROVE LeavesFor(p, CopyPcs)
    BY <1>1 DEF Request, LeavesFor, Arrive, putObject, PutObject, getObject, GetObject,
       GetObjectVersion, deleteObject, DeleteObject, DeleteObjectVersion, copyObject,
       putObjectTagging, SetObjectTags, putBucketConfig, putBucketVersioning, putQuota,
       SetBucketVersioning, SetBucketQuota, SetBucketPolicy, RewriteBucket, bucketRequest,
       CreateBucket, DeleteBucket, Done
<1>2. ASSUME Step(p) PROVE LeavesFor(p, CopyPcs)
    <2>1. ASSUME \/ PutWrite(p) \/ computeStatDelta(p) \/ PutMark(p) \/ putVersionRecord(p)
                 \/ PutIndex(p) \/ PutStats(p) \/ GetRead(p) \/ GetReply(p) \/ DelMark(p)
                 \/ putDeleteMarker(p) \/ DelHide(p) \/ DelLookup(p) \/ DelFile(p)
          PROVE  LeavesFor(p, CopyPcs)
        BY <2>1 DEF LeavesFor, PutWrite, computeStatDelta, StatDelta, PutMark, putVersionRecord,
           PutIndex, PutStats, PutReply, GetRead, GetReply, DelMark, putDeleteMarker, DelHide,
           DelLookup, DelFile, Done
    <2>2. ASSUME \/ DelUnindex(p) \/ DelStats(p) \/ DvFile(p) \/ DvStats(p) \/ DvRecord(p)
                 \/ TagWrite(p) \/ PutBucket(p) \/ CreateBucketDir(p) \/ CreateBucketRecord(p)
                 \/ DeleteBucketDir(p) \/ DeleteBucketRecord(p)
          PROVE  LeavesFor(p, CopyPcs)
        BY <2>2 DEF LeavesFor, DelUnindex, DelStats, DvFile, DvStats, DvRecord, TagWrite,
           PutBucket, CreateBucketDir, CreateBucketRecord, DeleteBucketDir, DeleteBucketRecord,
           Done
    <2>3. ~(CopyCheck(p) \/ CopyRead(p) \/ CopyWrite(p) \/ CopyIndex(p) \/ CopyStats(p))
        BY <1>0 DEF NoCopies, CopyCheck, CopyRead, CopyWrite, CopyIndex, CopyStats
    <2> QED BY <1>2, <2>1, <2>2, <2>3 DEF Step
<1>3. ASSUME CallFails(p) PROVE LeavesFor(p, CopyPcs)
    BY <1>3 DEF LeavesFor, CallFails, StatDelta, PutReply, Done
<1>4. CASE Crash
    BY <1>4 DEF Crash, NoCopies
<1>5. CASE UNCHANGED vars
    BY <1>5 DEF vars, NoCopies
<1>6. LeavesFor(p, CopyPcs) => NoCopies'
    BY <1>0, LeavesForEffect DEF NoCopies
<1> QED BY <1>1, <1>2, <1>3, <1>4, <1>5, <1>6 DEF Next

\* PUTs that come one after the other never take a bucket past its quota, also
\* when calls fail or the process dies.  The hypotheses are what the code asks
\* for: a body of unknown length is checked as -1 bytes, CopyObject checks
\* nothing, and an admin may set a quota below what is stored.
THEOREM QuotaKept ==
    ASSUME NEW p, Requests = {p}, UnknownLength = {}, "copy" \notin Workload,
           "setQuota" \notin Workload
    PROVE  Spec => []QuotaRespected
<1>1. Init => QuotaInv /\ NoCopies
    <2> SUFFICES ASSUME Init PROVE QuotaInv /\ NoCopies
        OBVIOUS
    <2>1. NoCopies
        BY DEF Init, NoCopies, CopyPcs, CopySrcLabels, CopyDstLabels
    <2>2. PICK s \in InitVersioning, q \in Quotas, present \in SUBSET Buckets :
             buckets = [b \in Buckets |-> IF b \in present THEN Bucket(s, 0, 0, q) ELSE None]
        BY DEF Init
    <2>3. q[1] \in Nat /\ q[2] \in Nat
        BY ConstantsAssumption
    <2>4. Within(Bucket(s, 0, 0, q))
        BY <2>3 DEF Within, Bucket
    <2>5. \A b \in Buckets : buckets[b] # None => Within(buckets[b])
        BY <2>2, <2>4
    <2> QED BY <2>1, <2>5 DEF Init, QuotaInv, PutLabels
<1>2. TypeOK /\ QuotaInv /\ NoCopies /\ [Next]_vars => (QuotaInv /\ NoCopies)'
    <2>1. NoCopies => pc[p] # "copy_stats"
        BY DEF NoCopies, CopyPcs, CopyDstLabels
    <2> QED BY <2>1, QuotaStep, NoCopiesStep
<1>3. QuotaInv => QuotaRespected
    BY DEF QuotaInv, Within, QuotaRespected
<1> QED BY <1>1, <1>2, <1>3, TypeCorrect, PTL DEF Spec

-----------------------------------------------------------------------------
(* Index and files *)

Plain(k) == index[k] # None /\ index[k].vid = None

Versioned(b) == buckets[b] # None /\ buckets[b].versioning = "enabled"

Matches(k) == files[k][None] = IF Plain(k) THEN index[k].etag ELSE None

\* The request has changed the file at the plain path and not yet the index.
Amid(q) == \/ pc[q] \in {"put_delta", "put_index"} /\ loc[q].vid = None
           \/ pc[q] = "del_unindex" /\ loc[q].rec.vid = None

\* What a request has read is still so, since nothing else has run.
MatchLocals(q) ==
    /\ pc[q] \in PutLabels => (loc[q].vid # None <=> Versioned(BucketOf[loc[q].key]))
    /\ pc[q] \in {"del_mark", "del_marker", "del_hide"} => Versioned(BucketOf[loc[q].key])
    /\ pc[q] \in {"del_file", "del_unindex", "tag_write"} => loc[q].rec = index[loc[q].key]
    /\ pc[q] = "bucket_write"
          => /\ buckets[loc[q].bucket] # None
             /\ loc[q].rec.versioning = buckets[loc[q].bucket].versioning
    /\ Amid(q) => files[loc[q].key][None] = IF pc[q] = "del_unindex" THEN None ELSE loc[q].body

\* A bucket with versioning has no records at the plain path, and such records
\* and files agree but for the key the request is at.
MatchInv ==
    /\ \A k \in Keys : /\ Versioned(BucketOf[k]) => ~Plain(k)
                       /\ Matches(k) \/ \E q \in Requests : Amid(q) /\ loc[q].key = k
    /\ \A q \in Requests : MatchLocals(q)

\* A behaviour that is undisturbed so far has seen no failing call and no crash.
LEMMA UndisturbedStep ==
    ASSUME NEW p, Requests = {p}, TypeOK, [Next]_vars, Undisturbed'
    PROVE  Undisturbed /\ (Request(p) \/ Step(p) \/ UNCHANGED vars)
<1>1. ~CallFails(p) /\ ~Crash
    BY DEF CallFails, Crash, Undisturbed, TypeOK, DataOK
<1>2. Request(p) => UNCHANGED <<crashes, faults>>
    BY DEF Request, Arrive, putObject, getObject, deleteObject, copyObject, putObjectTagging,
       putBucketConfig, bucketRequest
<1>3. Step(p) => UNCHANGED <<crashes, faults>>
    BY DEF Step, PutWrite, computeStatDelta, PutMark, putVersionRecord, PutIndex, PutStats,
       GetRead, GetReply, DelMark, putDeleteMarker, DelHide, DelLookup, DelFile, DelUnindex,
       DelStats, DvFile, DvStats, DvRecord, CopyCheck, CopyRead, CopyWrite, CopyIndex,
       CopyStats, TagWrite, PutBucket, CreateBucketDir, CreateBucketRecord, DeleteBucketDir,
       DeleteBucketRecord, bounds
<1>4. UNCHANGED vars => UNCHANGED <<crashes, faults>>
    BY DEF vars, bounds
<1> QED BY <1>1, <1>2, <1>3, <1>4 DEF Next, Undisturbed

\* A step that changes no plain file and no object record.
LEMMA MatchStay ==
    ASSUME NEW p, Requests = {p}, MatchInv, ~Amid(p), UNCHANGED index,
           \A k \in Keys : files'[k][None] = files[k][None],
           \A b \in Buckets : Versioned(b)' => Versioned(b),
           MatchLocals(p)'
    PROVE  MatchInv'
<1>1. ASSUME NEW k \in Keys
      PROVE  (Versioned(BucketOf[k]) => ~Plain(k))' /\ Matches(k)'
    <2>1. Versioned(BucketOf[k]) => ~Plain(k)
        BY DEF MatchInv
    <2>2. Matches(k)
        BY DEF MatchInv
    <2>3. BucketOf[k] \in Buckets /\ (Plain(k)' <=> Plain(k))
        BY ConstantsAssumption DEF Plain
    <2> QED BY <2>1, <2>2, <2>3 DEF Matches
<1> QED BY <1>1 DEF MatchInv

Watched == PutLabels \cup {"del_mark", "del_marker", "del_hide", "del_file", "del_unindex",
                           "tag_write", "bucket_write"}

LEMMA Unwatched ==
    ASSUME NEW p \in Requests, TypeOK, LeavesFor(p, Watched)
    PROVE  MatchLocals(p)'
<1>1. pc'[p] \notin Watched
    BY LeavesForEffect
<1> QED BY <1>1 DEF MatchLocals, Amid, Watched, PutLabels

\* The steps of a PUT.
LEMMA MatchPut ==
    ASSUME NEW p, Requests = {p}, TypeOK, MatchInv,
           \/ putObject(p) \/ PutWrite(p) \/ computeStatDelta(p) \/ PutMark(p)
           \/ putVersionRecord(p) \/ PutIndex(p) \/ PutStats(p)
    PROVE  MatchInv'
<1>0. ControlOK /\ p \in Requests /\ BucketOf \in [Keys -> Buckets]
    BY ConstantsAssumption DEF TypeOK
<1> USE DEF PutLabels
<1>1. CASE putObject(p)
    <2>1. PICK k \in Keys, body \in Bodies :
             \E size \in {BodySize[body]} \cup UnknownLength : PutObject(p, k, body, size)
        BY <1>1 DEF putObject
    <2>2. UNCHANGED <<files, index, buckets>> /\ ~Amid(p)
        BY <1>1 DEF putObject, meta, disk, Arrive, Amid
    <2>3. CASE Done(p)
        <3>1. MatchLocals(p)'
            BY <1>0, <2>3, Unwatched DEF Done, LeavesFor, Watched
        <3> QED BY <2>2, <3>1, MatchStay DEF Versioned
    <2>4. ASSUME NEW v, buckets[BucketOf[k]] # None,
                 resolveVersioning(buckets[BucketOf[k]].versioning, body, v),
                 Proceed(p, "put_write", [key |-> k, body |-> body, vid |-> v,
                                          dCount |-> 0, dBytes |-> 0])
          PROVE  MatchInv'
        <3>1. pc'[p] = "put_write" /\ loc'[p].key = k /\ loc'[p].vid = v
            BY <1>0, <2>4, ProceedEffect
        <3>2. v # None <=> Versioned(BucketOf[k])
            BY <2>4, NoneAssumption DEF resolveVersioning, Versioned
        <3>3. MatchLocals(p)'
            BY <2>2, <3>1, <3>2 DEF MatchLocals, Versioned, Amid
        <3> QED BY <2>2, <3>3, MatchStay DEF Versioned
    <2> QED BY <2>1, <2>3, <2>4 DEF PutObject
<1>2. CASE PutWrite(p)
    <2>1. /\ loc[p].key \in Keys /\ loc[p].vid \in Slots /\ None \in Slots
          /\ pc[p] = "put_write" /\ ~Amid(p)
        BY <1>0, <1>2, LocalTypes DEF PutWrite, Amid, Slots
    <2>2. /\ UNCHANGED <<index, buckets, loc>> /\ pc'[p] = "put_delta"
          /\ files' = [files EXCEPT ![loc[p].key][loc[p].vid] = loc[p].body]
        BY <1>0, <1>2, GotoEffect DEF PutWrite, Write, meta
    <2>3. /\ \A k \in Keys : k # loc[p].key \/ loc[p].vid # None
                => files'[k][None] = files[k][None]
          /\ loc[p].vid = None => files'[loc[p].key][None] = loc[p].body
        BY <2>1, <2>2 DEF TypeOK, DataOK
    <2>4. MatchLocals(p)'
        BY <2>1, <2>2, <2>3 DEF MatchInv, MatchLocals, Amid, Versioned
    <2>5. CASE loc[p].vid # None
        BY <2>1, <2>2, <2>3, <2>4, <2>5, MatchStay DEF Versioned
    <2>6. CASE loc[p].vid = None
        <3>1. Amid(p)'
            BY <2>2, <2>6 DEF Amid
        <3>2. ASSUME NEW k \in Keys
              PROVE  (Versioned(BucketOf[k]) => ~Plain(k))' /\ (Matches(k)' \/ k = loc[p].key)
            BY <2>1, <2>2, <2>3 DEF MatchInv, Versioned, Plain, Matches
        <3> QED BY <2>2, <2>4, <3>1, <3>2 DEF MatchInv
    <2> QED BY <2>5, <2>6
<1>3. CASE computeStatDelta(p)
    <2>1. /\ UNCHANGED <<files, index, buckets>> /\ pc[p] = "put_delta"
          /\ StatDelta(p, index[loc[p].key])
        BY <1>3 DEF computeStatDelta, meta, disk
    <2>2. /\ pc'[p] = IF loc[p].vid # None THEN "put_mark" ELSE "put_index"
          /\ loc'[p].key = loc[p].key /\ loc'[p].body = loc[p].body
          /\ loc'[p].vid = loc[p].vid
        BY <1>0, <2>1, ProceedEffect DEF StatDelta
    <2>3. Amid(p)' <=> Amid(p)
        BY <2>1, <2>2 DEF Amid
    <2>4. MatchLocals(p)'
        BY <2>1, <2>2, <2>3 DEF MatchInv, MatchLocals, Amid, Versioned
    <2>5. ASSUME NEW k \in Keys
          PROVE  (Versioned(BucketOf[k]) => ~Plain(k))' /\ (Matches(k) => Matches(k)')
        BY <2>1 DEF MatchInv, Versioned, Plain, Matches
    <2> QED BY <2>2, <2>3, <2>4, <2>5 DEF MatchInv
<1>4. CASE PutMark(p) \/ putVersionRecord(p)
    <2>1. /\ UNCHANGED <<files, index, buckets, loc>> /\ loc[p].vid # None
          /\ pc[p] \in PutLabels /\ pc'[p] \in PutLabels /\ ~Amid(p)
        BY <1>0, <1>4, GotoEffect, LocalTypes DEF PutMark, putVersionRecord, disk, Amid
    <2>2. MatchLocals(p)'
        BY <2>1 DEF MatchInv, MatchLocals, Amid, Versioned
    <2> QED BY <2>1, <2>2, MatchStay DEF Versioned
<1>5. CASE PutIndex(p)
    <2> DEFINE r == [vid |-> loc[p].vid, etag |-> loc[p].body, size |-> BodySize[loc[p].body]]
    <2>1. /\ UNCHANGED <<files, buckets, loc>> /\ pc[p] = "put_index" /\ pc'[p] = "put_stats"
          /\ index' = [index EXCEPT ![loc[p].key] = r]
        BY <1>0, <1>5, GotoEffect DEF PutIndex, disk
    <2>2. loc[p].key \in Keys /\ r \in ObjectRecord
        BY <1>0, <2>1, LocalTypes, ConstantsAssumption DEF ObjectRecord
    <2>3. r # None /\ r.vid = loc[p].vid /\ r.etag = loc[p].body
        BY <2>2, NoneAssumption
    <2> HIDE DEF r
    <2>4. /\ loc[p].vid # None <=> Versioned(BucketOf[loc[p].key])
          /\ loc[p].vid = None => files[loc[p].key][None] = loc[p].body
          /\ loc[p].vid # None => Matches(loc[p].key)
        BY <1>0, <2>1, <2>2 DEF MatchInv, MatchLocals, Amid
    <2>5. (Versioned(BucketOf[loc[p].key]) => ~Plain(loc[p].key))'
        BY <2>1, <2>2, <2>3, <2>4 DEF Versioned, Plain, TypeOK, DataOK
    <2>6. Matches(loc[p].key)'
        <3>1. CASE loc[p].vid = None
            BY <2>1, <2>2, <2>3, <2>4, <3>1 DEF Matches, Plain, TypeOK, DataOK
        <3>2. CASE loc[p].vid # None
            <4>1. ~Plain(loc[p].key) /\ ~Plain(loc[p].key)'
                BY <2>1, <2>2, <2>3, <2>4, <3>2 DEF MatchInv, Plain, TypeOK, DataOK
            <4> QED BY <2>1, <2>4, <3>2, <4>1 DEF Matches
        <3> QED BY <3>1, <3>2
    <2>7. ASSUME NEW k \in Keys, k # loc[p].key
          PROVE  (Versioned(BucketOf[k]) => ~Plain(k))' /\ Matches(k)'
        BY <2>1, <2>2, <2>7 DEF MatchInv, Versioned, Plain, Matches, TypeOK, DataOK
    <2>8. MatchLocals(p)'
        BY <1>0, <2>1 DEF MatchInv, MatchLocals, Amid, Versioned
    <2> QED BY <2>1, <2>5, <2>6, <2>7, <2>8 DEF MatchInv
<1>6. CASE PutStats(p)
    <2>1. UNCHANGED <<files, index>> /\ ~Amid(p) /\ LeavesFor(p, Watched)
        BY <1>6 DEF PutStats, PutReply, disk, Amid, Done, LeavesFor, Watched
    <2>2. \A b \in Buckets : Versioned(b)' => Versioned(b)
        BY <1>0, <1>6, StatsSteps, StatsEffect DEF PutStats, Versioned
    <2> QED BY <1>0, <2>1, <2>2, Unwatched, MatchStay
<1> QED BY <1>1, <1>2, <1>3, <1>4, <1>5, <1>6

\* The steps of a DELETE.
LEMMA MatchDelete ==
    ASSUME NEW p, Requests = {p}, TypeOK, MatchInv,
           \/ deleteObject(p) \/ DelMark(p) \/ putDeleteMarker(p) \/ DelHide(p) \/ DelLookup(p)
           \/ DelFile(p) \/ DelUnindex(p) \/ DelStats(p) \/ DvFile(p) \/ DvStats(p)
           \/ DvRecord(p)
    PROVE  MatchInv'
<1>0. ControlOK /\ p \in Requests /\ BucketOf \in [Keys -> Buckets]
    BY ConstantsAssumption DEF TypeOK
<1> USE DEF PutLabels, KeyLabels, RecLabels, DvLabels
<1>1. CASE deleteObject(p)
    <2>1. UNCHANGED <<files, index, buckets>> /\ ~Amid(p)
        BY <1>1 DEF deleteObject, meta, disk, Arrive, Amid
    <2>2. CASE LeavesFor(p, Watched)
        BY <1>0, <2>1, <2>2, Unwatched, MatchStay DEF Versioned
    <2>3. ASSUME NEW k \in Keys, Versioned(BucketOf[k]), Proceed(p, "del_mark", [key |-> k])
          PROVE  MatchInv'
        <3>1. pc'[p] = "del_mark" /\ loc'[p].key = k
            BY <1>0, <2>3, ProceedEffect
        <3>2. MatchLocals(p)'
            BY <2>1, <2>3, <3>1 DEF MatchLocals, Versioned, Amid
        <3> QED BY <2>1, <3>2, MatchStay DEF Versioned
    <2> QED BY <1>1, <2>2, <2>3 DEF deleteObject, DeleteObject, DeleteObjectVersion, Versioned,
               LeavesFor, Watched, Done
<1>2. CASE DelMark(p) \/ putDeleteMarker(p)
    <2>1. /\ UNCHANGED <<files, index, buckets, loc>> /\ pc[p] \in {"del_mark", "del_marker"}
          /\ pc'[p] \in {"del_marker", "del_hide"} /\ ~Amid(p)
        BY <1>0, <1>2, GotoEffect DEF DelMark, putDeleteMarker, disk, Amid
    <2>2. MatchLocals(p)'
        BY <1>0, <2>1 DEF MatchInv, MatchLocals, Amid, Versioned
    <2> QED BY <2>1, <2>2, MatchStay DEF Versioned
<1>3. CASE DelHide(p)
    <2>1. /\ UNCHANGED <<files, buckets>> /\ index' = [index EXCEPT ![loc[p].key] = None]
          /\ LeavesFor(p, Watched) /\ pc[p] = "del_hide"
        BY <1>3 DEF DelHide, disk, LeavesFor, Watched, Done
    <2>2. ~Plain(loc[p].key) /\ loc[p].key \in Keys
        BY <1>0, <2>1, LocalTypes DEF MatchInv, MatchLocals
    <2>3. ASSUME NEW k \in Keys
          PROVE  (Versioned(BucketOf[k]) => ~Plain(k))' /\ Matches(k)'
        <3>1. Matches(k)
            BY <2>1 DEF MatchInv, Amid
        <3>2. CASE k = loc[p].key
            BY <2>1, <2>2, <3>1, <3>2 DEF Plain, Matches, TypeOK, DataOK
        <3>3. CASE k # loc[p].key
            BY <2>1, <2>2, <3>1, <3>3 DEF MatchInv, Versioned, Plain, Matches, TypeOK, DataOK
        <3> QED BY <3>2, <3>3
    <2> QED BY <1>0, <2>1, <2>3, Unwatched DEF MatchInv
<1>4. CASE DelLookup(p)
    <2>1. /\ UNCHANGED <<files, index, buckets>> /\ ~Amid(p) /\ loc[p].key \in Keys
        BY <1>0, <1>4, LocalTypes DEF DelLookup, meta, disk, Amid
    <2>2. CASE Done(p)
        BY <1>0, <2>1, <2>2, Unwatched, MatchStay DEF Versioned, Done, LeavesFor, Watched
    <2>3. CASE Proceed(p, "del_file", [key |-> loc[p].key, rec |-> index[loc[p].key]])
        <3>1. /\ pc'[p] = "del_file" /\ loc'[p].key = loc[p].key
              /\ loc'[p].rec = index[loc[p].key]
            BY <1>0, <2>3, ProceedEffect
        <3>2. MatchLocals(p)'
            BY <2>1, <3>1 DEF MatchLocals, Amid
        <3> QED BY <2>1, <3>2, MatchStay DEF Versioned
    <2> QED BY <1>4, <2>2, <2>3 DEF DelLookup
<1>5. CASE DelFile(p)
    <2>1. /\ loc[p].key \in Keys /\ loc[p].rec.vid \in Slots /\ None \in Slots
          /\ pc[p] = "del_file" /\ ~Amid(p) /\ loc[p].rec = index[loc[p].key]
        BY <1>0, <1>5, LocalTypes, RecordFields DEF DelFile, Amid, Slots, MatchInv, MatchLocals
    <2>2. /\ UNCHANGED <<index, buckets, loc>> /\ pc'[p] = "del_unindex"
          /\ files' = [files EXCEPT ![loc[p].key][loc[p].rec.vid] = None]
        BY <1>0, <1>5, GotoEffect DEF DelFile, Delete, meta
    <2>3. /\ \A k \in Keys : k # loc[p].key \/ loc[p].rec.vid # None
                => files'[k][None] = files[k][None]
          /\ loc[p].rec.vid = None => files'[loc[p].key][None] = None
        BY <2>1, <2>2 DEF TypeOK, DataOK
    <2>4. MatchLocals(p)'
        BY <2>1, <2>2, <2>3 DEF MatchLocals, Amid
    <2>5. CASE loc[p].rec.vid # None
        BY <2>1, <2>2, <2>3, <2>4, <2>5, MatchStay DEF Versioned
    <2>6. CASE loc[p].rec.vid = None
        <3>1. Amid(p)'
            BY <2>2, <2>6 DEF Amid
        <3>2. ASSUME NEW k \in Keys
              PROVE  (Versioned(BucketOf[k]) => ~Plain(k))' /\ (Matches(k)' \/ k = loc[p].key)
            BY <2>1, <2>2, <2>3 DEF MatchInv, Versioned, Plain, Matches
        <3> QED BY <2>2, <2>4, <3>1, <3>2 DEF MatchInv
    <2> QED BY <2>5, <2>6
<1>6. CASE DelUnindex(p)
    <2>1. /\ UNCHANGED <<files, buckets>> /\ index' = [index EXCEPT ![loc[p].key] = None]
          /\ pc'[p] = "del_stats" /\ pc[p] = "del_unindex"
        BY <1>0, <1>6, GotoEffect DEF DelUnindex, disk
    <2>2. loc[p].key \in Keys /\ loc[p].rec = index[loc[p].key]
        BY <1>0, <2>1, LocalTypes DEF MatchInv, MatchLocals
    <2>3. files[loc[p].key][None] = None
        <3>1. CASE Amid(p)
            BY <1>0, <2>1, <3>1 DEF MatchInv, MatchLocals
        <3>2. CASE ~Amid(p)
            BY <2>1, <2>2, <3>2 DEF MatchInv, Matches, Amid, Plain
        <3> QED BY <3>1, <3>2
    <2>4. ASSUME NEW k \in Keys
          PROVE  (Versioned(BucketOf[k]) => ~Plain(k))' /\ Matches(k)'
        <3>1. CASE k = loc[p].key
            BY <2>1, <2>2, <2>3, <3>1 DEF Plain, Matches, TypeOK, DataOK
        <3>2. CASE k # loc[p].key
            BY <2>1, <2>2, <3>2 DEF MatchInv, Versioned, Plain, Matches, TypeOK, DataOK
        <3> QED BY <3>1, <3>2
    <2>5. MatchLocals(p)'
        BY <2>1 DEF MatchLocals, Amid
    <2> QED BY <2>4, <2>5 DEF MatchInv
<1>7. CASE DelStats(p) \/ DvStats(p)
    <2>1. UNCHANGED <<files, index>> /\ ~Amid(p) /\ LeavesFor(p, Watched)
        BY <1>7 DEF DelStats, DvStats, disk, Amid, Done, LeavesFor, Watched
    <2>2. \E b \in Buckets, c \in Int, n \in Int : UpdateBucketStats(b, c, n)
        BY <1>0, <1>7, StatsSteps DEF DelStats, DvStats
    <2>3. \A b \in Buckets : Versioned(b)' => Versioned(b)
        BY <2>2, StatsEffect DEF Versioned
    <2> QED BY <1>0, <2>1, <2>3, Unwatched, MatchStay
<1>8. CASE DvFile(p)
    <2>1. loc[p].key \in Keys /\ loc[p].vid \in VersionIds
        BY <1>0, <1>8, LocalTypes DEF DvFile
    <2>2. /\ UNCHANGED <<index, buckets>> /\ ~Amid(p) /\ LeavesFor(p, Watched)
          /\ files' = [files EXCEPT ![loc[p].key][loc[p].vid] = None]
        BY <1>8 DEF DvFile, Delete, meta, Amid, LeavesFor, Watched
    <2>3. \A k \in Keys : files'[k][None] = files[k][None]
        BY <2>1, <2>2, NoneAssumption DEF TypeOK, DataOK, Slots
    <2> QED BY <1>0, <2>2, <2>3, Unwatched, MatchStay DEF Versioned
<1>9. CASE DvRecord(p)
    <2>1. UNCHANGED <<files, index, buckets>> /\ ~Amid(p) /\ LeavesFor(p, Watched)
        BY <1>9 DEF DvRecord, disk, Amid, LeavesFor, Watched, Done
    <2> QED BY <1>0, <2>1, Unwatched, MatchStay DEF Versioned
<1> QED BY <1>1, <1>2, <1>3, <1>4, <1>5, <1>6, <1>7, <1>8, <1>9

\* Every undisturbed step of the only request preserves the invariant, if
\* nothing is copied and the versioning of a bucket stays as it is.
LEMMA MatchStep ==
    ASSUME NEW p, Requests = {p}, "copy" \notin Workload, "setVersioning" \notin Workload,
           TypeOK, NoCopies, MatchInv, Request(p) \/ Step(p) \/ UNCHANGED vars
    PROVE  MatchInv'
<1>0. ControlOK /\ p \in Requests
    BY DEF TypeOK
<1>1. ASSUME \/ getObject(p) \/ bucketRequest(p) \/ GetRead(p) \/ GetReply(p)
             \/ CreateBucketDir(p) \/ DeleteBucketDir(p)
      PROVE  MatchInv'
    <2>1. UNCHANGED <<files, index, buckets>> /\ ~Amid(p) /\ LeavesFor(p, Watched)
        BY <1>1 DEF getObject, GetObject, GetObjectVersion, bucketRequest, CreateBucket,
           DeleteBucket, GetRead, GetReply, CreateBucketDir, DeleteBucketDir, Arrive, meta,
           disk, Amid, LeavesFor, Watched, PutLabels, Done
    <2> QED BY <1>0, <2>1, Unwatched, MatchStay DEF Versioned
<1>2. CASE putObjectTagging(p)
    <2>1. UNCHANGED <<files, index, buckets>> /\ ~Amid(p)
        BY <1>2 DEF putObjectTagging, Arrive, meta, disk, Amid
    <2>2. PICK k \in Keys : SetObjectTags(p, k)
        BY <1>2 DEF putObjectTagging
    <2>3. CASE Done(p)
        BY <1>0, <2>1, <2>3, Unwatched, MatchStay
           DEF Versioned, Done, LeavesFor, Watched, PutLabels
    <2>4. CASE Proceed(p, "tag_write", [key |-> k, rec |-> index[k]])
        <3>1. pc'[p] = "tag_write" /\ loc'[p].key = k /\ loc'[p].rec = index[k]
            BY <1>0, <2>4, ProceedEffect
        <3>2. MatchLocals(p)'
            BY <2>1, <3>1 DEF MatchLocals, Amid, PutLabels
        <3> QED BY <2>1, <3>2, MatchStay DEF Versioned
    <2> QED BY <2>2, <2>3, <2>4 DEF SetObjectTags
<1>3. CASE TagWrite(p)
    <2>1. /\ UNCHANGED <<files, buckets>> /\ ~Amid(p) /\ LeavesFor(p, Watched)
          /\ pc[p] = "tag_write" /\ index' = [index EXCEPT ![loc[p].key] = loc[p].rec]
        BY <1>3 DEF TagWrite, disk, Amid, LeavesFor, Watched, PutLabels, Done
    <2>2. loc[p].rec = index[loc[p].key]
        BY <1>0, <2>1 DEF MatchInv, MatchLocals
    <2>3. index' = index
        BY <2>1, <2>2 DEF TypeOK, DataOK
    <2> QED BY <1>0, <2>1, <2>3, Unwatched, MatchStay DEF Versioned
<1>4. CASE putBucketConfig(p)
    <2>1. UNCHANGED <<files, index, buckets>> /\ ~Amid(p)
        BY <1>4 DEF putBucketConfig, Arrive, meta, disk, Amid
    <2>2. CASE Done(p)
        BY <1>0, <2>1, <2>2, Unwatched, MatchStay
           DEF Versioned, Done, LeavesFor, Watched, PutLabels
    <2>3. ASSUME NEW b \in Buckets, NEW rec, buckets[b] # None,
                 rec.versioning = buckets[b].versioning, RewriteBucket(p, b, rec)
          PROVE  MatchInv'
        <3>1. pc'[p] = "bucket_write" /\ loc'[p].rec = rec /\ loc'[p].bucket = b
            BY <1>0, <2>3, ProceedEffect DEF RewriteBucket
        <3>2. MatchLocals(p)'
            BY <2>1, <2>3, <3>1 DEF MatchLocals, Amid, PutLabels
        <3> QED BY <2>1, <3>2, MatchStay DEF Versioned
    <2>4. PICK b \in Buckets : putQuota(p, b) \/ SetBucketPolicy(p, b)
        BY <1>4 DEF putBucketConfig, Arrive
    <2>5. \A c, n, q : Bucket(buckets[b].versioning, c, n, q).versioning = buckets[b].versioning
        BY DEF Bucket
    <2> QED BY <2>2, <2>3, <2>4, <2>5 DEF putQuota, SetBucketQuota, SetBucketPolicy
<1>5. CASE PutBucket(p) \/ CreateBucketRecord(p) \/ DeleteBucketRecord(p)
    <2>1. UNCHANGED <<files, index>> /\ ~Amid(p) /\ LeavesFor(p, Watched)
        BY <1>5 DEF PutBucket, CreateBucketRecord, DeleteBucketRecord, disk, Amid, LeavesFor,
           Watched, PutLabels, Done
    <2>2. ASSUME NEW b \in Buckets, Versioned(b)' PROVE Versioned(b)
        <3>1. CASE PutBucket(p)
            BY <1>0, <2>2, <3>1 DEF PutBucket, MatchInv, MatchLocals, Versioned, TypeOK, DataOK
        <3>2. CASE CreateBucketRecord(p) \/ DeleteBucketRecord(p)
            BY <2>2, <3>2 DEF CreateBucketRecord, DeleteBucketRecord, NewBucket, Bucket,
               Versioned, TypeOK, DataOK
        <3> QED BY <1>5, <3>1, <3>2
    <2> QED BY <1>0, <2>1, <2>2, Unwatched, MatchStay
<1>6. CASE UNCHANGED vars
    BY <1>6 DEF vars, meta, disk, MatchInv, MatchLocals, Matches, Amid, Plain, Versioned
<1>7. /\ ~copyObject(p) /\ ~CopyCheck(p) /\ ~CopyRead(p) /\ ~CopyWrite(p) /\ ~CopyIndex(p)
      /\ ~CopyStats(p)
    BY <1>0 DEF copyObject, Arrive, CopyCheck, CopyRead, CopyWrite, CopyIndex, CopyStats,
       NoCopies, CopyPcs, CopySrcLabels, CopyDstLabels
<1> QED BY <1>1, <1>2, <1>3, <1>4, <1>5, <1>6, <1>7, MatchPut, MatchDelete DEF Request, Step

LEMMA MatchInit == Init => MatchInv /\ NoCopies
<1> SUFFICES ASSUME Init PROVE MatchInv /\ NoCopies
    OBVIOUS
<1>1. \A k \in Keys : ~Plain(k) /\ Matches(k)
    BY DEF Init, Plain, Matches, Slots
<1>2. \A q \in Requests : pc[q] = "idle"
    BY DEF Init
<1> QED BY <1>1, <1>2 DEF MatchInv, MatchLocals, Amid, NoCopies, CopyPcs, CopySrcLabels,
           CopyDstLabels, PutLabels

\* In a bucket whose versioning stays as it is, between requests, a file at the
\* plain path has its object record and the record its file.
THEOREM IndexIsRight ==
    ASSUME NEW p, Requests = {p}, "copy" \notin Workload, "setVersioning" \notin Workload
    PROVE  Spec => []IndexMatchesFiles
<1> DEFINE Inv == NoCopies /\ (Undisturbed => MatchInv)
<1>1. Init => Inv
    BY MatchInit
<1>2. TypeOK /\ Inv /\ [Next]_vars => Inv'
    BY MatchStep, NoCopiesStep, UndisturbedStep
<1>3. Inv => IndexMatchesFiles
    BY DEF MatchInv, Matches, Plain, Amid, IndexMatchesFiles, Idle
<1> HIDE DEF Inv
<1> QED BY <1>1, <1>2, <1>3, TypeCorrect, PTL DEF Spec

-----------------------------------------------------------------------------
(* Counting what a bucket holds *)

\* As many bytes as the size says.
LEMMA OwnBytes ==
    ASSUME NEW o, NEW n \in Nat
    PROVE  IsFiniteSet({o} \X (1..n)) /\ Cardinality({o} \X (1..n)) = n
<1>1. IsFiniteSet({o}) /\ Cardinality({o}) = 1
    BY FS_Singleton
<1>2. IsFiniteSet(1..n) /\ Cardinality(1..n) = n
    BY FS_Interval
<1>3. /\ IsFiniteSet({o} \X (1..n))
      /\ Cardinality({o} \X (1..n)) = Cardinality({o}) * Cardinality(1..n)
    BY <1>1, <1>2, FS_Product
<1> QED BY <1>1, <1>2, <1>3

\* Two disjoint sets of which one is finite.
LEMMA Joined ==
    ASSUME NEW A, NEW B, IsFiniteSet(B), A \cap B = {}
    PROVE  /\ IsFiniteSet(A \cup B) <=> IsFiniteSet(A)
           /\ IsFiniteSet(A) => Cardinality(A \cup B) = Cardinality(A) + Cardinality(B)
<1>1. IsFiniteSet(A \cup B) => IsFiniteSet(A)
    BY FS_Subset
<1>2. ASSUME IsFiniteSet(A)
      PROVE  /\ IsFiniteSet(A \cup B)
             /\ Cardinality(A \cup B) = Cardinality(A) + Cardinality(B)
    <2>1. Cardinality(A \cap B) = 0
        BY FS_EmptySet
    <2>2. Cardinality(A) \in Nat /\ Cardinality(B) \in Nat
        BY <1>2, FS_CardinalityType
    <2>3. /\ IsFiniteSet(A \cup B)
          /\ Cardinality(A \cup B) = Cardinality(A) + Cardinality(B) - Cardinality(A \cap B)
        BY <1>2, FS_Union
    <2> QED BY <2>1, <2>2, <2>3
<1> QED BY <1>1, <1>2

\* Taking one object out of the count.
LEMMA Without ==
    ASSUME NEW S, NEW f \in [S -> Nat], NEW o, NEW R, NEW h,
           R = S \ {o}, h = [x \in R |-> f[x]]
    PROVE  LET one   == IF o \in S THEN 1 ELSE 0
               bytes == IF o \in S THEN f[o] ELSE 0
           IN  /\ IsFiniteSet(S) <=> IsFiniteSet(R)
               /\ IsFiniteSet(R) => Cardinality(S) = Cardinality(R) + one
               /\ IsFiniteSet(BytesOf(f)) <=> IsFiniteSet(BytesOf(h))
               /\ IsFiniteSet(BytesOf(h))
                    => Cardinality(BytesOf(f)) = Cardinality(BytesOf(h)) + bytes
<1>1. CASE o \notin S
    <2>1. R = S /\ h = f
        BY <1>1
    <2>2. IsFiniteSet(S) => Cardinality(S) \in Nat
        BY FS_CardinalityType
    <2>3. IsFiniteSet(BytesOf(f)) => Cardinality(BytesOf(f)) \in Nat
        BY FS_CardinalityType
    <2> QED BY <1>1, <2>1, <2>2, <2>3
<1>2. CASE o \in S
    <2> DEFINE own == {o} \X (1..f[o])
    <2>1. S = R \cup {o} /\ R \cap {o} = {}
        BY <1>2
    <2>2. IsFiniteSet({o}) /\ Cardinality({o}) = 1
        BY FS_Singleton
    <2>3. IsFiniteSet(own) /\ Cardinality(own) = f[o]
        BY <1>2, OwnBytes
    <2>4. BytesOf(f) = UNION {{x} \X (1..f[x]) : x \in S}
        BY DEF BytesOf
    <2>5. BytesOf(h) = UNION {{x} \X (1..f[x]) : x \in R}
        <3>1. DOMAIN h = R /\ \A x \in R : h[x] = f[x]
            OBVIOUS
        <3> QED BY <3>1 DEF BytesOf
    <2>6. BytesOf(f) = BytesOf(h) \cup own
        BY <2>1, <2>4, <2>5
    <2>7. BytesOf(h) \cap own = {}
        BY <2>1, <2>5
    <2>8. /\ IsFiniteSet(S) <=> IsFiniteSet(R)
          /\ IsFiniteSet(R) => Cardinality(S) = Cardinality(R) + 1
        <3>1. /\ IsFiniteSet(R \cup {o}) <=> IsFiniteSet(R)
              /\ IsFiniteSet(R) => Cardinality(R \cup {o}) = Cardinality(R) + Cardinality({o})
            BY <2>1, <2>2, Joined
        <3> QED BY <2>1, <2>2, <3>1
    <2> HIDE DEF own
    <2>9. /\ IsFiniteSet(BytesOf(f)) <=> IsFiniteSet(BytesOf(h))
          /\ IsFiniteSet(BytesOf(h))
               => Cardinality(BytesOf(f)) = Cardinality(BytesOf(h)) + f[o]
        <3>1. /\ IsFiniteSet(BytesOf(h) \cup own) <=> IsFiniteSet(BytesOf(h))
              /\ IsFiniteSet(BytesOf(h))
                   => Cardinality(BytesOf(h) \cup own) = Cardinality(BytesOf(h)) + Cardinality(own)
            BY <2>3, <2>7, Joined
        <3> QED BY <2>3, <2>6, <3>1
    <2> QED BY <1>2, <2>8, <2>9
<1> QED BY <1>1, <1>2

\* Two ways to fill a bucket that differ in one object.
LEMMA Recount ==
    ASSUME NEW S, NEW T, NEW f \in [S -> Nat], NEW g \in [T -> Nat], NEW o,
           IsFiniteSet(S), IsFiniteSet(BytesOf(f)),
           \A x : x # o => (x \in S <=> x \in T),
           \A x \in S : x # o => f[x] = g[x]
    PROVE  /\ IsFiniteSet(T) /\ IsFiniteSet(BytesOf(g))
           /\ Cardinality(T) = Cardinality(S) - (IF o \in S THEN 1 ELSE 0)
                                 + (IF o \in T THEN 1 ELSE 0)
           /\ Cardinality(BytesOf(g)) = Cardinality(BytesOf(f)) - (IF o \in S THEN f[o] ELSE 0)
                                           + (IF o \in T THEN g[o] ELSE 0)
<1> DEFINE R == S \ {o}
           h == [x \in R |-> f[x]]
<1>1. R = T \ {o}
    OBVIOUS
<1>2. h = [x \in R |-> g[x]]
    OBVIOUS
<1>3. PICK Q, e : Q = R /\ e = h
    OBVIOUS
<1>4. /\ Q = S \ {o} /\ e = [x \in Q |-> f[x]]
      /\ Q = T \ {o} /\ e = [x \in Q |-> g[x]]
    BY <1>1, <1>2, <1>3
<1> HIDE DEF R, h
<1>5. /\ IsFiniteSet(Q) /\ IsFiniteSet(BytesOf(e))
      /\ Cardinality(S) = Cardinality(Q) + (IF o \in S THEN 1 ELSE 0)
      /\ Cardinality(BytesOf(f)) = Cardinality(BytesOf(e)) + (IF o \in S THEN f[o] ELSE 0)
    BY <1>4, Without
<1>6. /\ IsFiniteSet(T) /\ IsFiniteSet(BytesOf(g))
      /\ Cardinality(T) = Cardinality(Q) + (IF o \in T THEN 1 ELSE 0)
      /\ Cardinality(BytesOf(g)) = Cardinality(BytesOf(e)) + (IF o \in T THEN g[o] ELSE 0)
    BY <1>4, <1>5, Without
<1>7. Cardinality(Q) \in Nat /\ Cardinality(BytesOf(e)) \in Nat
    BY <1>5, FS_CardinalityType
<1>8. (o \in S => f[o] \in Nat) /\ (o \in T => g[o] \in Nat)
    OBVIOUS
<1> QED BY <1>5, <1>6, <1>7, <1>8

SizeOf(k, s) == IF s = None THEN index[k].size ELSE versions[k][s].size

\* Sizes are lengths.
LEMMA SizesOK ==
    ASSUME TypeOK, NEW b
    PROVE  StoredSizes(b) \in [Stored(b) -> Nat]
<1>1. ASSUME NEW k \in Keys, NEW s \in Slots, Holds(k, s)
      PROVE  (IF s = None THEN index[k].size ELSE versions[k][s].size) \in Nat
    <2>1. CASE s = None
        BY <1>1, <2>1, RecordFields DEF Holds, TypeOK, DataOK
    <2>2. CASE s # None
        <3>1. versions[k][s] \in VersionRecord
            BY <1>1, <2>2 DEF Holds, IsData, TypeOK, DataOK, Slots
        <3> QED BY <2>2, <3>1, VersionFields
    <2> QED BY <2>1, <2>2
<1> QED BY <1>1 DEF StoredSizes, Stored, Objects

LEMMA SizesOKNext ==
    ASSUME TypeOK', NEW b
    PROVE  StoredSizes(b)' \in [Stored(b)' -> Nat]
<1>1. ASSUME NEW k \in Keys, NEW s \in Slots, Holds(k, s)'
      PROVE  (IF s = None THEN index'[k].size ELSE versions'[k][s].size) \in Nat
    <2>1. CASE s = None
        BY <1>1, <2>1, RecordFields DEF Holds, TypeOK, DataOK
    <2>2. CASE s # None
        <3>1. versions'[k][s] \in VersionRecord
            BY <1>1, <2>2 DEF Holds, IsData, TypeOK, DataOK, Slots
        <3> QED BY <2>2, <3>1, VersionFields
    <2> QED BY <2>1, <2>2
<1> QED BY <1>1 DEF StoredSizes, Stored, Objects

\* A step that changes one slot of one object changes the count by that slot.
OneSlot(k, s) ==
    \A j \in Keys, t \in Slots : <<j, t>> # <<k, s>> =>
        /\ Holds(j, t)' <=> Holds(j, t)
        /\ Holds(j, t) => SizeOf(j, t)' = SizeOf(j, t)

Filled(b) == IsFiniteSet(Stored(b)) /\ IsFiniteSet(BytesOf(StoredSizes(b)))

One(k, s, b) == IF BucketOf[k] = b /\ Holds(k, s) THEN 1 ELSE 0
Weight(k, s, b) == IF BucketOf[k] = b /\ Holds(k, s) THEN SizeOf(k, s) ELSE 0

LEMMA CountSlot ==
    ASSUME TypeOK, TypeOK', NEW b \in Buckets, NEW k \in Keys, NEW s \in Slots,
           OneSlot(k, s), Filled(b)
    PROVE  /\ Filled(b)'
           /\ Cardinality(Stored(b)') = Cardinality(Stored(b)) - One(k, s, b) + One(k, s, b)'
           /\ Cardinality(BytesOf(StoredSizes(b)'))
                = Cardinality(BytesOf(StoredSizes(b))) - Weight(k, s, b) + Weight(k, s, b)'
<1>1. PICK S, T, f, g : S = Stored(b) /\ T = Stored(b)' /\ f = StoredSizes(b)
                        /\ g = StoredSizes(b)'
    OBVIOUS
<1>2. f \in [S -> Nat] /\ g \in [T -> Nat]
    BY <1>1, SizesOK, SizesOKNext
<1>3. PICK o : o = <<k, s>>
    OBVIOUS
<1>4. \A x : x \in S <=> /\ x \in Objects(b) \X Slots
                         /\ Holds(x[1], x[2])
    BY <1>1 DEF Stored
<1>5. \A x : x \in T <=> /\ x \in Objects(b) \X Slots
                         /\ Holds(x[1], x[2])'
    BY <1>1 DEF Stored
<1>6. \A x \in S : f[x] = SizeOf(x[1], x[2])
    BY <1>1 DEF StoredSizes, SizeOf
<1>7. \A x \in T : g[x] = SizeOf(x[1], x[2])'
    BY <1>1 DEF StoredSizes, SizeOf
<1>8. ASSUME NEW j \in Keys, NEW t \in Slots, <<j, t>> # o
      PROVE  /\ Holds(j, t)' <=> Holds(j, t)
             /\ Holds(j, t) => SizeOf(j, t)' = SizeOf(j, t)
    BY <1>3, <1>8 DEF OneSlot
<1>9. ASSUME NEW x \in Objects(b) \X Slots, x # o
      PROVE  /\ x \in S <=> x \in T
             /\ x \in S => f[x] = g[x]
    <2>1. PICK j \in Keys, t \in Slots : x = <<j, t>>
        BY DEF Objects
    <2>2. x[1] = j /\ x[2] = t
        BY <2>1
    <2> QED BY <1>4, <1>5, <1>6, <1>7, <1>8, <1>9, <2>1, <2>2
<1>10. \A x : x # o => (x \in S <=> x \in T)
    BY <1>4, <1>5, <1>9
<1>11. \A x \in S : x # o => f[x] = g[x]
    BY <1>4, <1>9
<1>12. /\ o \in S <=> BucketOf[k] = b /\ Holds(k, s)
       /\ o \in T <=> BucketOf[k] = b /\ Holds(k, s)'
    BY <1>3, <1>4, <1>5 DEF Objects
<1>13. (o \in S => f[o] = SizeOf(k, s)) /\ (o \in T => g[o] = SizeOf(k, s)')
    BY <1>3, <1>6, <1>7
<1>14. IsFiniteSet(S) /\ IsFiniteSet(BytesOf(f))
    BY <1>1 DEF Filled
<1>15. /\ IsFiniteSet(T) /\ IsFiniteSet(BytesOf(g))
       /\ Cardinality(T) = Cardinality(S) - (IF o \in S THEN 1 ELSE 0) + (IF o \in T THEN 1 ELSE 0)
       /\ Cardinality(BytesOf(g)) = Cardinality(BytesOf(f)) - (IF o \in S THEN f[o] ELSE 0)
                                       + (IF o \in T THEN g[o] ELSE 0)
    BY ONLY <1>2, <1>10, <1>14, <1>11, Recount
<1>16. Filled(b)'
    BY <1>1, <1>15 DEF Filled
<1>17. /\ One(k, s, b) = IF o \in S THEN 1 ELSE 0
       /\ One(k, s, b)' = IF o \in T THEN 1 ELSE 0
    BY <1>12 DEF One
<1>18. /\ Weight(k, s, b) = IF o \in S THEN f[o] ELSE 0
       /\ Weight(k, s, b)' = IF o \in T THEN g[o] ELSE 0
    BY <1>12, <1>13 DEF Weight
<1> QED BY <1>1, <1>15, <1>16, <1>17, <1>18

\* One that changes none keeps it.
LEMMA CountSame ==
    ASSUME NEW b,
           \A j \in Keys, t \in Slots : /\ Holds(j, t)' <=> Holds(j, t)
                                        /\ Holds(j, t) => SizeOf(j, t)' = SizeOf(j, t)
    PROVE  Stored(b)' = Stored(b) /\ StoredSizes(b)' = StoredSizes(b)
<1>1. ASSUME NEW x \in Objects(b) \X Slots
      PROVE  /\ Holds(x[1], x[2])' <=> Holds(x[1], x[2])
             /\ Holds(x[1], x[2]) => SizeOf(x[1], x[2])' = SizeOf(x[1], x[2])
    BY DEF Objects
<1>2. Stored(b)' = Stored(b)
    BY <1>1 DEF Stored, Objects
<1>3. StoredSizes(b) = [o \in Stored(b) |-> SizeOf(o[1], o[2])]
    BY DEF StoredSizes, SizeOf
<1>4. StoredSizes(b)' = [o \in Stored(b)' |-> SizeOf(o[1], o[2])']
    BY DEF StoredSizes, SizeOf
<1>5. \A o \in Stored(b) : o \in Objects(b) \X Slots /\ Holds(o[1], o[2])
    BY DEF Stored
<1> QED BY <1>1, <1>2, <1>3, <1>4, <1>5

-----------------------------------------------------------------------------
(* The counters are exact *)

\* What the request still has to book, if it is at an object of bucket b.
Owes(q, b) ==
    /\ \/ pc[q] = "put_index" /\ loc[q].vid # None
       \/ pc[q] \in {"put_stats", "del_stats"}
       \/ pc[q] = "dv_record" /\ IsData(versions[loc[q].key][loc[q].vid])
    /\ BucketOf[loc[q].key] = b

OwedCount(q, b) == IF ~Owes(q, b) THEN 0
                   ELSE IF pc[q] \in PutLabels THEN loc[q].dCount
                   ELSE IF pc[q] = "del_stats" THEN -1 ELSE 1

OwedBytes(q, b) == IF ~Owes(q, b) THEN 0
                   ELSE IF pc[q] \in PutLabels THEN loc[q].dBytes
                   ELSE IF pc[q] = "del_stats" THEN -loc[q].rec.size ELSE loc[q].size

Balanced(b) ==
    /\ Filled(b)
    /\ \A q \in Requests :
          /\ buckets[b].count + OwedCount(q, b) = Cardinality(Stored(b))
          /\ buckets[b].bytes + OwedBytes(q, b) = Cardinality(BytesOf(StoredSizes(b)))

\* computeStatDelta has told an overwrite from a new object.
DeltaOK(q) ==
    LET old == index[loc[q].key]
        n == BodySize[loc[q].body]
    IN  IF loc[q].vid # None \/ old = None
        THEN loc[q].dCount = 1 /\ loc[q].dBytes = n
        ELSE loc[q].dCount = 0 /\ loc[q].dBytes = n - old.size

\* What a request knows of what it books.
StatsLocals(q) ==
    /\ pc[q] \in {"put_write", "put_delta", "put_mark", "put_version"} /\ loc[q].vid # None
          => loc[q].vid \in usedIds /\ versions[loc[q].key][loc[q].vid] = None
    /\ pc[q] \in {"put_mark", "put_version", "put_index"} => DeltaOK(q)
    /\ pc[q] \in {"del_lookup", "del_file", "del_unindex"}
          => ~Versioned(BucketOf[loc[q].key])
    /\ pc[q] \in {"dv_file", "dv_stats"} => IsData(versions[loc[q].key][loc[q].vid])
    /\ pc[q] \in DvLabels /\ IsData(versions[loc[q].key][loc[q].vid])
          => versions[loc[q].key][loc[q].vid].size = loc[q].size
    /\ pc[q] = "bucket_write"
          => /\ loc[q].rec.count = buckets[loc[q].bucket].count
             /\ loc[q].rec.bytes = buckets[loc[q].bucket].bytes
    /\ pc[q] \notin {"cb_dir", "cb_record"}

\* Without versioning an object is at its plain path; ids are used once.
Kinds == /\ \A k \in Keys : buckets[BucketOf[k]] # None /\ ~Versioned(BucketOf[k])
                               => index[k] = None \/ Plain(k)
         /\ \A k \in Keys, v \in VersionIds : versions[k][v] # None => v \in usedIds

StatsInv == /\ Kinds
            /\ \A b \in Buckets : buckets[b] # None => Balanced(b)
            /\ \A q \in Requests : StatsLocals(q)

\* The settings of a bucket that is still there are as they were.
SameSetting ==
    \A b \in Buckets : buckets'[b] # None =>
        buckets[b] # None /\ buckets'[b].versioning = buckets[b].versioning

SameHoldings ==
    \A j \in Keys, t \in Slots : /\ Holds(j, t)' <=> Holds(j, t)
                                 /\ Holds(j, t) => SizeOf(j, t)' = SizeOf(j, t)

\* What is owed and counted are integers.
LEMMA OwedInt ==
    ASSUME TypeOK, NEW q \in Requests, NEW b
    PROVE  OwedCount(q, b) \in Int /\ OwedBytes(q, b) \in Int
BY LocalTypes, RecordFields DEF TypeOK, OwedCount, OwedBytes, Owes, PutLabels, RecLabels, DvLabels

LEMMA WeightInt ==
    ASSUME TypeOK, NEW k \in Keys, NEW s \in Slots, NEW b
    PROVE  One(k, s, b) \in Int /\ Weight(k, s, b) \in Int
<1>1. ASSUME Holds(k, s), BucketOf[k] = b PROVE SizeOf(k, s) \in Nat
    <2>1. <<k, s>> \in Stored(b)
        BY <1>1 DEF Stored, Objects
    <2>2. StoredSizes(b)[<<k, s>>] = SizeOf(k, s)
        BY <2>1 DEF StoredSizes, SizeOf
    <2> QED BY <2>1, <2>2, SizesOK
<1> QED BY <1>1 DEF One, Weight

LEMMA WeightIntNext ==
    ASSUME TypeOK', NEW k \in Keys, NEW s \in Slots, NEW b
    PROVE  One(k, s, b)' \in Int /\ Weight(k, s, b)' \in Int
<1>1. ASSUME Holds(k, s)', BucketOf[k] = b PROVE SizeOf(k, s)' \in Nat
    <2>1. <<k, s>> \in Stored(b)'
        BY <1>1 DEF Stored, Objects
    <2>2. StoredSizes(b)'[<<k, s>>] = SizeOf(k, s)'
        BY <2>1 DEF StoredSizes, SizeOf
    <2> QED BY <2>1, <2>2, SizesOKNext
<1> QED BY <1>1 DEF One, Weight

\* A step that stores and removes nothing: what is booked is no longer owed.
LEMMA StatsStay ==
    ASSUME NEW p, Requests = {p}, StatsInv, SameSetting, SameHoldings, Kinds', StatsLocals(p)',
           \A b \in Buckets : buckets'[b] # None =>
              /\ buckets'[b].count + OwedCount(p, b)' = buckets[b].count + OwedCount(p, b)
              /\ buckets'[b].bytes + OwedBytes(p, b)' = buckets[b].bytes + OwedBytes(p, b)
    PROVE  StatsInv'
<1>1. ASSUME NEW b \in Buckets, buckets'[b] # None PROVE Balanced(b)'
    <2>1. Balanced(b)
        BY <1>1 DEF SameSetting, StatsInv
    <2>2. Stored(b)' = Stored(b) /\ StoredSizes(b)' = StoredSizes(b)
        BY CountSame DEF SameHoldings
    <2>3. /\ Filled(b)'
          /\ Cardinality(Stored(b))' = Cardinality(Stored(b))
          /\ Cardinality(BytesOf(StoredSizes(b)))' = Cardinality(BytesOf(StoredSizes(b)))
        BY <2>1, <2>2 DEF Balanced, Filled, BytesOf
    <2> QED BY <1>1, <2>1, <2>3 DEF Balanced
<1> QED BY <1>1 DEF StatsInv

\* A step that fills or empties one slot owes what that makes.
LEMMA StatsMove ==
    ASSUME NEW p, Requests = {p}, TypeOK, TypeOK', StatsInv, UNCHANGED buckets,
           NEW k \in Keys, NEW s \in Slots, OneSlot(k, s), Kinds', StatsLocals(p)',
           \A b \in Buckets : buckets[b] # None =>
              /\ OwedCount(p, b)' = OwedCount(p, b) - One(k, s, b) + One(k, s, b)'
              /\ OwedBytes(p, b)' = OwedBytes(p, b) - Weight(k, s, b) + Weight(k, s, b)'
    PROVE  StatsInv'
<1>1. ASSUME NEW b \in Buckets, buckets'[b] # None PROVE Balanced(b)'
    <2>1. Balanced(b)
        BY <1>1 DEF StatsInv
    <2>2. /\ Filled(b)'
          /\ Cardinality(Stored(b)') = Cardinality(Stored(b)) - One(k, s, b) + One(k, s, b)'
          /\ Cardinality(BytesOf(StoredSizes(b)'))
               = Cardinality(BytesOf(StoredSizes(b))) - Weight(k, s, b) + Weight(k, s, b)'
        BY <2>1, CountSlot DEF Balanced
    <2>3. /\ buckets[b].count + OwedCount(p, b) = Cardinality(Stored(b))
          /\ buckets[b].bytes + OwedBytes(p, b) = Cardinality(BytesOf(StoredSizes(b)))
        BY <2>1 DEF Balanced
    <2>4. /\ buckets'[b].count + OwedCount(p, b)' = Cardinality(Stored(b)')
          /\ buckets'[b].bytes + OwedBytes(p, b)' = Cardinality(BytesOf(StoredSizes(b)'))
        <3>1. buckets' = buckets /\ buckets[b] # None
            BY <1>1
        <3>2. /\ OwedCount(p, b)' = OwedCount(p, b) - One(k, s, b) + One(k, s, b)'
              /\ OwedBytes(p, b)' = OwedBytes(p, b) - Weight(k, s, b) + Weight(k, s, b)'
            BY <3>1
        <3>3. buckets[b].count \in Int /\ buckets[b].bytes \in Int
            BY <3>1, RecordFields DEF TypeOK, DataOK
        <3>4. /\ OwedCount(p, b) \in Int /\ OwedBytes(p, b) \in Int
              /\ One(k, s, b) \in Int /\ Weight(k, s, b) \in Int
            BY OwedInt, WeightInt
        <3>5. One(k, s, b)' \in Int /\ Weight(k, s, b)' \in Int
            BY WeightIntNext
        <3> QED BY ONLY <2>2, <2>3, <3>1, <3>2, <3>3, <3>4, <3>5
    <2>5. Cardinality(BytesOf(StoredSizes(b)))' = Cardinality(BytesOf(StoredSizes(b)'))
        BY DEF BytesOf
    <2> QED BY <2>2, <2>4, <2>5 DEF Balanced
<1> QED BY <1>1 DEF StatsInv

\* A step that stores, removes and books nothing.
SameRecords ==
    \A b \in Buckets : buckets'[b] # None =>
        /\ buckets[b] # None
        /\ buckets'[b].versioning = buckets[b].versioning
        /\ buckets'[b].count = buckets[b].count
        /\ buckets'[b].bytes = buckets[b].bytes

LEMMA KindsStay ==
    ASSUME StatsInv, SameSetting, UNCHANGED index, usedIds \subseteq usedIds',
           \A k \in Keys, v \in VersionIds : versions'[k][v] # None => versions[k][v] # None
    PROVE  Kinds'
<1>1. ASSUME NEW k \in Keys, buckets'[BucketOf[k]] # None, ~Versioned(BucketOf[k])'
      PROVE  index[k] = None \/ Plain(k)
    <2>1. BucketOf[k] \in Buckets
        BY ConstantsAssumption
    <2>2. buckets[BucketOf[k]] # None /\ ~Versioned(BucketOf[k])
        BY <1>1, <2>1 DEF SameSetting, Versioned
    <2> QED BY <2>2 DEF StatsInv, Kinds
<1>2. \A k \in Keys, v \in VersionIds : versions[k][v] # None => v \in usedIds
    BY DEF StatsInv, Kinds
<1> QED BY <1>1, <1>2 DEF Kinds, Plain

LEMMA StatsQuiet ==
    ASSUME NEW p, Requests = {p}, StatsInv, UNCHANGED <<index, versions>>, SameRecords,
           usedIds \subseteq usedIds', StatsLocals(p)',
           \A b \in Buckets : OwedCount(p, b)' = OwedCount(p, b)
                              /\ OwedBytes(p, b)' = OwedBytes(p, b)
    PROVE  StatsInv'
<1>1. SameSetting
    BY DEF SameRecords, SameSetting
<1>2. SameHoldings
    BY DEF SameHoldings, Holds, SizeOf
<1>3. Kinds'
    BY <1>1, KindsStay
<1>4. \A b \in Buckets : buckets'[b] # None =>
         /\ buckets'[b].count + OwedCount(p, b)' = buckets[b].count + OwedCount(p, b)
         /\ buckets'[b].bytes + OwedBytes(p, b)' = buckets[b].bytes + OwedBytes(p, b)
    BY DEF SameRecords
<1> QED BY <1>1, <1>2, <1>3, <1>4, StatsStay

\* The labels at which a request knows something of the counters, and those at
\* which it owes them.
Booking == {"put_write", "put_delta", "put_mark", "put_version", "put_index", "del_lookup",
            "del_file", "del_unindex", "dv_file", "dv_stats", "dv_record", "bucket_write",
            "cb_dir", "cb_record"}

Owing == {"put_index", "put_stats", "del_stats", "dv_record"}

LEMMA Unbooked ==
    ASSUME NEW p \in Requests, TypeOK, LeavesFor(p, Booking)
    PROVE  StatsLocals(p)'
<1>1. pc'[p] \notin Booking
    BY LeavesForEffect
<1> QED BY <1>1 DEF StatsLocals, Booking, DvLabels

\* A request that ends, or goes on to read, owes nothing.
LEMMA StatsAway ==
    ASSUME NEW p, Requests = {p}, TypeOK, StatsInv, UNCHANGED <<index, versions>>, SameRecords,
           usedIds \subseteq usedIds', pc[p] \notin Owing, LeavesFor(p, Booking \cup Owing)
    PROVE  StatsInv'
<1>1. StatsLocals(p)'
    BY Unbooked DEF LeavesFor
<1>2. pc'[p] \notin Owing
    BY LeavesForEffect DEF LeavesFor
<1>3. \A b \in Buckets : ~Owes(p, b) /\ ~Owes(p, b)'
    BY <1>2 DEF Owes, Owing
<1> QED BY <1>1, <1>3, StatsQuiet DEF OwedCount, OwedBytes

\* MarkVersionsNotLatest changes neither what is stored nor how long it is.
LEMMA MarkedSame ==
    ASSUME TypeOK, NEW k \in Keys, MarkVersionsNotLatest(k), NEW j \in Keys, NEW v \in VersionIds
    PROVE  /\ versions'[j][v] = None <=> versions[j][v] = None
           /\ IsData(versions'[j][v]) <=> IsData(versions[j][v])
           /\ versions[j][v] # None => versions'[j][v].size = versions[j][v].size
<1>1. versions'[j][v] \in {versions[j][v], NotLatest(versions[j][v])}
    BY DEF MarkVersionsNotLatest, TypeOK, DataOK
<1>2. PICK r : r = versions[j][v]
    OBVIOUS
<1>3. r = None \/ r \in VersionRecord
    BY <1>2 DEF TypeOK, DataOK
<1>4. NotLatest(r) # None <=> r # None
    BY <1>3, NotLatestType DEF NotLatest
<1>5. r # None => NotLatest(r).kind = r.kind /\ NotLatest(r).size = r.size
    BY DEF NotLatest
<1> QED BY <1>1, <1>2, <1>4, <1>5 DEF IsData

\* UpdateBucketStats books what is owed.
LEMMA StatsBook ==
    ASSUME NEW p, Requests = {p}, TypeOK, TypeOK', StatsInv, NEW k \in Keys, NEW c \in Int,
           NEW n \in Int, UNCHANGED <<index, versions, usedIds>>,
           UpdateBucketStats(BucketOf[k], c, n), StatsLocals(p)',
           \A b \in Buckets :
              /\ OwedCount(p, b) = OwedCount(p, b)' + IF BucketOf[k] = b THEN c ELSE 0
              /\ OwedBytes(p, b) = OwedBytes(p, b)' + IF BucketOf[k] = b THEN n ELSE 0
              /\ OwedCount(p, b)' \in Int /\ OwedBytes(p, b)' \in Int
    PROVE  StatsInv'
<1>1. ASSUME NEW b \in Buckets, buckets'[b] # None
      PROVE  /\ buckets[b] # None /\ buckets'[b].versioning = buckets[b].versioning
             /\ buckets[b].count \in Int /\ buckets[b].bytes \in Int
             /\ buckets'[b].count = buckets[b].count + IF BucketOf[k] = b THEN c ELSE 0
             /\ buckets'[b].bytes = buckets[b].bytes + IF BucketOf[k] = b THEN n ELSE 0
    <2>1. BucketOf[k] \in Buckets
        BY ConstantsAssumption
    <2>2. buckets[b] # None /\ buckets'[b].versioning = buckets[b].versioning
        BY <1>1, <2>1, StatsEffect
    <2>3. buckets[b].count \in Int /\ buckets[b].bytes \in Int
        BY <2>2, RecordFields DEF TypeOK, DataOK
    <2> QED BY <2>1, <2>2, <2>3, StatsEffect
<1>2. SameSetting
    BY <1>1 DEF SameSetting
<1>3. SameHoldings
    BY DEF SameHoldings, Holds, SizeOf
<1>4. Kinds'
    BY <1>2, KindsStay
<1>5. ASSUME NEW b \in Buckets, buckets'[b] # None
      PROVE  /\ buckets'[b].count + OwedCount(p, b)' = buckets[b].count + OwedCount(p, b)
             /\ buckets'[b].bytes + OwedBytes(p, b)' = buckets[b].bytes + OwedBytes(p, b)
    BY <1>1, <1>5
<1> QED BY <1>2, <1>3, <1>4, <1>5, StatsStay

\* The steps of a PUT.
LEMMA StatsPut ==
    ASSUME NEW p, Requests = {p}, TypeOK, TypeOK', MatchInv, StatsInv,
           \/ putObject(p) \/ PutWrite(p) \/ computeStatDelta(p) \/ PutMark(p)
           \/ putVersionRecord(p) \/ PutIndex(p) \/ PutStats(p)
    PROVE  StatsInv'
<1>0. /\ ControlOK /\ p \in Requests /\ BucketOf \in [Keys -> Buckets]
      /\ BodySize \in [Bodies -> Nat] /\ None \in Slots
    BY ConstantsAssumption DEF TypeOK, Slots
<1> USE DEF PutLabels
<1>1. CASE putObject(p)
    <2>1. PICK k \in Keys, body \in Bodies :
             \E size \in {BodySize[body]} \cup UnknownLength : PutObject(p, k, body, size)
        BY <1>1 DEF putObject
    <2>2. /\ UNCHANGED <<index, versions, buckets>> /\ pc[p] = "idle" /\ SameRecords
          /\ usedIds \subseteq usedIds'
        <3>1. UNCHANGED <<index, versions, buckets>> /\ pc[p] = "idle"
            BY <1>1 DEF putObject, meta, Arrive
        <3>2. usedIds \subseteq usedIds'
            BY <2>1 DEF PutObject, resolveVersioning
        <3> QED BY <3>1, <3>2 DEF SameRecords
    <2>3. CASE Done(p)
        <3>1. LeavesFor(p, Booking \cup Owing)
            BY <2>3 DEF Done, LeavesFor, Booking, Owing
        <3> QED BY <2>2, <3>1, StatsAway DEF Owing
    <2>4. ASSUME NEW v \in Slots,
                 resolveVersioning(buckets[BucketOf[k]].versioning, body, v),
                 Proceed(p, "put_write", [key |-> k, body |-> body, vid |-> v,
                                          dCount |-> 0, dBytes |-> 0])
          PROVE  StatsInv'
        <3>1. pc'[p] = "put_write" /\ loc'[p].key = k /\ loc'[p].vid = v
            BY <1>0, <2>4, ProceedEffect
        <3>2. v # None => v \in VersionIds \ usedIds /\ v \in usedIds'
            BY <2>4 DEF resolveVersioning
        <3>3. v # None => versions'[k][v] = None
            BY <2>2, <3>2 DEF StatsInv, Kinds
        <3>4. StatsLocals(p)'
            BY <3>1, <3>2, <3>3 DEF StatsLocals, DvLabels
        <3>5. \A b \in Buckets : ~Owes(p, b) /\ ~Owes(p, b)'
            BY <2>2, <3>1 DEF Owes
        <3> QED BY <2>2, <3>4, <3>5, StatsQuiet DEF OwedCount, OwedBytes
    <2> QED BY <2>1, <2>3, <2>4 DEF PutObject
<1>2. CASE PutWrite(p)
    <2>1. /\ UNCHANGED <<index, versions, buckets, usedIds, loc>> /\ pc[p] = "put_write"
          /\ pc'[p] = "put_delta"
        BY <1>0, <1>2, GotoEffect DEF PutWrite, meta
    <2>2. StatsLocals(p)'
        BY <1>0, <2>1 DEF StatsInv, StatsLocals, DvLabels
    <2>3. \A b \in Buckets : ~Owes(p, b) /\ ~Owes(p, b)'
        BY <2>1 DEF Owes
    <2> QED BY <2>1, <2>2, <2>3, StatsQuiet DEF OwedCount, OwedBytes, SameRecords
<1>3. CASE computeStatDelta(p)
    <2>1. /\ UNCHANGED <<index, versions, buckets, usedIds>> /\ pc[p] = "put_delta"
          /\ StatDelta(p, index[loc[p].key])
        BY <1>3 DEF computeStatDelta, meta
    <2>2. /\ pc'[p] = IF loc[p].vid # None THEN "put_mark" ELSE "put_index"
          /\ loc'[p].key = loc[p].key /\ loc'[p].body = loc[p].body
          /\ loc'[p].vid = loc[p].vid
          /\ IF loc[p].vid # None \/ index[loc[p].key] = None
             THEN loc'[p].dCount = 1 /\ loc'[p].dBytes = BodySize[loc[p].body]
             ELSE /\ loc'[p].dCount = 0
                  /\ loc'[p].dBytes = BodySize[loc[p].body] - index[loc[p].key].size
        BY <1>0, <2>1, ProceedEffect DEF StatDelta
    <2>3. StatsLocals(p)'
        BY <1>0, <2>1, <2>2 DEF StatsInv, StatsLocals, DeltaOK, DvLabels
    <2>4. \A b \in Buckets : ~Owes(p, b) /\ ~Owes(p, b)'
        BY <2>1, <2>2 DEF Owes
    <2> QED BY <2>1, <2>3, <2>4, StatsQuiet DEF OwedCount, OwedBytes, SameRecords
<1>4. CASE PutMark(p)
    <2>1. /\ UNCHANGED <<index, buckets, usedIds, loc>> /\ pc[p] = "put_mark"
          /\ pc'[p] = "put_version" /\ MarkVersionsNotLatest(loc[p].key)
        BY <1>0, <1>4, GotoEffect DEF PutMark
    <2>2. loc[p].key \in Keys /\ loc[p].vid \in VersionIds
        BY <1>0, <2>1, LocalTypes DEF Slots
    <2>3. \A j \in Keys, v \in VersionIds :
             /\ versions'[j][v] = None <=> versions[j][v] = None
             /\ IsData(versions'[j][v]) <=> IsData(versions[j][v])
             /\ versions[j][v] # None => versions'[j][v].size = versions[j][v].size
        BY <2>1, <2>2, MarkedSame
    <2>4. SameSetting /\ SameHoldings
        BY <2>1, <2>3 DEF SameSetting, SameHoldings, Holds, SizeOf, IsData, Slots
    <2>5. Kinds'
        BY <2>1, <2>3, <2>4, KindsStay
    <2>6. StatsLocals(p)'
        BY <1>0, <2>1, <2>2, <2>3 DEF StatsInv, StatsLocals, DeltaOK, DvLabels
    <2>7. \A b \in Buckets : ~Owes(p, b) /\ ~Owes(p, b)'
        BY <2>1 DEF Owes
    <2> QED BY <2>1, <2>4, <2>5, <2>6, <2>7, StatsStay DEF OwedCount, OwedBytes
<1>5. CASE putVersionRecord(p)
    <2>1. PICK k, v, n, r :
             /\ k = loc[p].key /\ v = loc[p].vid /\ n = BodySize[loc[p].body]
             /\ r = [kind |-> "data", latest |-> TRUE, etag |-> loc[p].body, size |-> n]
        OBVIOUS
    <2>2. /\ UNCHANGED <<index, buckets, usedIds, loc>> /\ pc[p] = "put_version"
          /\ pc'[p] = "put_index" /\ versions' = [versions EXCEPT ![k][v] = r]
        BY <1>0, <1>5, <2>1, GotoEffect DEF putVersionRecord
    <2>3. /\ k \in Keys /\ v \in VersionIds /\ v # None /\ n \in Nat
          /\ loc[p].body \in Bodies
        BY <1>0, <2>1, <2>2, LocalTypes DEF Slots
    <2>4. IsData(r) /\ r.size = n
        <3>1. r \in VersionRecord
            BY <2>1, <2>3 DEF VersionRecord
        <3> QED BY <2>1, <3>1, NoneAssumption DEF IsData
    <2>5. versions[k][v] = None /\ v \in usedIds /\ DeltaOK(p)
        BY <1>0, <2>1, <2>2, <2>3 DEF StatsInv, StatsLocals
    <2>6. /\ versions'[k][v] = r
          /\ \A j \in Keys, w \in VersionIds :
                <<j, w>> # <<k, v>> => versions'[j][w] = versions[j][w]
        BY <2>2, <2>3 DEF TypeOK, DataOK
    <2>7. OneSlot(k, v)
        BY <2>2, <2>6 DEF OneSlot, Holds, SizeOf, Slots
    <2>8. /\ Kinds' /\ StatsLocals(p)'
        <3>1. Kinds'
            BY <2>2, <2>5, <2>6 DEF StatsInv, Kinds, Versioned, Plain
        <3>2. StatsLocals(p)'
            BY <2>2, <2>5 DEF StatsLocals, DeltaOK, DvLabels
        <3> QED BY <3>1, <3>2
    <2>9. ASSUME NEW b \in Buckets
          PROVE  /\ OwedCount(p, b)' = OwedCount(p, b) - One(k, v, b) + One(k, v, b)'
                 /\ OwedBytes(p, b)' = OwedBytes(p, b) - Weight(k, v, b) + Weight(k, v, b)'
        <3>1. /\ OwedCount(p, b) = 0 /\ OwedBytes(p, b) = 0
              /\ One(k, v, b) = 0 /\ Weight(k, v, b) = 0
            BY <2>2, <2>3, <2>5 DEF OwedCount, OwedBytes, Owes, One, Weight, Holds, IsData
        <3>2. loc[p].dCount = 1 /\ loc[p].dBytes = n
            BY <2>1, <2>3, <2>5 DEF DeltaOK
        <3>3. /\ OwedCount(p, b)' = IF BucketOf[k] = b THEN 1 ELSE 0
              /\ OwedBytes(p, b)' = IF BucketOf[k] = b THEN n ELSE 0
            BY <2>1, <2>2, <2>3, <3>2 DEF OwedCount, OwedBytes, Owes
        <3>4. /\ One(k, v, b)' = IF BucketOf[k] = b THEN 1 ELSE 0
              /\ Weight(k, v, b)' = IF BucketOf[k] = b THEN n ELSE 0
            BY <2>3, <2>4, <2>6 DEF One, Weight, Holds, SizeOf
        <3> QED BY <2>3, <3>1, <3>3, <3>4
    <2> QED BY <2>2, <2>3, <2>7, <2>8, <2>9, StatsMove DEF Slots
<1>6. CASE PutIndex(p)
    <2>1. PICK k, n, r :
             /\ k = loc[p].key /\ n = BodySize[loc[p].body]
             /\ r = [vid |-> loc[p].vid, etag |-> loc[p].body, size |-> n]
        OBVIOUS
    <2>2. /\ UNCHANGED <<versions, buckets, usedIds, loc>> /\ pc[p] = "put_index"
          /\ pc'[p] = "put_stats" /\ index' = [index EXCEPT ![k] = r]
        BY <1>0, <1>6, <2>1, GotoEffect DEF PutIndex
    <2>3. /\ k \in Keys /\ loc[p].vid \in Slots /\ n \in Nat /\ loc[p].body \in Bodies
        BY <1>0, <2>1, <2>2, LocalTypes
    <2>4. r # None /\ r.vid = loc[p].vid /\ r.size = n
        <3>1. r \in ObjectRecord
            BY <2>1, <2>3 DEF ObjectRecord
        <3> QED BY <2>1, <3>1, NoneAssumption
    <2>5. DeltaOK(p) /\ (loc[p].vid # None <=> Versioned(BucketOf[k]))
        BY <1>0, <2>1, <2>2 DEF StatsInv, StatsLocals, MatchInv, MatchLocals
    <2>6. /\ index'[k] = r
          /\ \A j \in Keys : j # k => index'[j] = index[j]
        BY <2>2, <2>3 DEF TypeOK, DataOK
    <2>7. Kinds' /\ StatsLocals(p)'
        <3>1. ASSUME NEW j \in Keys, buckets'[BucketOf[j]] # None, ~Versioned(BucketOf[j])'
              PROVE  (index[j] = None \/ Plain(j))'
            BY <2>2, <2>4, <2>5, <2>6, <3>1 DEF StatsInv, Kinds, Versioned, Plain
        <3>2. Kinds'
            BY <2>2, <3>1 DEF StatsInv, Kinds
        <3>3. StatsLocals(p)'
            BY <2>2 DEF StatsLocals, DvLabels
        <3> QED BY <3>2, <3>3
    <2>8. CASE loc[p].vid # None
        <3>1. ~Plain(k) /\ ~Plain(k)'
            BY <2>3, <2>4, <2>5, <2>6, <2>8 DEF MatchInv, Plain
        <3>2. SameHoldings /\ SameSetting
            BY <2>2, <2>6, <3>1 DEF SameHoldings, SameSetting, Holds, SizeOf, Plain
        <3>3. \A b \in Buckets : /\ OwedCount(p, b)' = OwedCount(p, b)
                                 /\ OwedBytes(p, b)' = OwedBytes(p, b)
            BY <2>2, <2>8 DEF OwedCount, OwedBytes, Owes
        <3> QED BY <2>2, <2>7, <3>2, <3>3, StatsStay
    <2>9. CASE loc[p].vid = None
        <3>1. OneSlot(k, None)
            BY <2>2, <2>6 DEF OneSlot, Holds, SizeOf
        <3>2. ASSUME NEW b \in Buckets, buckets[b] # None
              PROVE  /\ OwedCount(p, b)' = OwedCount(p, b) - One(k, None, b) + One(k, None, b)'
                     /\ OwedBytes(p, b)'
                          = OwedBytes(p, b) - Weight(k, None, b) + Weight(k, None, b)'
            <4>1. OwedCount(p, b) = 0 /\ OwedBytes(p, b) = 0
                BY <2>2, <2>9 DEF OwedCount, OwedBytes, Owes
            <4>2. /\ One(k, None, b)' = IF BucketOf[k] = b THEN 1 ELSE 0
                  /\ Weight(k, None, b)' = IF BucketOf[k] = b THEN n ELSE 0
                BY <2>4, <2>6, <2>9 DEF One, Weight, Holds, SizeOf
            <4>3. /\ OwedCount(p, b)' = IF BucketOf[k] = b THEN loc[p].dCount ELSE 0
                  /\ OwedBytes(p, b)' = IF BucketOf[k] = b THEN loc[p].dBytes ELSE 0
                BY <2>1, <2>2 DEF OwedCount, OwedBytes, Owes
            <4>4. CASE BucketOf[k] # b
                BY <4>1, <4>2, <4>3, <4>4 DEF One, Weight
            <4>5. CASE BucketOf[k] = b /\ index[k] = None
                <5>1. One(k, None, b) = 0 /\ Weight(k, None, b) = 0
                    BY <4>5 DEF One, Weight, Holds
                <5>2. loc[p].dCount = 1 /\ loc[p].dBytes = n
                    BY <2>1, <2>5, <4>5 DEF DeltaOK
                <5> QED BY <2>3, <4>1, <4>2, <4>3, <4>5, <5>1, <5>2
            <4>6. CASE BucketOf[k] = b /\ index[k] # None
                <5>1. Plain(k)
                    BY <2>3, <2>5, <2>9, <3>2, <4>6 DEF StatsInv, Kinds
                <5>2. One(k, None, b) = 1 /\ Weight(k, None, b) = index[k].size
                    BY <4>6, <5>1 DEF One, Weight, Holds, SizeOf, Plain
                <5>3. loc[p].dCount = 0 /\ loc[p].dBytes = n - index[k].size
                    BY <2>1, <2>5, <2>9, <4>6 DEF DeltaOK
                <5>4. index[k].size \in Nat
                    BY <2>3, <4>6, RecordFields DEF TypeOK, DataOK
                <5> QED BY <2>3, <4>1, <4>2, <4>3, <4>6, <5>2, <5>3, <5>4
            <4> QED BY <4>4, <4>5, <4>6
        <3> QED BY <1>0, <2>2, <2>3, <2>7, <3>1, <3>2, StatsMove
    <2> QED BY <2>8, <2>9
<1>7. CASE PutStats(p)
    <2>1. PICK k, c, n : k = loc[p].key /\ c = loc[p].dCount /\ n = loc[p].dBytes
        OBVIOUS
    <2>2. /\ UNCHANGED <<index, versions, usedIds>> /\ pc[p] = "put_stats"
          /\ UpdateBucketStats(BucketOf[k], c, n) /\ LeavesFor(p, Booking \cup Owing)
        BY <1>7, <2>1 DEF PutStats, PutReply, Done, LeavesFor, Booking, Owing
    <2>3. k \in Keys /\ BucketOf[k] \in Buckets /\ c \in Int /\ n \in Int
        BY <1>0, <2>1, <2>2, LocalTypes
    <2>4. StatsLocals(p)'
        BY <1>0, <2>2, Unbooked DEF LeavesFor
    <2>5. ASSUME NEW b \in Buckets
          PROVE  /\ OwedCount(p, b) = IF BucketOf[k] = b THEN c ELSE 0
                 /\ OwedBytes(p, b) = IF BucketOf[k] = b THEN n ELSE 0
                 /\ OwedCount(p, b)' = 0 /\ OwedBytes(p, b)' = 0
        <3>1. pc'[p] \notin Owing
            BY <1>0, <2>2, LeavesForEffect DEF LeavesFor
        <3> QED BY <2>1, <2>2, <3>1 DEF OwedCount, OwedBytes, Owes, Owing
    <2> QED BY <2>2, <2>3, <2>4, <2>5, StatsBook
<1> QED BY <1>1, <1>2, <1>3, <1>4, <1>5, <1>6, <1>7

\* The steps of a DELETE of an object.
LEMMA StatsDelete ==
    ASSUME NEW p, Requests = {p}, TypeOK, TypeOK', MatchInv, StatsInv,
           \/ deleteObject(p) \/ DelMark(p) \/ putDeleteMarker(p) \/ DelHide(p) \/ DelLookup(p)
           \/ DelFile(p) \/ DelUnindex(p) \/ DelStats(p)
    PROVE  StatsInv'
<1>0. ControlOK /\ p \in Requests /\ BucketOf \in [Keys -> Buckets] /\ None \in Slots
    BY ConstantsAssumption DEF TypeOK, Slots
<1> USE DEF KeyLabels, RecLabels
<1>1. CASE deleteObject(p)
    <2>1. UNCHANGED <<index, versions, buckets, usedIds>> /\ pc[p] = "idle"
        BY <1>1 DEF deleteObject, meta, Arrive
    <2>2. CASE LeavesFor(p, Booking \cup Owing)
        BY <2>1, <2>2, StatsAway DEF Owing, SameRecords
    <2>3. ASSUME NEW k \in Keys, ~Versioned(BucketOf[k]), Proceed(p, "del_lookup", [key |-> k])
          PROVE  StatsInv'
        <3>1. pc'[p] = "del_lookup" /\ loc'[p].key = k
            BY <1>0, <2>3, ProceedEffect
        <3>2. StatsLocals(p)'
            BY <2>1, <2>3, <3>1 DEF StatsLocals, Versioned, DvLabels
        <3>3. \A b \in Buckets : ~Owes(p, b) /\ ~Owes(p, b)'
            BY <2>1, <3>1 DEF Owes
        <3> QED BY <2>1, <3>2, <3>3, StatsQuiet DEF OwedCount, OwedBytes, SameRecords
    <2>4. ASSUME NEW k \in Keys, NEW v \in VersionIds, NEW label,
                 label = IF versions[k][v].kind = "marker" THEN "dv_record" ELSE "dv_file",
                 versions[k][v] # None,
                 Proceed(p, label, [key |-> k, vid |-> v, size |-> versions[k][v].size])
          PROVE  StatsInv'
        <3>1. /\ pc'[p] = label /\ loc'[p].key = k /\ loc'[p].vid = v
              /\ loc'[p].size = versions[k][v].size
            BY <1>0, <2>4, ProceedEffect
        <3>2. versions[k][v].kind = "marker" \/ IsData(versions[k][v])
            BY <2>4, VersionFields DEF TypeOK, DataOK, IsData
        <3>3. StatsLocals(p)'
            BY <2>1, <2>4, <3>1, <3>2 DEF StatsLocals, DvLabels
        <3>4. \A b \in Buckets : ~Owes(p, b) /\ ~Owes(p, b)'
            BY <2>1, <2>4, <3>1 DEF Owes, IsData
        <3> QED BY <2>1, <3>3, <3>4, StatsQuiet DEF OwedCount, OwedBytes, SameRecords
    <2> QED BY <1>1, <2>2, <2>3, <2>4 DEF deleteObject, DeleteObject, DeleteObjectVersion,
               Versioned, LeavesFor, Booking, Owing, Done
<1>2. CASE DelMark(p)
    <2>1. /\ UNCHANGED <<index, buckets, usedIds>> /\ pc[p] = "del_mark"
          /\ LeavesFor(p, Booking \cup Owing) /\ MarkVersionsNotLatest(loc[p].key)
        BY <1>2 DEF DelMark, LeavesFor, Booking, Owing
    <2>2. loc[p].key \in Keys
        BY <1>0, <2>1, LocalTypes
    <2>3. \A j \in Keys, v \in VersionIds :
             /\ versions'[j][v] = None <=> versions[j][v] = None
             /\ IsData(versions'[j][v]) <=> IsData(versions[j][v])
             /\ versions[j][v] # None => versions'[j][v].size = versions[j][v].size
        BY <2>1, <2>2, MarkedSame
    <2>4. SameSetting /\ SameHoldings
        BY <2>1, <2>3 DEF SameSetting, SameHoldings, Holds, SizeOf, IsData, Slots
    <2>5. Kinds'
        BY <2>1, <2>3, <2>4, KindsStay
    <2>6. StatsLocals(p)' /\ pc'[p] \notin Owing
        BY <1>0, <2>1, Unbooked, LeavesForEffect DEF LeavesFor
    <2>7. \A b \in Buckets : ~Owes(p, b) /\ ~Owes(p, b)'
        BY <2>1, <2>6 DEF Owes, Owing
    <2> QED BY <2>1, <2>4, <2>5, <2>6, <2>7, StatsStay DEF OwedCount, OwedBytes
<1>3. CASE putDeleteMarker(p)
    <2>0. PICK k, r :
             /\ k = loc[p].key
             /\ r = [kind |-> "marker", latest |-> TRUE, etag |-> None, size |-> 0]
        OBVIOUS
    <2>1. PICK v \in VersionIds \ usedIds :
             /\ usedIds' = usedIds \cup {v}
             /\ versions' = [versions EXCEPT ![k][v] = r]
        BY <1>3, <2>0 DEF putDeleteMarker
    <2>2. /\ UNCHANGED <<index, buckets>> /\ pc[p] = "del_marker"
          /\ LeavesFor(p, Booking \cup Owing)
        BY <1>3 DEF putDeleteMarker, LeavesFor, Booking, Owing
    <2>3. k \in Keys
        BY <1>0, <2>0, <2>2, LocalTypes
    <2>4. versions[k][v] = None /\ ~IsData(r)
        BY <2>0, <2>3 DEF StatsInv, Kinds, IsData
    <2>5. /\ versions'[k][v] = r
          /\ \A j \in Keys, w \in VersionIds :
                <<j, w>> # <<k, v>> => versions'[j][w] = versions[j][w]
        BY <2>1, <2>3 DEF TypeOK, DataOK
    <2>6. ASSUME NEW j \in Keys, NEW t \in Slots
          PROVE  /\ Holds(j, t)' <=> Holds(j, t)
                 /\ Holds(j, t) => SizeOf(j, t)' = SizeOf(j, t)
        <3>1. CASE j = k /\ t = v
            BY <2>1, <2>4, <2>5, <3>1, NoneAssumption DEF Holds, IsData
        <3>2. CASE ~(j = k /\ t = v)
            BY <2>2, <2>5, <3>2 DEF Holds, SizeOf, Slots
        <3> QED BY <3>1, <3>2
    <2>7. Kinds'
        BY <2>1, <2>2, <2>5 DEF StatsInv, Kinds, Versioned, Plain
    <2>8. StatsLocals(p)' /\ pc'[p] \notin Owing
        BY <1>0, <2>2, Unbooked, LeavesForEffect DEF LeavesFor
    <2>9. \A b \in Buckets : ~Owes(p, b) /\ ~Owes(p, b)'
        BY <2>2, <2>8 DEF Owes, Owing
    <2> QED BY <2>2, <2>6, <2>7, <2>8, <2>9, StatsStay
            DEF OwedCount, OwedBytes, SameSetting, SameHoldings
<1>4. CASE DelHide(p)
    <2>1. /\ UNCHANGED <<versions, buckets, usedIds>> /\ pc[p] = "del_hide"
          /\ LeavesFor(p, Booking \cup Owing) /\ index' = [index EXCEPT ![loc[p].key] = None]
        BY <1>4 DEF DelHide, LeavesFor, Booking, Owing, Done
    <2>2. loc[p].key \in Keys /\ Versioned(BucketOf[loc[p].key])
        BY <1>0, <2>1, LocalTypes DEF MatchInv, MatchLocals
    <2>3. /\ index'[loc[p].key] = None /\ ~Plain(loc[p].key)
          /\ \A j \in Keys : j # loc[p].key => index'[j] = index[j]
        BY <2>1, <2>2 DEF MatchInv, TypeOK, DataOK
    <2>4. SameHoldings /\ SameSetting
        BY <2>1, <2>3 DEF SameHoldings, SameSetting, Holds, SizeOf, Plain
    <2>5. Kinds'
        BY <2>1, <2>3 DEF StatsInv, Kinds, Versioned, Plain
    <2>6. StatsLocals(p)' /\ pc'[p] \notin Owing
        BY <1>0, <2>1, Unbooked, LeavesForEffect DEF LeavesFor
    <2>7. \A b \in Buckets : ~Owes(p, b) /\ ~Owes(p, b)'
        BY <2>1, <2>6 DEF Owes, Owing
    <2> QED BY <2>1, <2>4, <2>5, <2>6, <2>7, StatsStay DEF OwedCount, OwedBytes
<1>5. CASE DelLookup(p)
    <2>1. /\ UNCHANGED <<index, versions, buckets, usedIds>> /\ pc[p] = "del_lookup"
        BY <1>5 DEF DelLookup, meta
    <2>2. CASE Done(p)
        <3>1. LeavesFor(p, Booking \cup Owing)
            BY <2>2 DEF Done, LeavesFor, Booking, Owing
        <3> QED BY <2>1, <3>1, StatsAway DEF Owing, SameRecords
    <2>3. CASE Proceed(p, "del_file", [key |-> loc[p].key, rec |-> index[loc[p].key]])
        <3>1. pc'[p] = "del_file" /\ loc'[p].key = loc[p].key
            BY <1>0, <2>3, ProceedEffect
        <3>2. StatsLocals(p)'
            BY <1>0, <2>1, <3>1 DEF StatsInv, StatsLocals, Versioned, DvLabels
        <3>3. \A b \in Buckets : ~Owes(p, b) /\ ~Owes(p, b)'
            BY <2>1, <3>1 DEF Owes
        <3> QED BY <2>1, <3>2, <3>3, StatsQuiet DEF OwedCount, OwedBytes, SameRecords
    <2> QED BY <1>5, <2>2, <2>3 DEF DelLookup
<1>6. CASE DelFile(p)
    <2>1. /\ UNCHANGED <<index, versions, buckets, usedIds, loc>> /\ pc[p] = "del_file"
          /\ pc'[p] = "del_unindex"
        BY <1>0, <1>6, GotoEffect DEF DelFile, meta
    <2>2. StatsLocals(p)'
        BY <1>0, <2>1 DEF StatsInv, StatsLocals, Versioned, DvLabels
    <2>3. \A b \in Buckets : ~Owes(p, b) /\ ~Owes(p, b)'
        BY <2>1 DEF Owes
    <2> QED BY <2>1, <2>2, <2>3, StatsQuiet DEF OwedCount, OwedBytes, SameRecords
<1>7. CASE DelUnindex(p)
    <2>1. PICK k : k = loc[p].key
        OBVIOUS
    <2>2. /\ UNCHANGED <<versions, buckets, usedIds, loc>> /\ pc[p] = "del_unindex"
          /\ pc'[p] = "del_stats" /\ index' = [index EXCEPT ![k] = None]
        BY <1>0, <1>7, <2>1, GotoEffect DEF DelUnindex
    <2>3. /\ k \in Keys /\ loc[p].rec = index[k] /\ loc[p].rec \in ObjectRecord
          /\ ~Versioned(BucketOf[k])
        BY <1>0, <2>1, <2>2, LocalTypes DEF MatchInv, MatchLocals, StatsInv, StatsLocals
    <2>4. index[k] # None /\ loc[p].rec.size \in Nat
        BY <2>3, NoneAssumption, RecordFields
    <2>5. /\ index'[k] = None
          /\ \A j \in Keys : j # k => index'[j] = index[j]
        BY <2>2, <2>3 DEF TypeOK, DataOK
    <2>6. OneSlot(k, None)
        BY <2>2, <2>5 DEF OneSlot, Holds, SizeOf
    <2>7. Kinds' /\ StatsLocals(p)'
        <3>1. Kinds'
            BY <2>2, <2>5 DEF StatsInv, Kinds, Versioned, Plain
        <3>2. StatsLocals(p)'
            BY <2>2 DEF StatsLocals, DvLabels
        <3> QED BY <3>1, <3>2
    <2>8. ASSUME NEW b \in Buckets, buckets[b] # None
          PROVE  /\ OwedCount(p, b)' = OwedCount(p, b) - One(k, None, b) + One(k, None, b)'
                 /\ OwedBytes(p, b)' = OwedBytes(p, b) - Weight(k, None, b) + Weight(k, None, b)'
        <3>1. OwedCount(p, b) = 0 /\ OwedBytes(p, b) = 0
            BY <2>2 DEF OwedCount, OwedBytes, Owes
        <3>2. One(k, None, b)' = 0 /\ Weight(k, None, b)' = 0
            BY <2>5 DEF One, Weight, Holds
        <3>3. /\ OwedCount(p, b)' = IF BucketOf[k] = b THEN -1 ELSE 0
              /\ OwedBytes(p, b)' = IF BucketOf[k] = b THEN -loc[p].rec.size ELSE 0
            BY <2>1, <2>2 DEF OwedCount, OwedBytes, Owes, PutLabels
        <3>4. BucketOf[k] = b => Plain(k)
            BY <2>3, <2>4, <2>8 DEF StatsInv, Kinds
        <3>5. /\ One(k, None, b) = IF BucketOf[k] = b THEN 1 ELSE 0
              /\ Weight(k, None, b) = IF BucketOf[k] = b THEN loc[p].rec.size ELSE 0
            BY <2>3, <3>4 DEF One, Weight, Holds, SizeOf, Plain
        <3> QED BY <2>4, <3>1, <3>2, <3>3, <3>5
    <2> QED BY <1>0, <2>2, <2>3, <2>6, <2>7, <2>8, StatsMove
<1>8. CASE DelStats(p)
    <2>1. PICK k, n : k = loc[p].key /\ n = -loc[p].rec.size
        OBVIOUS
    <2>2. /\ UNCHANGED <<index, versions, usedIds>> /\ pc[p] = "del_stats"
          /\ UpdateBucketStats(BucketOf[k], -1, n) /\ LeavesFor(p, Booking \cup Owing)
        BY <1>8, <2>1 DEF DelStats, Done, LeavesFor, Booking, Owing
    <2>3. k \in Keys /\ n \in Int
        BY <1>0, <2>1, <2>2, LocalTypes, RecordFields
    <2>4. StatsLocals(p)' /\ pc'[p] \notin Owing
        BY <1>0, <2>2, Unbooked, LeavesForEffect DEF LeavesFor
    <2>5. ASSUME NEW b \in Buckets
          PROVE  /\ OwedCount(p, b) = IF BucketOf[k] = b THEN -1 ELSE 0
                 /\ OwedBytes(p, b) = IF BucketOf[k] = b THEN n ELSE 0
                 /\ OwedCount(p, b)' = 0 /\ OwedBytes(p, b)' = 0
        BY <2>1, <2>2, <2>4 DEF OwedCount, OwedBytes, Owes, Owing, PutLabels
    <2> QED BY <2>2, <2>3, <2>4, <2>5, StatsBook
<1> QED BY <1>1, <1>2, <1>3, <1>4, <1>5, <1>6, <1>7, <1>8

\* Those of a DELETE of one version.
LEMMA StatsDeleteVersion ==
    ASSUME NEW p, Requests = {p}, TypeOK, TypeOK', StatsInv,
           DvFile(p) \/ DvStats(p) \/ DvRecord(p)
    PROVE  StatsInv'
<1>0. ControlOK /\ p \in Requests
    BY DEF TypeOK
<1> USE DEF DvLabels
<1>1. CASE DvFile(p)
    <2>1. /\ UNCHANGED <<index, versions, buckets, usedIds, loc>> /\ pc[p] = "dv_file"
          /\ pc'[p] = "dv_stats"
        BY <1>0, <1>1, GotoEffect DEF DvFile, meta
    <2>2. StatsLocals(p)'
        BY <1>0, <2>1 DEF StatsInv, StatsLocals
    <2>3. \A b \in Buckets : ~Owes(p, b) /\ ~Owes(p, b)'
        BY <2>1 DEF Owes
    <2> QED BY <2>1, <2>2, <2>3, StatsQuiet DEF OwedCount, OwedBytes, SameRecords
<1>2. CASE DvStats(p)
    <2>1. PICK k, n : k = loc[p].key /\ n = -loc[p].size
        OBVIOUS
    <2>2. /\ UNCHANGED <<index, versions, usedIds, loc>> /\ pc[p] = "dv_stats"
          /\ UpdateBucketStats(BucketOf[k], -1, n) /\ pc'[p] = "dv_record"
        BY <1>0, <1>2, <2>1, GotoEffect DEF DvStats
    <2>3. k \in Keys /\ n \in Int /\ loc[p].size \in Nat
        BY <1>0, <2>1, <2>2, LocalTypes
    <2>4. IsData(versions[k][loc[p].vid])
        BY <1>0, <2>1, <2>2 DEF StatsInv, StatsLocals
    <2>5. StatsLocals(p)'
        BY <1>0, <2>2 DEF StatsInv, StatsLocals
    <2>6. ASSUME NEW b \in Buckets
          PROVE  /\ OwedCount(p, b) = 0 /\ OwedBytes(p, b) = 0
                 /\ OwedCount(p, b)' = IF BucketOf[k] = b THEN 1 ELSE 0
                 /\ OwedBytes(p, b)' = IF BucketOf[k] = b THEN loc[p].size ELSE 0
        BY <2>1, <2>2, <2>4 DEF OwedCount, OwedBytes, Owes, PutLabels
    <2>7. \A b \in Buckets :
             /\ OwedCount(p, b) = OwedCount(p, b)' + IF BucketOf[k] = b THEN -1 ELSE 0
             /\ OwedBytes(p, b) = OwedBytes(p, b)' + IF BucketOf[k] = b THEN n ELSE 0
             /\ OwedCount(p, b)' \in Int /\ OwedBytes(p, b)' \in Int
        BY <2>1, <2>3, <2>6
    <2>8. UNCHANGED <<index, versions, usedIds>> /\ UpdateBucketStats(BucketOf[k], -1, n)
        BY <2>2
    <2>9. -1 \in Int
        OBVIOUS
    <2> QED BY <2>3, <2>5, <2>7, <2>8, <2>9, StatsBook
<1>3. CASE DvRecord(p)
    <2>1. PICK k, v : k = loc[p].key /\ v = loc[p].vid
        OBVIOUS
    <2>2. /\ UNCHANGED <<index, buckets, usedIds>> /\ pc[p] = "dv_record"
          /\ versions' = [versions EXCEPT ![k][v] = None]
          /\ LeavesFor(p, Booking \cup Owing)
        BY <1>3, <2>1 DEF DvRecord, Done, LeavesFor, Booking, Owing
    <2>3. k \in Keys /\ v \in VersionIds /\ v # None /\ loc[p].size \in Nat
        BY <1>0, <2>1, <2>2, LocalTypes, NoneAssumption
    <2>4. /\ versions'[k][v] = None
          /\ \A j \in Keys, w \in VersionIds :
                <<j, w>> # <<k, v>> => versions'[j][w] = versions[j][w]
        BY <2>2, <2>3 DEF TypeOK, DataOK
    <2>5. OneSlot(k, v)
        BY <2>2, <2>4 DEF OneSlot, Holds, SizeOf, Slots
    <2>6. StatsLocals(p)' /\ pc'[p] \notin Owing
        BY <1>0, <2>2, Unbooked, LeavesForEffect DEF LeavesFor
    <2>7. Kinds'
        BY <2>2, <2>4 DEF StatsInv, Kinds, Versioned, Plain
    <2>8. ASSUME NEW b \in Buckets
          PROVE  /\ OwedCount(p, b)' = OwedCount(p, b) - One(k, v, b) + One(k, v, b)'
                 /\ OwedBytes(p, b)' = OwedBytes(p, b) - Weight(k, v, b) + Weight(k, v, b)'
        <3>1. IsData(versions[k][v]) => versions[k][v].size = loc[p].size
            BY <1>0, <2>1, <2>2 DEF StatsInv, StatsLocals
        <3>2. /\ OwedCount(p, b)' = 0 /\ OwedBytes(p, b)' = 0
              /\ One(k, v, b)' = 0 /\ Weight(k, v, b)' = 0
            BY <2>3, <2>4, <2>6 DEF OwedCount, OwedBytes, Owes, Owing, One, Weight, Holds, IsData
        <3>3. /\ OwedCount(p, b) = One(k, v, b) /\ OwedBytes(p, b) = Weight(k, v, b)
              /\ OwedCount(p, b) \in Nat /\ OwedBytes(p, b) \in Nat
            BY <2>1, <2>2, <2>3, <3>1
               DEF OwedCount, OwedBytes, Owes, One, Weight, Holds, SizeOf, PutLabels
        <3> QED BY <3>2, <3>3
    <2> QED BY <2>2, <2>3, <2>5, <2>6, <2>7, <2>8, StatsMove DEF Slots
<1> QED BY <1>1, <1>2, <1>3

\* Every undisturbed step of the only request preserves it.
LEMMA StatsStep ==
    ASSUME NEW p, Requests = {p}, "copy" \notin Workload, "setVersioning" \notin Workload,
           "createBucket" \notin Workload, TypeOK, TypeOK', NoCopies, MatchInv, StatsInv,
           Request(p) \/ Step(p) \/ UNCHANGED vars
    PROVE  StatsInv'
<1>0. ControlOK /\ p \in Requests
    BY DEF TypeOK
<1>1. ASSUME \/ getObject(p) \/ bucketRequest(p) \/ putObjectTagging(p) \/ GetRead(p)
             \/ GetReply(p) \/ DeleteBucketDir(p)
      PROVE  StatsInv'
    <2>1. /\ UNCHANGED <<index, versions, buckets, usedIds>> /\ pc[p] \notin Owing
          /\ LeavesFor(p, Booking \cup Owing)
        BY <1>1 DEF getObject, GetObject, GetObjectVersion, bucketRequest, DeleteBucket,
           putObjectTagging, SetObjectTags, GetRead, GetReply, DeleteBucketDir, Arrive, meta,
           LeavesFor, Booking, Owing, Done
    <2> QED BY <2>1, StatsAway DEF SameRecords
<1>2. CASE putBucketConfig(p)
    <2>1. UNCHANGED <<index, versions, buckets, usedIds>> /\ pc[p] = "idle"
        BY <1>2 DEF putBucketConfig, Arrive, meta
    <2>2. CASE Done(p)
        <3>1. LeavesFor(p, Booking \cup Owing)
            BY <2>2 DEF Done, LeavesFor, Booking, Owing
        <3> QED BY <2>1, <3>1, StatsAway DEF Owing, SameRecords
    <2>3. ASSUME NEW b \in Buckets, NEW rec, rec.count = buckets[b].count,
                 rec.bytes = buckets[b].bytes, RewriteBucket(p, b, rec)
          PROVE  StatsInv'
        <3>1. pc'[p] = "bucket_write" /\ loc'[p].rec = rec /\ loc'[p].bucket = b
            BY <1>0, <2>3, ProceedEffect DEF RewriteBucket
        <3>2. StatsLocals(p)'
            BY <2>1, <2>3, <3>1 DEF StatsLocals, DvLabels
        <3>3. \A d \in Buckets : ~Owes(p, d) /\ ~Owes(p, d)'
            BY <2>1, <3>1 DEF Owes
        <3> QED BY <2>1, <3>2, <3>3, StatsQuiet DEF OwedCount, OwedBytes, SameRecords
    <2>4. PICK b \in Buckets : putQuota(p, b) \/ SetBucketPolicy(p, b)
        BY <1>2 DEF putBucketConfig, Arrive
    <2>5. \A s, c, n, q : Bucket(s, c, n, q).count = c /\ Bucket(s, c, n, q).bytes = n
        BY DEF Bucket
    <2> QED BY <2>2, <2>3, <2>4, <2>5 DEF putQuota, SetBucketQuota, SetBucketPolicy
<1>3. CASE PutBucket(p) \/ DeleteBucketRecord(p)
    <2>1. /\ UNCHANGED <<index, versions, usedIds>> /\ pc[p] \notin Owing
          /\ LeavesFor(p, Booking \cup Owing)
        BY <1>3 DEF PutBucket, DeleteBucketRecord, LeavesFor, Booking, Owing, Done
    <2>2. SameRecords
        <3>1. CASE PutBucket(p)
            BY <1>0, <3>1 DEF PutBucket, StatsInv, StatsLocals, MatchInv, MatchLocals,
               SameRecords, TypeOK, DataOK
        <3>2. CASE DeleteBucketRecord(p)
            BY <3>2 DEF DeleteBucketRecord, SameRecords, TypeOK, DataOK
        <3> QED BY <1>3, <3>1, <3>2
    <2> QED BY <2>1, <2>2, StatsAway
<1>4. CASE TagWrite(p)
    <2>1. /\ UNCHANGED <<versions, buckets, usedIds>> /\ pc[p] = "tag_write"
          /\ index' = [index EXCEPT ![loc[p].key] = loc[p].rec]
          /\ LeavesFor(p, Booking \cup Owing)
        BY <1>4 DEF TagWrite, LeavesFor, Booking, Owing, Done
    <2>2. loc[p].rec = index[loc[p].key]
        BY <1>0, <2>1 DEF MatchInv, MatchLocals
    <2>3. index' = index
        BY <2>1, <2>2 DEF TypeOK, DataOK
    <2> QED BY <2>1, <2>3, StatsAway DEF Owing, SameRecords
<1>5. CASE UNCHANGED vars
    <2>1. /\ UNCHANGED <<index, versions, buckets, usedIds, pc, loc>>
        BY <1>5 DEF vars, meta
    <2>2. StatsLocals(p)'
        BY <1>0, <2>1 DEF StatsInv, StatsLocals, DeltaOK, Versioned
    <2>3. \A b \in Buckets : /\ OwedCount(p, b)' = OwedCount(p, b)
                             /\ OwedBytes(p, b)' = OwedBytes(p, b)
        BY <2>1 DEF OwedCount, OwedBytes, Owes
    <2> QED BY <2>1, <2>2, <2>3, StatsQuiet DEF SameRecords
<1>6. /\ ~copyObject(p) /\ ~CopyCheck(p) /\ ~CopyRead(p) /\ ~CopyWrite(p) /\ ~CopyIndex(p)
      /\ ~CopyStats(p)
    BY <1>0 DEF copyObject, Arrive, CopyCheck, CopyRead, CopyWrite, CopyIndex, CopyStats,
       NoCopies, CopyPcs, CopySrcLabels, CopyDstLabels
<1>7. ~CreateBucketDir(p) /\ ~CreateBucketRecord(p)
    BY <1>0 DEF CreateBucketDir, CreateBucketRecord, StatsInv, StatsLocals
<1> QED BY <1>1, <1>2, <1>3, <1>4, <1>5, <1>6, <1>7, StatsPut, StatsDelete, StatsDeleteVersion
        DEF Request, Step

LEMMA StatsInit == Init => StatsInv
<1> SUFFICES ASSUME Init PROVE StatsInv
    OBVIOUS
<1>1. \A k \in Keys, s \in Slots : ~Holds(k, s)
    BY NoneAssumption DEF Init, Holds, IsData, Slots
<1>2. \A q \in Requests : pc[q] = "idle"
    BY DEF Init
<1>3. ASSUME NEW b \in Buckets
      PROVE  /\ Filled(b)
             /\ Cardinality(Stored(b)) = 0 /\ Cardinality(BytesOf(StoredSizes(b))) = 0
    <2>1. Stored(b) = {}
        BY <1>1 DEF Stored, Objects
    <2>2. BytesOf(StoredSizes(b)) = {}
        BY <2>1 DEF BytesOf, StoredSizes
    <2> QED BY <2>1, <2>2, FS_EmptySet DEF Filled
<1>4. ASSUME NEW b \in Buckets, buckets[b] # None
      PROVE  buckets[b].count = 0 /\ buckets[b].bytes = 0
    BY <1>4 DEF Init, Bucket
<1>5. \A b \in Buckets : buckets[b] # None => Balanced(b)
    BY <1>2, <1>3, <1>4 DEF Balanced, OwedCount, OwedBytes, Owes
<1>6. Kinds
    BY DEF Init, Kinds
<1>7. \A q \in Requests : StatsLocals(q)
    BY <1>2 DEF StatsLocals, DvLabels
<1> QED BY <1>5, <1>6, <1>7 DEF StatsInv

\* Between requests the counters of a bucket are the number and the total length
\* of what it holds.  The hypotheses are what the code asks for: CopyObject
\* books an overwrite as a new object, and a bucket whose versioning changes, or
\* that is made again over the records an earlier one of its name left in the
\* index, holds objects that computeStatDelta takes for others.
THEOREM CountersExact ==
    ASSUME NEW p, Requests = {p}, "copy" \notin Workload, "setVersioning" \notin Workload,
           "createBucket" \notin Workload
    PROVE  Spec => []StatsExact
<1> DEFINE Inv == TypeOK /\ NoCopies /\ (Undisturbed => MatchInv /\ StatsInv)
<1>1. Init => Inv
    BY InitType, MatchInit, StatsInit
<1>2. Inv /\ [Next]_vars => Inv'
    <2>1. TypeOK /\ [Next]_vars => TypeOK'
        BY ControlStep, DataStep DEF TypeOK
    <2> QED BY <2>1, MatchStep, StatsStep, NoCopiesStep, UndisturbedStep
<1>3. Inv => StatsExact
    <2> SUFFICES ASSUME Inv, Idle, Undisturbed, NEW b \in Buckets, buckets[b] # None
                 PROVE  /\ buckets[b].count = Cardinality(Stored(b))
                        /\ buckets[b].bytes = Cardinality(BytesOf(StoredSizes(b)))
        BY DEF StatsExact
    <2>1. Balanced(b) /\ p \in Requests /\ pc[p] = "idle"
        BY DEF StatsInv, Idle
    <2>2. OwedCount(p, b) = 0 /\ OwedBytes(p, b) = 0
        BY <2>1 DEF OwedCount, OwedBytes, Owes
    <2>3. buckets[b].count \in Int /\ buckets[b].bytes \in Int
        BY RecordFields DEF TypeOK, DataOK
    <2> QED BY <2>1, <2>2, <2>3 DEF Balanced
<1> HIDE DEF Inv
<1> QED BY <1>1, <1>2, <1>3, PTL DEF Spec
=============================================================================
