-------------------------- MODULE ObjectStoreProps --------------------------
(***************************************************************************)
(* What the storage engine promises.  The first group holds however        *)
(* requests interleave and wherever the process dies; the second when      *)
(* requests come one after the other.                                      *)
(***************************************************************************)
EXTENDS ObjectStore

Idle == \A p \in Requests : pc[p] = "idle"

Undisturbed == crashes = 0 /\ faults = 0

Objects(b) == {k \in Keys : BucketOf[k] = b}

-----------------------------------------------------------------------------
(* Any interleaving, crashes and I/O errors *)

\* The file of a version, if it is still there, holds the body whose ETag the
\* version record (PutObject, putVersionRecord) and the object index report.
VersionedDataIntact ==
    \A k \in Keys :
        /\ \A v \in VersionIds :
              versions[k][v] # None /\ versions[k][v].kind = "data"
                  => files[k][v] \in {None, versions[k][v].etag}
        /\ index[k] # None /\ index[k].vid # None
              => files[k][index[k].vid] \in {None, index[k].etag}

\* A GET answered from a version (GetObject, GetObjectVersion) streams the
\* body of the ETag in its headers, or fails: it never mixes two PUTs.
VersionedReadIntegrity ==
    \A p \in Requests :
        pc[p] = "get_reply" /\ loc[p].rec.vid # None
            => loc[p].got \in {None, loc[p].rec.etag}

\* A version that PutObject answered with 200 keeps its record and its body,
\* through crashes too, until a request sets out to delete that version.
AckedVersionsDurable ==
    \A kv \in acked \ doomed :
        LET ver == versions[kv[1]][kv[2]]
        IN  /\ ver # None /\ ver.kind = "data"
            /\ files[kv[1]][kv[2]] = ver.etag

\* An object that the index serves from a version has that version's record and
\* body: whatever fails or dies on the way, PutObject stores them first, and
\* only a request that deletes the version itself can leave the index behind.
ListedVersionReadable ==
    \A k \in Keys :
        /\ index[k] # None /\ index[k].vid # None
        /\ <<k, index[k].vid>> \notin doomed
        => /\ versions[k][index[k].vid] # None
           /\ files[k][index[k].vid] = index[k].etag

\* No step replaces the bytes of a stored version: "key.v.<id>" is written
\* once, whatever PUT, copy or delete runs beside it.
WriteOnceStep ==
    \A k \in Keys, v \in VersionIds :
        files[k][v] # None => files'[k][v] \in {None, files[k][v]}

VersionFilesWriteOnce == [][WriteOnceStep]_vars

-----------------------------------------------------------------------------
(* The strengthening of the first group that every step preserves *)

IsData(ver) == ver # None /\ ver.kind = "data"

\* Only ids that were handed out have been issued for a body.
IssuedFirst == \A v \in VersionIds : issued[v] # None => v \in usedIds

\* A record of a version carries the body the version was issued for.
RecAsIssued(rec) == rec.vid # None => rec.etag = issued[rec.vid]

StoredAsIssued ==
    \A k \in Keys :
        /\ \A v \in VersionIds :
              /\ files[k][v] \in {None, issued[v]}
              /\ IsData(versions[k][v]) => versions[k][v].etag = issued[v]
        /\ index[k] # None => RecAsIssued(index[k])

\* So do the records requests hold across their calls.
LocalsAsIssued(p) ==
    /\ pc[p] \in RecLabels \cup CopySrcLabels \cup {"get_reply"}
         => RecAsIssued(loc[p].rec)
    /\ pc[p] = "get_reply" /\ loc[p].rec.vid # None
         => loc[p].got \in {None, loc[p].rec.etag}
    /\ pc[p] \in PutLabels /\ loc[p].vid # None
         => loc[p].body = issued[loc[p].vid]

\* A request that removes a version has doomed it, and what a PUT has stored
\* so far stays in place until some request dooms the version.
LocalsOnDisk(p) ==
    /\ pc[p] \in DvLabels => <<loc[p].key, loc[p].vid>> \in doomed
    /\ pc[p] \in {"del_file", "del_unindex", "del_stats"}
         /\ loc[p].rec.vid # None
         => <<loc[p].key, loc[p].rec.vid>> \in doomed
    /\ /\ pc[p] \in PutLabels \ {"put_write"} /\ loc[p].vid # None
       /\ <<loc[p].key, loc[p].vid>> \notin doomed
       => /\ files[loc[p].key][loc[p].vid] = loc[p].body
          /\ pc[p] \in {"put_index", "put_stats"}
                => IsData(versions[loc[p].key][loc[p].vid])

LocalsSafe == \A p \in Requests : LocalsAsIssued(p) /\ LocalsOnDisk(p)

VersionInv == /\ IssuedFirst /\ StoredAsIssued /\ LocalsSafe
              /\ AckedVersionsDurable

-----------------------------------------------------------------------------
(* One request after the other *)

\* Slot s of object k holds data: the plain object or one of its versions.
Holds(k, s) == IF s = None THEN index[k] # None /\ index[k].vid = None
               ELSE IsData(versions[k][s])

Stored(b) == {o \in Objects(b) \X Slots : Holds(o[1], o[2])}

StoredSizes(b) ==
    [o \in Stored(b) |-> IF o[2] = None THEN index[o[1]].size
                         ELSE versions[o[1]][o[2]].size]

\* The bytes of objects of these sizes, as pairs of an object and a position.
BytesOf(size) == UNION {{o} \X (1..size[o]) : o \in DOMAIN size}

\* ObjectCount and TotalBytes (UpdateBucketStats) are the number and the total
\* size of what the bucket holds, in a bucket whose versioning never changes.
StatsExact ==
    Idle /\ Undisturbed =>
        \A b \in Buckets : buckets[b] # None =>
            /\ buckets[b].count = Cardinality(Stored(b))
            /\ buckets[b].bytes = Cardinality(BytesOf(StoredSizes(b)))

\* Sequential PUTs never take a bucket past its quota (checkQuota).
QuotaRespected ==
    Idle => \A b \in Buckets :
        LET r == buckets[b]
        IN  r # None => /\ r.quota[1] > 0 => r.bytes <= r.quota[1]
                        /\ r.quota[2] > 0 => r.count <= r.quota[2]

\* In a bucket that was never versioned, between requests, every object record
\* has its body on disk and every body has its object record.
IndexMatchesFiles ==
    Idle /\ Undisturbed =>
        \A k \in Keys :
            /\ index[k] = None => files[k][None] = None
            /\ index[k] # None /\ index[k].vid = None
                 => files[k][None] = index[k].etag

\* At most one version of an object carries IsLatest (MarkVersionsNotLatest
\* runs before PutVersion), even if the process dies between the two.
AtMostOneLatest ==
    \A k \in Keys : \A v, w \in VersionIds :
        /\ versions[k][v] # None /\ versions[k][v].latest
        /\ versions[k][w] # None /\ versions[k][w].latest
        => v = w

\* DeleteBucket never abandons data: a bucket without a record has no object
\* file, whatever the counters said and wherever earlier requests crashed.
DeletedBucketHoldsNoData ==
    \A b \in Buckets : buckets[b] = None =>
        \A k \in Objects(b), s \in Slots : files[k][s] = None
=============================================================================
