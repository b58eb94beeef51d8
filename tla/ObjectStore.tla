---------------------------- MODULE ObjectStore ----------------------------
(***************************************************************************)
(* The storage engine (internal/storage) over its metadata store           *)
(* (internal/metadata/bbolt) and its file backend                          *)
(* (internal/backend/localfs), as driven by the S3 handlers                *)
(* (internal/api/s3).                                                      *)
(*                                                                         *)
(* Every HTTP request runs in a goroutine of its own and the engine takes  *)
(* no lock: one metadata transaction or one file operation is one step,    *)
(* and the steps of different requests interleave freely.  pc[p] names the *)
(* call request slot p makes next and loc[p] holds its local variables.    *)
(***************************************************************************)
EXTENDS Integers, FiniteSets

CONSTANTS
    Buckets,        \* bucket names
    Keys,           \* objects, i.e. (bucket, key) pairs
    BucketOf,       \* the bucket each object lives in
    NestedKeys,     \* the objects whose key contains a "/"
    Bodies,         \* object contents; a body stands for its own MD5 (ETag)
    BodySize,       \* the length of each body in bytes
    VersionIds,     \* the UUIDs newVersionID can return
    Requests,       \* slots for requests in flight at the same time
    Workload,       \* the S3 operations clients issue
    InitVersioning, \* the versioning states an existing bucket may start in
    UnknownLength,  \* {-1} if clients may omit Content-Length, else {}
    Quotas,         \* the quotas <<max bytes, max objects>> an admin may set
    None,           \* an absent record, file or version id ("")
    MaxRequests,    \* bound: requests issued in a behaviour
    MaxCrashes,     \* bound: crashes of the server
    MaxFaults       \* bound: calls that return an I/O error

Versioning == {"disabled", "enabled", "suspended"}

\* quota is <<max bytes, max objects>>, with 0 for no limit.
BucketRecord == [versioning : Versioning, count : Int, bytes : Int,
                 quota : Nat \X Nat]

Bucket(status, count, bytes, quota) ==
    [versioning |-> status, count |-> count, bytes |-> bytes, quota |-> quota]

\* A file slot of an object: the plain path (None) or "key.v.<id>".
Slots == VersionIds \cup {None}

ObjectRecord == [vid : Slots, etag : Bodies, size : Nat]

VersionRecord ==
    [kind : {"data"}, latest : BOOLEAN, etag : Bodies, size : Nat]
    \cup [kind : {"marker"}, latest : BOOLEAN, etag : {None}, size : {0}]

Operations == {"put", "get", "getVersion", "delete", "deleteVersion", "copy",
               "tag", "setVersioning", "setQuota", "setConfig",
               "createBucket", "deleteBucket"}

ASSUME ConstantsAssumption ==
    /\ BucketOf \in [Keys -> Buckets]
    /\ NestedKeys \subseteq Keys
    /\ BodySize \in [Bodies -> Nat]
    /\ Workload \subseteq Operations
    /\ InitVersioning \subseteq Versioning
    /\ UnknownLength \subseteq {-1}
    /\ Quotas \subseteq Nat \X Nat
    /\ MaxRequests \in Nat /\ MaxCrashes \in Nat /\ MaxFaults \in Nat

ASSUME NoneAssumption ==
    /\ None \notin Keys /\ None \notin Bodies /\ None \notin VersionIds
    /\ None \notin BucketRecord /\ None \notin ObjectRecord
    /\ None \notin VersionRecord

VARIABLES
    buckets,   \* bbolt "buckets": bucket -> record
    index,     \* bbolt "objects": object -> its current record
    versions,  \* bbolt "versions": object -> version id -> record
    dirs,      \* the bucket directories on disk
    residue,   \* objects that left a sub-directory or temp file behind
    files,     \* object -> slot -> the body on disk
    pc, loc,   \* control point and local variables of every request slot
    usedIds,   \* the UUIDs handed out so far
    started, crashes, faults   \* counters for the bounds

(***************************************************************************)
(* History: the body each version id was issued for, the versions whose    *)
(* PUT was answered with 200, and the versions some request was told, or   *)
(* decided, to delete.                                                     *)
(***************************************************************************)
VARIABLES issued, acked, doomed

meta    == <<buckets, index, versions>>
disk    == <<dirs, residue, files>>
history == <<issued, acked, doomed>>
bounds  == <<started, crashes, faults>>
vars    == <<meta, disk, pc, loc, usedIds, bounds, history>>

\* Local variables, by the labels at which a request holds them.  vid is the
\* version id of the request, None exactly if versioning was not "enabled" in
\* the bucket record the request has read.
PutLabels == {"put_write", "put_delta", "put_mark", "put_version",
              "put_index", "put_stats"}
PutLocals == [key : Keys, body : Bodies, vid : Slots,
              dCount : Int, dBytes : Int]

KeyLabels == {"del_mark", "del_marker", "del_hide", "del_lookup"}
KeyLocals == [key : Keys]

RecLabels == {"get_read", "del_file", "del_unindex", "del_stats", "tag_write"}
RecLocals == [key : Keys, rec : ObjectRecord]

ReplyLocals == [rec : ObjectRecord, got : Bodies \cup {None}]

DvLabels == {"dv_file", "dv_stats", "dv_record"}
DvLocals == [key : Keys, vid : VersionIds, size : Nat]

CopySrcLabels == {"copy_check", "copy_read"}
CopySrcLocals == [key : Keys, dst : Keys, rec : ObjectRecord]

CopyDstLabels == {"copy_write", "copy_index", "copy_stats"}
CopyDstLocals == [dst : Keys, etag : Bodies, got : Bodies]

BucketLabels == {"cb_dir", "cb_record", "db_dir", "db_record"}
BucketLocals == [bucket : Buckets]

RewriteLocals == [bucket : Buckets, rec : BucketRecord]

Labels == {"idle", "get_reply", "bucket_write"}
          \cup PutLabels \cup KeyLabels \cup RecLabels \cup DvLabels
          \cup CopySrcLabels \cup CopyDstLabels \cup BucketLabels

Locals == PutLocals \cup KeyLocals \cup RecLocals \cup ReplyLocals
          \cup DvLocals \cup CopySrcLocals \cup CopyDstLocals
          \cup BucketLocals \cup RewriteLocals \cup {None}

\* l is what a request holds at label.
LocalsFit(label, l) ==
    /\ label = "idle" => l = None
    /\ label \in PutLabels => l \in PutLocals
    /\ label \in {"put_mark", "put_version"} => l.vid # None
    /\ label \in KeyLabels => l \in KeyLocals
    /\ label \in RecLabels => l \in RecLocals
    /\ label = "get_reply" => l \in ReplyLocals
    /\ label \in DvLabels => l \in DvLocals
    /\ label \in CopySrcLabels => l \in CopySrcLocals
    /\ label \in CopyDstLabels => l \in CopyDstLocals
    /\ label \in BucketLabels => l \in BucketLocals
    /\ label = "bucket_write" => l \in RewriteLocals

DataOK ==
    /\ buckets \in [Buckets -> BucketRecord \cup {None}]
    /\ index \in [Keys -> ObjectRecord \cup {None}]
    /\ versions \in [Keys -> [VersionIds -> VersionRecord \cup {None}]]
    /\ dirs \subseteq Buckets
    /\ residue \subseteq Keys
    /\ files \in [Keys -> [Slots -> Bodies \cup {None}]]
    /\ usedIds \subseteq VersionIds
    /\ issued \in [VersionIds -> Bodies \cup {None}]
    /\ acked \subseteq Keys \X VersionIds
    /\ doomed \subseteq Keys \X VersionIds
    /\ started \in Nat /\ crashes \in Nat /\ faults \in Nat

ControlOK ==
    /\ pc \in [Requests -> Labels]
    /\ loc \in [Requests -> Locals]
    /\ \A p \in Requests : LocalsFit(pc[p], loc[p])

TypeOK == DataOK /\ ControlOK

\* The record CreateBucket stores.
NewBucket == Bucket("disabled", 0, 0, <<0, 0>>)

\* Nothing is stored yet; a bucket is missing, or exists and was configured.
Init ==
    /\ \E s \in InitVersioning, q \in Quotas, present \in SUBSET Buckets :
        /\ buckets = [b \in Buckets |->
              IF b \in present THEN Bucket(s, 0, 0, q) ELSE None]
        /\ dirs = present
    /\ index = [k \in Keys |-> None]
    /\ versions = [k \in Keys |-> [v \in VersionIds |-> None]]
    /\ residue = {}
    /\ files = [k \in Keys |-> [s \in Slots |-> None]]
    /\ pc = [p \in Requests |-> "idle"]
    /\ loc = [p \in Requests |-> None]
    /\ usedIds = {}
    /\ issued = [v \in VersionIds |-> None]
    /\ acked = {} /\ doomed = {}
    /\ started = 0 /\ crashes = 0 /\ faults = 0

-----------------------------------------------------------------------------
(* Control of a request *)

Goto(p, label) == pc' = [pc EXCEPT ![p] = label]

\* A new request of operation op arrives in a free slot.
Arrive(p, op) ==
    /\ pc[p] = "idle"
    /\ op \in Workload
    /\ started < MaxRequests
    /\ started' = started + 1
    /\ UNCHANGED <<crashes, faults>>

\* The request goes on at label with the local variables l.
Proceed(p, label, l) == Goto(p, label) /\ loc' = [loc EXCEPT ![p] = l]

\* The request ends, with or without an error.
Done(p) == Proceed(p, "idle", None)

(* Backend: localfs *)

\* Temp file, sync and rename: readers see the old body or the new one.
Write(k, slot, body) ==
    /\ files' = [files EXCEPT ![k][slot] = body]
    /\ dirs' = dirs \cup {BucketOf[k]}
    /\ residue' = IF k \in NestedKeys THEN residue \cup {k} ELSE residue

\* Removes the file and never its parent directories; absent is no error.
Delete(k, slot) ==
    /\ files' = [files EXCEPT ![k][slot] = None]
    /\ UNCHANGED <<dirs, residue>>

\* ReadDir finds an entry below the bucket directory.
BucketDirInUse(b) ==
    \E k \in Keys : /\ BucketOf[k] = b
                    /\ k \in residue \/ \E s \in Slots : files[k][s] # None

(* Metadata store: bbolt *)

UpdateBucketStats(b, dCount, dBytes) ==
    buckets' = IF buckets[b] = None THEN buckets
               ELSE [buckets EXCEPT ![b] =
                       Bucket(buckets[b].versioning, buckets[b].count + dCount,
                              buckets[b].bytes + dBytes, buckets[b].quota)]

NotLatest(ver) ==
    IF ver = None THEN None
    ELSE [kind |-> ver.kind, latest |-> FALSE, etag |-> ver.etag,
          size |-> ver.size]

\* Seeded fault: delete markers keep their flag.
MarkersStayLatest(k) ==
    versions' = [versions EXCEPT ![k] =
                   [v \in VersionIds |->
                      IF versions[k][v] # None /\ versions[k][v].kind = "marker"
                      THEN versions[k][v] ELSE NotLatest(versions[k][v])]]

MarkVersionsNotLatest(k) ==
    versions' = [versions EXCEPT ![k] =
                   [v \in VersionIds |-> NotLatest(versions[k][v])]]

-----------------------------------------------------------------------------
(* PutObject *)

\* Seeded fault: the incoming bytes are not counted.
QuotaIgnoresIncoming(rec, incoming) ==
    /\ rec.quota[1] > 0 => rec.bytes <= rec.quota[1]
    /\ rec.quota[2] > 0 => rec.count + 1 <= rec.quota[2]

\* TRUE when the write may go ahead.
checkQuota(rec, incoming) ==
    /\ rec.quota[1] > 0 => rec.bytes + incoming <= rec.quota[1]
    /\ rec.quota[2] > 0 => rec.count + 1 <= rec.quota[2]

\* Seeded fault: an id may come up twice.
ReusedIds(status, body, v) ==
    IF status = "enabled"
    THEN /\ v \in VersionIds
         /\ usedIds' = usedIds \cup {v}
         /\ issued' = [issued EXCEPT ![v] = body]
    ELSE v = None /\ UNCHANGED <<usedIds, issued>>

\* A fresh version id and "key.v.<id>" if versioning is enabled, "" otherwise.
resolveVersioning(status, body, v) ==
    IF status = "enabled"
    THEN /\ v \in VersionIds \ usedIds
         /\ usedIds' = usedIds \cup {v}
         /\ issued' = [issued EXCEPT ![v] = body]
    ELSE v = None /\ UNCHANGED <<usedIds, issued>>

\* One read of the bucket record: quota, versioning and the delta all use it.
PutObject(p, k, body, size) ==
    LET rec == buckets[BucketOf[k]]
    IN  \/ /\ \/ rec = None
              \/ rec # None /\ ~checkQuota(rec, size)
           /\ Done(p)
           /\ UNCHANGED <<usedIds, issued>>
        \/ /\ rec # None
           /\ checkQuota(rec, size)
           /\ \E v \in Slots :
                /\ resolveVersioning(rec.versioning, body, v)
                /\ Proceed(p, "put_write",
                           [key |-> k, body |-> body, vid |-> v,
                            dCount |-> 0, dBytes |-> 0])

putObject(p) ==
    /\ Arrive(p, "put")
    /\ \E k \in Keys, body \in Bodies :
          \E size \in {BodySize[body]} \cup UnknownLength :
              PutObject(p, k, body, size)
    /\ UNCHANGED <<meta, disk, acked, doomed>>

PutWrite(p) ==
    /\ pc[p] = "put_write"
    /\ Write(loc[p].key, loc[p].vid, loc[p].body)
    /\ Goto(p, "put_delta")
    /\ UNCHANGED <<meta, loc, usedIds, bounds, history>>

\* Seeded faults: an overwrite counts as a new object; versioning metadata is
\* stored for every PUT.
OverwriteAdds(p, old) ==
    LET l == loc[p]
    IN  Proceed(p, IF l.vid # None THEN "put_mark" ELSE "put_index",
                [key |-> l.key, body |-> l.body, vid |-> l.vid,
                 dCount |-> 1, dBytes |-> BodySize[l.body]])

AlwaysMarks(p, old) ==
    LET l == loc[p]
    IN  Proceed(p, "put_mark",
                [key |-> l.key, body |-> l.body, vid |-> l.vid,
                 dCount |-> IF old = None THEN 1 ELSE 0,
                 dBytes |-> BodySize[l.body]])

\* What this PUT will add to the bucket's counters.
StatDelta(p, old) ==
    LET l == loc[p]
        n == BodySize[l.body]
        enabled == l.vid # None
        overwrite == ~enabled /\ old # None
    IN  Proceed(p, IF enabled THEN "put_mark" ELSE "put_index",
                [key |-> l.key, body |-> l.body, vid |-> l.vid,
                 dCount |-> IF overwrite THEN 0 ELSE 1,
                 dBytes |-> IF overwrite THEN n - old.size ELSE n])

computeStatDelta(p) ==
    /\ pc[p] = "put_delta"
    /\ StatDelta(p, index[loc[p].key])
    /\ UNCHANGED <<meta, disk, usedIds, bounds, history>>

PutMark(p) ==
    /\ pc[p] = "put_mark"
    /\ MarkVersionsNotLatest(loc[p].key)
    /\ Goto(p, "put_version")
    /\ UNCHANGED <<buckets, index, disk, loc, usedIds, bounds, history>>

putVersionRecord(p) ==
    /\ pc[p] = "put_version"
    /\ versions' = [versions EXCEPT ![loc[p].key][loc[p].vid] =
          [kind |-> "data", latest |-> TRUE, etag |-> loc[p].body,
           size |-> BodySize[loc[p].body]]]
    /\ Goto(p, "put_index")
    /\ UNCHANGED <<buckets, index, disk, loc, usedIds, bounds, history>>

PutIndex(p) ==
    /\ pc[p] = "put_index"
    /\ index' = [index EXCEPT ![loc[p].key] =
          [vid |-> loc[p].vid, etag |-> loc[p].body,
           size |-> BodySize[loc[p].body]]]
    /\ Goto(p, "put_stats")
    /\ UNCHANGED <<buckets, versions, disk, loc, usedIds, bounds, history>>

\* The handler answers 200 with the version id.
PutReply(p) ==
    /\ acked' = IF loc[p].vid = None THEN acked
                ELSE acked \cup {<<loc[p].key, loc[p].vid>>}
    /\ Done(p)
    /\ UNCHANGED <<index, versions, disk, usedIds, issued, doomed>>

PutStats(p) ==
    /\ pc[p] = "put_stats"
    /\ UpdateBucketStats(BucketOf[loc[p].key], loc[p].dCount, loc[p].dBytes)
    /\ PutReply(p)
    /\ UNCHANGED bounds
-----------------------------------------------------------------------------
(* GetObject *)

\* Without a version id: the current record names the file to stream.
GetObject(p, k) ==
    IF index[k] = None THEN Done(p)
    ELSE Proceed(p, "get_read", [key |-> k, rec |-> index[k]])

GetObjectVersion(p, k, v) ==
    LET ver == versions[k][v]
    IN  IF ver = None THEN Done(p)
        ELSE IF ver.kind = "marker" THEN Done(p)
        ELSE Proceed(p, "get_read",
                     [key |-> k, rec |-> [vid |-> v, etag |-> ver.etag,
                                          size |-> ver.size]])

getObject(p) ==
    /\ \/ Arrive(p, "get") /\ \E k \in Keys : GetObject(p, k)
       \/ /\ Arrive(p, "getVersion")
          /\ \E k \in Keys, v \in VersionIds : GetObjectVersion(p, k, v)
    /\ UNCHANGED <<meta, disk, usedIds, history>>

\* Seeded fault: the goroutine looks the current version up again.
ReadsCurrentVersion(p) ==
    LET k == loc[p].key
        v == IF index[k] = None THEN loc[p].rec.vid ELSE index[k].vid
    IN  /\ pc[p] = "get_read"
        /\ Proceed(p, "get_reply", [rec |-> loc[p].rec, got |-> files[k][v]])
        /\ UNCHANGED <<meta, disk, usedIds, bounds, history>>

\* The streaming goroutine opens the file; a missing file truncates the body.
GetRead(p) ==
    /\ pc[p] = "get_read"
    /\ Proceed(p, "get_reply",
               [rec |-> loc[p].rec, got |-> files[loc[p].key][loc[p].rec.vid]])
    /\ UNCHANGED <<meta, disk, usedIds, bounds, history>>

\* The client has the headers of loc[p].rec and the body loc[p].got.
GetReply(p) ==
    /\ pc[p] = "get_reply"
    /\ Done(p)
    /\ UNCHANGED <<meta, disk, usedIds, bounds, history>>

-----------------------------------------------------------------------------
(* DeleteObject *)

DeleteObject(p, k) ==
    LET rec == buckets[BucketOf[k]]
    IN  IF rec = None THEN Done(p)
        ELSE Proceed(p, IF rec.versioning = "enabled" THEN "del_mark"
                        ELSE "del_lookup", [key |-> k])

DeleteObjectVersion(p, k, v) ==
    LET ver == versions[k][v]
    IN  IF ver = None THEN Done(p)
        ELSE Proceed(p, IF ver.kind = "marker" THEN "dv_record" ELSE "dv_file",
                     [key |-> k, vid |-> v, size |-> ver.size])

deleteObject(p) ==
    /\ \/ /\ Arrive(p, "delete")
          /\ \E k \in Keys : DeleteObject(p, k)
          /\ UNCHANGED doomed
       \/ /\ Arrive(p, "deleteVersion")
          /\ \E k \in Keys, v \in VersionIds :
                /\ DeleteObjectVersion(p, k, v)
                /\ doomed' = doomed \cup {<<k, v>>}
    /\ UNCHANGED <<meta, disk, usedIds, issued, acked>>

DelMark(p) ==
    /\ pc[p] = "del_mark"
    /\ MarkVersionsNotLatest(loc[p].key)
    /\ Goto(p, "del_marker")
    /\ UNCHANGED <<buckets, index, disk, loc, usedIds, bounds, history>>

putDeleteMarker(p) ==
    /\ pc[p] = "del_marker"
    /\ \E v \in VersionIds \ usedIds :
          /\ usedIds' = usedIds \cup {v}
          /\ versions' = [versions EXCEPT ![loc[p].key][v] =
                [kind |-> "marker", latest |-> TRUE, etag |-> None, size |-> 0]]
    /\ Goto(p, "del_hide")
    /\ UNCHANGED <<buckets, index, disk, loc, bounds, history>>

\* "Remove from the main object index so GetObject returns 404."
DelHide(p) ==
    /\ pc[p] = "del_hide"
    /\ index' = [index EXCEPT ![loc[p].key] = None]
    /\ Done(p)
    /\ UNCHANGED <<buckets, versions, disk, usedIds, bounds, history>>

\* deleteUnversionedObject, from its lookup to its counters.
DelLookup(p) ==
    LET k == loc[p].key
        rec == index[k]
    IN  /\ pc[p] = "del_lookup"
        /\ IF rec = None THEN Done(p) /\ UNCHANGED doomed
           ELSE /\ Proceed(p, "del_file", [key |-> k, rec |-> rec])
                /\ doomed' = IF rec.vid = None THEN doomed
                             ELSE doomed \cup {<<k, rec.vid>>}
        /\ UNCHANGED <<meta, disk, usedIds, bounds, issued, acked>>

\* Seeded fault: the file is not removed.
FileLeftBehind(p) ==
    /\ pc[p] = "del_file"
    /\ Goto(p, "del_unindex")
    /\ UNCHANGED <<meta, disk, loc, usedIds, bounds, history>>

DelFile(p) ==
    /\ pc[p] = "del_file"
    /\ Delete(loc[p].key, loc[p].rec.vid)
    /\ Goto(p, "del_unindex")
    /\ UNCHANGED <<meta, loc, usedIds, bounds, history>>

DelUnindex(p) ==
    /\ pc[p] = "del_unindex"
    /\ index' = [index EXCEPT ![loc[p].key] = None]
    /\ Goto(p, "del_stats")
    /\ UNCHANGED <<buckets, versions, disk, loc, usedIds, bounds, history>>

DelStats(p) ==
    /\ pc[p] = "del_stats"
    /\ UpdateBucketStats(BucketOf[loc[p].key], -1, -loc[p].rec.size)
    /\ Done(p)
    /\ UNCHANGED <<index, versions, disk, usedIds, bounds, history>>

\* DeleteObjectVersion: file, counters, then the version record; the object
\* index and the other versions' latest flags are left alone.
DvFile(p) ==
    /\ pc[p] = "dv_file"
    /\ Delete(loc[p].key, loc[p].vid)
    /\ Goto(p, "dv_stats")
    /\ UNCHANGED <<meta, loc, usedIds, bounds, history>>

DvStats(p) ==
    /\ pc[p] = "dv_stats"
    /\ UpdateBucketStats(BucketOf[loc[p].key], -1, -loc[p].size)
    /\ Goto(p, "dv_record")
    /\ UNCHANGED <<index, versions, disk, loc, usedIds, bounds, history>>

DvRecord(p) ==
    /\ pc[p] = "dv_record"
    /\ versions' = [versions EXCEPT ![loc[p].key][loc[p].vid] = None]
    /\ Done(p)
    /\ UNCHANGED <<buckets, index, disk, usedIds, bounds, history>>
-----------------------------------------------------------------------------
(* CopyObject: always the plain path of the destination, never a version *)

CopyObject(p, src, dst) ==
    IF index[src] = None THEN Done(p)
    ELSE Proceed(p, "copy_check",
                 [key |-> src, dst |-> dst, rec |-> index[src]])

copyObject(p) ==
    /\ Arrive(p, "copy")
    /\ \E src, dst \in Keys : CopyObject(p, src, dst)
    /\ UNCHANGED <<meta, disk, usedIds, history>>

CopyCheck(p) ==
    /\ pc[p] = "copy_check"
    /\ IF buckets[BucketOf[loc[p].dst]] = None THEN Done(p)
       ELSE Goto(p, "copy_read") /\ UNCHANGED loc
    /\ UNCHANGED <<meta, disk, usedIds, bounds, history>>

\* A read error reaches Write through the pipe and ends the request.
CopyRead(p) ==
    LET body == files[loc[p].key][loc[p].rec.vid]
    IN  /\ pc[p] = "copy_read"
        /\ IF body = None THEN Done(p)
           ELSE Proceed(p, "copy_write", [dst |-> loc[p].dst,
                           etag |-> loc[p].rec.etag, got |-> body])
        /\ UNCHANGED <<meta, disk, usedIds, bounds, history>>

\* Seeded fault: the copy lands in the file of the current version.
CopyIntoCurrent(p) ==
    LET k == loc[p].dst
    IN  /\ pc[p] = "copy_write"
        /\ Write(k, IF index[k] = None THEN None ELSE index[k].vid, loc[p].got)
        /\ Goto(p, "copy_index")
        /\ UNCHANGED <<meta, loc, usedIds, bounds, history>>

CopyWrite(p) ==
    /\ pc[p] = "copy_write"
    /\ Write(loc[p].dst, None, loc[p].got)
    /\ Goto(p, "copy_index")
    /\ UNCHANGED <<meta, loc, usedIds, bounds, history>>

\* The source's ETag with the length that was copied.
CopyIndex(p) ==
    /\ pc[p] = "copy_index"
    /\ index' = [index EXCEPT ![loc[p].dst] =
          [vid |-> None, etag |-> loc[p].etag,
           size |-> BodySize[loc[p].got]]]
    /\ Goto(p, "copy_stats")
    /\ UNCHANGED <<buckets, versions, disk, loc, usedIds, bounds, history>>

CopyStats(p) ==
    /\ pc[p] = "copy_stats"
    /\ UpdateBucketStats(BucketOf[loc[p].dst], 1, BodySize[loc[p].got])
    /\ Done(p)
    /\ UNCHANGED <<index, versions, disk, usedIds, bounds, history>>

-----------------------------------------------------------------------------
(* Read-modify-write of a whole record *)

\* SetObjectTags: the tags are not modelled, the rest of the record is.
SetObjectTags(p, k) ==
    IF index[k] = None THEN Done(p)
    ELSE Proceed(p, "tag_write", [key |-> k, rec |-> index[k]])

putObjectTagging(p) ==
    /\ Arrive(p, "tag")
    /\ \E k \in Keys : SetObjectTags(p, k)
    /\ UNCHANGED <<meta, disk, usedIds, history>>

TagWrite(p) ==
    /\ pc[p] = "tag_write"
    /\ index' = [index EXCEPT ![loc[p].key] = loc[p].rec]
    /\ Done(p)
    /\ UNCHANGED <<buckets, versions, disk, usedIds, bounds, history>>

\* Read the bucket record; rec is the copy the setter has changed.
RewriteBucket(p, b, rec) ==
    Proceed(p, "bucket_write", [bucket |-> b, rec |-> rec])

SetBucketVersioning(p, b, status) ==
    IF buckets[b] = None THEN Done(p)
    ELSE RewriteBucket(p, b, Bucket(status, buckets[b].count,
                                    buckets[b].bytes, buckets[b].quota))

SetBucketQuota(p, b, q) ==
    IF buckets[b] = None THEN Done(p)
    ELSE RewriteBucket(p, b, Bucket(buckets[b].versioning, buckets[b].count,
                                    buckets[b].bytes, q))

\* Policy, ACL, tags, CORS, encryption, lifecycle, website, notification and
\* replication settings: fields no property here is about.
SetBucketPolicy(p, b) ==
    IF buckets[b] = None THEN Done(p) ELSE RewriteBucket(p, b, buckets[b])

\* The S3 API accepts two of the three versioning states.
putBucketVersioning(p, b) ==
    \E s \in {"enabled", "suspended"} : SetBucketVersioning(p, b, s)

\* The admin API; <<0, 0>> stands for no quota.
putQuota(p, b) == \E q \in Quotas : SetBucketQuota(p, b, q)

\* Configuration requests.
putBucketConfig(p) ==
    /\ \E b \in Buckets :
         \/ Arrive(p, "setVersioning") /\ putBucketVersioning(p, b)
         \/ Arrive(p, "setQuota") /\ putQuota(p, b)
         \/ Arrive(p, "setConfig") /\ SetBucketPolicy(p, b)
    /\ UNCHANGED <<meta, disk, usedIds, history>>

PutBucket(p) ==
    /\ pc[p] = "bucket_write"
    /\ buckets' = [buckets EXCEPT ![loc[p].bucket] = loc[p].rec]
    /\ Done(p)
    /\ UNCHANGED <<index, versions, disk, usedIds, bounds, history>>

-----------------------------------------------------------------------------
(* CreateBucket and DeleteBucket *)

CreateBucket(p, b) ==
    IF buckets[b] # None THEN Done(p)
    ELSE Proceed(p, "cb_dir", [bucket |-> b])

DeleteBucket(p, b) ==
    IF buckets[b] = None THEN Done(p)
    ELSE IF buckets[b].count > 0 THEN Done(p)
    ELSE Proceed(p, "db_dir", [bucket |-> b])

bucketRequest(p) ==
    /\ \E b \in Buckets : \/ Arrive(p, "createBucket") /\ CreateBucket(p, b)
                          \/ Arrive(p, "deleteBucket") /\ DeleteBucket(p, b)
    /\ UNCHANGED <<meta, disk, usedIds, history>>

CreateBucketDir(p) ==
    /\ pc[p] = "cb_dir"
    /\ dirs' = dirs \cup {loc[p].bucket}
    /\ Goto(p, "cb_record")
    /\ UNCHANGED <<meta, residue, files, loc, usedIds, bounds, history>>

CreateBucketRecord(p) ==
    /\ pc[p] = "cb_record"
    /\ buckets' = [buckets EXCEPT ![loc[p].bucket] = NewBucket]
    /\ Done(p)
    /\ UNCHANGED <<index, versions, disk, usedIds, bounds, history>>

\* Requests streaming into a temp file below bucket b.
Writing(b) == \E q \in Requests :
    \/ pc[q] = "put_write" /\ BucketOf[loc[q].key] = b
    \/ pc[q] = "copy_write" /\ BucketOf[loc[q].dst] = b

\* Seeded fault: the backend's refusal is ignored.
RefusalIgnored(p) ==
    LET b == loc[p].bucket
    IN  /\ pc[p] = "db_dir"
        /\ dirs' = IF BucketDirInUse(b) THEN dirs ELSE dirs \ {b}
        /\ Goto(p, "db_record")
        /\ UNCHANGED <<meta, residue, files, loc, usedIds, bounds, history>>

\* Refuses a directory with entries, the temp file of a write included.
DeleteBucketDir(p) ==
    LET b == loc[p].bucket
    IN  /\ pc[p] = "db_dir"
        /\ \/ /\ b \in dirs
              /\ BucketDirInUse(b) \/ Writing(b)
              /\ Done(p)
              /\ UNCHANGED dirs
           \/ /\ b \in dirs => ~BucketDirInUse(b)
              /\ dirs' = dirs \ {b}
              /\ Goto(p, "db_record")
              /\ UNCHANGED loc
        /\ UNCHANGED <<meta, residue, files, usedIds, bounds, history>>

DeleteBucketRecord(p) ==
    /\ pc[p] = "db_record"
    /\ buckets' = [buckets EXCEPT ![loc[p].bucket] = None]
    /\ Done(p)
    /\ UNCHANGED <<index, versions, disk, usedIds, bounds, history>>
-----------------------------------------------------------------------------
(* Failures *)

\* Seeded fault: an error of backend.Write is ignored.
WriteErrorIgnored(p) ==
    /\ faults < MaxFaults
    /\ faults' = faults + 1
    /\ pc[p] = "put_write"
    /\ Goto(p, "put_delta")
    /\ UNCHANGED <<started, crashes, meta, disk, loc, usedIds, history>>

\* Seeded fault: an error of PutVersion is ignored.
VersionErrorIgnored(p) ==
    /\ faults < MaxFaults
    /\ faults' = faults + 1
    /\ pc[p] = "put_version"
    /\ Goto(p, "put_index")
    /\ UNCHANGED <<started, crashes, meta, disk, loc, usedIds, history>>

\* The call at pc[p] returns an I/O error and has had no effect.  An error
\* of UpdateBucketStats is ignored, one of the lookup in computeStatDelta
\* counts as "not found", and one of backend.Read comes after the 200.
CallFails(p) ==
    /\ faults < MaxFaults
    /\ faults' = faults + 1
    /\ UNCHANGED <<started, crashes, meta, disk, usedIds, issued, doomed>>
    /\ \/ /\ pc[p] \notin {"idle", "get_read", "get_reply", "put_delta",
                           "put_stats", "dv_stats"}
          /\ Done(p)
          /\ UNCHANGED acked
       \/ /\ pc[p] = "put_delta"
          /\ StatDelta(p, None)
          /\ UNCHANGED acked
       \/ pc[p] = "put_stats" /\ PutReply(p)
       \/ /\ pc[p] = "dv_stats"
          /\ Goto(p, "dv_record")
          /\ UNCHANGED <<loc, acked>>
       \/ /\ pc[p] = "get_read"
          /\ Proceed(p, "get_reply", [rec |-> loc[p].rec, got |-> None])
          /\ UNCHANGED acked

\* The process dies and is restarted: committed transactions and renamed
\* files survive, requests do not; an unfinished write may leave its temp file.
Crash ==
    /\ crashes < MaxCrashes
    /\ crashes' = crashes + 1
    /\ \E p \in Requests : pc[p] # "idle"
    /\ pc' = [p \in Requests |-> "idle"]
    /\ loc' = [p \in Requests |-> None]
    /\ \E left \in SUBSET Keys :
          /\ \A k \in left : \E p \in Requests :
                \/ pc[p] = "put_write" /\ loc[p].key = k
                \/ pc[p] = "copy_write" /\ loc[p].dst = k
          /\ residue' = residue \cup left
    /\ UNCHANGED <<meta, dirs, files, usedIds, started, faults, history>>

-----------------------------------------------------------------------------
\* A new request.
Request(p) ==
    \/ putObject(p) \/ getObject(p) \/ deleteObject(p) \/ copyObject(p)
    \/ putObjectTagging(p) \/ putBucketConfig(p) \/ bucketRequest(p)

\* The next call of a request in flight.
Step(p) ==
    \/ PutWrite(p) \/ computeStatDelta(p) \/ PutMark(p) \/ putVersionRecord(p)
    \/ PutIndex(p) \/ PutStats(p)
    \/ GetRead(p) \/ GetReply(p)
    \/ DelMark(p) \/ putDeleteMarker(p) \/ DelHide(p)
    \/ DelLookup(p) \/ DelFile(p) \/ DelUnindex(p) \/ DelStats(p)
    \/ DvFile(p) \/ DvStats(p) \/ DvRecord(p)
    \/ CopyCheck(p) \/ CopyRead(p) \/ CopyWrite(p) \/ CopyIndex(p)
    \/ CopyStats(p)
    \/ TagWrite(p) \/ PutBucket(p)
    \/ CreateBucketDir(p) \/ CreateBucketRecord(p)
    \/ DeleteBucketDir(p) \/ DeleteBucketRecord(p)

Next ==
    \/ \E p \in Requests : Request(p) \/ Step(p) \/ CallFails(p)
    \/ Crash

Spec == Init /\ [][Next]_vars
=============================================================================
