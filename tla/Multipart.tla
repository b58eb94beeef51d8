----------------------------- MODULE Multipart ------------------------------
(***************************************************************************)
(* Multipart uploads (internal/storage/multipart.go) of one object, as     *)
(* driven by the S3 handlers.  As everywhere in the engine no lock is      *)
(* held: each metadata transaction and each file operation is one step,    *)
(* and requests on the same upload interleave.                             *)
(*                                                                         *)
(* The bytes of a part carry the upload and the part number they were sent *)
(* for, so that properties can say where the bytes of the object are from. *)
(***************************************************************************)
EXTENDS Integers, FiniteSets, Sequences, SequencesExt

CONSTANTS
    Uploads,       \* the UUIDs CreateMultipartUpload can return
    MaxPart,       \* part numbers are 1..MaxPart
    Bodies,        \* part contents; a body stands for its own MD5
    BodySize,      \* the length of each body in bytes
    UnknownLength, \* {-1} if parts may come without Content-Length, else {}
    Quota,         \* the bucket's quota in bytes, 0 for none
    MaxObjects,    \* the bucket's quota in objects, 0 for none
    Requests,      \* slots for requests in flight at the same time
    None,          \* absent
    MaxRequests, MaxCrashes, MaxFaults   \* bounds

PartNumbers == 1..MaxPart

ASSUME MultipartAssumption ==
    /\ MaxPart \in Nat
    /\ BodySize \in [Bodies -> Nat]
    /\ UnknownLength \subseteq {-1}
    /\ Quota \in Nat /\ MaxObjects \in Nat
    /\ MaxRequests \in Nat /\ MaxCrashes \in Nat /\ MaxFaults \in Nat

VARIABLES
    uploads,   \* bbolt "multipart": the uploads in progress
    parts,     \* bbolt "parts": upload -> part number -> record
    partFiles, \* the files ".multipart/<upload>/<part>"
    file,      \* the object's file
    index,     \* the object's record
    stats,     \* the bucket's ObjectCount and TotalBytes
    pc, loc,   \* control point and local variables of every request slot
    created,   \* the ids handed out so far
    started, crashes, faults,  \* counters for the bounds
    alone      \* requests came one after the other and nothing failed so far

(***************************************************************************)
(* History: the bodies clients sent, the ETag each client holds for a part *)
(* of its upload, and the uploads whose abort or completion was answered.  *)
(***************************************************************************)
VARIABLES sent, receipts, aborted, completed

store   == <<uploads, parts, partFiles, file, index, stats>>
bounds  == <<started, crashes, faults, alone>>
history == <<sent, receipts, aborted, completed>>
vars    == <<store, pc, loc, created, bounds, history>>

\* A run of bytes in a file: the body of part n of upload u.
Chunk == [u : Uploads, n : PartNumbers, body : Bodies]

PartRecord == [etag : Bodies, size : Int]

\* The record of the assembled object: the ETags it was made from (compositeMD5
\* is a function of them) and the size in its headers.
ObjectRecord == [etags : Seq(Bodies), size : Int]

Labels == {"idle", "part_write", "part_record",
           "cmp_bucket", "cmp_list", "cmp_read", "cmp_write", "cmp_index", "cmp_stats",
           "abt_list", "abt_files", "clean_upload", "clean_parts", "clean_files"}

\* The local variables of UploadPart, of CompleteMultipartUpload before and
\* after each of its calls, of AbortMultipartUpload and of cleanupMultipart.
CompletePart == [n : PartNumbers, etag : Bodies]
PartLocal == [u : Uploads, n : PartNumbers, body : Bodies, size : Int]
BucketLocal == [u : Uploads, sel : Seq(CompletePart)]
ListLocal == [u : Uploads, sel : Seq(CompletePart), seen : [count : Nat, bytes : Int]]
ReadLocal == [u : Uploads, sel : Seq(CompletePart), total : Int,
              got : UNION {[S -> Bodies] : S \in SUBSET PartNumbers}]
AbortLocal == [u : Uploads]
FilesLocal == [u : Uploads, todo : SUBSET PartNumbers, last : Nat]
CleanLocal == [u : Uploads, why : {"abort", "complete"}, next : Nat, last : Nat]
Locals == PartLocal \cup BucketLocal \cup ListLocal \cup ReadLocal
            \cup AbortLocal \cup FilesLocal \cup CleanLocal

\* None is no value of these.
ASSUME NoneAssumption ==
    None \notin Bodies \cup PartRecord \cup ObjectRecord \cup Seq(Chunk) \cup Locals

TypeOK ==
    /\ uploads \subseteq Uploads
    /\ parts \in [Uploads -> [PartNumbers -> PartRecord \cup {None}]]
    /\ partFiles \in [Uploads -> [PartNumbers -> Bodies \cup {None}]]
    /\ file \in Seq(Chunk) \cup {None}
    /\ index \in ObjectRecord \cup {None}
    /\ stats \in [count : Nat, bytes : Int]
    /\ pc \in [Requests -> Labels]
    /\ loc \in [Requests -> Locals \cup {None}]
    /\ \A p \in Requests : pc[p] = "idle" <=> loc[p] = None
    /\ created \subseteq Uploads /\ uploads \subseteq created
    /\ sent \subseteq Chunk
    /\ receipts \in [Uploads -> [PartNumbers -> Bodies \cup {None}]]
    /\ aborted \subseteq created /\ completed \subseteq created
    /\ started \in Nat /\ crashes \in Nat /\ faults \in Nat
    /\ alone \in BOOLEAN

Init ==
    /\ uploads = {} /\ created = {}
    /\ parts = [u \in Uploads |-> [n \in PartNumbers |-> None]]
    /\ partFiles = [u \in Uploads |-> [n \in PartNumbers |-> None]]
    /\ file = None /\ index = None
    /\ stats = [count |-> 0, bytes |-> 0]
    /\ pc = [p \in Requests |-> "idle"]
    /\ loc = [p \in Requests |-> None]
    /\ sent = {} /\ aborted = {} /\ completed = {}
    /\ receipts = [u \in Uploads |-> [n \in PartNumbers |-> None]]
    /\ started = 0 /\ crashes = 0 /\ faults = 0 /\ alone = TRUE

Arrive(p) ==
    /\ pc[p] = "idle"
    /\ started < MaxRequests
    /\ started' = started + 1
    /\ alone' = (alone /\ \A q \in Requests : pc[q] = "idle")
    /\ UNCHANGED <<crashes, faults>>

Proceed(p, label, l) ==
    /\ pc' = [pc EXCEPT ![p] = label]
    /\ loc' = [loc EXCEPT ![p] = l]

Done(p) == Proceed(p, "idle", None)

\* The upload record is looked up; without it the request ends (404).
Lookup(p, u, label, l) == IF u \in uploads THEN Proceed(p, label, l) ELSE Done(p)

-----------------------------------------------------------------------------
(* CreateMultipartUpload and UploadPart *)

\* The id is a fresh UUID.
CreateMultipartUpload(u) ==
    /\ u \notin created
    /\ uploads' = uploads \cup {u}
    /\ created' = created \cup {u}
    /\ UNCHANGED <<parts, partFiles, file, index, stats>>

createMultipartUpload(p) ==
    /\ Arrive(p)
    /\ \E u \in Uploads : CreateMultipartUpload(u)
    /\ UNCHANGED <<pc, loc, history>>

\* The upload must exist; its bytes are on their way from here on.
UploadPart(p, u, n, body, size) ==
    /\ Lookup(p, u, "part_write", [u |-> u, n |-> n, body |-> body, size |-> size])
    /\ sent' = IF u \in uploads
               THEN sent \cup {[u |-> u, n |-> n, body |-> body]} ELSE sent

\* The handler takes the part number, which it checks, from the query and the
\* size from Content-Length, which it does not check.
uploadPart(p) ==
    /\ Arrive(p)
    /\ \E u \in created, n \in PartNumbers, body \in Bodies :
       \E size \in {BodySize[body]} \cup UnknownLength : UploadPart(p, u, n, body, size)
    /\ UNCHANGED <<store, created, receipts, aborted, completed>>

PartWrite(p) ==
    LET l == loc[p]
    IN  /\ pc[p] = "part_write"
        /\ partFiles' = [partFiles EXCEPT ![l.u][l.n] = l.body]
        /\ Proceed(p, "part_record", l)
        /\ UNCHANGED <<uploads, parts, file, index, stats, created, bounds, history>>

\* Seeded fault: the size of a part is taken from the previous record.
KeepsOldSize(p) ==
    LET l == loc[p]
        old == parts[l.u][l.n]
    IN  /\ pc[p] = "part_record"
        /\ parts' = [parts EXCEPT ![l.u][l.n] =
              [etag |-> l.body, size |-> IF old = None THEN l.size ELSE old.size]]
        /\ receipts' = [receipts EXCEPT ![l.u][l.n] = l.body]
        /\ Done(p)
        /\ UNCHANGED <<uploads, partFiles, file, index, stats, created, bounds,
                       sent, aborted, completed>>

\* The record carries the declared size; the client gets the ETag.
PutPart(p) ==
    LET l == loc[p]
    IN  /\ pc[p] = "part_record"
        /\ parts' = [parts EXCEPT ![l.u][l.n] = [etag |-> l.body, size |-> l.size]]
        /\ receipts' = [receipts EXCEPT ![l.u][l.n] = l.body]
        /\ Done(p)
        /\ UNCHANGED <<uploads, partFiles, file, index, stats, created, bounds,
                       sent, aborted, completed>>

-----------------------------------------------------------------------------
(* CompleteMultipartUpload *)

\* A client names parts it has a receipt for, in any order.
Selections(u) ==
    {[i \in DOMAIN s |-> [n |-> s[i], etag |-> receipts[u][s[i]]]] :
        s \in UNION {SetToSeqs(S) : S \in
                 (SUBSET {n \in PartNumbers : receipts[u][n] # None}) \ {{}}}}

CompleteMultipartUpload(p) ==
    /\ Arrive(p)
    /\ \E u \in created : \E sel \in Selections(u) :
          Lookup(p, u, "cmp_bucket", [u |-> u, sel |-> sel])
    /\ UNCHANGED <<store, created, history>>

\* GetBucket: the quota check below uses the counters read here.
CompleteBucket(p) ==
    /\ pc[p] = "cmp_bucket"
    /\ Proceed(p, "cmp_list", [u |-> loc[p].u, sel |-> loc[p].sel, seen |-> stats])
    /\ UNCHANGED <<store, created, bounds, history>>

Total(sizes) ==
    LET sum[i \in 0..Len(sizes)] == IF i = 0 THEN 0 ELSE sum[i - 1] + sizes[i]
    IN  sum[Len(sizes)]

\* The recorded sizes of the selected parts; a part without a record has none.
multipartTotalSize(u, sel) ==
    Total([i \in DOMAIN sel |->
             IF parts[u][sel[i].n] = None THEN 0 ELSE parts[u][sel[i].n].size])

\* The parts in ascending order; a selection has each number once.
ByNumber(sel) ==
    CHOOSE s \in [DOMAIN sel -> Range(sel)] : \A i, j \in DOMAIN sel : i < j => s[i].n < s[j].n

\* checkQuota
QuotaExceeded(seen, incoming) ==
    \/ Quota > 0 /\ seen.bytes + incoming > Quota
    \/ MaxObjects > 0 /\ seen.count + 1 > MaxObjects

\* Seeded fault: the parts stay in the order the client lists them.
ListedUnsorted(p) ==
    LET l == loc[p]
        total == multipartTotalSize(l.u, l.sel)
    IN  /\ pc[p] = "cmp_list"
        /\ IF QuotaExceeded(l.seen, total) THEN Done(p)
           ELSE Proceed(p, "cmp_read", [u |-> l.u, sel |-> l.sel,
                           total |-> total, got |-> <<>>])
        /\ UNCHANGED <<store, created, bounds, history>>

\* The part records are read once: the quota is checked for the parts as the
\* client lists them, the object's size is added up again when they are sorted.
CompleteList(p) ==
    LET l == loc[p]
        sorted == ByNumber(l.sel)
    IN  /\ pc[p] = "cmp_list"
        /\ IF QuotaExceeded(l.seen, multipartTotalSize(l.u, l.sel)) THEN Done(p)
           ELSE Proceed(p, "cmp_read", [u |-> l.u, sel |-> sorted,
                           total |-> multipartTotalSize(l.u, sorted), got |-> <<>>])
        /\ UNCHANGED <<store, created, bounds, history>>

\* Seeded fault: the error of a Read is not passed to the pipe.
ReadErrorLost(p) ==
    LET l == loc[p]
        selected == {l.sel[i].n : i \in DOMAIN l.sel}
    IN  /\ pc[p] = "cmp_read"
        /\ \E n \in selected \ DOMAIN l.got :
              LET got == [m \in DOMAIN l.got \cup {n} |->
                            IF m = n THEN partFiles[l.u][n] ELSE l.got[m]]
              IN  Proceed(p, IF DOMAIN got = selected THEN "cmp_write" ELSE "cmp_read",
                          [u |-> l.u, sel |-> l.sel, total |-> l.total, got |-> got])
        /\ UNCHANGED <<store, created, bounds, history>>

\* One goroutine per part opens its file, in any order; a missing file fails
\* the Write of the concatenation.
assemblePartReaders(p) ==
    LET l == loc[p]
        selected == {l.sel[i].n : i \in DOMAIN l.sel}
    IN  /\ pc[p] = "cmp_read"
        /\ \E n \in selected \ DOMAIN l.got :
              LET body == partFiles[l.u][n]
                  got == [m \in DOMAIN l.got \cup {n} |->
                            IF m = n THEN body ELSE l.got[m]]
              IN  IF body = None THEN Done(p)
                  ELSE Proceed(p, IF DOMAIN got = selected THEN "cmp_write"
                                  ELSE "cmp_read",
                               [u |-> l.u, sel |-> l.sel, total |-> l.total,
                                got |-> got])
        /\ UNCHANGED <<store, created, bounds, history>>

CompleteWrite(p) ==
    LET l == loc[p]
    IN  /\ pc[p] = "cmp_write"
        /\ file' = [i \in DOMAIN l.sel |-> [u |-> l.u, n |-> l.sel[i].n,
                                           body |-> l.got[l.sel[i].n]]]
        /\ Proceed(p, "cmp_index", l)
        /\ UNCHANGED <<uploads, parts, partFiles, index, stats, created, bounds,
                       history>>

\* compositeMD5 of the ETags the client sent.
CompleteIndex(p) ==
    LET l == loc[p]
    IN  /\ pc[p] = "cmp_index"
        /\ index' = [etags |-> [i \in DOMAIN l.sel |-> l.sel[i].etag],
                     size |-> l.total]
        /\ Proceed(p, "cmp_stats", l)
        /\ UNCHANGED <<uploads, parts, partFiles, file, stats, created, bounds, history>>

CompleteStats(p) ==
    LET l == loc[p]
    IN  /\ pc[p] = "cmp_stats"
        /\ stats' = [count |-> stats.count + 1, bytes |-> stats.bytes + l.total]
        /\ Proceed(p, "clean_upload",
                   [u |-> l.u, why |-> "complete", next |-> 1, last |-> Len(l.sel)])
        /\ UNCHANGED <<uploads, parts, partFiles, file, index, created, bounds, history>>

-----------------------------------------------------------------------------
(* AbortMultipartUpload *)

AbortMultipartUpload(p) ==
    /\ Arrive(p)
    /\ \E u \in created : Lookup(p, u, "abt_list", [u |-> u])
    /\ UNCHANGED <<store, created, history>>

Recorded(u) == {n \in PartNumbers : parts[u][n] # None}

Cleanup(p, u, why, last) ==
    Proceed(p, "clean_upload", [u |-> u, why |-> why, next |-> 1, last |-> last])

AbortList(p) ==
    LET u == loc[p].u
    IN  /\ pc[p] = "abt_list"
        /\ IF Recorded(u) = {} THEN Cleanup(p, u, "abort", 0)
           ELSE Proceed(p, "abt_files", [u |-> u, todo |-> Recorded(u),
                                         last |-> Cardinality(Recorded(u))])
        /\ UNCHANGED <<store, created, bounds, history>>

\* Seeded fault: only the cleanup by count removes part files.
FilesByCountOnly(p) ==
    /\ pc[p] = "abt_files"
    /\ Cleanup(p, loc[p].u, "abort", loc[p].last)
    /\ UNCHANGED <<store, created, bounds, history>>

\* The files of the recorded parts, one Delete after the other.
AbortFiles(p) ==
    LET l == loc[p]
    IN  /\ pc[p] = "abt_files"
        /\ \E n \in l.todo :
              /\ partFiles' = [partFiles EXCEPT ![l.u][n] = None]
              /\ IF l.todo = {n} THEN Cleanup(p, l.u, "abort", l.last)
                 ELSE Proceed(p, "abt_files", [u |-> l.u, todo |-> l.todo \ {n},
                                               last |-> l.last])
        /\ UNCHANGED <<uploads, parts, file, index, stats, created, bounds, history>>

-----------------------------------------------------------------------------
(* cleanupMultipart: the record, the part records, the files 1..last *)

CleanUpload(p) ==
    /\ pc[p] = "clean_upload"
    /\ uploads' = uploads \ {loc[p].u}
    /\ Proceed(p, "clean_parts", loc[p])
    /\ UNCHANGED <<parts, partFiles, file, index, stats, created, bounds, history>>

\* The request is answered after its last clean-up.
Answer(p) ==
    LET l == loc[p]
    IN  /\ aborted' = IF l.why = "abort" THEN aborted \cup {l.u} ELSE aborted
        /\ completed' = IF l.why = "abort" THEN completed ELSE completed \cup {l.u}
        /\ Done(p)
        /\ UNCHANGED <<sent, receipts>>

\* On to the next part file, or to the answer.
CleanNext(p, next) ==
    LET l == loc[p]
    IN  IF next > l.last THEN Answer(p)
        ELSE /\ Proceed(p, "clean_files", [u |-> l.u, why |-> l.why,
                                           next |-> next, last |-> l.last])
             /\ UNCHANGED history

CleanParts(p) ==
    /\ pc[p] = "clean_parts"
    /\ parts' = [parts EXCEPT ![loc[p].u] = [n \in PartNumbers |-> None]]
    /\ CleanNext(p, 1)
    /\ UNCHANGED <<uploads, partFiles, file, index, stats, created, bounds>>

CleanFiles(p) ==
    LET l == loc[p]
    IN  /\ pc[p] = "clean_files"
        /\ partFiles' = [partFiles EXCEPT ![l.u][l.next] = None]
        /\ CleanNext(p, l.next + 1)
        /\ UNCHANGED <<uploads, parts, file, index, stats, created, bounds>>

-----------------------------------------------------------------------------
(* Failures *)

\* Seeded fault: the error of the final Write is not looked at.
WriteErrorIgnored(p) ==
    /\ faults < MaxFaults
    /\ faults' = faults + 1
    /\ alone' = FALSE
    /\ pc[p] = "cmp_write"
    /\ Proceed(p, "cmp_index", loc[p])
    /\ UNCHANGED <<store, created, started, crashes, history>>

\* The next call returns an I/O error and has no effect.  Only the errors of
\* the counters and of the clean-up calls are ignored.
CallFails(p) ==
    LET l == loc[p]
    IN  /\ faults < MaxFaults
        /\ faults' = faults + 1
        /\ alone' = FALSE
        /\ \/ /\ pc[p] \notin {"idle", "cmp_stats", "abt_files", "clean_upload",
                               "clean_parts", "clean_files"}
              /\ Done(p) /\ UNCHANGED history
           \/ /\ pc[p] = "cmp_stats"
              /\ Cleanup(p, l.u, "complete", Len(l.sel)) /\ UNCHANGED history
           \/ /\ pc[p] = "abt_files"
              /\ \E n \in l.todo :
                    IF l.todo = {n} THEN Cleanup(p, l.u, "abort", l.last)
                    ELSE Proceed(p, "abt_files", [u |-> l.u, todo |-> l.todo \ {n},
                                                  last |-> l.last])
              /\ UNCHANGED history
           \/ /\ pc[p] = "clean_upload"
              /\ Proceed(p, "clean_parts", l) /\ UNCHANGED history
           \/ pc[p] = "clean_parts" /\ CleanNext(p, 1)
           \/ pc[p] = "clean_files" /\ CleanNext(p, l.next + 1)
        /\ UNCHANGED <<store, created, started, crashes>>

\* Files and committed records survive, requests do not.
Crash ==
    /\ crashes < MaxCrashes
    /\ crashes' = crashes + 1
    /\ alone' = FALSE
    /\ \E p \in Requests : pc[p] # "idle"
    /\ pc' = [p \in Requests |-> "idle"]
    /\ loc' = [p \in Requests |-> None]
    /\ UNCHANGED <<store, created, started, faults, history>>

Next ==
    \/ \E p \in Requests :
         \/ createMultipartUpload(p) \/ uploadPart(p) \/ PartWrite(p) \/ PutPart(p)
         \/ CompleteMultipartUpload(p) \/ CompleteBucket(p) \/ CompleteList(p)
         \/ assemblePartReaders(p) \/ CompleteWrite(p) \/ CompleteIndex(p) \/ CompleteStats(p)
         \/ AbortMultipartUpload(p) \/ AbortList(p) \/ AbortFiles(p)
         \/ CleanUpload(p) \/ CleanParts(p) \/ CleanFiles(p) \/ CallFails(p)
    \/ Crash

Spec == Init /\ [][Next]_vars

-----------------------------------------------------------------------------
(* Properties *)

Idle == \A p \in Requests : pc[p] = "idle"

\* However parts are sent again, uploads are aborted or completed twice and the
\* process dies, the object's file is made of whole parts of one upload, each
\* sent for its number, in ascending order (CompleteMultipartUpload sorts).
AssembledFromParts ==
    file # None =>
        /\ \A i \in DOMAIN file : file[i] \in sent
        /\ \A i, j \in DOMAIN file :
              i < j => file[i].u = file[j].u /\ file[i].n < file[j].n

\* An object that is listed can be read, whichever call fails or wherever the
\* process dies, and a client that is told its upload is complete finds it.
RecordAfterFile ==
    /\ index # None => file # None
    /\ completed # {} => index # None

\* "Composite multipart ETag": ETag and size of the object are those of the
\* bytes in its file, for a client that sends the ETags it was given, as long as
\* no part is replaced while CompleteMultipartUpload runs.
CompletedExact ==
    alone /\ Idle /\ index # None =>
        /\ index.etags = [i \in DOMAIN file |-> file[i].body]
        /\ index.size = Total([i \in DOMAIN file |-> BodySize[file[i].body]])

\* Nothing is left of upload u.
Gone(u) == /\ u \notin uploads
           /\ \A n \in PartNumbers : parts[u][n] = None /\ partFiles[u][n] = None

\* The numbers under which parts of upload u were stored.
Numbers(u) == {c.n : c \in {d \in sent : d.u = u}}

\* AbortMultipartUpload "cancels an in-progress upload and cleans up parts",
\* whatever their numbers, unless a part is being uploaded beside it.
\* CompleteMultipartUpload removes the records, and the files too if the client
\* numbered its parts from 1 without gaps and completed with all of them:
\* cleanupMultipart counts the parts it was given.
UploadsCleanUp ==
    alone /\ Idle =>
        /\ \A u \in aborted : Gone(u)
        /\ \A u \in completed :
              /\ u \notin uploads /\ \A n \in PartNumbers : parts[u][n] = None
              /\ Numbers(u) = 1..Len(file) /\ (\A i \in DOMAIN file : file[i].u = u)
                    => Gone(u)
=============================================================================
