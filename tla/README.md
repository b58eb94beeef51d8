# A TLA+ model of sangraha

sangraha is an S3-compatible object store in one Go process: an HTTP API over a
storage engine, which keeps metadata in bbolt and object bodies in files, with
background jobs, an admin API and a leader election between nodes. This
directory holds TLA+ specifications of its parts, the TLC configurations that
check them on small instances, and machine-checked proofs of their safety
properties for every value of the constants.

## 1. Inventory

| Component (src/) | State | Operations | Interacts with |
|---|---|---|---|
| storage engine, objects and buckets (`internal/storage/object.go`, `version.go`, `bucket.go`, `quota.go`, `policy.go`) | none of its own, no lock; local variables of requests in flight | put, get, head, delete, delete version, copy, tags, bucket settings, create and delete bucket | calls metadata store and backend; queues webhooks and replication |
| multipart uploads (`internal/storage/multipart.go`) | none of its own | create, upload part, complete, abort, clean-up | the same two stores; aborted by the lifecycle job |
| metadata store (`internal/metadata/bbolt`) | tables buckets, objects, versions, multipart, parts, access keys | one transaction per call | called by everything |
| file backend (`internal/backend/localfs`) | files and bucket directories | write by temp file and rename, read, delete, bucket directories | called by the engine |
| tiered backend (`internal/backend/tiered`) | access records under a lock, several localfs trees | write, read with promotion, demotion worker, delete | not built by the server yet |
| S3 handlers (`internal/api/s3`) | none | translate requests and answers | call the engine |
| cluster (`internal/cluster`) | role, term, leader under a mutex | heartbeat and election loop, vote and heartbeat handlers | HTTP between nodes |
| lifecycle job (`internal/storage/lifecycle.go`) | none; works from copies of rules and listings | expire objects, abort old uploads | calls the engine; nothing in the server starts it yet |
| webhook dispatcher (`internal/storage/webhook.go`) | channel of 8192 tasks, 8 workers | dispatch, deliver with up to three attempts, stop | fed by PUT, complete and delete; HTTP targets |
| replication worker (`internal/storage/replication.go`) | channel of 4096 tasks, 4 workers | enqueue, read, transfer, stop | fed by PUT; reads the backend; HTTP destinations |
| listings (`internal/api/s3/list.go`, bbolt scan, `api/admin/buckets_admin.go`) | none | list with prefix, delimiter, start and continuation | metadata store |
| access keys (`internal/auth/tokens.go`, `api/admin/users.go`) | table of keys | create, delete, rotate, provision the root key | metadata store |
| request authentication (`internal/auth/sigv4.go`, `presign.go`, `middleware/auth.go`) | none | verify header signatures and presigned URLs | key table, clock |
| rate limiter (`internal/api/middleware/ratelimit.go`) | token buckets per address and key | allow | behind the authentication of the S3 API |
| identity providers (`internal/auth/oidc.go`, `ldap.go`, `api/admin/auth_ext.go`) | cache of the provider's keys | log in with an ID token or a password | HTTP to the provider, LDAP |
| authorization (`internal/auth/iam.go`, `acl.go`) | none | evaluate policies and ACLs | called by its tests only |
| admin API (`internal/api/admin`) | running flags, alert ring, subscribers | users, presigning, logins, listing, export, import, collect, alerts, log stream | engine and key store |
| encryption, audit, configuration, command line, dashboard | | | |

What is hard here. Every HTTP request runs in its own goroutine, and the engine
takes no lock at all: a PUT is a bucket lookup, a file write, an index lookup,
two version transactions, an index transaction and a counter transaction, and
any other request may run between two of them; any call may fail and the process
may die between them. `HandleVote` and `runLoop` use a mutex but split one
decision over two critical sections, and so do the rate limiter and the cache of
the provider's keys. The queues drop, the workers take tasks in any order of
completion and look at the object only then. The lifecycle job and a paging
client act on what they read a while ago. The tiers are moved without a lock.
`PROJECT.json` lists the hazards with the lines where they bite.

What makes each part correct:

* objects and versions: a version, once acknowledged, stays as it was until
  somebody deletes it; a reader never gets the bytes of one PUT under the
  headers of another; counters and quota agree with what is stored; a bucket
  that is removed holds nothing;
* multipart: the object is made of the parts the client named, in order; its
  ETag and size are those of its bytes; nothing of a finished or aborted upload
  is left;
* cluster: one leader per term, elected by a majority; elections end; heartbeats
  hold elections off;
* queues: a task is offered once, taken at most once and in order, and ends;
  an accepted notification is not sent again; stop stops; a replica catches up;
* tiers: a move loses no write and hides no object;
* lifecycle: nothing that has not expired is deleted, what has expired goes;
* listings: every key exactly once over all pages;
* access: only who holds a key gets in, and in time; an owner is not locked out;
  no more requests than the limit; a withdrawn signing key is not trusted for
  long.

## 2. Modules

| Module | Models | Used by |
|---|---|---|
| `ObjectStore` | engine, bbolt tables, localfs and S3 handlers for objects, versions and buckets | |
| `ObjectStoreProps` | its properties and the invariant of versions | extends `ObjectStore` |
| `MCObjectStore` | instances for TLC | `Store*.cfg` |
| `ObjectStoreProofs` | proofs: types; versions, beside any other request; latest version, buckets, quota, index and counters, one request at a time | extends `ObjectStoreProps` |
| `Multipart`, `MCMultipart` | multipart uploads of one object | `MultipartUploads.cfg` |
| `MultipartProofs` | proofs: what the object is made of, what is left behind | extends `Multipart` |
| `Cluster`, `MCCluster` | leader election | `Cluster*.cfg` |
| `ClusterProofs` | proofs: majorities, one leader a term | extends `Cluster` |
| `TaskQueue` | abstract: a bounded queue with a pool of workers | implemented by the next two |
| `Webhooks`, `MCWebhooks` | webhook dispatcher behind the requests that feed it | `WebhookDelivery.cfg` |
| `WebhookProofs` | proofs: posts, the stop, implementation of the queue | extends `Webhooks` |
| `Replication`, `MCReplication` | replication worker behind the requests that feed it | `ReplicationOrder.cfg` |
| `ReplicationProofs` | proofs: fresh replicas, implementation of the queue | extends `Replication` |
| `Tiering`, `MCTiering` | tiered backend and its demotion worker | `TierMoves.cfg` |
| `TieringProofs` | proofs: moves hide nothing | extends `Tiering` |
| `Listing` | the scan of the object table and the handlers that page through it | |
| `Lifecycle`, `MCLifecycle` | the lifecycle job beside the clients and listings of a bucket | extends `Listing`; `LifecyclePages.cfg`, `ListingTokens.cfg` |
| `LifecycleProofs` | proofs: complete pages, a complete sweep, nothing young expired | extends `Lifecycle` |
| `Access` | access keys, signatures, presigned URLs, rate limiter | |
| `Identity`, `MCIdentity` | logins by OIDC and LDAP beside the calls of `Access` | extends `Access`; `AccessControl.cfg` |
| `AccessProofs` | proofs: the limiter, authentication, rotation, logins | extends `Identity` |

Operators whose comment begins with "Seeded fault" are wrong variants of the
definition after them. No specification uses them; each is the plausible mistake
that one of the properties is there to notice, and `PROJECT.json` pairs them.

### ObjectStore

A request occupies a slot of `Requests`; `pc` names the call it makes next and
`loc` holds its local variables. One bbolt transaction or one file operation is
one action, so all interleavings of the code's calls are behaviours. The tables
are `buckets`, `index` ("objects") and `versions`; the disk is `dirs`, `files`
(by object and slot: the plain path, or `key.v.<id>`) and `residue` (directories
and temp files that keep a bucket directory from being empty). An action that
begins a request (`putObject`, `getObject`, ...) is the handler together with
the first lookup of the engine; the later calls are actions of their own, in the
code's order. `CallFails` lets any call return an error, with the reaction the
code has (most return it, the counters' errors are ignored, an error of the
lookup in `computeStatDelta` counts as "not found"); `Crash` ends all requests
and keeps files and committed records.

Data is abstract. A body stands for its bytes and for its MD5, a version id for
a UUID that is never handed out twice. Content types, user metadata, owners and
tags are left out, and the settings of a bucket other than versioning and quota
are one action (`SetBucketPolicy`) that writes the whole record back.
`DeleteObjects` is a sequence of deletes. `HeadObject` and the listings change no
state. `localfs.Write` takes one step at its rename; while a request waits for
that step, its temp file may make a bucket directory look non-empty (`Writing`).

### Multipart

The same style for one object. A file is a sequence of chunks that carry the
upload and the part number for which the bytes were sent. Clients complete with
ETags they were given, and name each part at most once and at least one part: the code
accepts duplicates and empty lists too (`api/s3/multipart.go:87`). `assemblePartReaders` opens the parts one by one in any
order, since each has its own goroutine. The object's other operations are not
in this module. The flag `alone` remembers whether requests came one after the
other and nothing failed so far; the properties the code keeps only then refer
to it.

### Cluster

One action per critical section. `at` says where a node's `runLoop` is: in its
select, between reading the role and acting on it, or asking for votes. Vote
requests have a stage, because `HandleVote` compares and grants under different
locks, and the candidate may have given up (`open`) before the peer serves them.
Messages are delayed, reordered and lost (nothing obliges one to be delivered;
`VoteFails` ends the wait for an answer); a restarted node is back at term 0,
since nothing is written to disk. The history flag `orderly` stays true while no
node is restarted and no vote is granted on a comparison of terms that no longer
holds. The callback of `OnLeaderChange` has no user in
the repository and is left out.

### TaskQueue, Webhooks and Replication

`TaskQueue` says what both background queues promise, whatever a task does: a
task is offered once and queued or lost, workers take tasks in the order of the
queue, each at most once, each task ends, and after the queue is closed every
worker leaves. It says nothing about tasks that are still queued then, because
the workers' select chooses at random between the stop and a task.

`Webhooks` and `Replication` implement it: `ImplementsQueue` is the abstract
specification with its fairness, and the mapping is the identity on `offered`,
`queue` and `work`, with `closed` being `stopping # "no"`. A request is reduced
to what reaches the queue: it reads the bucket's settings when it begins, does
its work, and offers its tasks without blocking, while the settings change and
`Stop` runs. In `Webhooks` a delivery is up to three POSTs, each answered with
2xx, with an error, or not in time. In `Replication` a request writes, copies or
deletes file and index in the engine's order; a worker reads the file at the
key's plain path when it gets to the task, and sends it to each matching rule's
destination, once. A body is known by the number of the request that wrote it.
Completing an upload offers the same task as a PUT does and is not a request of its
own here; deleting one version of a key, which offers none, is left out.
`excused` collects the keys whose replica the code does not keep fresh.

### Tiering

One object, a file per tier, and the access record. A step is one call on a tier
or one critical section. Read, Stat and Exists scan from hot to cold, a read
below the hot tier promotes (read, write, delete), the demotion worker takes an
object whose access record is `cold` one tier down the same way; delete goes
through all tiers. A call on a tier may fail, and the process may die, which
empties the access records. An access record ages as long as it is the current one:
the worker's copy of a record that was replaced meanwhile does not. The history variable `want` is what a reader may
find, `excused` and `gap` record the overlaps the properties name.

### Listing and Lifecycle

Keys are numbers in the order of the store and a prefix is an interval of them.
`ListObjects` is the scan: it begins at the start key or at the token, skips,
groups by the delimiter and stops at the limit, in one transaction. A client
pages through V1, V2 or the admin listing while others write, tag and delete.
The continuation token of V2 is the plain key, which the scan compares with
entries that begin with the bucket's name: `Rewinds` is the set of keys that sort
before those entries, a fact about the names, so both orders are tried.

`Lifecycle` adds the job: it takes a copy of the rules, then for each rule one
listing of at most `ListLimit` objects or one of the uploads, and deletes what it
found old, one by one, while clients go on. Any of its calls may fail.

### Access and Identity

A call of a client looks its key up, has signature and time checked against that
copy of the record, and then passes the limiters of its address and of its key
(S3 API), or lists, creates, deletes or rotates keys or makes a presigned URL
(admin API). Rotation is a delete and a create. A signing key is a number, and a
signature is known by the signing key that made it. Requests are signed in the
header or carry a presigned URL, of the server or of the client, rightly signed or
not. The middleware does not verify a header at all if the record has no signing
key (`middleware/auth.go:37`); no operation stores such a record, but the user's key
may be one to begin with. Time is in ticks, several to a second; the clock goes on
between any two steps. What is written into a request or a URL is cut to the second
(`WholeSecond`), what the admin API announces is not. A restart forgets calls,
limiters and the cache, and stores the root key again if a secret is configured, the
same as before or another. The history variable `held` collects what the store has
held under a call's key since the call began.

`Identity` adds the provider, which changes its signing key, and the directory,
which changes an account. `getKeys` reads the cache, fetches without the lock and
stores what it got, so two logins overlap. An ID token carries the generation of
the key that signed it and its lifetime.

## 3. What TLC checks

Runs that pass:

| Run | Instance | Shows |
|---|---|---|
| `StoreConcurrent` | 2 slots, 4 requests, 1 key, 3 version ids, 2 bodies, 1 crash, 1 I/O error; versioning may be suspended | versions stay intact and durable, reads of versions are consistent, version files are written once, the index serves no version that is not stored |
| `StoreSequential` | every operation, 4 requests, 2 keys (one nested), quotas, bodies of unknown length, 1 crash, 1 error | types; at most one latest version; a removed bucket has no files |
| `StoreAccounting` | 6 requests, no crash, no copy, fixed versioning | counters, quota and index agree with what is stored |
| `MultipartUploads` | 2 slots, 5 requests on one upload, 2 parts, 2 bodies, byte and object quota, 1 crash, 1 error | the file is made of whole parts in order; a listed object can be read; while requests come one by one, ETag and size are exact and an abort leaves nothing |
| `ClusterElection` | 3 nodes, 2 elections, 2 handlers per node, 1 outage | a leader has a majority; a reported leader was elected; a term has one leader as long as the run is `orderly` |
| `ClusterTerminates` | 2 nodes, 3 elections, 1 outage, fairness | every election ends |
| `WebhookDelivery` | 2 requests with 2 targets, 2 workers, 1 place in the channel, stop at any time, fairness | nothing is posted again after a 2xx, more than three times, or after stop; the dispatcher implements `TaskQueue` |
| `ReplicationOrder` | 3 requests on 1 key, 2 workers, 1 place, settings change, stop, fairness | when all is quiet the destination holds the local bytes, except where the property says; the worker implements `TaskQueue` |
| `TierMoves` | 2 callers, 3 calls, 3 tiers, 1 error or crash | a scan finds the last write; a demotion makes no lookup fail |
| `LifecyclePages` | 3 keys, 2 prefixes, pages of 1 or 2, 2 changes, 3 days, 2 sets of rules, 1 upload | V1 pages are complete and in order; the job removes all its rules say and nothing that was not old when it looked |
| `AccessControl` | 2 clients, 2 calls, 4 keys, 2 secrets of the root key, 3 ticks of half a second, clocks off in both directions, 1 restart, 1 change at the provider or in the directory | who gets in was entitled to it and in time; owners keep a key; the limiter holds; a withdrawn signing key is trusted for a bounded time |

`ListingTokens` shows where the code does not do what the documentation says
(`PROJECT.json`, findings, quotes it): a client that follows the continuation
tokens of ListObjectsV2 gets keys twice, or misses keys that were there all the
time.

The passing properties are stated where the code keeps them. Where they stop is
as much a result; these behaviours of the code are in the models and were seen
as counterexamples when the restriction was left out:

* a GET of an object without versions reads the record before its goroutine opens
  the file (`object.go:239`): beside a PUT it answers with the ETag and length of
  the old body and streams the new one. For versions `VersionedReadIntegrity`
  rules it out;
* two PUTs that both pass the quota check before either has counted take the
  bucket past its quota (`quota.go:57`, `object.go:116`);
* a PUT that has looked the bucket up finishes after `DeleteBucket` has removed
  it, which re-creates the directory (`bucket.go:106`);
* the current version, deleted by its id, stays in the object index
  (`version.go:112`): HEAD and listings go on serving it and no older version
  takes its place. `ListedVersionReadable` says that nothing else has this effect;
* two versioned PUTs of one key both mark the older versions and then both store
  a latest one (`object.go:124`);
* completing an upload removes the part files 1..n, n being the number of parts
  named, instead of those of its parts (`multipart.go:252`): part 2 completed
  alone stays on disk. `UploadsCleanUp` says when nothing stays;
* a part sent while its upload is aborted stays on disk and in the metadata
  (`multipart.go:78`);
* a part sent again during complete gives the object the ETag and size of the
  part it replaced (`multipart.go:142`);
* `HandleVote` compares the terms under one lock and grants under another
  (`handler.go:59`): a node that serves two requests at once grants one term
  twice, and two nodes become its leaders. `OneLeaderIfOrderly` says that only
  this and a restart lead there;
* an accepted heartbeat does not restart the election timer, whatever the comment
  at `cluster.go:187` says: a healthy leader is challenged every
  `ElectionTimeout`;
* a leader deposed between the two critical sections of its heartbeat sends one
  in a term it has not won (`cluster.go:227`). It does not break
  `OneLeaderIfOrderly`;
* after `Stop` a worker may leave while tasks are queued (`webhook.go:114`);
* two workers that replicate one key at the same time may transfer in the wrong
  order (`replication.go:101`); a copy is never replicated, and in a versioned
  bucket the worker reads a path that is not the version's;
* a move between tiers that overlaps a write deletes the new body or puts the old
  one over it (`tiered.go:257`); a scan that overlaps a promotion finds nothing;
* the lifecycle job deletes an object that was rewritten after it was listed
  (`lifecycle.go:95`), and never looks behind the first 1000 keys of a rule;
* with a delimiter a page ends at the limit counted over keys and groups, but
  `IsTruncated` counts only keys: pages that were cut are reported as complete.
  `PagesComplete` leaves delimiters out. `docs/s3-compatibility.md:172` mentions a
  `NextMarker`, which V1 answers do not have;
* a rotation that fails after its delete leaves the owner without a key
  (`users.go:85`), where `docs/security-guide.md:90` says "atomically"; the
  root key is back after a restart, even if it was rotated or deleted, whenever a
  secret is configured (`cli/server.go:121`);
* the timestamp of a signed header may be 15 minutes off in either direction
  (`sigv4.go:75`, whose comment says "S3 standard"), where
  `docs/security-guide.md:55` says that "sangraha rejects requests older than 5
  minutes" and `docs/operations-guide.md:383` that clocks must be "within 5 minutes
  of server time": a request six minutes old is accepted. `Skew` is a constant of
  the model, and `AuthenticatesRightly` holds for any value of it;
* the admin API announces `expires_at` with all digits of the clock
  (`admin/presign.go:84`), while the stamp in the URL, from which the expiry is
  counted, is cut to the second (`auth/presign.go:37`): a URL ends up to a second
  before the moment announced for it. `AuthenticatesRightly` promises the time until
  a second before, and that no request that begins after the announced moment gets in;
* a URL ends before its lifetime when its key is deleted or rotated, or when a
  restart replaces the root secret it was signed with; a record without a signing key
  lets every header pass (`middleware/auth.go:37`).

Bounds. Two slots are enough for every race the code has between a request and
one competitor; four requests let two of them set the scene. Three version ids
allow two PUTs and a delete marker. Two bodies of different lengths tell an old
body, size or delta from a new one. One crash and one error can fall on any
call. Three nodes are the smallest cluster in which a candidate needs a vote and
two candidates compete for it; two elections are what a split vote takes.
`ClusterTerminates` uses two nodes: the loop of one node, which is what must
end, does not depend on how many others there are beyond the length of its list
of peers. Two workers and a channel of one place make tasks overlap and get lost; four
tasks (two requests, two targets) fill it more than once. Three tiers are the
smallest number in which a move can hide a copy below another. Three keys with
pages of one or two give first, middle and last pages, empty ones and a key before
the prefix. In `AccessControl` two ticks are a second, which is enough for stamps to
lose a fraction, and every window (skew, expiry, lifetime of the cache, timeout) is
one second or one tick, so that the passing of time takes a call across each edge;
clocks are off so far that stamps fall within the skew and beyond it on either side.
Two calls are a call and its competitor, and a record without a signing key is the
user's. A restart before the first call, or a change at the provider or in the
directory before the first login of that kind, is no different from a start in another
state and is left out. `MaxOps` of `TierMoves` is 3: with 4 the search was stopped
after 8.5 million states without a violation.

Deadlock is not checked, because all the models stop when their bound of
requests, calls or elections is reached. Symmetry is used on version ids, request
slots, uploads, nodes and callers, never in a run with a liveness property.

Fairness. `Cluster`: weak fairness of each node's `Loop`, the steps of `runLoop`
between two selects. The Go scheduler runs a goroutine that can run, and
`RequestVote` returns after at most the client's timeout of two seconds. Timers
and deliveries are not assumed to be fair. `Webhooks` and `Replication`: weak
fairness of each worker's steps, since its select is ready when there is a task
or the stop, a POST ends within ten seconds and a transfer within five minutes,
with an answer or without. Requests, changes of settings and `Stop` are not
assumed to happen. The other modules state safety only.

## 4. What is proved

With TLAPS, for every value of the constants: any sets of keys, nodes, bodies,
callers and requests, any workload, every bound. Every invariant the passing runs
check is a theorem, and so are the action properties. The assumptions are those the
modules name (`ConstantsAssumption`, `NoneAssumption`, `ClusterAssumption`, ...): the
kinds of the constants, and that `None` is none of the values it is told from. That
a UUID never repeats is part of the model (`resolveVersioning` takes an id that is
not in `usedIds`). Theorems with further hypotheses say so below.

Each invariant is inductive only together with others; what had to be added is
the reason why the code is right, so here it is for each module.

**Objects and versions** (`ObjectStoreProofs`).

| Theorem | Property |
|---|---|
| `TypeCorrect` | `TypeOK`: at each call a request holds the local variables that call uses, so no path uses a record it has not read |
| `VersionsIntact`, `ReadsIntact`, `AckedDurable`, `FilesWriteOnce` | `VersionedDataIntact`, `VersionedReadIntegrity`, `AckedVersionsDurable`, `VersionFilesWriteOnce` |
| `ListedReadable` | `ListedVersionReadable` |
| `OneLatest`, `NothingAbandoned` | `AtMostOneLatest`, `DeletedBucketHoldsNoData`; one request slot |
| `QuotaKept` | `QuotaRespected`; one slot, bodies of known length, no copy, no new quota |
| `IndexIsRight`, `CountersExact` | `IndexMatchesFiles`, `StatsExact`; one slot, no copy, versioning stays as it is, for the counters also no new bucket |

The first two rows hold beside any other requests, crashes and failing calls. A PUT
in flight could hold a body other than the one its version id stands for, so
`VersionInv` adds the history variable `issued`, the body each id was handed out
for: whatever names a version (file, record, index, a record read many calls ago)
carries that body; whoever removes a part of a version has put it in `doomed`
before; and what a PUT in flight has stored stays unless somebody dooms it. A step
then either leaves a version alone (`StepKeeps`) or writes the issued body. `Listed`
adds that an index record, also one in flight, is backed by a stored version.

The others need `Requests = {p}`, the setting of their runs: section 3 lists the
races that break each of them. Between its calls the request owes something, and
each invariant says what: `LatestInv`, that all other versions are marked before the
new one is stored; `KeptInv`, that a file has its bucket's record, also while the
request that writes it is under way and after a crash anywhere; `QuotaInv`, that the
counters cover what is stored and the request in flight still fits; `MatchInv`, which
of file and record is ahead at each call; `StatsInv`, the size and the number of the
objects still to be booked, which turns `StatsExact` into an equation over finite
sets of stored objects that every call preserves. The hypotheses are what the code
needs: `CopyObject` always counts one more object and ignores the quota
(`object.go:407`), changing versioning hides files at plain paths, and a bucket that is
created again over index entries left by deleted versions would count below zero.

**Multipart uploads** (`MultipartProofs`). `MultipartTypeCorrect`, `PartsInOrder`
(`AssembledFromParts`) and `FileFirst` (`RecordAfterFile`) hold whatever happens:
every selection of parts in flight is in ascending order, every chunk read so far
belongs to it, and a request past its rename has its file (`Sound`). `NothingIsLeft`
(`UploadsCleanUp`) and `ObjectsAreExact` (`CompletedExact`, with `UnknownLength = {}`)
are about runs that are still `alone`. `Orderly` says where the one request is:
receipts, part records and part files agree except for the part it is at
(`Synced`, `Progress`), the object's record agrees with its file unless it is
about to be written, and nothing is left of uploads that ended. That the sum of the
sizes and the order of the parts do not depend on how they are computed is
proved by the least number for which it fails.

**Elections** (`ClusterProofs`). `ClusterTypeCorrect`, `MajorityLeads`
(`LeaderHasMajority`), `ReportedWon` (`ReportedLeaderWasElected`), `OneLeader`
(`OneLeaderIfOrderly`). `startElection` counts a vote only if the peer granted it, and
no peer twice (`Counting`); a request on its way is of the candidate's present term
unless it was given up (`Requested`); whoever is named as a leader was elected
(`Elected`); and while the run is orderly a voter grants a term once (`VotesOnce`). Two
majorities of one membership share a voter, by counting.

**Webhooks and replication** (`WebhookProofs`, `ReplicationProofs`). Both implement
`TaskQueue` but for its fairness: `DispatcherIsQueue` and `ReplicationIsQueue`
prove `Spec => Queue!QSafety`, step by step. `PostedOnce` (`DeliveredOnce`): a task
is named by a request that has begun and a target it is done with (`Numbered`), it
is in one place (`InOnePlace`), and that place tells how often it was posted
(`Counted`). `QuietOnceStopped` (`StoppedIsQuiet`): `Stop` waits for the workers.
`ReplicasFresh` (`ReplicaFresh`): whoever wrote the file of a key that is not excused
has still to offer its task, or the task is queued, or it was taken after the file
was written, and from then on a worker on that key holds this body (`Fresh`).
`WebhookTypeCorrect` and `ReplicationTypeCorrect` are the types.

**Tiers** (`TieringProofs`). `TieringTypeCorrect`, `LatestIsVisible` (`LatestVisible`),
`ExistsIsSound` (`ExistsSound`): until something is excused one move or one running
delete is under way (`OneAtATime`), so a move knows what is where (`MoveKnows`), and
a scan that has passed a tier either has found the copy or it is below (`Searching`).

**Listings and the lifecycle job** (`LifecycleProofs`). `TypesAreRight` (`TypeOK`).
`ListingIsComplete` (`PagesComplete`): between two pages the client's start divides
the keys, what it has is at or before it and nothing that was there throughout is
missing up to it (`PagingInv`); a page is a beginning of what is behind the start,
and the whole of it unless it is full (`PlainPage`, `CutRight`), and the walk that
gives up at the first key without the prefix misses none, because the keys with a
prefix are neighbours. `SweepIsComplete` (`SweepComplete`): the rules behind the
job are swept and stay so, since new uploads are young and records that nobody
touched do not age against `now`; of the rule it is at, what is still to go is in the
batch or among the old uploads (`SweepInv`). `OnlyOldExpires` (`ExpiresOnlyOld`):
a batch was old when it was listed (`BatchInv`).

**Access** (`AccessProofs`). `AccessTypeCorrect` (`TypeOK`), `AuthenticationIsRight`
(`AuthenticatesRightly`, from what a call that was let through or refused can still
say: the signing key it copied is among those the store has held under its name since
it began, and what the stamp says of the time; `Judged`, with `Dated` for the moment
the admin API announced),
`OwnersKeepKeys` (`OwnerKeepsKey`, from what a rotation knows of the key it replaces,
`Rotating`), `LoginsAreCurrent` (`LoginsCurrent`, from the age of what was fetched,
`CacheAge` and `TokenAge`). `RateIsBounded` (`RateBounded`) is a potential argument:
after every request let through, the tokens left and the requests since any earlier
one together are within a full bucket and the refill of the time between (`Drained`).

TLC checked the inductive invariants on the instances of section 3 before they were
proved. In each module the proof of a step has one case per action, and lemmas
named for what does not move cover the rest.

Only model-checked, because they are out of the provers' reach: liveness
(`ElectionEnds`, the fairness in `ImplementsQueue`). Recursive sums and sorting are
written so that induction is not needed: as the CHOOSE of an ordered enumeration
(`InOrder`), or proved by the least counterexample.

## 5. Not modelled

* Policies and ACLs (`auth/iam.go`, `auth/acl.go`): nothing in the server calls
  `EvalPolicy`, `IsAllowed` or `CheckACL`, so they have no behaviour to model.
* Encryption: the server never installs a master key. Canonical requests, HMAC and
  the signature algorithms of ID tokens: cryptography.
* Audit output, logging, configuration, the command line (except the root key that
  start-up stores), the dashboard: parsing and input/output, without state of their
  own that could go wrong by interleaving.
* The garbage collection, export and import jobs of the admin API are simulations
  in the code; alerts, the log stream and server information are output.
* Goroutines left blocked on pipes when a part of an upload cannot be read
  (`multipart.go:236`).
* `ListVersions`, `ListBuckets`, website and CORS answers: they change no state.

Some parts are modelled although the server does not reach them yet: it builds no
tiered backend, starts no cluster node, does not call `ApplyLifecycle`, and does
not call the engine's `Stop` when it ends.

## 6. Plan

Proofs: an abstract specification of a versioned store (a map from version ids to
bodies, each written once, removed only after a delete began) that `ObjectStore`
implements step by step, from `VersionInv`; the theorems of one request slot for
runs with several slots of which one is in use at a time.

Models: the policies, once the server calls them; what `ListVersions` answers beside
writers.

## 7. Running

    tlc -workers 2 -config StoreConcurrent.cfg MCObjectStore
    tlc -workers 2 -config MultipartUploads.cfg MCMultipart
    tlc -workers 2 -config ClusterElection.cfg MCCluster
    tlc -workers 2 -config WebhookDelivery.cfg MCWebhooks
    tlc -workers 2 -config ReplicationOrder.cfg MCReplication
    tlc -workers 2 -config TierMoves.cfg MCTiering
    tlc -workers 2 -config LifecyclePages.cfg MCLifecycle
    tlc -workers 2 -config AccessControl.cfg MCIdentity
    tlapm ObjectStoreProofs.tla
    tlapm MultipartProofs.tla
    tlapm ClusterProofs.tla
    tlapm WebhookProofs.tla
    tlapm ReplicationProofs.tla
    tlapm TieringProofs.tla
    tlapm LifecycleProofs.tla
    tlapm AccessProofs.tla

`StoreSequential`, `StoreAccounting`, `ClusterTerminates` and `ListingTokens` run
in the same way with the modules `PROJECT.json` names.
