---------------------------- MODULE Replication ----------------------------
(***************************************************************************)
(* The replication worker (internal/storage/replication.go) behind the     *)
(* requests that feed it.  A PUT writes its file, then the index, and then *)
(* offers a task that names the key and the enabled rules, but no body.    *)
(* Worker goroutines take the tasks, read the file at the key's plain path *)
(* when they get to it and send it to each matching rule's destination,    *)
(* once.  Requests are reduced to the calls whose order against the        *)
(* workers matters; ObjectStore has them in full.                          *)
(***************************************************************************)
EXTENDS Naturals, Sequences

CONSTANTS
  Keys,         \* object keys of the bucket
  Dests,        \* replication destinations
  RuleLists,    \* the rules a configuration may hold, in order
  Workers,      \* goroutines of the pool (4 in the server)
  Capacity,     \* of the channel (4096 in the code)
  MaxRequests,  \* bound on the number of requests
  Idle, Gone, None

Rule == [enabled : BOOLEAN, keys : SUBSET Keys, dest : Dests]

ASSUME ReplicationAssumption ==
  /\ MaxRequests \in Nat
  /\ Capacity \in Nat
  /\ RuleLists \subseteq Seq(Rule)

\* A request is known by its number, and so is the body it writes.
Requests == 1..MaxRequests

\* PUT ?replication stores the rules it is sent, as they are; before the
\* first one, and after DELETE, there are none.
putBucketReplication == RuleLists \cup {<<>>}

\* The Replication and Versioning fields of the bucket record.
BucketRecord == [rules : putBucketReplication, versioned : BOOLEAN]

\* The enabled rules of a list, each at its place.
Active(list) == [i \in {j \in DOMAIN list : list[j].enabled} |-> list[i]]

\* replicationTask: the enabled rules of a configuration, at least one.
Tasks ==
  {t \in [req : Requests, key : Keys, rules : {Active(list) : list \in putBucketReplication}] :
     DOMAIN t.rules # {}}

\* Idle and Gone say that a worker holds no task; None is no body.
ASSUME MarkerAssumption ==
  Idle \notin Tasks /\ Gone \notin Tasks /\ Idle # Gone /\ None \notin Requests

Calls == {"write", "index", "enqueue", "lookup", "remove", "hide", "store", "done"}

VARIABLES
  bucket,    \* the bucket record
  file,      \* the body at the plain path of each key
  index,     \* the body the index names for each key
  reqs,      \* requests: [op, at, key, rec]
  next,      \* number of the next request
  queue,     \* the channel
  work,      \* what each worker does: a task, Idle or Gone
  left,      \* the places of the rules each worker has still to serve
  body,      \* the body each worker has read and not sent
  stopping,  \* Stop: "no", "closed" (stopCh is closed), "done" (it has returned)
  replica,   \* what each destination holds
  offered,   \* tasks ever offered (history)
  excused    \* keys whose replica may be stale, see ReplicaFresh (history)

reqVars == <<bucket, file, index, reqs, next>>
workVars == <<work, left, body, replica>>
vars == <<reqVars, queue, workVars, stopping, offered, excused>>

Init ==
  /\ bucket \in [rules : putBucketReplication, versioned : {FALSE}]
  /\ file = [k \in Keys |-> None]
  /\ index = [k \in Keys |-> None]
  /\ reqs = [r \in Requests |-> [op |-> "none", at |-> "done", key |-> None, rec |-> bucket]]
  /\ next = 1
  /\ queue = <<>>
  /\ work = [w \in Workers |-> Idle]
  /\ left = [w \in Workers |-> {}]
  /\ body = [w \in Workers |-> None]
  /\ stopping = "no"
  /\ replica = [d \in Dests |-> [k \in Keys |-> None]]
  /\ offered = {}
  /\ excused = {}

-----------------------------------------------------------------------------
(* Requests.                                                               *)

\* Request number next has read the bucket record and goes on at call c.
Begin(op, k, rec, c) ==
  /\ next <= MaxRequests
  /\ reqs' = [reqs EXCEPT ![next] = [op |-> op, at |-> c, key |-> k, rec |-> rec]]
  /\ next' = next + 1
  /\ UNCHANGED <<bucket, file, index, queue, workVars, stopping, offered, excused>>

Goto(r, c) == reqs' = [reqs EXCEPT ![r].at = c]

PutObject(k) == Begin("put", k, bucket, "write")

\* CopyObject writes file and index of its destination and offers no task.
CopyObject(k) == Begin("copy", k, bucket, "write")

\* With versioning enabled the body goes to the path of its version (a copy
\* always to the plain path), where the worker does not look.
PutWrite(r) ==
  LET k == reqs[r].key
      plain == reqs[r].op = "copy" \/ ~reqs[r].rec.versioned
  IN /\ reqs[r].at = "write"
     /\ Goto(r, "index")
     /\ file' = IF plain THEN [file EXCEPT ![k] = r] ELSE file
     /\ excused' = IF reqs[r].op = "copy" THEN excused \cup {k} ELSE excused
     /\ UNCHANGED <<bucket, index, next, queue, workVars, stopping, offered>>

PutIndex(r) ==
  /\ reqs[r].at = "index"
  /\ index' = [index EXCEPT ![reqs[r].key] = r]
  /\ Goto(r, IF reqs[r].op = "put" THEN "enqueue" ELSE "done")
  /\ UNCHANGED <<bucket, file, next, queue, workVars, stopping, offered, excused>>

\* The index cannot be written: the request answers with an error, and the
\* body it has stored is not replicated.
IndexFails(r) ==
  /\ reqs[r].at = "index"
  /\ Goto(r, "done")
  /\ excused' = excused \cup {reqs[r].key}
  /\ UNCHANGED <<bucket, file, index, next, queue, workVars, stopping, offered>>

\* Deletions are not replicated.  With versioning a marker hides the key and
\* its files stay; without it the file goes before the index record.
DeleteObject(k) == Begin("delete", k, bucket, IF bucket.versioned THEN "hide" ELSE "lookup")

DelLookup(r) ==
  /\ reqs[r].at = "lookup"
  /\ Goto(r, IF index[reqs[r].key] = None THEN "done" ELSE "remove")
  /\ UNCHANGED <<bucket, file, index, next, queue, workVars, stopping, offered, excused>>

DelFile(r) ==
  /\ reqs[r].at = "remove"
  /\ file' = [file EXCEPT ![reqs[r].key] = None]
  /\ Goto(r, "hide")
  /\ UNCHANGED <<bucket, index, next, queue, workVars, stopping, offered, excused>>

DelUnindex(r) ==
  /\ reqs[r].at = "hide"
  /\ index' = [index EXCEPT ![reqs[r].key] = None]
  /\ Goto(r, "done")
  /\ UNCHANGED <<bucket, file, next, queue, workVars, stopping, offered, excused>>

\* SetBucketReplication and SetBucketVersioning read the whole bucket record
\* and write it back with one field changed.
SetBucketReplication ==
  \E rules \in putBucketReplication : Begin("settings", None, [bucket EXCEPT !.rules = rules], "store")

SetBucketVersioning ==
  \E v \in BOOLEAN : Begin("settings", None, [bucket EXCEPT !.versioned = v], "store")

PutBucket(r) ==
  /\ reqs[r].at = "store"
  /\ bucket' = reqs[r].rec
  /\ Goto(r, "done")
  /\ UNCHANGED <<file, index, next, queue, workVars, stopping, offered, excused>>

\* Seeded fault: a key that a worker is busy with is not queued again.
SkipsBusyKey(r) ==
  LET k == reqs[r].key
      active == Active(reqs[r].rec.rules)
      task == [req |-> r, key |-> k, rules |-> active]
      room == Len(queue) < Capacity
      busy == \E w \in Workers : work[w] \in Tasks /\ work[w].key = k
  IN /\ reqs[r].at = "enqueue"
     /\ Goto(r, "done")
     /\ IF DOMAIN active = {} \/ busy
        THEN UNCHANGED <<queue, offered>>
        ELSE /\ offered' = offered \cup {task}
             /\ queue' = IF room THEN Append(queue, task) ELSE queue
     /\ excused' = IF DOMAIN active = {} \/ ~room \/ reqs[r].rec.versioned
                   THEN excused \cup {k} ELSE excused
     /\ UNCHANGED <<bucket, file, index, next, workVars, stopping>>

\* Seeded fault: a task is queued for rules that are all disabled.
QueuesDisabled(r) ==
  LET task == [req |-> r, key |-> reqs[r].key, rules |-> Active(reqs[r].rec.rules)]
  IN /\ reqs[r].at = "enqueue"
     /\ Goto(r, "done")
     /\ offered' = offered \cup {task}
     /\ queue' = IF Len(queue) < Capacity THEN Append(queue, task) ELSE queue
     /\ UNCHANGED <<bucket, file, index, next, workVars, stopping, excused>>

\* Enqueue keeps the enabled rules of the record the request began with, and
\* drops the task when the channel is full.
Enqueue(r) ==
  LET k == reqs[r].key
      active == Active(reqs[r].rec.rules)
      task == [req |-> r, key |-> k, rules |-> active]
      room == Len(queue) < Capacity
  IN /\ reqs[r].at = "enqueue"
     /\ Goto(r, "done")
     /\ IF DOMAIN active = {}
        THEN UNCHANGED <<queue, offered>>
        ELSE /\ offered' = offered \cup {task}
             /\ queue' = IF room THEN Append(queue, task) ELSE queue
     /\ excused' = IF DOMAIN active = {} \/ ~room \/ reqs[r].rec.versioned
                   THEN excused \cup {k} ELSE excused
     /\ UNCHANGED <<bucket, file, index, next, workVars, stopping>>

-----------------------------------------------------------------------------
(* The workers.                                                            *)

\* ruleMatchesKey: the rule's prefix is one of the key.
ruleMatchesKey(rule, k) == k \in rule.keys

\* run: the select may pick a task even when stopCh is closed.  From the
\* moment two workers hold the same key nothing orders their transfers.
Take(w) ==
  LET t == Head(queue)
      shared == \E v \in Workers : work[v] \in Tasks /\ work[v].key = t.key
  IN /\ work[w] = Idle
     /\ queue # <<>>
     /\ work' = [work EXCEPT ![w] = t]
     /\ left' = [left EXCEPT ![w] = {i \in DOMAIN t.rules : ruleMatchesKey(t.rules[i], t.key)}]
     /\ queue' = Tail(queue)
     /\ excused' = IF shared THEN excused \cup {t.key} ELSE excused
     /\ UNCHANGED <<reqVars, body, replica, stopping, offered>>

\* The rules are served in their order.
Turn(w, i) == i \in left[w] /\ \A j \in left[w] : i <= j

\* replicate reads the plain path now, whichever request the task comes
\* from.  A missing file is an error and the rule is done with.
replicateRead(w) ==
  LET k == work[w].key
  IN /\ work[w] \in Tasks
     /\ body[w] = None
     /\ \E i \in left[w] :
          /\ Turn(w, i)
          /\ IF file[k] = None
             THEN left' = [left EXCEPT ![w] = @ \ {i}] /\ UNCHANGED body
             ELSE body' = [body EXCEPT ![w] = file[k]] /\ UNCHANGED left
     /\ UNCHANGED <<reqVars, queue, work, replica, stopping, offered, excused>>

\* The PUT reaches the destination or fails; run ignores the error.
replicatePut(w) ==
  LET k == work[w].key
  IN /\ work[w] \in Tasks
     /\ body[w] # None
     /\ \E i \in left[w] :
          /\ Turn(w, i)
          /\ \/ /\ replica' = [replica EXCEPT ![work[w].rules[i].dest][k] = body[w]]
                /\ UNCHANGED excused
             \/ /\ UNCHANGED replica
                /\ excused' = excused \cup {k}
          /\ left' = [left EXCEPT ![w] = @ \ {i}]
     /\ body' = [body EXCEPT ![w] = None]
     /\ UNCHANGED <<reqVars, queue, work, stopping, offered>>

\* Seeded fault: a task goes back to the queue when a transfer has failed.
Requeues(w) ==
  /\ work[w] \in Tasks
  /\ left[w] = {}
  /\ work' = [work EXCEPT ![w] = Idle]
  /\ queue' = IF work[w].key \in excused /\ Len(queue) < Capacity
              THEN Append(queue, work[w]) ELSE queue
  /\ UNCHANGED <<reqVars, left, body, replica, stopping, offered, excused>>

TaskDone(w) ==
  /\ work[w] \in Tasks
  /\ left[w] = {}
  /\ work' = [work EXCEPT ![w] = Idle]
  /\ UNCHANGED <<reqVars, queue, left, body, replica, stopping, offered, excused>>

Leave(w) ==
  /\ stopping # "no"
  /\ work[w] = Idle
  /\ work' = [work EXCEPT ![w] = Gone]
  /\ UNCHANGED <<reqVars, queue, left, body, replica, stopping, offered, excused>>

\* Stop closes stopCh and waits for every worker.
Stop ==
  /\ stopping = "no"
  /\ stopping' = "closed"
  /\ UNCHANGED <<reqVars, queue, workVars, offered, excused>>

StopReturns ==
  /\ stopping = "closed"
  /\ \A w \in Workers : work[w] = Gone
  /\ stopping' = "done"
  /\ UNCHANGED <<reqVars, queue, workVars, offered, excused>>

Worker(w) == Take(w) \/ replicateRead(w) \/ replicatePut(w) \/ TaskDone(w) \/ Leave(w)

Next ==
  \/ \E k \in Keys : PutObject(k) \/ CopyObject(k) \/ DeleteObject(k)
  \/ SetBucketReplication \/ SetBucketVersioning
  \/ \E r \in Requests : \/ PutWrite(r) \/ PutIndex(r) \/ IndexFails(r) \/ Enqueue(r)
                         \/ DelLookup(r) \/ DelFile(r) \/ DelUnindex(r) \/ PutBucket(r)
  \/ \E w \in Workers : Worker(w)
  \/ Stop \/ StopReturns

\* A goroutine that can run does, and a transfer ends by its timeout of five
\* minutes.  Nothing makes a client send requests or the program call Stop.
Fairness == \A w \in Workers : WF_vars(Worker(w))

Spec == Init /\ [][Next]_vars /\ Fairness

-----------------------------------------------------------------------------
(* Properties.                                                             *)

\* Every variable of Replication has its type; the channel never holds more
\* than its capacity.
TypeOK ==
  /\ bucket \in BucketRecord
  /\ file \in [Keys -> Requests \cup {None}]
  /\ index \in [Keys -> Requests \cup {None}]
  /\ reqs \in [Requests -> [op : {"none", "put", "copy", "delete", "settings"}, at : Calls,
                            key : Keys \cup {None}, rec : BucketRecord]]
  /\ next \in 1..(MaxRequests + 1)
  /\ queue \in Seq(Tasks) /\ Len(queue) <= Capacity
  /\ work \in [Workers -> Tasks \cup {Idle, Gone}]
  /\ left \in [Workers -> SUBSET Nat]
  /\ body \in [Workers -> Requests \cup {None}]
  /\ stopping \in {"no", "closed", "done"}
  /\ replica \in [Dests -> [Keys -> Requests \cup {None}]]
  /\ offered \subseteq Tasks
  /\ excused \subseteq Keys

Quiet ==
  /\ queue = <<>>
  /\ \A w \in Workers : work[w] = Idle
  /\ \A r \in Requests : reqs[r].at = "done"

\* run and replicate: when the queue is empty and everybody is idle, every
\* destination the writer's rules named holds the bytes of the local file,
\* although a task names no body and the file is read when a worker gets to
\* it.  The only exceptions are a copy, an index that could not be written,
\* a writer without an enabled rule or with versioning, a dropped task, a
\* failed transfer, and two workers that held the key at once.
ReplicaFresh ==
  Quiet =>
    \A k \in Keys \ excused :
      file[k] # None =>
        LET rules == reqs[file[k]].rec.rules
        IN \A i \in DOMAIN rules :
             rules[i].enabled /\ ruleMatchesKey(rules[i], k)
               => replica[rules[i].dest][k] = file[k]

Queue == INSTANCE TaskQueue WITH closed <- stopping # "no"

\* ReplicationWorker implements the abstract queue, fairness included,
\* although a task runs through several reads and transfers: it is taken at
\* most once and in order, and comes to an end whatever the destinations do.
ImplementsQueue == Queue!QSpec
=============================================================================
