------------------------- MODULE ReplicationProofs --------------------------
(***************************************************************************)
(* The replication worker implements the queue (all but its fairness), and *)
(* a replica is fresh when everything is quiet.  The argument: whoever     *)
(* wrote the file of a key that is not excused has still to offer its      *)
(* task, or the task is queued, or it was taken after the file was         *)
(* written; from then on whatever is read for that key is this body        *)
(* (Fresh).                                                                *)
(***************************************************************************)
EXTENDS Replication, TLAPS

-----------------------------------------------------------------------------
(* The inductive invariant *)

\* Requests that have not begun do nothing, and the others have a key where
\* they use one.
Asked ==
  /\ \A r \in Requests :
        /\ reqs[r].at # "done" => r < next
        /\ reqs[r].at \notin {"done", "store"} => reqs[r].key \in Keys
        /\ reqs[r].at \in {"write", "index"} => reqs[r].op \in {"put", "copy"}
  /\ \A k \in Keys : file[k] # None => file[k] < next

\* A task is offered by the last step of its request and names what the
\* request read; whatever is queued or held was offered.
Placed ==
  /\ \A t \in offered : /\ t.req < next
                        /\ reqs[t.req].at = "done"
                        /\ t.key = reqs[t.req].key
                        /\ t.rules = Active(reqs[t.req].rec.rules)
  /\ \A i \in 1..Len(queue) : queue[i] \in offered
  /\ \A w \in Workers : work[w] \in Tasks => work[w] \in offered

\* Only a worker with a task has rules to serve, and only such a worker has
\* read a body.
Serving ==
  \A w \in Workers :
     /\ left[w] # {} => work[w] \in Tasks /\ left[w] \subseteq DOMAIN work[w].rules
     /\ body[w] # None => left[w] # {}

\* The task of request r was taken, and no older body of key k is on its way;
\* the rules of r are served or have still to be.
Replicated(k, r) ==
  /\ reqs[r].at = "done"
  /\ \A w \in Workers : work[w] \in Tasks /\ work[w].key = k /\ body[w] # None => body[w] = r
  /\ LET rules == reqs[r].rec.rules
     IN \A i \in DOMAIN rules :
          rules[i].enabled /\ ruleMatchesKey(rules[i], k) =>
            \/ replica[rules[i].dest][k] = r
            \/ \E w \in Workers : work[w] \in Tasks /\ work[w].req = r /\ i \in left[w]

\* Where the body of a file is between the request and the destinations.
Fresh(k) ==
  LET r == file[k]
  IN r # None =>
       /\ reqs[r].op = "put" /\ reqs[r].key = k
       /\ \/ reqs[r].at \in {"index", "enqueue"}
          \/ \E i \in 1..Len(queue) : queue[i].req = r
          \/ Replicated(k, r)

AllFresh == \A k \in Keys \ excused : Fresh(k)

Inv == Asked /\ Placed /\ Serving /\ AllFresh

-----------------------------------------------------------------------------
(* Operators *)

\* The channel.
LEMMA Channel ==
  ASSUME NEW S, NEW q \in Seq(S)
  PROVE  /\ q # <<>> =>
              /\ Tail(q) \in Seq(S) /\ Len(q) \in Nat /\ Len(q) > 0
              /\ Head(q) = q[1] /\ q[1] \in S
              /\ Len(Tail(q)) = Len(q) - 1
              /\ \A i \in 1..Len(Tail(q)) : i + 1 \in 2..Len(q) /\ Tail(q)[i] = q[i + 1]
         /\ \A x \in S :
              /\ Append(q, x) \in Seq(S)
              /\ Len(q) \in Nat /\ Len(Append(q, x)) = Len(q) + 1
              /\ \A i \in 1..Len(q) : Append(q, x)[i] = q[i]
              /\ Append(q, x)[Len(q) + 1] = x
OBVIOUS

\* The rules of a bucket record are a list of rules.
LEMMA RulesAreRules ==
  ASSUME NEW rec \in BucketRecord, NEW i \in DOMAIN rec.rules
  PROVE  i \in Nat /\ rec.rules[i] \in Rule
<1>1. rec.rules \in Seq(Rule)
  BY ReplicationAssumption DEF BucketRecord, putBucketReplication
<1> QED BY <1>1

\* What a task is made of.
LEMMA TaskFields ==
  ASSUME NEW t \in Tasks
  PROVE  /\ t.req \in Requests /\ t.key \in Keys
         /\ DOMAIN t.rules \subseteq Nat
<1>1. /\ t.req \in Requests /\ t.key \in Keys
      /\ t.rules \in {Active(list) : list \in putBucketReplication}
  BY DEF Tasks
<1>2. PICK list \in putBucketReplication : t.rules = Active(list)
  BY <1>1
<1>3. list \in Seq(Rule)
  <2>1. RuleLists \subseteq Seq(Rule) /\ <<>> \in Seq(Rule)
    BY ReplicationAssumption
  <2> QED BY <2>1 DEF putBucketReplication
<1>4. DOMAIN list \subseteq Nat /\ DOMAIN Active(list) \subseteq DOMAIN list
  BY <1>3 DEF Active
<1> QED BY <1>1, <1>2, <1>4

\* Goto moves one request and leaves all it knows.
LEMMA GotoEffect ==
  ASSUME TypeOK, NEW r \in Requests, NEW c \in Calls, Goto(r, c)
  PROVE  /\ reqs' \in [Requests -> [op : {"none", "put", "copy", "delete", "settings"}, at : Calls,
                                    key : Keys \cup {None}, rec : BucketRecord]]
         /\ reqs'[r].at = c
         /\ \A q \in Requests : reqs'[q].op = reqs[q].op /\ reqs'[q].key = reqs[q].key
                                /\ reqs'[q].rec = reqs[q].rec
         /\ \A q \in Requests \ {r} : reqs'[q] = reqs[q] /\ reqs'[q].at = reqs[q].at
BY DEF TypeOK, Goto

\* Begin adds a request under a new number.
LEMMA BeginEffect ==
  ASSUME TypeOK, NEW op \in {"put", "copy", "delete", "settings"}, NEW k \in Keys \cup {None},
         NEW rec \in BucketRecord, NEW c \in Calls, Begin(op, k, rec, c)
  PROVE  /\ next \in Requests /\ next' = next + 1
         /\ next' \in 1..(MaxRequests + 1)
         /\ reqs' \in [Requests -> [op : {"none", "put", "copy", "delete", "settings"}, at : Calls,
                                    key : Keys \cup {None}, rec : BucketRecord]]
         /\ reqs'[next] = [op |-> op, at |-> c, key |-> k, rec |-> rec]
         /\ \A q \in Requests \ {next} : reqs'[q] = reqs[q]
<1>1. next \in Requests /\ next' = next + 1 /\ next' \in 1..(MaxRequests + 1)
  BY ReplicationAssumption DEF TypeOK, Begin, Requests
<1>2. [op |-> op, at |-> c, key |-> k, rec |-> rec]
         \in [op : {"none", "put", "copy", "delete", "settings"}, at : Calls,
              key : Keys \cup {None}, rec : BucketRecord]
  OBVIOUS
<1> QED BY <1>1, <1>2 DEF TypeOK, Begin

\* The records the settings handlers write are bucket records.
LEMMA SettingsEffect ==
  ASSUME TypeOK
  PROVE  /\ \A rules \in putBucketReplication : [bucket EXCEPT !.rules = rules] \in BucketRecord
         /\ \A v \in BOOLEAN : [bucket EXCEPT !.versioned = v] \in BucketRecord
BY DEF TypeOK, BucketRecord

\* Every step that starts a request is a Begin.
LEMMA StartsAreBegins ==
  ASSUME TypeOK,
         \/ \E k \in Keys : PutObject(k) \/ CopyObject(k) \/ DeleteObject(k)
         \/ SetBucketReplication \/ SetBucketVersioning
  PROVE  \E op \in {"put", "copy", "delete", "settings"}, k \in Keys \cup {None},
            rec \in BucketRecord, c \in {"write", "hide", "lookup", "store"} :
            /\ Begin(op, k, rec, c)
            /\ c # "store" => k \in Keys
            /\ c = "write" => op \in {"put", "copy"}
<1>0. bucket \in BucketRecord
  BY DEF TypeOK
<1>1. ASSUME NEW k \in Keys, PutObject(k) \/ CopyObject(k) \/ DeleteObject(k)
      PROVE  \E op \in {"put", "copy", "delete"}, c \in {"write", "hide", "lookup"} :
                /\ Begin(op, k, bucket, c)
                /\ c = "write" => op \in {"put", "copy"}
  <2>1. CASE PutObject(k)
    BY <2>1 DEF PutObject
  <2>2. CASE CopyObject(k)
    BY <2>2 DEF CopyObject
  <2>3. CASE DeleteObject(k)
    BY <2>3 DEF DeleteObject
  <2> QED BY <1>1, <2>1, <2>2, <2>3
<1>2. CASE SetBucketReplication
  <2>1. PICK rules \in putBucketReplication :
           Begin("settings", None, [bucket EXCEPT !.rules = rules], "store")
    BY <1>2 DEF SetBucketReplication
  <2> QED BY <2>1, SettingsEffect
<1>3. CASE SetBucketVersioning
  <2>1. PICK v \in BOOLEAN :
           Begin("settings", None, [bucket EXCEPT !.versioned = v], "store")
    BY <1>3 DEF SetBucketVersioning
  <2> QED BY <2>1, SettingsEffect
<1> QED BY <1>0, <1>1, <1>2, <1>3

\* What Enqueue puts into the channel.
LEMMA EnqueueEffect ==
  ASSUME TypeOK, Asked, Placed, NEW r \in Requests, Enqueue(r)
  PROVE  LET task == [req |-> r, key |-> reqs[r].key, rules |-> Active(reqs[r].rec.rules)]
         IN /\ reqs[r].at = "enqueue" /\ Goto(r, "done")
            /\ UNCHANGED <<bucket, file, index, next, workVars, stopping>>
            /\ \/ UNCHANGED <<queue, offered>> /\ excused' = excused \cup {reqs[r].key}
               \/ /\ task \in Tasks /\ task \notin offered
                  /\ offered' = offered \cup {task}
                  /\ \/ /\ Len(queue) < Capacity
                        /\ queue' = Append(queue, task)
                        /\ excused' = excused \/ excused' = excused \cup {reqs[r].key}
                     \/ /\ ~(Len(queue) < Capacity)
                        /\ queue' = queue
                        /\ excused' = excused \cup {reqs[r].key}
<1> DEFINE active == Active(reqs[r].rec.rules)
           task == [req |-> r, key |-> reqs[r].key, rules |-> active]
<1>1. /\ reqs[r].at = "enqueue" /\ Goto(r, "done")
      /\ IF DOMAIN active = {}
         THEN UNCHANGED <<queue, offered>>
         ELSE /\ offered' = offered \cup {task}
              /\ queue' = IF Len(queue) < Capacity THEN Append(queue, task) ELSE queue
      /\ excused' = IF DOMAIN active = {} \/ ~(Len(queue) < Capacity) \/ reqs[r].rec.versioned
                    THEN excused \cup {reqs[r].key} ELSE excused
      /\ UNCHANGED <<bucket, file, index, next, workVars, stopping>>
  BY DEF Enqueue
<1>2. reqs[r].key \in Keys
  BY <1>1 DEF Asked
<1>3. active \in {Active(list) : list \in putBucketReplication}
  BY DEF TypeOK, BucketRecord
<1>4. DOMAIN active # {} => task \in Tasks
  <2> HIDE DEF active
  <2> QED BY <1>2, <1>3 DEF Tasks
<1>5. task \notin offered
  <2>1. task.req = r
    OBVIOUS
  <2> QED BY <2>1, <1>1 DEF Placed
<1>6. CASE DOMAIN active = {}
  BY <1>1, <1>6
<1>7. CASE DOMAIN active # {}
  BY <1>1, <1>4, <1>5, <1>7
<1> QED BY <1>6, <1>7

-----------------------------------------------------------------------------
(* Types *)

LEMMA InitType == Init => TypeOK
<1> SUFFICES ASSUME Init PROVE TypeOK
  OBVIOUS
<1>1. bucket \in BucketRecord
  BY DEF Init, BucketRecord
<1>2. [op |-> "none", at |-> "done", key |-> None, rec |-> bucket]
         \in [op : {"none", "put", "copy", "delete", "settings"}, at : Calls,
              key : Keys \cup {None}, rec : BucketRecord]
  BY <1>1 DEF Calls
<1>3. next \in 1..(MaxRequests + 1)
  BY ReplicationAssumption DEF Init
<1>4. queue \in Seq(Tasks) /\ Len(queue) <= Capacity
  BY ReplicationAssumption DEF Init
<1> QED BY <1>1, <1>2, <1>3, <1>4 DEF Init, TypeOK

LEMMA TypeStep == TypeOK /\ Asked /\ Placed /\ [Next]_vars => TypeOK'
<1> SUFFICES ASSUME TypeOK, Asked, Placed, [Next]_vars PROVE TypeOK'
  OBVIOUS
<1> USE DEF reqVars, workVars
<1>1. CASE \/ \E k \in Keys : PutObject(k) \/ CopyObject(k) \/ DeleteObject(k)
           \/ SetBucketReplication \/ SetBucketVersioning
  <2>1. PICK op \in {"put", "copy", "delete", "settings"}, k \in Keys \cup {None},
             rec \in BucketRecord, c \in {"write", "hide", "lookup", "store"} :
             Begin(op, k, rec, c)
    BY <1>1, StartsAreBegins
  <2>2. c \in Calls
    BY DEF Calls
  <2> QED BY <2>1, <2>2, BeginEffect DEF Begin, TypeOK
<1>2. ASSUME NEW r \in Requests, PutWrite(r) PROVE TypeOK'
  <2>1. reqs[r].key \in Keys /\ Goto(r, "index") /\ "index" \in Calls
    BY <1>2 DEF PutWrite, Asked, Calls
  <2> QED BY <1>2, <2>1, GotoEffect DEF PutWrite, TypeOK
<1>3. ASSUME NEW r \in Requests, PutIndex(r) PROVE TypeOK'
  <2> DEFINE c == IF reqs[r].op = "put" THEN "enqueue" ELSE "done"
  <2>1. Goto(r, c) /\ c \in Calls
    BY <1>3 DEF PutIndex, Calls
  <2>2. index' = [index EXCEPT ![reqs[r].key] = r]
        /\ UNCHANGED <<bucket, file, next, queue, workVars, stopping, offered, excused>>
    BY <1>3 DEF PutIndex
  <2> HIDE DEF c
  <2> QED BY <2>1, <2>2, GotoEffect DEF TypeOK
<1>4. ASSUME NEW r \in Requests, IndexFails(r) PROVE TypeOK'
  <2>1. reqs[r].key \in Keys /\ Goto(r, "done") /\ "done" \in Calls
    BY <1>4 DEF IndexFails, Asked, Calls
  <2> QED BY <1>4, <2>1, GotoEffect DEF IndexFails, TypeOK
<1>5. ASSUME NEW r \in Requests, Enqueue(r) PROVE TypeOK'
  <2> DEFINE task == [req |-> r, key |-> reqs[r].key, rules |-> Active(reqs[r].rec.rules)]
  <2>1. /\ Goto(r, "done") /\ "done" \in Calls /\ reqs[r].key \in Keys
        /\ UNCHANGED <<bucket, file, index, next, workVars, stopping>>
        /\ excused' = excused \/ excused' = excused \cup {reqs[r].key}
        /\ \/ UNCHANGED <<queue, offered>>
           \/ /\ task \in Tasks
              /\ offered' = offered \cup {task}
              /\ \/ queue' = queue
                 \/ Len(queue) < Capacity /\ queue' = Append(queue, task)
    <3>1. reqs[r].at = "enqueue" /\ reqs[r].key \in Keys /\ "done" \in Calls
      BY <1>5 DEF Enqueue, Asked, Calls
    <3> QED BY <1>5, <3>1, EnqueueEffect
  <2> HIDE DEF task
  <2>2. queue' \in Seq(Tasks) /\ Len(queue') <= Capacity
    <3>1. CASE queue' = queue
      BY <3>1 DEF TypeOK
    <3>2. CASE task \in Tasks /\ Len(queue) < Capacity /\ queue' = Append(queue, task)
      BY <3>2, Channel, ReplicationAssumption DEF TypeOK
    <3> QED BY <2>1, <3>1, <3>2
  <2>3. offered' \subseteq Tasks
    BY <2>1 DEF TypeOK
  <2> QED BY <2>1, <2>2, <2>3, GotoEffect DEF TypeOK
<1>6. ASSUME NEW r \in Requests, DelLookup(r) PROVE TypeOK'
  <2> DEFINE c == IF index[reqs[r].key] = None THEN "done" ELSE "remove"
  <2>1. Goto(r, c) /\ c \in Calls
        /\ UNCHANGED <<bucket, file, index, next, queue, workVars, stopping, offered, excused>>
    BY <1>6 DEF DelLookup, Calls
  <2> HIDE DEF c
  <2> QED BY <2>1, GotoEffect DEF TypeOK
<1>7. ASSUME NEW r \in Requests, DelFile(r) PROVE TypeOK'
  <2>1. Goto(r, "hide") /\ "hide" \in Calls
    BY <1>7 DEF DelFile, Calls
  <2> QED BY <1>7, <2>1, GotoEffect DEF DelFile, TypeOK
<1>8. ASSUME NEW r \in Requests, DelUnindex(r) \/ PutBucket(r) PROVE TypeOK'
  <2>1. Goto(r, "done") /\ "done" \in Calls
    BY <1>8 DEF DelUnindex, PutBucket, Calls
  <2>2. /\ bucket' \in BucketRecord
        /\ index' \in [Keys -> Requests \cup {None}]
        /\ UNCHANGED <<file, next, queue, workVars, stopping, offered, excused>>
    BY <1>8 DEF DelUnindex, PutBucket, TypeOK
  <2> QED BY <2>1, <2>2, GotoEffect DEF TypeOK
<1>9. ASSUME NEW w \in Workers, Take(w) PROVE TypeOK'
  <2>1. /\ Head(queue) \in Tasks /\ Tail(queue) \in Seq(Tasks) /\ Len(Tail(queue)) <= Capacity
    BY <1>9, Channel, ReplicationAssumption DEF Take, TypeOK
  <2>2. Head(queue).key \in Keys /\ DOMAIN Head(queue).rules \subseteq Nat
    BY <2>1, TaskFields
  <2> QED BY <1>9, <2>1, <2>2 DEF Take, TypeOK
<1>10. ASSUME NEW w \in Workers, replicateRead(w) PROVE TypeOK'
  <2>1. work[w].key \in Keys
    BY <1>10, TaskFields DEF replicateRead
  <2>2. left' \in [Workers -> SUBSET Nat]
    BY <1>10 DEF replicateRead, TypeOK
  <2>3. body' \in [Workers -> Requests \cup {None}]
    BY <1>10, <2>1 DEF replicateRead, TypeOK
  <2> QED BY <1>10, <2>2, <2>3 DEF replicateRead, TypeOK
<1>11. ASSUME NEW w \in Workers, replicatePut(w) PROVE TypeOK'
  <2>1. work[w].key \in Keys
    BY <1>11, TaskFields DEF replicatePut
  <2>2. PICK i \in left[w] :
          /\ \/ /\ replica' = [replica EXCEPT ![work[w].rules[i].dest][work[w].key] = body[w]]
                /\ UNCHANGED excused
             \/ /\ UNCHANGED replica
                /\ excused' = excused \cup {work[w].key}
          /\ left' = [left EXCEPT ![w] = @ \ {i}]
    BY <1>11 DEF replicatePut
  <2>3. left' \in [Workers -> SUBSET Nat]
    BY <2>2 DEF TypeOK
  <2>4. replica' \in [Dests -> [Keys -> Requests \cup {None}]]
    <3> DEFINE d == work[w].rules[i].dest
               k == work[w].key
    <3>1. body[w] \in Requests \cup {None}
      BY DEF TypeOK
    <3>2. replica' = [replica EXCEPT ![d][k] = body[w]] \/ replica' = replica
      BY <2>2
    <3> HIDE DEF d, k
    <3>3. [replica[d] EXCEPT ![k] = body[w]] \in [Keys -> Requests \cup {None}] \/ d \notin Dests
      BY <3>1 DEF TypeOK
    <3> QED BY <3>2, <3>3 DEF TypeOK
  <2>5. excused' \subseteq Keys
    BY <2>1, <2>2 DEF TypeOK
  <2>6. body' \in [Workers -> Requests \cup {None}]
        /\ UNCHANGED <<bucket, file, index, reqs, next, queue, work, stopping, offered>>
    BY <1>11 DEF replicatePut, TypeOK
  <2> QED BY <2>3, <2>4, <2>5, <2>6 DEF TypeOK
<1>12. ASSUME NEW w \in Workers, TaskDone(w) \/ Leave(w) PROVE TypeOK'
  BY <1>12 DEF TaskDone, Leave, TypeOK
<1>13. CASE Stop \/ StopReturns
  BY <1>13 DEF Stop, StopReturns, TypeOK
<1>14. CASE UNCHANGED vars
  BY <1>14 DEF vars, TypeOK
<1> QED BY <1>1, <1>2, <1>3, <1>4, <1>5, <1>6, <1>7, <1>8, <1>9, <1>10, <1>11, <1>12,
      <1>13, <1>14 DEF Next, Worker

-----------------------------------------------------------------------------
(* Requests, tasks and workers *)

\* A running request moves on and may change files, to its own body only.
LEMMA MoveKeepsAsked ==
  ASSUME TypeOK, Asked, NEW r \in Requests, NEW c \in Calls, Goto(r, c),
         reqs[r].at \notin {"done", "store"} \/ c = "done", reqs[r].at # "done",
         c \in {"write", "index"} => reqs[r].op \in {"put", "copy"},
         c # "store", next' = next,
         \A k \in Keys : file'[k] \in {file[k], r, None}
  PROVE  Asked'
<1>1. \A q \in Requests : reqs'[q].at # "done" => q < next'
  BY GotoEffect DEF Asked
<1>2. \A q \in Requests : reqs'[q].at \notin {"done", "store"} => reqs'[q].key \in Keys
  BY GotoEffect DEF Asked
<1>3. \A q \in Requests : reqs'[q].at \in {"write", "index"} => reqs'[q].op \in {"put", "copy"}
  BY GotoEffect DEF Asked
<1>4. \A k \in Keys : file'[k] # None => file'[k] < next'
  BY DEF Asked
<1> QED BY <1>1, <1>2, <1>3, <1>4 DEF Asked

LEMMA AskedStep == TypeOK /\ Asked /\ [Next]_vars => Asked'
<1> SUFFICES ASSUME TypeOK, Asked, [Next]_vars PROVE Asked'
  OBVIOUS
<1> USE DEF reqVars, workVars
<1>0. {"write", "index", "enqueue", "lookup", "remove", "hide", "done"} \subseteq Calls
  BY DEF Calls
<1>1. CASE \/ \E k \in Keys : PutObject(k) \/ CopyObject(k) \/ DeleteObject(k)
           \/ SetBucketReplication \/ SetBucketVersioning
  <2>1. PICK op \in {"put", "copy", "delete", "settings"}, k \in Keys \cup {None},
             rec \in BucketRecord, c \in {"write", "hide", "lookup", "store"} :
             /\ Begin(op, k, rec, c)
             /\ c # "store" => k \in Keys
             /\ c = "write" => op \in {"put", "copy"}
    BY <1>1, StartsAreBegins
  <2>2. c \in Calls
    BY DEF Calls
  <2>3. /\ next \in Requests /\ next' = next + 1 /\ next \in Nat
        /\ reqs'[next].at = c /\ reqs'[next].key = k /\ reqs'[next].op = op
        /\ \A q \in Requests \ {next} : reqs'[q] = reqs[q]
        /\ file' = file
    <3>1. /\ next \in Requests /\ next' = next + 1
          /\ reqs'[next] = [op |-> op, at |-> c, key |-> k, rec |-> rec]
          /\ \A q \in Requests \ {next} : reqs'[q] = reqs[q]
      BY <2>1, <2>2, BeginEffect
    <3>2. file' = file
      BY <2>1 DEF Begin
    <3> QED BY <3>1, <3>2 DEF Requests
  <2>4. \A q \in Requests : q \in Nat
    BY DEF Requests
  <2>5. \A q \in Requests : reqs'[q].at # "done" => q < next'
    BY <2>3, <2>4 DEF Asked
  <2>6. \A q \in Requests : reqs'[q].at \notin {"done", "store"} => reqs'[q].key \in Keys
    BY <2>1, <2>3 DEF Asked
  <2>7. \A q \in Requests : reqs'[q].at \in {"write", "index"} => reqs'[q].op \in {"put", "copy"}
    BY <2>1, <2>3 DEF Asked
  <2>8. ASSUME NEW j \in Keys, file'[j] # None PROVE file'[j] < next'
    <3>1. file[j] # None /\ file'[j] = file[j] /\ file[j] \in Nat
      BY <2>3, <2>4, <2>8 DEF TypeOK
    <3>2. file[j] < next
      BY <3>1 DEF Asked
    <3> QED BY <2>3, <3>1, <3>2
  <2> QED BY <2>5, <2>6, <2>7, <2>8 DEF Asked
<1>2. ASSUME NEW r \in Requests, PutWrite(r) PROVE Asked'
  <2>1. /\ Goto(r, "index") /\ reqs[r].at = "write" /\ next' = next
        /\ \A k \in Keys : file'[k] \in {file[k], r}
    BY <1>2 DEF PutWrite, TypeOK
  <2>2. reqs[r].op \in {"put", "copy"}
    BY <2>1 DEF Asked
  <2> QED BY <1>0, <2>1, <2>2, MoveKeepsAsked
<1>3. ASSUME NEW r \in Requests, PutIndex(r) PROVE Asked'
  <2>1. PICK c \in {"enqueue", "done"} : Goto(r, c)
    BY <1>3 DEF PutIndex
  <2>2. reqs[r].at = "index" /\ next' = next /\ file' = file
    BY <1>3 DEF PutIndex
  <2> QED BY <1>0, <2>1, <2>2, MoveKeepsAsked
<1>4. ASSUME NEW r \in Requests,
             IndexFails(r) \/ DelUnindex(r) \/ PutBucket(r) \/ Enqueue(r) PROVE Asked'
  <2>1. Goto(r, "done") /\ reqs[r].at # "done" /\ next' = next /\ file' = file
    BY <1>4 DEF IndexFails, DelUnindex, PutBucket, Enqueue
  <2> QED BY <1>0, <2>1, MoveKeepsAsked
<1>5. ASSUME NEW r \in Requests, DelLookup(r) PROVE Asked'
  <2>1. PICK c \in {"remove", "done"} : Goto(r, c)
    BY <1>5 DEF DelLookup
  <2>2. reqs[r].at = "lookup" /\ next' = next /\ file' = file
    BY <1>5 DEF DelLookup
  <2> QED BY <1>0, <2>1, <2>2, MoveKeepsAsked
<1>6. ASSUME NEW r \in Requests, DelFile(r) PROVE Asked'
  <2>1. /\ Goto(r, "hide") /\ reqs[r].at = "remove" /\ next' = next
        /\ \A k \in Keys : file'[k] \in {file[k], None}
    BY <1>6 DEF DelFile, TypeOK
  <2> QED BY <1>0, <2>1, MoveKeepsAsked
<1>7. CASE UNCHANGED reqVars
  BY <1>7 DEF Asked
<1>8. ASSUME NEW w \in Workers, Worker(w) PROVE UNCHANGED reqVars
  BY <1>8 DEF Worker, Take, replicateRead, replicatePut, TaskDone, Leave
<1>9. Stop \/ StopReturns \/ UNCHANGED vars => UNCHANGED reqVars
  BY DEF Stop, StopReturns, vars
<1> QED BY <1>1, <1>2, <1>3, <1>4, <1>5, <1>6, <1>7, <1>8, <1>9 DEF Next

\* The channel and the workers hold offered tasks, also when the next task is
\* taken or one is added.
LEMMA PlacedHolds ==
  ASSUME TypeOK, Placed, offered \subseteq offered',
         \A t \in offered' : /\ t.req < next'
                             /\ reqs'[t.req].at = "done"
                             /\ t.key = reqs'[t.req].key
                             /\ t.rules = Active(reqs'[t.req].rec.rules),
         \/ queue' = queue
         \/ queue # <<>> /\ queue' = Tail(queue)
         \/ \E t \in offered' \cap Tasks : queue' = Append(queue, t),
         \A w \in Workers : \/ work'[w] = work[w] \/ work'[w] \notin Tasks
                            \/ queue # <<>> /\ work'[w] = Head(queue)
  PROVE  Placed'
<1>0. queue \in Seq(Tasks) /\ \A i \in 1..Len(queue) : queue[i] \in offered
  BY DEF TypeOK, Placed
<1>1. ASSUME NEW i \in 1..Len(queue') PROVE queue'[i] \in offered'
  <2>1. CASE queue' = queue
    BY <2>1, <1>0
  <2>2. CASE queue # <<>> /\ queue' = Tail(queue)
    <3>1. i + 1 \in 1..Len(queue) /\ queue'[i] = queue[i + 1]
      BY <2>2, <1>0, Channel
    <3> QED BY <3>1, <1>0
  <2>3. ASSUME NEW t \in offered' \cap Tasks, queue' = Append(queue, t)
        PROVE  queue'[i] \in offered'
    <3>1. i \in 1..Len(queue) \/ i = Len(queue) + 1
      BY <2>3, <1>0, Channel
    <3> QED BY <3>1, <2>3, <1>0, Channel
  <2> QED BY <2>1, <2>2, <2>3
<1>2. ASSUME NEW w \in Workers, work'[w] \in Tasks PROVE work'[w] \in offered'
  <2>1. queue # <<>> => Head(queue) \in offered
    BY <1>0, Channel
  <2> QED BY <1>2, <2>1 DEF Placed
<1> QED BY <1>1, <1>2 DEF Placed

LEMMA PlacedStep == TypeOK /\ Asked /\ Placed /\ [Next]_vars => Placed'
<1> SUFFICES ASSUME TypeOK, Asked, Placed, [Next]_vars PROVE Placed'
  OBVIOUS
<1> USE DEF reqVars, workVars
<1>0. \A t \in offered : t \in Tasks /\ t.req \in Requests /\ t.req \in Nat /\ t.req < next
  BY TaskFields DEF TypeOK, Placed, Requests
<1>1. CASE \/ \E k \in Keys : PutObject(k) \/ CopyObject(k) \/ DeleteObject(k)
           \/ SetBucketReplication \/ SetBucketVersioning
  <2>1. PICK op \in {"put", "copy", "delete", "settings"}, k \in Keys \cup {None},
             rec \in BucketRecord, c \in {"write", "hide", "lookup", "store"} :
             Begin(op, k, rec, c)
    BY <1>1, StartsAreBegins
  <2>2. c \in Calls
    BY DEF Calls
  <2>3. /\ next \in Requests /\ next' = next + 1 /\ next \in Nat
        /\ \A q \in Requests \ {next} : reqs'[q] = reqs[q]
    <3>1. /\ next \in Requests /\ next' = next + 1
          /\ \A q \in Requests \ {next} : reqs'[q] = reqs[q]
      BY <2>1, <2>2, BeginEffect
    <3> QED BY <3>1 DEF Requests
  <2>4. UNCHANGED <<queue, work, offered>>
    BY <2>1 DEF Begin
  <2>5. \A t \in offered : t.req # next /\ t.req < next'
    BY <1>0, <2>3
  <2> QED BY <1>0, <2>3, <2>4, <2>5 DEF Placed
<1>2. ASSUME NEW r \in Requests,
             \/ PutWrite(r) \/ PutIndex(r) \/ IndexFails(r) \/ DelLookup(r) \/ DelFile(r)
             \/ DelUnindex(r) \/ PutBucket(r)
      PROVE  Placed'
  <2>1. /\ \E c \in Calls : Goto(r, c)
        /\ reqs[r].at # "done" /\ next' = next
        /\ UNCHANGED <<queue, work, offered>>
    BY <1>2 DEF PutWrite, PutIndex, IndexFails, DelLookup, DelFile, DelUnindex, PutBucket, Calls
  <2>2. \A q \in Requests \ {r} : reqs'[q] = reqs[q]
    BY <2>1, GotoEffect
  <2>3. \A t \in offered : t.req # r
    BY <2>1 DEF Placed
  <2> QED BY <1>0, <2>1, <2>2, <2>3 DEF Placed
<1>3. ASSUME NEW r \in Requests, Enqueue(r) PROVE Placed'
  <2> DEFINE task == [req |-> r, key |-> reqs[r].key, rules |-> Active(reqs[r].rec.rules)]
  <2>1. /\ Goto(r, "done") /\ "done" \in Calls /\ reqs[r].at = "enqueue"
        /\ UNCHANGED <<next, work>>
        /\ \/ UNCHANGED <<queue, offered>>
           \/ /\ task \in Tasks
              /\ offered' = offered \cup {task}
              /\ queue' = queue \/ queue' = Append(queue, task)
    <3>1. reqs[r].at = "enqueue" /\ "done" \in Calls
      BY <1>3 DEF Enqueue, Calls
    <3> QED BY <1>3, <3>1, EnqueueEffect
  <2>2. /\ reqs'[r].at = "done" /\ reqs'[r].key = reqs[r].key /\ reqs'[r].rec = reqs[r].rec
        /\ \A q \in Requests \ {r} : reqs'[q] = reqs[q]
    BY <2>1, GotoEffect
  <2>3. \A t \in offered : /\ t.req < next'
                           /\ reqs'[t.req].at = "done"
                           /\ t.key = reqs'[t.req].key
                           /\ t.rules = Active(reqs'[t.req].rec.rules)
    BY <1>0, <2>1, <2>2 DEF Placed
  <2>4. /\ task.req < next'
        /\ reqs'[task.req].at = "done"
        /\ task.key = reqs'[task.req].key
        /\ task.rules = Active(reqs'[task.req].rec.rules)
    BY <2>1, <2>2 DEF Asked
  <2> HIDE DEF task
  <2>5. \A t \in offered' : /\ t.req < next'
                            /\ reqs'[t.req].at = "done"
                            /\ t.key = reqs'[t.req].key
                            /\ t.rules = Active(reqs'[t.req].rec.rules)
    BY <2>1, <2>3, <2>4
  <2>6. \/ queue' = queue
        \/ \E t \in offered' \cap Tasks : queue' = Append(queue, t)
    BY <2>1
  <2>7. offered \subseteq offered' /\ \A w \in Workers : work'[w] = work[w]
    BY <2>1
  <2> QED BY <2>5, <2>6, <2>7, PlacedHolds
<1>4. ASSUME NEW w \in Workers, Take(w) PROVE Placed'
  <2>1. /\ queue # <<>> /\ queue' = Tail(queue)
        /\ UNCHANGED <<offered, reqs, next>>
        /\ \A v \in Workers : work'[v] = work[v] \/ work'[v] = Head(queue)
    BY <1>4 DEF Take, TypeOK
  <2> QED BY <2>1, PlacedHolds DEF Placed
<1>5. ASSUME NEW w \in Workers,
             replicateRead(w) \/ replicatePut(w) \/ TaskDone(w) \/ Leave(w)
      PROVE  Placed'
  <2>1. /\ UNCHANGED <<queue, offered, reqs, next>>
        /\ \A v \in Workers : work'[v] = work[v] \/ work'[v] \notin Tasks
    BY <1>5, MarkerAssumption DEF replicateRead, replicatePut, TaskDone, Leave, TypeOK
  <2> QED BY <2>1 DEF Placed
<1>6. CASE UNCHANGED <<queue, work, offered, reqs, next>>
  BY <1>6 DEF Placed
<1>7. Stop \/ StopReturns \/ UNCHANGED vars => UNCHANGED <<queue, work, offered, reqs, next>>
  BY DEF Stop, StopReturns, vars
<1> QED BY <1>1, <1>2, <1>3, <1>4, <1>5, <1>6, <1>7 DEF Next, Worker

LEMMA ServingStep == TypeOK /\ Serving /\ [Next]_vars => Serving'
<1> SUFFICES ASSUME TypeOK, Serving, [Next]_vars PROVE Serving'
  OBVIOUS
<1> USE DEF TypeOK, reqVars, workVars
<1>1. CASE UNCHANGED <<work, left, body>>
  BY <1>1 DEF Serving
<1>2. ASSUME NEW w \in Workers, Take(w) PROVE Serving'
  <2>1. Head(queue) \in Tasks
    BY <1>2, Channel DEF Take
  <2>2. work[w] = Idle /\ body[w] = None /\ body' = body
    BY <1>2, MarkerAssumption DEF Take, Serving
  <2>3. /\ work'[w] = Head(queue)
        /\ left'[w] \subseteq DOMAIN Head(queue).rules
        /\ \A v \in Workers \ {w} : work'[v] = work[v] /\ left'[v] = left[v]
    BY <1>2 DEF Take
  <2> QED BY <2>1, <2>2, <2>3 DEF Serving
<1>3. ASSUME NEW w \in Workers, replicateRead(w) PROVE Serving'
  <2>1. /\ work[w] \in Tasks /\ work' = work
        /\ \A v \in Workers \ {w} : left'[v] = left[v] /\ body'[v] = body[v]
        /\ left'[w] \subseteq left[w]
        /\ body'[w] # None => left'[w] # {}
    BY <1>3 DEF replicateRead
  <2> QED BY <2>1 DEF Serving
<1>4. ASSUME NEW w \in Workers, replicatePut(w) PROVE Serving'
  <2>1. /\ work[w] \in Tasks /\ work' = work
        /\ \A v \in Workers \ {w} : left'[v] = left[v] /\ body'[v] = body[v]
        /\ left'[w] \subseteq left[w]
        /\ body'[w] = None
    BY <1>4 DEF replicatePut
  <2> QED BY <2>1 DEF Serving
<1>5. ASSUME NEW w \in Workers, TaskDone(w) \/ Leave(w) PROVE Serving'
  <2>1. /\ left[w] = {} /\ UNCHANGED <<left, body>>
        /\ \A v \in Workers \ {w} : work'[v] = work[v]
    BY <1>5, MarkerAssumption DEF TaskDone, Leave, Serving
  <2> QED BY <2>1 DEF Serving
<1>6. \/ UNCHANGED <<work, left, body>>
      \/ \E w \in Workers : Worker(w)
  BY DEF Next, PutObject, CopyObject, DeleteObject, SetBucketReplication, SetBucketVersioning,
     Begin, PutWrite, PutIndex, IndexFails, Enqueue, DelLookup, DelFile, DelUnindex, PutBucket,
     Stop, StopReturns, vars
<1> QED BY <1>1, <1>2, <1>3, <1>4, <1>5, <1>6 DEF Worker

-----------------------------------------------------------------------------
(* ReplicaFresh *)

\* Where the writer of a file is.
LEMMA WriterIsPast ==
  ASSUME TypeOK, Placed, NEW k \in Keys, Fresh(k), file[k] # None
  PROVE  /\ file[k] \in Requests
         /\ reqs[file[k]].op = "put" /\ reqs[file[k]].key = k
         /\ reqs[file[k]].at \in {"index", "enqueue", "done"}
<1>1. ASSUME NEW i \in 1..Len(queue), queue[i].req = file[k] PROVE reqs[file[k]].at = "done"
  BY <1>1 DEF Placed
<1>2. file[k] \in Requests
  BY DEF TypeOK
<1>3. Replicated(k, file[k]) => reqs[file[k]].at = "done"
  BY DEF Replicated
<1> QED BY <1>1, <1>2, <1>3 DEF Fresh

\* Nothing that matters to the key has changed.
LEMMA FreshSame ==
  ASSUME NEW k \in Keys, Fresh(k), file'[k] = file[k],
         reqs'[file[k]] = reqs[file[k]], UNCHANGED <<queue, work, left, body, replica>>
  PROVE  Fresh(k)'
<1>1. Replicated(k, file[k]) => Replicated(k, file[k])'
  BY DEF Replicated
<1>2. queue' = queue /\ reqs'[file'[k]] = reqs[file[k]]
  OBVIOUS
<1> QED BY <1>1, <1>2 DEF Fresh

\* Another request moves on.
LEMMA OtherMoves ==
  ASSUME TypeOK, Placed, NEW k \in Keys, Fresh(k), file'[k] \in {file[k], None}, file'[k] # None,
         NEW q \in Requests, q # file[k], \A p \in Requests \ {q} : reqs'[p] = reqs[p],
         UNCHANGED <<queue, work, left, body, replica>>
  PROVE  Fresh(k)'
BY WriterIsPast, FreshSame

\* A request takes a step.
LEMMA RequestKeepsFresh ==
  ASSUME TypeOK, Asked, Placed, AllFresh, NEW k \in Keys, k \notin excused', file'[k] # None,
         NEW q \in Requests,
         \/ PutWrite(q) \/ PutIndex(q) \/ IndexFails(q) \/ Enqueue(q)
         \/ DelLookup(q) \/ DelFile(q) \/ DelUnindex(q) \/ PutBucket(q)
  PROVE  Fresh(k)'
<1> USE DEF workVars
<1>1. CASE PutWrite(q)
  <2>1. /\ reqs[q].at = "write" /\ Goto(q, "index") /\ "index" \in Calls
        /\ reqs[q].op \in {"put", "copy"} /\ reqs[q].key \in Keys
        /\ UNCHANGED <<queue, work, left, body, replica>>
        /\ reqs[q].op = "copy" => excused' = excused \cup {reqs[q].key}
        /\ excused \subseteq excused'
        /\ \/ file' = [file EXCEPT ![reqs[q].key] = q]
           \/ file' = file
    BY <1>1 DEF PutWrite, Asked, Calls
  <2>2. CASE file' = [file EXCEPT ![reqs[q].key] = q] /\ reqs[q].key = k
    <3>1. file'[k] = q /\ reqs[q].op = "put"
      BY <2>1, <2>2 DEF TypeOK
    <3>2. reqs'[q].op = "put" /\ reqs'[q].key = k /\ reqs'[q].at = "index"
      BY <2>1, <2>2, <3>1, GotoEffect
    <3> QED BY <3>1, <3>2 DEF Fresh
  <2>3. CASE ~(file' = [file EXCEPT ![reqs[q].key] = q] /\ reqs[q].key = k)
    <3>1. file'[k] = file[k] /\ Fresh(k)
      BY <2>1, <2>3 DEF TypeOK, AllFresh
    <3>2. q # file[k]
      BY <2>1, <3>1, WriterIsPast
    <3> QED BY <2>1, <3>1, <3>2, GotoEffect, OtherMoves
  <2> QED BY <2>2, <2>3
<1>2. CASE PutIndex(q)
  <2>1. /\ reqs[q].at = "index"
        /\ UNCHANGED <<file, queue, work, left, body, replica, excused>>
    BY <1>2 DEF PutIndex
  <2>2. Fresh(k) /\ file'[k] = file[k] /\ file[k] # None
    BY <2>1 DEF AllFresh
  <2>3. CASE q = file[k]
    <3>1. reqs[q].op = "put" /\ reqs[q].key = k
      BY <2>2, <2>3, WriterIsPast
    <3>2. Goto(q, "enqueue") /\ "enqueue" \in Calls
      BY <1>2, <3>1 DEF PutIndex, Calls
    <3>3. reqs'[q].op = "put" /\ reqs'[q].key = k /\ reqs'[q].at = "enqueue"
      BY <3>1, <3>2, GotoEffect
    <3> QED BY <2>2, <2>3, <3>3 DEF Fresh
  <2>4. CASE q # file[k]
    <3>1. \E c \in Calls : Goto(q, c)
      BY <1>2 DEF PutIndex, Calls
    <3> QED BY <2>1, <2>2, <2>4, <3>1, GotoEffect, OtherMoves
  <2> QED BY <2>3, <2>4
<1>3. CASE IndexFails(q)
  <2>1. /\ reqs[q].at = "index" /\ Goto(q, "done") /\ "done" \in Calls
        /\ excused' = excused \cup {reqs[q].key}
        /\ UNCHANGED <<file, queue, work, left, body, replica>>
    BY <1>3 DEF IndexFails, Calls
  <2>2. Fresh(k) /\ file'[k] = file[k] /\ file[k] # None
    BY <2>1 DEF AllFresh
  <2>3. q # file[k]
    BY <2>1, <2>2, WriterIsPast
  <2> QED BY <2>1, <2>2, <2>3, GotoEffect, OtherMoves
<1>4. CASE Enqueue(q)
  <2> DEFINE task == [req |-> q, key |-> reqs[q].key, rules |-> Active(reqs[q].rec.rules)]
  <2>1. /\ reqs[q].at = "enqueue" /\ Goto(q, "done") /\ "done" \in Calls
        /\ UNCHANGED <<file, work, left, body, replica>>
        /\ \/ queue' = queue /\ excused' = excused \cup {reqs[q].key}
           \/ /\ task \in Tasks
              /\ queue' = Append(queue, task)
              /\ excused \subseteq excused'
    <3>1. "done" \in Calls
      BY DEF Calls
    <3> QED BY <1>4, <3>1, EnqueueEffect
  <2>2. Fresh(k) /\ file'[k] = file[k] /\ file[k] # None
    BY <2>1 DEF AllFresh
  <2>3. \A p \in Requests \ {q} : reqs'[p] = reqs[p]
    BY <2>1, GotoEffect
  <2>4. task.req = q
    OBVIOUS
  <2> HIDE DEF task
  <2>5. CASE queue' = queue /\ excused' = excused \cup {reqs[q].key}
    <3>1. q # file[k]
      BY <2>2, <2>5, WriterIsPast
    <3> QED BY <2>1, <2>2, <2>3, <2>5, <3>1, OtherMoves
  <2>6. CASE task \in Tasks /\ queue' = Append(queue, task)
    <3>1. /\ Len(queue) \in Nat /\ Len(queue') = Len(queue) + 1
          /\ \A i \in 1..Len(queue) : queue'[i] = queue[i] /\ i \in 1..Len(queue')
          /\ queue'[Len(queue) + 1] = task /\ Len(queue) + 1 \in 1..Len(queue')
      BY <2>6, Channel DEF TypeOK
    <3>2. CASE q = file[k]
      <4>1. reqs'[q].op = "put" /\ reqs'[q].key = k
        BY <2>1, <2>2, <3>2, GotoEffect, WriterIsPast
      <4> QED BY <2>2, <2>4, <3>1, <3>2, <4>1 DEF Fresh
    <3>3. CASE q # file[k]
      <4>1. reqs'[file[k]] = reqs[file[k]]
        BY <2>2, <2>3, <3>3, WriterIsPast
      <4>2. Replicated(k, file[k]) => Replicated(k, file[k])'
        BY <2>1, <2>2, <4>1 DEF Replicated
      <4>3. (\E i \in 1..Len(queue) : queue[i].req = file[k])
               => \E i \in 1..Len(queue') : queue'[i].req = file[k]
        BY <3>1
      <4> QED BY <2>2, <4>1, <4>2, <4>3 DEF Fresh
    <3> QED BY <3>2, <3>3
  <2> QED BY <2>1, <2>5, <2>6
<1>5. CASE DelLookup(q) \/ DelFile(q) \/ DelUnindex(q) \/ PutBucket(q)
  <2>1. /\ reqs[q].at \in {"lookup", "remove", "hide", "store"}
        /\ \E c \in Calls : Goto(q, c)
        /\ file'[k] \in {file[k], None}
        /\ UNCHANGED <<queue, work, left, body, replica, excused>>
    BY <1>5 DEF DelLookup, DelFile, DelUnindex, PutBucket, Calls, TypeOK
  <2>2. Fresh(k) /\ file'[k] = file[k] /\ file[k] # None
    BY <2>1 DEF AllFresh
  <2>3. q # file[k]
    BY <2>1, <2>2, WriterIsPast
  <2> QED BY <2>1, <2>2, <2>3, GotoEffect, OtherMoves
<1> QED BY <1>1, <1>2, <1>3, <1>4, <1>5

\* A worker takes a step.
LEMMA WorkerKeepsFresh ==
  ASSUME TypeOK, Placed, Serving, NEW k \in Keys, Fresh(k), k \notin excused', file[k] # None,
         NEW w \in Workers, Worker(w)
  PROVE  Fresh(k)'
<1> USE DEF TypeOK, reqVars, workVars
<1> DEFINE r == file[k]
<1>0. /\ UNCHANGED <<file, reqs>> /\ r \in Requests
      /\ reqs[r].op = "put" /\ reqs[r].key = k
  BY WriterIsPast DEF Worker, Take, replicateRead, replicatePut, TaskDone, Leave
<1>1. ASSUME NEW v \in Workers, work[v] \in Tasks, work[v].req = r
      PROVE  work[v].key = k /\ work[v].rules = Active(reqs[r].rec.rules)
  BY <1>0, <1>1 DEF Placed
<1>2. ASSUME reqs[r].at \in {"index", "enqueue"} PROVE Fresh(k)'
  BY <1>0, <1>2 DEF Fresh
<1>3. ASSUME NEW i \in 1..Len(queue), queue[i].req = r, ~Take(w) PROVE Fresh(k)'
  <2>1. UNCHANGED queue
    BY <1>3 DEF Worker, replicateRead, replicatePut, TaskDone, Leave
  <2> QED BY <1>0, <1>3, <2>1 DEF Fresh
<1>4. ASSUME NEW i \in 1..Len(queue), queue[i].req = r, Take(w) PROVE Fresh(k)'
  <2>1. /\ queue # <<>> /\ queue' = Tail(queue) /\ Head(queue) = queue[1]
        /\ queue[1] \in Tasks
        /\ work[w] = Idle /\ work' = [work EXCEPT ![w] = queue[1]]
        /\ body' = body /\ replica' = replica
    BY <1>4, Channel DEF Take
  <2>2. CASE i # 1
    <3>1. /\ Len(queue) \in Nat /\ Len(queue') = Len(queue) - 1
          /\ \A j \in 1..Len(queue') : queue'[j] = queue[j + 1]
      BY <2>1, Channel
    <3>2. i - 1 \in 1..Len(queue') /\ (i - 1) + 1 = i
      BY <2>2, <3>1
    <3>3. queue'[i - 1].req = r
      BY <1>4, <3>1, <3>2
    <3> QED BY <1>0, <3>2, <3>3 DEF Fresh
  <2>3. CASE i = 1
    <3> DEFINE t == queue[1]
    <3>1. /\ t.req = r /\ reqs[r].at = "done" /\ t.key = k
          /\ t.rules = Active(reqs[r].rec.rules)
      BY <1>0, <1>4, <2>3 DEF Placed
    <3>2. \A v \in Workers : ~(work[v] \in Tasks /\ work[v].key = k)
      BY <1>4, <2>1, <3>1 DEF Take
    <3>3. left'[w] = {j \in DOMAIN t.rules : ruleMatchesKey(t.rules[j], k)}
      BY <1>4, <2>1, <3>1 DEF Take
    <3>4. body'[w] = None
      BY <2>1, MarkerAssumption DEF Serving
    <3>5. \A v \in Workers : work'[v] \in Tasks /\ work'[v].key = k /\ body'[v] # None => FALSE
      BY <2>1, <3>2, <3>4
    <3>6. work'[w] \in Tasks /\ work'[w].req = r
      BY <2>1, <3>1
    <3>7. ASSUME NEW j \in DOMAIN reqs[r].rec.rules, reqs[r].rec.rules[j].enabled,
                 ruleMatchesKey(reqs[r].rec.rules[j], k)
          PROVE  j \in left'[w]
      <4> DEFINE rules == reqs[r].rec.rules
      <4>1. j \in DOMAIN Active(rules) /\ Active(rules)[j] = rules[j]
        BY <3>7 DEF Active
      <4> HIDE DEF rules
      <4>2. j \in DOMAIN t.rules /\ t.rules[j] = rules[j]
        BY <3>1, <4>1 DEF rules
      <4> QED BY <3>3, <3>7, <4>2 DEF rules
    <3>8. Replicated(k, r)'
      BY <1>0, <3>1, <3>5, <3>6, <3>7 DEF Replicated
    <3> QED BY <1>0, <3>8 DEF Fresh
  <2> QED BY <2>2, <2>3
<1>5. ASSUME Replicated(k, r) PROVE Replicated(k, r)'
  <2> DEFINE rules == reqs[r].rec.rules
             Sent(i) == replica[rules[i].dest][k] = r
             Held(v, i) == work[v] \in Tasks /\ work[v].req = r /\ i \in left[v]
  <2>1. SUFFICES
          /\ \A v \in Workers : work'[v] \in Tasks /\ work'[v].key = k /\ body'[v] # None
                                  => body'[v] = r
          /\ \A i \in DOMAIN rules :
                rules[i].enabled /\ ruleMatchesKey(rules[i], k) /\ Sent(i) => Sent(i)'
          /\ \A i \in DOMAIN rules, v \in Workers :
                rules[i].enabled /\ ruleMatchesKey(rules[i], k) /\ Held(v, i)
                  => Sent(i)' \/ Held(v, i)'
    BY <1>0, <1>5 DEF Replicated
  <2>2. \A v \in Workers : work[v] \in Tasks /\ work[v].key = k /\ body[v] # None => body[v] = r
    BY <1>5 DEF Replicated
  <2>3. CASE Take(w)
    <3>1. /\ work[w] = Idle /\ left[w] = {} /\ body[w] = None
          /\ body' = body /\ replica' = replica
          /\ \A v \in Workers \ {w} : work'[v] = work[v] /\ left'[v] = left[v]
      BY <2>3, MarkerAssumption DEF Take, Serving
    <3> QED BY <1>0, <2>2, <3>1
  <2>4. CASE replicateRead(w)
    <3>1. /\ work' = work /\ replica' = replica
          /\ \A v \in Workers \ {w} : left'[v] = left[v] /\ body'[v] = body[v]
          /\ body'[w] \in {body[w], file[work[w].key]}
          /\ left'[w] = left[w] \/ file[work[w].key] = None
      BY <2>4 DEF replicateRead
    <3>2. work[w] \in Tasks /\ work[w].req = r => left'[w] = left[w]
      BY <1>1, <3>1
    <3> QED BY <1>0, <2>2, <3>1, <3>2
  <2>5. CASE replicatePut(w)
    <3>1. PICK i \in left[w] :
            /\ \/ /\ replica' = [replica EXCEPT ![work[w].rules[i].dest][work[w].key] = body[w]]
                  /\ UNCHANGED excused
               \/ /\ UNCHANGED replica
                  /\ excused' = excused \cup {work[w].key}
            /\ left' = [left EXCEPT ![w] = @ \ {i}]
      BY <2>5 DEF replicatePut
    <3>2. /\ work[w] \in Tasks /\ work' = work
          /\ body[w] # None /\ body' = [body EXCEPT ![w] = None]
      BY <2>5 DEF replicatePut
    <3>3. \A j \in DOMAIN rules : rules[j].dest \in Dests
      BY RulesAreRules DEF Rule
    <3>4. work[w].key = k => body[w] = r
      BY <2>2, <3>2
    <3>5. ASSUME NEW d \in Dests, replica[d][k] = r PROVE replica'[d][k] = r
      BY <3>1, <3>4, <3>5
    <3>6. ASSUME NEW j \in DOMAIN rules, Held(w, j) PROVE Sent(j)' \/ Held(w, j)'
      <4>1. work[w].key = k /\ work[w].rules = Active(rules) /\ body[w] = r
        BY <1>1, <3>4, <3>6
      <4>2. CASE j # i
        BY <1>0, <3>1, <3>2, <3>6, <4>2
      <4>3. CASE j = i
        <5>1. left[w] \subseteq DOMAIN work[w].rules
          BY <3>6 DEF Serving
        <5>2. work[w].rules[j] = rules[j]
          BY <3>6, <4>1, <5>1 DEF Active
        <5>3. replica' = [replica EXCEPT ![rules[j].dest][k] = r]
          BY <3>1, <4>1, <4>3, <5>2
        <5>4. Sent(j)'
          BY <1>0, <3>3, <5>3
        <5> QED BY <5>4
      <4> QED BY <4>2, <4>3
    <3>7. \A v \in Workers \ {w} : left'[v] = left[v] /\ body'[v] = body[v]
      BY <3>1, <3>2
    <3>8. body'[w] = None
      BY <3>2
    <3>9. \A v \in Workers : work'[v] \in Tasks /\ work'[v].key = k /\ body'[v] # None => body'[v] = r
      BY <2>2, <3>2, <3>7, <3>8
    <3>10. \A j \in DOMAIN rules : Sent(j) => Sent(j)'
      BY <1>0, <3>3, <3>5
    <3>11. ASSUME NEW j \in DOMAIN rules, NEW v \in Workers, Held(v, j) PROVE Sent(j)' \/ Held(v, j)'
      <4>1. CASE v = w
        BY <3>6, <3>11, <4>1
      <4>2. CASE v # w
        BY <1>0, <3>2, <3>7, <3>11, <4>2
      <4> QED BY <4>1, <4>2
    <3> QED BY <1>0, <3>9, <3>10, <3>11
  <2>6. CASE TaskDone(w) \/ Leave(w)
    <3>1. /\ left[w] = {} /\ body[w] = None /\ UNCHANGED <<left, body, replica>>
          /\ \A v \in Workers \ {w} : work'[v] = work[v]
          /\ work'[w] \notin Tasks
      BY <2>6, MarkerAssumption DEF TaskDone, Leave, Serving
    <3> QED BY <1>0, <2>2, <3>1
  <2> QED BY <2>3, <2>4, <2>5, <2>6 DEF Worker
<1>6. \/ reqs[r].at \in {"index", "enqueue"}
      \/ \E i \in 1..Len(queue) : queue[i].req = r
      \/ Replicated(k, r)
  BY DEF Fresh
<1>7. Replicated(k, r)' => Fresh(k)'
  BY <1>0 DEF Fresh
<1> QED BY <1>2, <1>3, <1>4, <1>5, <1>6, <1>7

LEMMA FreshStep ==
  TypeOK /\ Asked /\ Placed /\ Serving /\ AllFresh /\ [Next]_vars => AllFresh'
<1> SUFFICES ASSUME TypeOK, Asked, Placed, Serving, AllFresh, [Next]_vars,
                    NEW k \in Keys, k \notin excused'
             PROVE  Fresh(k)'
  BY DEF AllFresh
<1> USE DEF reqVars, workVars
<1>1. CASE file'[k] = None
  BY <1>1 DEF Fresh
<1>2. ASSUME NEW q \in Requests,
             \/ PutWrite(q) \/ PutIndex(q) \/ IndexFails(q) \/ Enqueue(q)
             \/ DelLookup(q) \/ DelFile(q) \/ DelUnindex(q) \/ PutBucket(q)
      PROVE  Fresh(k)'
  BY <1>1, <1>2, RequestKeepsFresh
<1>3. CASE \/ \E l \in Keys : PutObject(l) \/ CopyObject(l) \/ DeleteObject(l)
           \/ SetBucketReplication \/ SetBucketVersioning
  <2>1. PICK op \in {"put", "copy", "delete", "settings"}, l \in Keys \cup {None},
             rec \in BucketRecord, c \in {"write", "hide", "lookup", "store"} :
             Begin(op, l, rec, c)
    BY <1>3, StartsAreBegins
  <2>2. c \in Calls
    BY DEF Calls
  <2>3. next \in Requests /\ \A q \in Requests \ {next} : reqs'[q] = reqs[q]
    BY <2>1, <2>2, BeginEffect
  <2>4. UNCHANGED <<file, queue, work, left, body, replica, excused>>
    BY <2>1 DEF Begin
  <2>5. Fresh(k) /\ (file[k] # None => file[k] # next)
    <3>1. file[k] # None => file[k] < next /\ file[k] \in Nat
      BY DEF Asked, TypeOK, Requests
    <3> QED BY <2>4, <3>1 DEF AllFresh
  <2> QED BY <1>1, <2>3, <2>4, <2>5, OtherMoves
<1>4. ASSUME NEW w \in Workers, Worker(w) PROVE Fresh(k)'
  <2>1. /\ UNCHANGED file
        /\ excused \subseteq excused'
    BY <1>4 DEF Worker, Take, replicateRead, replicatePut, TaskDone, Leave
  <2>2. Fresh(k)
    BY <2>1 DEF AllFresh
  <2> QED BY <1>1, <1>4, <2>1, <2>2, WorkerKeepsFresh
<1>5. CASE UNCHANGED <<file, reqs, queue, work, left, body, replica, excused>>
  BY <1>5, FreshSame DEF AllFresh
<1>6. Stop \/ StopReturns \/ UNCHANGED vars
        => UNCHANGED <<file, reqs, queue, work, left, body, replica, excused>>
  BY DEF Stop, StopReturns, vars
<1> QED BY <1>2, <1>3, <1>4, <1>5, <1>6 DEF Next

LEMMA InitInv == Init => Inv
<1> SUFFICES ASSUME Init PROVE Inv
  OBVIOUS
<1>1. \A i \in 1..Len(queue) : FALSE
  BY DEF Init
<1>2. Asked
  BY DEF Init, Asked
<1>3. Placed
  BY <1>1, MarkerAssumption DEF Init, Placed
<1>4. Serving
  BY DEF Init, Serving
<1>5. AllFresh
  BY DEF Init, AllFresh, Fresh
<1> QED BY <1>2, <1>3, <1>4, <1>5 DEF Inv

LEMMA InvHolds == Spec => [](TypeOK /\ Inv)
<1>1. TypeOK /\ Inv /\ [Next]_vars => TypeOK' /\ Inv'
  BY TypeStep, AskedStep, PlacedStep, ServingStep, FreshStep DEF Inv
<1> QED BY <1>1, InitType, InitInv, PTL DEF Spec

-----------------------------------------------------------------------------
(* The theorems *)

\* Every variable of Replication keeps its type; the channel never overflows.
THEOREM ReplicationTypeCorrect == Spec => []TypeOK
BY InvHolds, PTL

\* run and replicate: when everything is quiet, the destinations hold the
\* local file of every key that is not excused, for any rules, keys,
\* destinations and workers.
THEOREM ReplicasFresh == Spec => []ReplicaFresh
<1>1. TypeOK /\ Inv => ReplicaFresh
  <2> SUFFICES ASSUME TypeOK, Inv, Quiet, NEW k \in Keys \ excused, file[k] # None
               PROVE  LET rules == reqs[file[k]].rec.rules
                      IN \A i \in DOMAIN rules :
                           rules[i].enabled /\ ruleMatchesKey(rules[i], k)
                             => replica[rules[i].dest][k] = file[k]
    BY DEF ReplicaFresh
  <2>1. /\ file[k] \in Requests /\ reqs[file[k]].at = "done"
        /\ \A i \in 1..Len(queue) : FALSE
        /\ \A w \in Workers : work[w] \notin Tasks
    BY MarkerAssumption DEF Quiet, TypeOK
  <2>2. Fresh(k)
    BY DEF Inv, AllFresh
  <2>3. Replicated(k, file[k])
    BY <2>1, <2>2 DEF Fresh
  <2> QED BY <2>1, <2>3 DEF Replicated
<1> QED BY <1>1, InvHolds, PTL

\* ReplicationWorker implements the abstract queue: a step of the worker
\* offers, takes or finishes one task, closes the queue, lets one goroutine
\* leave, or changes nothing the queue sees.
THEOREM ReplicationIsQueue == Spec => Queue!QSafety
<1>1. Init => Queue!QInit
  BY DEF Init, Queue!QInit
<1>2. TypeOK /\ Inv /\ [Next]_vars => [Queue!QNext]_(Queue!qvars)
  <2> SUFFICES ASSUME TypeOK, Inv, [Next]_vars PROVE [Queue!QNext]_(Queue!qvars)
    OBVIOUS
  <2> USE DEF reqVars, workVars
  <2>1. ASSUME NEW r \in Requests, Enqueue(r) PROVE [Queue!QNext]_(Queue!qvars)
    <3> DEFINE task == [req |-> r, key |-> reqs[r].key, rules |-> Active(reqs[r].rec.rules)]
    <3>1. /\ UNCHANGED <<work, stopping>>
          /\ \/ UNCHANGED <<queue, offered>>
             \/ /\ task \in Tasks /\ task \notin offered
                /\ offered' = offered \cup {task}
                /\ queue' = IF Len(queue) < Capacity THEN Append(queue, task) ELSE queue
      BY <2>1, EnqueueEffect DEF Inv
    <3>2. CASE UNCHANGED <<queue, offered>>
      BY <3>1, <3>2 DEF Queue!qvars
    <3>3. CASE task \notin offered /\ offered' = offered \cup {task}
      <4>1. Queue!Offer(task)
        BY <3>1, <3>3 DEF Queue!Offer
      <4>2. task \in Tasks
        BY <3>1, <3>3
      <4> HIDE DEF task
      <4> QED BY <4>1, <4>2 DEF Queue!QNext
    <3> QED BY <3>1, <3>2, <3>3
  <2>2. ASSUME NEW w \in Workers, Take(w) PROVE Queue!QNext
    <3>1. Queue!Take(w)
      BY <2>2 DEF Take, Queue!Take
    <3> QED BY <3>1 DEF Queue!QNext
  <2>3. ASSUME NEW w \in Workers, TaskDone(w) PROVE Queue!QNext
    <3>1. Queue!Finish(w)
      BY <2>3 DEF TaskDone, Queue!Finish
    <3> QED BY <3>1 DEF Queue!QNext
  <2>4. ASSUME NEW w \in Workers, Leave(w) PROVE Queue!QNext
    <3>1. Queue!Leave(w)
      BY <2>4 DEF Leave, Queue!Leave
    <3> QED BY <3>1 DEF Queue!QNext
  <2>5. CASE Stop
    <3>1. Queue!Close
      BY <2>5 DEF Stop, Queue!Close
    <3> QED BY <3>1 DEF Queue!QNext
  <2>6. CASE StopReturns
    BY <2>6 DEF StopReturns, Queue!qvars
  <2>7. CASE UNCHANGED <<offered, queue, work, stopping>>
    BY <2>7 DEF Queue!qvars
  <2>8. \/ \E r \in Requests : Enqueue(r)
        \/ \E w \in Workers : Take(w) \/ TaskDone(w) \/ Leave(w)
        \/ Stop \/ StopReturns
        \/ UNCHANGED <<offered, queue, work, stopping>>
    BY DEF Next, Worker, PutObject, CopyObject, DeleteObject, SetBucketReplication,
       SetBucketVersioning, Begin, PutWrite, PutIndex, IndexFails, DelLookup, DelFile,
       DelUnindex, PutBucket, replicateRead, replicatePut, vars
  <2> QED BY <2>1, <2>2, <2>3, <2>4, <2>5, <2>6, <2>7, <2>8
<1> QED BY <1>1, <1>2, InvHolds, PTL DEF Spec, Queue!QSafety
=============================================================================
