------------------------------ MODULE Webhooks ------------------------------
(***************************************************************************)
(* The webhook dispatcher (internal/storage/webhook.go) behind the         *)
(* requests that feed it.  A request reads the bucket record, does its     *)
(* work, and then offers one task per subscribed target to a bounded       *)
(* channel without ever blocking.  Worker goroutines take the tasks and    *)
(* post each up to three times.  Stop closes stopCh and waits for the      *)
(* workers.  What the requests do to objects is modelled in ObjectStore;   *)
(* here the work of a request succeeds or fails.                           *)
(***************************************************************************)
EXTENDS Naturals, Sequences

CONSTANTS
  Targets,      \* webhook targets a notification configuration may name
  Subscribed,   \* the events each target's patterns match
  Workers,      \* goroutines of the dispatcher (8 in the server)
  Capacity,     \* of the channel (8192 in the code)
  MaxRequests,  \* bound on the number of requests
  Idle, Gone, None

\* The events of webhook.go.
Events == {"ObjectCreated", "ObjectRemoved"}

ASSUME WebhookAssumption ==
  /\ MaxRequests \in Nat
  /\ Capacity \in Nat
  /\ Subscribed \in [Targets -> SUBSET Events]

\* A request is known by its number.
Requests == 1..MaxRequests
Attempts == 3

Tasks == [req : Requests, target : Targets]

\* Idle and Gone say that a worker holds no task.
ASSUME WorkerAssumption == Idle \notin Tasks /\ Gone \notin Tasks /\ Idle # Gone

VARIABLES
  notifications, \* the webhook targets of the bucket record, None without a configuration
  reqs,          \* requests: [event, at, cfg, left]
  next,          \* number of the next request
  queue,         \* the channel
  work,          \* what each worker does: a task, Idle or Gone
  attempt,       \* the round each worker's deliver is in
  stopping,      \* Stop: "no", "closed" (stopCh is closed), "done" (it has returned)
  offered,       \* tasks ever offered (history)
  posts,         \* attempts made for each task (history)
  accepted       \* tasks answered with 2xx (history)

reqVars == <<notifications, reqs, next>>
workVars == <<work, attempt, posts, accepted>>
vars == <<reqVars, queue, workVars, stopping, offered>>

Init ==
  /\ notifications = Targets
  /\ reqs = [r \in Requests |-> [event |-> None, at |-> "done", cfg |-> None, left |-> {}]]
  /\ next = 1
  /\ queue = <<>>
  /\ work = [w \in Workers |-> Idle]
  /\ attempt = [w \in Workers |-> 0]
  /\ stopping = "no"
  /\ offered = {}
  /\ posts = [t \in Tasks |-> 0]
  /\ accepted = {}

-----------------------------------------------------------------------------
(* Requests.                                                               *)

\* GetBucket: a PUT, a completed upload or a delete keeps the configuration
\* it has read, whatever is stored while it works.
Begin ==
  /\ next <= MaxRequests
  /\ \E e \in Events :
       reqs' = [reqs EXCEPT ![next] = [event |-> e, at |-> "work", cfg |-> notifications, left |-> {}]]
  /\ next' = next + 1
  /\ UNCHANGED <<notifications, queue, workVars, stopping, offered>>

\* The targets whose patterns match the event; none without a configuration.
eventMatchesTarget(cfg, event) ==
  IF cfg = None THEN {} ELSE {t \in cfg : event \in Subscribed[t]}

\* The object is written or removed; then the event is built and Dispatch
\* walks the targets.
ObjectChanged(r) ==
  /\ reqs[r].at = "work"
  /\ reqs' = [reqs EXCEPT ![r].at = "dispatch",
                          ![r].left = eventMatchesTarget(reqs[r].cfg, reqs[r].event)]
  /\ UNCHANGED <<notifications, next, queue, workVars, stopping, offered>>

\* The request fails, or it is a delete in a versioned bucket: no event.
NoEvent(r) ==
  /\ reqs[r].at = "work"
  /\ reqs' = [reqs EXCEPT ![r].at = "done"]
  /\ UNCHANGED <<notifications, next, queue, workVars, stopping, offered>>

\* Seeded fault: a full queue loses its oldest task instead of the new one.
DropsOldest(r) ==
  /\ reqs[r].at = "dispatch"
  /\ \E t \in reqs[r].left :
       LET task == [req |-> r, target |-> t]
       IN /\ reqs' = [reqs EXCEPT ![r].left = @ \ {t}]
          /\ queue' = IF Len(queue) < Capacity
                      THEN Append(queue, task) ELSE Append(Tail(queue), task)
          /\ offered' = offered \cup {task}
  /\ UNCHANGED <<notifications, next, workVars, stopping>>

\* Seeded fault: the task is queued although the channel is full.
Overfills(r) ==
  /\ reqs[r].at = "dispatch"
  /\ \E t \in reqs[r].left :
       /\ reqs' = [reqs EXCEPT ![r].left = @ \ {t}]
       /\ queue' = Append(queue, [req |-> r, target |-> t])
       /\ offered' = offered \cup {[req |-> r, target |-> t]}
  /\ UNCHANGED <<notifications, next, workVars, stopping>>

\* One round of Dispatch's loop: the task is queued or silently dropped.
Dispatch(r) ==
  /\ reqs[r].at = "dispatch"
  /\ \E t \in reqs[r].left :
       LET task == [req |-> r, target |-> t]
       IN /\ reqs' = [reqs EXCEPT ![r].left = @ \ {t}]
          /\ queue' = IF Len(queue) < Capacity THEN Append(queue, task) ELSE queue
          /\ offered' = offered \cup {task}
  /\ UNCHANGED <<notifications, next, workVars, stopping>>

\* What PUT ?notification stores: queue and topic targets only, or no
\* configuration when there are none.  The webhook targets are gone whatever
\* it is sent.
putBucketNotification == {None, {}}

\* SetBucketNotification.  The targets come back when another setter writes
\* back a bucket record it has read before.
SetBucketNotification ==
  /\ \E cfg \in putBucketNotification \cup {Targets} : notifications' = cfg
  /\ UNCHANGED <<reqs, next, queue, workVars, stopping, offered>>

-----------------------------------------------------------------------------
(* The workers.                                                            *)

\* run: the select may pick a task even when stopCh is closed.
Take(w) ==
  /\ work[w] = Idle
  /\ queue # <<>>
  /\ work' = [work EXCEPT ![w] = Head(queue)]
  /\ attempt' = [attempt EXCEPT ![w] = 0]
  /\ queue' = Tail(queue)
  /\ UNCHANGED <<reqVars, posts, accepted, stopping, offered>>

\* Seeded fault: deliver does not return after an answer of 2xx.
KeepsTrying(w) ==
  /\ work[w] \in Tasks
  /\ posts' = [posts EXCEPT ![work[w]] = @ + 1]
  /\ \E ok \in BOOLEAN : accepted' = IF ok THEN accepted \cup {work[w]} ELSE accepted
  /\ attempt' = [attempt EXCEPT ![w] = @ + 1]
  /\ work' = IF attempt[w] + 1 = Attempts THEN [work EXCEPT ![w] = Idle] ELSE work
  /\ UNCHANGED <<reqVars, queue, stopping, offered>>

\* One round of deliver's loop, after the pause of attempt^2 seconds: the
\* POST ends within its timeout of 10 seconds, with an answer of 2xx or
\* without one.
tryDeliver(w) ==
  /\ work[w] \in Tasks
  /\ posts' = [posts EXCEPT ![work[w]] = @ + 1]
  /\ attempt' = [attempt EXCEPT ![w] = @ + 1]
  /\ \E ok \in BOOLEAN :
       /\ accepted' = IF ok THEN accepted \cup {work[w]} ELSE accepted
       /\ work' = IF ok \/ attempt[w] + 1 = Attempts
                  THEN [work EXCEPT ![w] = Idle] ELSE work
  /\ UNCHANGED <<reqVars, queue, stopping, offered>>

Leave(w) ==
  /\ stopping # "no"
  /\ work[w] = Idle
  /\ work' = [work EXCEPT ![w] = Gone]
  /\ UNCHANGED <<reqVars, queue, attempt, posts, accepted, stopping, offered>>

\* Stop closes stopCh and waits for every worker.  Requests may still be
\* running and go on offering tasks that nobody will take.
Stop ==
  /\ stopping = "no"
  /\ stopping' = "closed"
  /\ UNCHANGED <<reqVars, queue, workVars, offered>>

\* Seeded fault: Stop returns without waiting.
StopsAtOnce ==
  /\ stopping = "closed"
  /\ stopping' = "done"
  /\ UNCHANGED <<reqVars, queue, workVars, offered>>

StopReturns ==
  /\ stopping = "closed"
  /\ \A w \in Workers : work[w] = Gone
  /\ stopping' = "done"
  /\ UNCHANGED <<reqVars, queue, workVars, offered>>

Worker(w) == Take(w) \/ tryDeliver(w) \/ Leave(w)

Next ==
  \/ Begin
  \/ SetBucketNotification
  \/ \E r \in Requests : ObjectChanged(r) \/ NoEvent(r) \/ Dispatch(r)
  \/ \E w \in Workers : Worker(w)
  \/ Stop \/ StopReturns

\* A goroutine that can run does, and a POST ends by its timeout.  Nothing
\* makes a client send requests or the program call Stop.
Fairness == \A w \in Workers : WF_vars(Worker(w))

Spec == Init /\ [][Next]_vars /\ Fairness

-----------------------------------------------------------------------------
(* Properties.                                                             *)

\* Every variable of Webhooks has its type; the channel never holds more
\* than its capacity.
TypeOK ==
  /\ notifications \in (SUBSET Targets) \cup {None}
  /\ reqs \in [Requests -> [event : Events \cup {None}, at : {"work", "dispatch", "done"},
                            cfg : (SUBSET Targets) \cup {None}, left : SUBSET Targets]]
  /\ next \in 1..(MaxRequests + 1)
  /\ queue \in Seq(Tasks) /\ Len(queue) <= Capacity
  /\ work \in [Workers -> Tasks \cup {Idle, Gone}]
  /\ attempt \in [Workers -> 0..Attempts]
  /\ stopping \in {"no", "closed", "done"}
  /\ offered \subseteq Tasks
  /\ posts \in [Tasks -> 0..Attempts]
  /\ accepted \subseteq offered

\* deliver: a task is posted at most three times over all workers, and never
\* again once its target has answered 2xx.
DeliveredOnce ==
  [][\A t \in Tasks : /\ posts'[t] <= Attempts
                      /\ t \in accepted => posts'[t] = posts[t]]_vars

\* WebhookDispatcher.Stop: once it has returned nothing is posted any more,
\* although tasks may be queued and requests still offer new ones.
StoppedIsQuiet == [][stopping = "done" => posts' = posts]_vars

Queue == INSTANCE TaskQueue WITH closed <- stopping # "no"

\* WebhookDispatcher implements the abstract queue, fairness included: a
\* task is taken at most once and in the order of the queue, every queued
\* task is taken and comes to an end while the dispatcher runs, and after
\* Stop every worker leaves.
ImplementsQueue == Queue!QSpec
=============================================================================
