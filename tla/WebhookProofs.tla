--------------------------- MODULE WebhookProofs ----------------------------
(***************************************************************************)
(* The dispatcher implements the queue (all but its fairness), posts no    *)
(* task more often than it should, and is quiet once it is stopped.  The   *)
(* argument: a task is named by a request that has begun and by a target   *)
(* it is done with (Numbered), so it is offered once; it is then in one    *)
(* place only, the channel or one worker (InOnePlace); and what has been   *)
(* posted of it follows from that place (Counted).                         *)
(***************************************************************************)
EXTENDS Webhooks, TLAPS

-----------------------------------------------------------------------------
(* The inductive invariant *)

\* A request that has begun has a number below next; a task is offered by a
\* request that walks the targets and has done with this one.
Numbered ==
  /\ \A r \in Requests : reqs[r].at # "done" => r < next
  /\ \A t \in offered : /\ t.req < next
                        /\ reqs[t.req].at # "work"
                        /\ reqs[t.req].at = "dispatch" => t.target \notin reqs[t.req].left

\* A task is queued once, or one worker has it.
InOnePlace ==
  /\ \A i \in 1..Len(queue) : queue[i] \in offered
  /\ \A i, j \in 1..Len(queue) : queue[i] = queue[j] => i = j
  /\ \A w \in Workers : work[w] \in Tasks =>
        /\ work[w] \in offered
        /\ \A i \in 1..Len(queue) : queue[i] # work[w]
        /\ \A v \in Workers : work[v] = work[w] => v = w

\* A task is posted by the worker that has it, once in every round, until it
\* is accepted.
Counted ==
  /\ \A t \in Tasks \ offered : posts[t] = 0
  /\ \A i \in 1..Len(queue) : posts[queue[i]] = 0 /\ queue[i] \notin accepted
  /\ \A w \in Workers : work[w] \in Tasks =>
        /\ attempt[w] < Attempts
        /\ posts[work[w]] = attempt[w]
        /\ work[w] \notin accepted

\* Stop has waited for the workers.
AllLeft == stopping = "done" => \A w \in Workers : work[w] = Gone

Inv == Numbered /\ InOnePlace /\ Counted /\ AllLeft

-----------------------------------------------------------------------------
(* The channel *)

\* What Take and Dispatch do to a channel.
LEMMA Channel ==
  ASSUME NEW S, NEW q \in Seq(S)
  PROVE  /\ q # <<>> =>
              /\ Tail(q) \in Seq(S) /\ Len(q) \in Nat /\ Len(q) > 0
              /\ Head(q) = q[1] /\ q[1] \in S
              /\ Len(Tail(q)) = Len(q) - 1
              /\ \A i \in 1..Len(Tail(q)) : i + 1 \in 2..Len(q) /\ Tail(q)[i] = q[i + 1]
         /\ \A x \in S :
              /\ Append(q, x) \in Seq(S)
              /\ Len(q) \in Nat /\ Len(Append(q, x)) = Len(q) + 1
              /\ \A i \in 1..Len(q) : Append(q, x)[i] = q[i]
              /\ Append(q, x)[Len(q) + 1] = x
OBVIOUS

-----------------------------------------------------------------------------
(* Types *)

LEMMA InitType == Init => TypeOK
<1> SUFFICES ASSUME Init PROVE TypeOK
    OBVIOUS
<1>1. reqs \in [Requests -> [event : Events \cup {None}, at : {"work", "dispatch", "done"},
                             cfg : (SUBSET Targets) \cup {None}, left : SUBSET Targets]]
    <2>1. [event |-> None, at |-> "done", cfg |-> None, left |-> {}]
            \in [event : Events \cup {None}, at : {"work", "dispatch", "done"},
                 cfg : (SUBSET Targets) \cup {None}, left : SUBSET Targets]
        OBVIOUS
    <2> QED BY <2>1 DEF Init
<1>2. next \in 1..(MaxRequests + 1)
    BY WebhookAssumption DEF Init
<1>3. queue \in Seq(Tasks) /\ Len(queue) <= Capacity
    BY WebhookAssumption DEF Init
<1> QED BY <1>1, <1>2, <1>3 DEF Init, TypeOK, Attempts

\* What a request is, and that it stays so when it moves on to its targets.
Kinds == [event : Events \cup {None}, at : {"work", "dispatch", "done"},
          cfg : (SUBSET Targets) \cup {None}, left : SUBSET Targets]

LEMMA RequestMoves ==
  ASSUME reqs \in [Requests -> Kinds], NEW r \in Requests, NEW m \in SUBSET Targets
  PROVE  /\ [reqs EXCEPT ![r].at = "dispatch", ![r].left = m] \in [Requests -> Kinds]
         /\ [reqs EXCEPT ![r].left = m] \in [Requests -> Kinds]
<1>1. \A x \in Kinds : /\ [x EXCEPT !.at = "dispatch", !.left = m] \in Kinds
                       /\ [x EXCEPT !.left = m] \in Kinds
  BY DEF Kinds
<1> QED BY <1>1

LEMMA TypeStep == TypeOK /\ InOnePlace /\ Counted /\ [Next]_vars => TypeOK'
<1> SUFFICES ASSUME TypeOK, InOnePlace, Counted, [Next]_vars PROVE TypeOK'
    OBVIOUS
<1> USE WebhookAssumption DEF TypeOK, reqVars, workVars, Attempts
<1>1. CASE Begin
    <2>1. PICK e \in Events :
             reqs' = [reqs EXCEPT ![next] = [event |-> e, at |-> "work",
                                             cfg |-> notifications, left |-> {}]]
        BY <1>1 DEF Begin
    <2>2. [event |-> e, at |-> "work", cfg |-> notifications, left |-> {}]
            \in [event : Events \cup {None}, at : {"work", "dispatch", "done"},
                 cfg : (SUBSET Targets) \cup {None}, left : SUBSET Targets]
        OBVIOUS
    <2>3. next' \in 1..(MaxRequests + 1)
        BY <1>1 DEF Begin
    <2> QED BY <1>1, <2>1, <2>2, <2>3 DEF Begin
<1>2. CASE SetBucketNotification
    <2>1. notifications' \in (SUBSET Targets) \cup {None}
        BY <1>2 DEF SetBucketNotification, putBucketNotification
    <2>2. UNCHANGED <<reqs, next, queue, work, attempt, posts, accepted, stopping, offered>>
        BY <1>2 DEF SetBucketNotification
    <2> QED BY <2>1, <2>2
<1>3. ASSUME NEW r \in Requests, ObjectChanged(r) PROVE TypeOK'
    <2> DEFINE matching == eventMatchesTarget(reqs[r].cfg, reqs[r].event)
    <2>1. reqs[r].cfg \in (SUBSET Targets) \cup {None}
        OBVIOUS
    <2>2. matching \in SUBSET Targets
        BY <2>1 DEF eventMatchesTarget
    <2>3. reqs' = [reqs EXCEPT ![r].at = "dispatch", ![r].left = matching]
        BY <1>3 DEF ObjectChanged
    <2> HIDE DEF matching
    <2>4. reqs' \in [Requests ->
                        [event : Events \cup {None}, at : {"work", "dispatch", "done"},
                         cfg : (SUBSET Targets) \cup {None}, left : SUBSET Targets]]
        BY <2>2, <2>3, RequestMoves DEF Kinds
    <2> QED BY <1>3, <2>4 DEF ObjectChanged
<1>4. ASSUME NEW r \in Requests, NoEvent(r) PROVE TypeOK'
    BY <1>4 DEF NoEvent
<1>5. ASSUME NEW r \in Requests, Dispatch(r) PROVE TypeOK'
    <2>1. PICK t \in reqs[r].left :
             LET task == [req |-> r, target |-> t]
             IN /\ reqs' = [reqs EXCEPT ![r].left = @ \ {t}]
                /\ queue' = IF Len(queue) < Capacity THEN Append(queue, task) ELSE queue
                /\ offered' = offered \cup {task}
        BY <1>5 DEF Dispatch
    <2> DEFINE task == [req |-> r, target |-> t]
    <2>2. task \in Tasks
        BY DEF Tasks
    <2>3. queue' \in Seq(Tasks) /\ Len(queue') <= Capacity
        <3> HIDE DEF task
        <3>1. queue' = IF Len(queue) < Capacity THEN Append(queue, task) ELSE queue
            BY <2>1 DEF task
        <3> QED BY <3>1, <2>2, Channel
    <2>4. reqs' \in [Requests ->
                        [event : Events \cup {None}, at : {"work", "dispatch", "done"},
                         cfg : (SUBSET Targets) \cup {None}, left : SUBSET Targets]]
        <3>1. reqs' = [reqs EXCEPT ![r].left = reqs[r].left \ {t}]
            BY <2>1
        <3>2. reqs[r].left \ {t} \in SUBSET Targets
            OBVIOUS
        <3> QED BY <3>1, <3>2, RequestMoves DEF Kinds
    <2>5. offered' \subseteq Tasks
        BY <2>1, <2>2
    <2> QED BY <1>5, <2>3, <2>4, <2>5 DEF Dispatch
<1>6. ASSUME NEW w \in Workers, Take(w) PROVE TypeOK'
    <2>1. Head(queue) \in Tasks /\ Tail(queue) \in Seq(Tasks)
          /\ Len(Tail(queue)) <= Capacity
        BY <1>6, Channel DEF Take
    <2> QED BY <1>6, <2>1 DEF Take
<1>7. ASSUME NEW w \in Workers, tryDeliver(w) PROVE TypeOK'
    <2>1. attempt[w] \in 0..2 /\ posts[work[w]] = attempt[w] /\ work[w] \in offered
        BY <1>7 DEF tryDeliver, InOnePlace, Counted
    <2> QED BY <1>7, <2>1 DEF tryDeliver
<1>8. ASSUME NEW w \in Workers, Leave(w) PROVE TypeOK'
    BY <1>8 DEF Leave
<1>9. CASE Stop \/ StopReturns
    BY <1>9 DEF Stop, StopReturns
<1>10. CASE UNCHANGED vars
    BY <1>10 DEF vars
<1> QED BY <1>1, <1>2, <1>3, <1>4, <1>5, <1>6, <1>7, <1>8, <1>9, <1>10 DEF Next, Worker

-----------------------------------------------------------------------------
(* Requests and what they have offered *)

\* Dispatch offers a task that nobody has offered, and has done with it.
LEMMA DispatchOffers ==
  ASSUME TypeOK, Numbered, NEW r \in Requests, Dispatch(r)
  PROVE  \E task \in Tasks :
            /\ task \notin offered /\ task.req = r
            /\ offered' = offered \cup {task}
            /\ queue' = IF Len(queue) < Capacity THEN Append(queue, task) ELSE queue
            /\ reqs' = [reqs EXCEPT ![r].left = @ \ {task.target}]
            /\ UNCHANGED <<notifications, next, work, attempt, posts, accepted, stopping>>
<1>1. PICK t \in reqs[r].left :
         LET task == [req |-> r, target |-> t]
         IN /\ reqs' = [reqs EXCEPT ![r].left = @ \ {t}]
            /\ queue' = IF Len(queue) < Capacity THEN Append(queue, task) ELSE queue
            /\ offered' = offered \cup {task}
  BY DEF Dispatch
<1> DEFINE task == [req |-> r, target |-> t]
<1>2. task \in Tasks /\ task.req = r /\ task.target = t
  BY DEF Tasks, TypeOK
<1>3. task \notin offered
  BY <1>1, <1>2 DEF Numbered, Dispatch
<1>4. UNCHANGED <<notifications, next, work, attempt, posts, accepted, stopping>>
  BY DEF Dispatch, workVars
<1> QED BY <1>1, <1>2, <1>3, <1>4

LEMMA NumberedStep == TypeOK /\ Numbered /\ [Next]_vars => Numbered'
<1> SUFFICES ASSUME TypeOK, Numbered, [Next]_vars PROVE Numbered'
  OBVIOUS
<1> USE DEF TypeOK, reqVars, workVars
<1>0. \A t \in offered : t \in Tasks /\ t.req \in Requests /\ t.target \in Targets
  BY DEF Tasks
<1>1. CASE Begin
  <2>1. /\ next \in Requests /\ next' = next + 1 /\ offered' = offered
        /\ reqs'[next].at = "work"
        /\ \A r \in Requests \ {next} : reqs'[r] = reqs[r]
    BY <1>1, WebhookAssumption DEF Begin, Requests
  <2>2. \A t \in offered : t.req # next /\ t.req < next /\ t.req \in Nat
    BY <1>0 DEF Numbered, Requests
  <2>3. ASSUME NEW r \in Requests, reqs'[r].at # "done" PROVE r < next'
    BY <2>1, <2>3 DEF Numbered, Requests
  <2>4. \A t \in offered : t.req < next'
    BY <2>1, <2>2
  <2> QED BY <1>0, <2>1, <2>2, <2>3, <2>4 DEF Numbered
<1>2. CASE SetBucketNotification
  BY <1>2 DEF SetBucketNotification, Numbered
<1>3. ASSUME NEW r \in Requests, ObjectChanged(r) PROVE Numbered'
  <2>1. /\ reqs[r].at = "work" /\ offered' = offered /\ next' = next
        /\ reqs'[r].at = "dispatch"
        /\ \A q \in Requests \ {r} : reqs'[q] = reqs[q]
    BY <1>3 DEF ObjectChanged
  <2> QED BY <1>0, <2>1 DEF Numbered
<1>4. ASSUME NEW r \in Requests, NoEvent(r) PROVE Numbered'
  <2>1. /\ reqs[r].at = "work" /\ offered' = offered /\ next' = next
        /\ reqs'[r].at = "done"
        /\ \A q \in Requests \ {r} : reqs'[q] = reqs[q]
    BY <1>4 DEF NoEvent
  <2> QED BY <1>0, <2>1 DEF Numbered
<1>5. ASSUME NEW r \in Requests, Dispatch(r) PROVE Numbered'
  <2>1. PICK task \in Tasks :
          /\ task \notin offered /\ task.req = r
          /\ offered' = offered \cup {task}
          /\ reqs' = [reqs EXCEPT ![r].left = @ \ {task.target}]
          /\ UNCHANGED next
    BY <1>5, DispatchOffers
  <2>2. /\ reqs[r].at = "dispatch" /\ reqs'[r].at = "dispatch"
        /\ reqs'[r].left = reqs[r].left \ {task.target}
        /\ \A q \in Requests \ {r} : reqs'[q] = reqs[q]
    BY <1>5, <2>1 DEF Dispatch
  <2>3. \A q \in Requests : reqs'[q].at = reqs[q].at /\ reqs'[q].left \subseteq reqs[q].left
    BY <2>2
  <2> QED BY <1>0, <2>1, <2>2, <2>3 DEF Numbered
<1>6. ASSUME NEW w \in Workers, Worker(w) PROVE Numbered'
  BY <1>6 DEF Worker, Take, tryDeliver, Leave, Numbered
<1>7. CASE Stop \/ StopReturns
  BY <1>7 DEF Stop, StopReturns, Numbered
<1>8. CASE UNCHANGED vars
  BY <1>8 DEF vars, Numbered
<1> QED BY <1>1, <1>2, <1>3, <1>4, <1>5, <1>6, <1>7, <1>8 DEF Next

-----------------------------------------------------------------------------
(* A task is in one place *)

LEMMA OnePlaceStep == TypeOK /\ Numbered /\ InOnePlace /\ [Next]_vars => InOnePlace'
<1> SUFFICES ASSUME TypeOK, Numbered, InOnePlace, [Next]_vars PROVE InOnePlace'
  OBVIOUS
<1> USE DEF TypeOK, reqVars, workVars
<1>1. CASE UNCHANGED <<queue, work, offered>>
  BY <1>1 DEF InOnePlace
<1>2. ASSUME NEW r \in Requests, Dispatch(r) PROVE InOnePlace'
  <2>1. PICK task \in Tasks :
          /\ task \notin offered
          /\ offered' = offered \cup {task}
          /\ queue' = IF Len(queue) < Capacity THEN Append(queue, task) ELSE queue
          /\ UNCHANGED work
    BY <1>2, DispatchOffers
  <2>2. CASE Len(queue) < Capacity
    <3>1. /\ Len(queue) \in Nat /\ Len(queue') = Len(queue) + 1
          /\ \A i \in 1..Len(queue) : queue'[i] = queue[i]
          /\ queue'[Len(queue) + 1] = task
      BY <2>1, <2>2, Channel
    <3>2. \A i \in 1..Len(queue') : i \in 1..Len(queue) \/ i = Len(queue) + 1
      BY <3>1
    <3>3. \A w \in Workers : work[w] \in Tasks => work[w] # task
      BY <2>1 DEF InOnePlace
    <3>4. \A i \in 1..Len(queue) : queue[i] # task
      BY <2>1 DEF InOnePlace
    <3> QED BY <2>1, <3>1, <3>2, <3>3, <3>4 DEF InOnePlace
  <2>3. CASE ~(Len(queue) < Capacity)
    BY <2>1, <2>3 DEF InOnePlace
  <2> QED BY <2>2, <2>3
<1>3. ASSUME NEW w \in Workers, Take(w) PROVE InOnePlace'
  <2>1. /\ Len(queue) \in Nat /\ Len(queue) > 0 /\ Len(queue') = Len(queue) - 1
        /\ \A i \in 1..Len(queue') : i + 1 \in 2..Len(queue) /\ queue'[i] = queue[i + 1]
        /\ work'[w] = queue[1] /\ queue[1] \in Tasks
        /\ \A v \in Workers \ {w} : work'[v] = work[v]
        /\ offered' = offered
    BY <1>3, Channel DEF Take
  <2>2. 1 \in 1..Len(queue) /\ \A i \in 1..Len(queue') : i + 1 \in 1..Len(queue) /\ i + 1 # 1
    BY <2>1
  <2>3. ASSUME NEW i \in 1..Len(queue'), NEW j \in 1..Len(queue'), queue'[i] = queue'[j]
        PROVE  i = j
    <3>1. /\ i + 1 \in 1..Len(queue) /\ j + 1 \in 1..Len(queue)
          /\ queue[i + 1] = queue[j + 1]
      BY <2>1, <2>2, <2>3
    <3>2. i + 1 = j + 1
      BY <3>1 DEF InOnePlace
    <3> QED BY <3>2
  <2>4. \A i \in 1..Len(queue') : queue'[i] \in offered' /\ queue'[i] # work'[w]
    BY <2>1, <2>2 DEF InOnePlace
  <2>5. \A v \in Workers \ {w} : work[v] \in Tasks => work[v] # work'[w]
    BY <2>1, <2>2 DEF InOnePlace
  <2>6. \A v \in Workers \ {w} : work[v] \in Tasks =>
           \A i \in 1..Len(queue') : queue'[i] # work[v]
    BY <2>1, <2>2 DEF InOnePlace
  <2>7. work'[w] \in offered
    BY <2>1, <2>2 DEF InOnePlace
  <2>8. ASSUME NEW v \in Workers, work'[v] \in Tasks
        PROVE  /\ work'[v] \in offered'
               /\ \A i \in 1..Len(queue') : queue'[i] # work'[v]
               /\ \A u \in Workers : work'[u] = work'[v] => u = v
    <3>1. CASE v = w
      BY <3>1, <2>1, <2>4, <2>5, <2>7
    <3>2. CASE v # w
      BY <3>2, <2>8, <2>1, <2>5, <2>6 DEF InOnePlace
    <3> QED BY <3>1, <3>2
  <2> QED BY <2>3, <2>4, <2>8 DEF InOnePlace
<1>4. ASSUME NEW w \in Workers, tryDeliver(w) \/ Leave(w) PROVE InOnePlace'
  <2>1. /\ UNCHANGED <<queue, offered>>
        /\ \A v \in Workers \ {w} : work'[v] = work[v]
        /\ work'[w] \in Tasks => work'[w] = work[w]
    BY <1>4, WorkerAssumption DEF tryDeliver, Leave
  <2> QED BY <2>1 DEF InOnePlace
<1>5. \/ UNCHANGED <<queue, work, offered>>
      \/ \E r \in Requests : Dispatch(r)
      \/ \E w \in Workers : Take(w) \/ tryDeliver(w) \/ Leave(w)
  BY DEF Next, Worker, Begin, SetBucketNotification, ObjectChanged, NoEvent,
     Stop, StopReturns, vars
<1> QED BY <1>1, <1>2, <1>3, <1>4, <1>5

-----------------------------------------------------------------------------
(* What has been posted, and the end of the workers *)

LEMMA CountedStep ==
  TypeOK /\ Numbered /\ InOnePlace /\ Counted /\ [Next]_vars => Counted'
<1> SUFFICES ASSUME TypeOK, Numbered, InOnePlace, Counted, [Next]_vars PROVE Counted'
  OBVIOUS
<1> USE DEF TypeOK, reqVars, workVars
<1>1. CASE UNCHANGED <<queue, work, attempt, posts, accepted, offered>>
  BY <1>1 DEF Counted
<1>2. ASSUME NEW r \in Requests, Dispatch(r) PROVE Counted'
  <2>1. PICK task \in Tasks :
          /\ task \notin offered
          /\ offered' = offered \cup {task}
          /\ queue' = IF Len(queue) < Capacity THEN Append(queue, task) ELSE queue
          /\ UNCHANGED <<work, attempt, posts, accepted>>
    BY <1>2, DispatchOffers
  <2>2. posts[task] = 0 /\ task \notin accepted
    BY <2>1 DEF Counted
  <2>3. CASE Len(queue) < Capacity
    <3>1. /\ Len(queue) \in Nat /\ Len(queue') = Len(queue) + 1
          /\ \A i \in 1..Len(queue) : queue'[i] = queue[i]
          /\ queue'[Len(queue) + 1] = task
      BY <2>1, <2>3, Channel
    <3>2. \A i \in 1..Len(queue') : i \in 1..Len(queue) \/ i = Len(queue) + 1
      BY <3>1
    <3>3. ASSUME NEW i \in 1..Len(queue') PROVE posts[queue'[i]] = 0 /\ queue'[i] \notin accepted
      <4>1. CASE i \in 1..Len(queue)
        BY <3>1, <4>1 DEF Counted
      <4>2. CASE i = Len(queue) + 1
        BY <2>2, <3>1, <4>2
      <4> QED BY <3>2, <4>1, <4>2
    <3> QED BY <2>1, <3>3 DEF Counted
  <2>4. CASE ~(Len(queue) < Capacity)
    BY <2>1, <2>4 DEF Counted
  <2> QED BY <2>3, <2>4
<1>3. ASSUME NEW w \in Workers, Take(w) PROVE Counted'
  <2>1. /\ Len(queue) \in Nat /\ Len(queue) > 0 /\ Len(queue') = Len(queue) - 1
        /\ \A i \in 1..Len(queue') : i + 1 \in 2..Len(queue) /\ queue'[i] = queue[i + 1]
        /\ work'[w] = queue[1] /\ attempt'[w] = 0
        /\ \A v \in Workers \ {w} : work'[v] = work[v] /\ attempt'[v] = attempt[v]
        /\ UNCHANGED <<posts, accepted, offered>>
    BY <1>3, Channel DEF Take
  <2>2. 1 \in 1..Len(queue) /\ \A i \in 1..Len(queue') : i + 1 \in 1..Len(queue)
    BY <2>1
  <2>3. ASSUME NEW i \in 1..Len(queue')
        PROVE  posts[queue'[i]] = 0 /\ queue'[i] \notin accepted
    <3>1. posts[queue[i + 1]] = 0 /\ queue[i + 1] \notin accepted
      BY <2>2 DEF Counted
    <3> QED BY <2>1, <3>1
  <2>4. posts[work'[w]] = 0 /\ work'[w] \notin accepted
    <3>1. posts[queue[1]] = 0 /\ queue[1] \notin accepted
      BY <2>2 DEF Counted
    <3> QED BY <2>1, <3>1
  <2> QED BY <2>1, <2>3, <2>4 DEF Counted, Attempts
<1>4. ASSUME NEW w \in Workers, tryDeliver(w) PROVE Counted'
  <2> DEFINE t == work[w]
  <2>1. PICK ok \in BOOLEAN :
          /\ accepted' = IF ok THEN accepted \cup {t} ELSE accepted
          /\ work' = IF ok \/ attempt[w] + 1 = Attempts
                     THEN [work EXCEPT ![w] = Idle] ELSE work
    BY <1>4 DEF tryDeliver
  <2>2. /\ t \in Tasks /\ t \in offered /\ attempt[w] \in 0..2 /\ posts[t] = attempt[w]
        /\ \A i \in 1..Len(queue) : queue[i] # t
        /\ \A v \in Workers \ {w} : work[v] \in Tasks => work[v] # t
    BY <1>4 DEF tryDeliver, InOnePlace, Counted, Attempts
  <2>3. /\ posts'[t] = attempt[w] + 1 /\ attempt'[w] = attempt[w] + 1
        /\ \A u \in Tasks \ {t} : posts'[u] = posts[u]
        /\ \A v \in Workers \ {w} : work'[v] = work[v] /\ attempt'[v] = attempt[v]
        /\ UNCHANGED <<queue, offered>>
    BY <1>4, <2>1, <2>2 DEF tryDeliver
  <2>4. \A u \in Tasks \ {t} : u \in accepted' <=> u \in accepted
    BY <2>1
  <2>5. \A u \in Tasks \ offered' : posts'[u] = 0
    BY <2>2, <2>3 DEF Counted
  <2>6. \A i \in 1..Len(queue) : queue[i] \in Tasks \ {t}
    BY <2>2
  <2>7. \A i \in 1..Len(queue') : posts'[queue'[i]] = 0 /\ queue'[i] \notin accepted'
    BY <2>3, <2>4, <2>6 DEF Counted
  <2>8. \A v \in Workers \ {w} : work'[v] \in Tasks =>
           /\ attempt'[v] < Attempts
           /\ posts'[work'[v]] = attempt'[v]
           /\ work'[v] \notin accepted'
    BY <2>2, <2>3, <2>4 DEF Counted
  <2>9. ASSUME work'[w] \in Tasks
        PROVE  /\ attempt'[w] < Attempts
               /\ posts'[work'[w]] = attempt'[w]
               /\ work'[w] \notin accepted'
    <3>1. ~ok /\ attempt[w] + 1 # Attempts
      BY <2>1, <2>9, WorkerAssumption
    <3>2. work'[w] = t /\ accepted' = accepted
      BY <2>1, <3>1
    <3>3. t \notin accepted
      BY <2>2 DEF Counted
    <3> QED BY <2>2, <2>3, <3>1, <3>2, <3>3 DEF Attempts
  <2> QED BY <2>5, <2>7, <2>8, <2>9 DEF Counted
<1>5. ASSUME NEW w \in Workers, Leave(w) PROVE Counted'
  <2>1. /\ UNCHANGED <<queue, offered, attempt, posts, accepted>>
        /\ \A v \in Workers \ {w} : work'[v] = work[v]
        /\ work'[w] \notin Tasks
    BY <1>5, WorkerAssumption DEF Leave
  <2> QED BY <2>1 DEF Counted
<1>6. \/ UNCHANGED <<queue, work, attempt, posts, accepted, offered>>
      \/ \E r \in Requests : Dispatch(r)
      \/ \E w \in Workers : Take(w) \/ tryDeliver(w) \/ Leave(w)
  BY DEF Next, Worker, Begin, SetBucketNotification, ObjectChanged, NoEvent,
     Stop, StopReturns, vars
<1> QED BY <1>1, <1>2, <1>3, <1>4, <1>5, <1>6

LEMMA AllLeftStep == TypeOK /\ AllLeft /\ [Next]_vars => AllLeft'
<1> SUFFICES ASSUME TypeOK, AllLeft, [Next]_vars PROVE AllLeft'
  OBVIOUS
<1> USE WorkerAssumption DEF TypeOK, reqVars, workVars
<1>1. ASSUME NEW w \in Workers, Take(w) \/ tryDeliver(w) PROVE stopping' # "done"
  BY <1>1 DEF Take, tryDeliver, AllLeft
<1>2. ASSUME NEW w \in Workers, Leave(w) PROVE AllLeft'
  BY <1>2 DEF Leave, AllLeft
<1>3. CASE StopReturns
  BY <1>3 DEF StopReturns, AllLeft
<1>4. CASE Stop
  BY <1>4 DEF Stop, AllLeft
<1>5. CASE UNCHANGED <<work, stopping>>
  BY <1>5 DEF AllLeft
<1>6. \/ UNCHANGED <<work, stopping>> \/ Stop \/ StopReturns
      \/ \E w \in Workers : Take(w) \/ tryDeliver(w) \/ Leave(w)
  BY DEF Next, Worker, Begin, SetBucketNotification, ObjectChanged, NoEvent, Dispatch, vars
<1> QED BY <1>1, <1>2, <1>3, <1>4, <1>5, <1>6 DEF AllLeft

LEMMA InitInv == Init => Inv
<1> SUFFICES ASSUME Init PROVE Inv
  OBVIOUS
<1>1. Len(queue) = 0 /\ \A i \in 1..Len(queue) : FALSE
  BY DEF Init
<1>2. Numbered
  BY DEF Init, Numbered
<1>3. InOnePlace
  BY <1>1, WorkerAssumption DEF Init, InOnePlace
<1>4. Counted
  BY <1>1, WorkerAssumption DEF Init, Counted
<1>5. AllLeft
  BY DEF Init, AllLeft
<1> QED BY <1>2, <1>3, <1>4, <1>5 DEF Inv

LEMMA InvHolds == Spec => [](TypeOK /\ Inv)
<1>1. TypeOK /\ Inv /\ [Next]_vars => TypeOK' /\ Inv'
  BY TypeStep, NumberedStep, OnePlaceStep, CountedStep, AllLeftStep DEF Inv
<1> QED BY <1>1, InitType, InitInv, PTL DEF Spec

-----------------------------------------------------------------------------
(* The theorems *)

\* Every variable of Webhooks keeps its type; the channel never overflows.
THEOREM WebhookTypeCorrect == Spec => []TypeOK
BY InvHolds, PTL

\* deliver: no task is posted more than three times or after it was accepted,
\* however many workers there are.
THEOREM PostedOnce == Spec => DeliveredOnce
<1>1. TypeOK /\ Inv /\ TypeOK' /\ [Next]_vars =>
        [\A t \in Tasks : /\ posts'[t] <= Attempts
                          /\ t \in accepted => posts'[t] = posts[t]]_vars
  <2> SUFFICES ASSUME TypeOK, Inv, TypeOK', [Next]_vars, NEW t \in Tasks
               PROVE  posts'[t] <= Attempts /\ (t \in accepted => posts'[t] = posts[t])
    OBVIOUS
  <2>1. posts'[t] \in 0..Attempts
    BY DEF TypeOK
  <2>2. \/ UNCHANGED posts
        \/ \E w \in Workers : tryDeliver(w)
    BY DEF Next, Worker, Begin, SetBucketNotification, ObjectChanged, NoEvent, Dispatch,
       Take, Leave, Stop, StopReturns, vars, workVars
  <2>3. ASSUME NEW w \in Workers, tryDeliver(w), t \in accepted PROVE posts'[t] = posts[t]
    BY <2>3 DEF tryDeliver, Inv, Counted, TypeOK
  <2> QED BY <2>1, <2>2, <2>3 DEF Attempts
<1> QED BY <1>1, InvHolds, PTL DEF Spec, DeliveredOnce

\* WebhookDispatcher.Stop: nothing is posted any more once it has returned.
THEOREM QuietOnceStopped == Spec => StoppedIsQuiet
<1>1. TypeOK /\ Inv /\ [Next]_vars => [stopping = "done" => posts' = posts]_vars
  <2> SUFFICES ASSUME TypeOK, Inv, [Next]_vars, stopping = "done" PROVE posts' = posts
    OBVIOUS
  <2>1. \A w \in Workers : ~tryDeliver(w)
    BY WorkerAssumption DEF Inv, AllLeft, tryDeliver
  <2> QED BY <2>1 DEF Next, Worker, Begin, SetBucketNotification, ObjectChanged, NoEvent,
       Dispatch, Take, Leave, Stop, StopReturns, vars, workVars
<1> QED BY <1>1, InvHolds, PTL DEF Spec, StoppedIsQuiet

\* WebhookDispatcher implements the abstract queue: a step of the dispatcher
\* offers, takes or finishes one task, closes the queue, lets one worker
\* leave, or changes nothing the queue sees.
THEOREM DispatcherIsQueue == Spec => Queue!QSafety
<1>1. Init => Queue!QInit
  BY DEF Init, Queue!QInit
<1>2. TypeOK /\ Inv /\ [Next]_vars => [Queue!QNext]_(Queue!qvars)
  <2> SUFFICES ASSUME TypeOK, Inv, [Next]_vars PROVE [Queue!QNext]_(Queue!qvars)
    OBVIOUS
  <2> USE DEF reqVars, workVars
  <2>1. ASSUME NEW r \in Requests, Dispatch(r) PROVE Queue!QNext
    <3>1. PICK task \in Tasks :
            /\ task \notin offered
            /\ offered' = offered \cup {task}
            /\ queue' = IF Len(queue) < Capacity THEN Append(queue, task) ELSE queue
            /\ UNCHANGED <<work, stopping>>
      BY <2>1, DispatchOffers DEF Inv
    <3>2. Queue!Offer(task)
      BY <3>1 DEF Queue!Offer
    <3> QED BY <3>2 DEF Queue!QNext
  <2>2. ASSUME NEW w \in Workers, Take(w) PROVE Queue!QNext
    <3>1. Queue!Take(w)
      BY <2>2 DEF Take, Queue!Take
    <3> QED BY <3>1 DEF Queue!QNext
  <2>3. ASSUME NEW w \in Workers, tryDeliver(w) PROVE [Queue!QNext]_(Queue!qvars)
    <3>1. \/ work' = [work EXCEPT ![w] = Idle]
          \/ work' = work
      BY <2>3 DEF tryDeliver
    <3>2. work[w] \in Tasks /\ UNCHANGED <<offered, queue, stopping>>
      BY <2>3 DEF tryDeliver
    <3>3. CASE work' = [work EXCEPT ![w] = Idle]
      <4>1. Queue!Finish(w)
        BY <3>2, <3>3 DEF Queue!Finish
      <4> QED BY <4>1 DEF Queue!QNext
    <3>4. CASE work' = work
      BY <3>2, <3>4 DEF Queue!qvars
    <3> QED BY <3>1, <3>3, <3>4
  <2>4. ASSUME NEW w \in Workers, Leave(w) PROVE Queue!QNext
    <3>1. Queue!Leave(w)
      BY <2>4 DEF Leave, Queue!Leave
    <3> QED BY <3>1 DEF Queue!QNext
  <2>5. CASE Stop
    <3>1. Queue!Close
      BY <2>5 DEF Stop, Queue!Close
    <3> QED BY <3>1 DEF Queue!QNext
  <2>6. CASE StopReturns
    BY <2>6 DEF StopReturns, Queue!qvars
  <2>7. CASE UNCHANGED <<offered, queue, work, stopping>>
    BY <2>7 DEF Queue!qvars
  <2>8. \/ \E r \in Requests : Dispatch(r)
        \/ \E w \in Workers : Take(w) \/ tryDeliver(w) \/ Leave(w)
        \/ Stop \/ StopReturns
        \/ UNCHANGED <<offered, queue, work, stopping>>
    BY DEF Next, Worker, Begin, SetBucketNotification, ObjectChanged, NoEvent, vars
  <2> QED BY <2>1, <2>2, <2>3, <2>4, <2>5, <2>6, <2>7, <2>8
<1> QED BY <1>1, <1>2, InvHolds, PTL DEF Spec, Queue!QSafety
=============================================================================
