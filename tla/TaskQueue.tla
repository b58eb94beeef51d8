----------------------------- MODULE TaskQueue -----------------------------
(***************************************************************************)
(* What the background queues of the storage engine promise, without       *)
(* saying what a task does.  A bounded queue takes a task or loses it, a   *)
(* pool of workers takes tasks in the order in which they were queued, and *)
(* each task is taken at most once.  After the queue is closed a worker    *)
(* may still take a task; sooner or later every worker leaves.  The        *)
(* webhook dispatcher (Webhooks) and the replication worker (Replication)  *)
(* both implement this specification.                                      *)
(***************************************************************************)
EXTENDS Naturals, Sequences

CONSTANTS
  Tasks,      \* every task that may be offered
  Workers,    \* the goroutines of the pool
  Capacity,   \* the capacity of the channel
  Idle,       \* a worker waiting in its select
  Gone        \* a worker that has returned

VARIABLES
  offered,    \* the tasks offered so far, queued or lost
  queue,      \* the channel
  work,       \* what each worker does: a task, Idle or Gone
  closed      \* stopCh is closed

qvars == <<offered, queue, work, closed>>

QInit ==
  /\ offered = {}
  /\ queue = <<>>
  /\ work = [w \in Workers |-> Idle]
  /\ closed = FALSE

\* A task is offered once; it is lost when the channel is full.
Offer(t) ==
  /\ t \notin offered
  /\ offered' = offered \cup {t}
  /\ queue' = IF Len(queue) < Capacity THEN Append(queue, t) ELSE queue
  /\ UNCHANGED <<work, closed>>

Take(w) ==
  /\ work[w] = Idle
  /\ queue # <<>>
  /\ work' = [work EXCEPT ![w] = Head(queue)]
  /\ queue' = Tail(queue)
  /\ UNCHANGED <<offered, closed>>

Finish(w) ==
  /\ work[w] \in Tasks
  /\ work' = [work EXCEPT ![w] = Idle]
  /\ UNCHANGED <<offered, queue, closed>>

Close ==
  /\ ~closed
  /\ closed' = TRUE
  /\ UNCHANGED <<offered, queue, work>>

Leave(w) ==
  /\ closed
  /\ work[w] = Idle
  /\ work' = [work EXCEPT ![w] = Gone]
  /\ UNCHANGED <<offered, queue, closed>>

QNext ==
  \/ \E t \in Tasks : Offer(t)
  \/ \E w \in Workers : Take(w) \/ Finish(w) \/ Leave(w)
  \/ Close

\* The specification without its fairness.
QSafety == QInit /\ [][QNext]_qvars

\* A worker that can take a task or leave does so, and every task comes to
\* an end.
QFairness ==
  \A w \in Workers : WF_qvars(Take(w) \/ Leave(w)) /\ WF_qvars(Finish(w))

QSpec == QSafety /\ QFairness
=============================================================================
