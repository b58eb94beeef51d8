------------------------------ MODULE Cluster ------------------------------
(***************************************************************************)
(* Leader election between the nodes of a cluster (internal/cluster).      *)
(*                                                                         *)
(* A node's runLoop is one goroutine; every heartbeat and every vote       *)
(* request is served by a goroutine of its own.  They share role, term and *)
(* leader under a mutex, and one critical section is one step.  runLoop    *)
(* reads the role in one critical section and acts on it in another;       *)
(* HandleVote compares the terms in one and grants in another.  Nothing is *)
(* written to disk.                                                        *)
(***************************************************************************)
EXTENDS Integers, FiniteSets

CONSTANTS
    Nodes,         \* the members; every node lists all others as Peers
    None,          \* no leader known, no vote requested
    MaxHandlers,   \* bound: vote requests one node serves at the same time
    MaxElections,  \* bound: election timers that fire with an effect
    MaxOutages     \* bound: restarts and stops

ASSUME ClusterAssumption ==
    /\ IsFiniteSet(Nodes) /\ None \notin Nodes
    /\ MaxHandlers \in Nat /\ MaxElections \in Nat /\ MaxOutages \in Nat

VARIABLES
    role, term, leader,  \* the fields of Node
    at,         \* where runLoop is: its select, or a step of a case
    todo,       \* the peers startElection has still to ask
    asking,     \* the peer RequestVote waits for
    votes,      \* the votes counted so far
    ballot,     \* the term startElection runs for
    requests,   \* vote requests and their state
    beats,      \* heartbeats on their way
    elections, outages  \* counters for the bounds

(***************************************************************************)
(* History: which voter granted which candidate which term, who won which  *)
(* term, and whether all has been orderly: no node was restarted, and what *)
(* HandleVote compared still held when it granted.                         *)
(***************************************************************************)
VARIABLES granted, won, orderly

node    == <<role, term, leader>>
loop    == <<at, todo, asking, votes, ballot>>
net     == <<requests, beats>>
bounds  == <<elections, outages>>
history == <<granted, won, orderly>>
vars    == <<node, loop, net, bounds, history>>

Peers(n) == Nodes \ {n}

\* A request is open while its candidate waits for the answer.
VoteRequest == [from : Nodes, to : Nodes, term : Nat,
                stage : {"sent", "granting", "granted"}, open : BOOLEAN]

Heartbeat == [to : Nodes, term : Nat, leader : Nodes]

TypeOK ==
    /\ role \in [Nodes -> {"leader", "follower", "candidate"}]
    /\ term \in [Nodes -> Nat]
    /\ leader \in [Nodes -> Nodes \cup {None}]
    /\ at \in [Nodes -> {"select", "beat", "elect", "ask", "stopped"}]
    /\ todo \in [Nodes -> SUBSET Nodes]
    /\ asking \in [Nodes -> Nodes \cup {None}]
    /\ votes \in [Nodes -> 0..Cardinality(Nodes)]
    /\ ballot \in [Nodes -> Nat]
    /\ requests \subseteq VoteRequest
    /\ beats \subseteq Heartbeat
    /\ elections \in Nat /\ outages \in Nat
    /\ granted \subseteq Nodes \X Nodes \X Nat
    /\ won \subseteq Nodes \X Nat
    /\ orderly \in BOOLEAN

\* A node without peers is its own leader and has no runLoop.
FirstRole(n) == IF Peers(n) = {} THEN "leader" ELSE "follower"
FirstLeader(n) == IF Peers(n) = {} THEN n ELSE None
FirstAt(n) == IF Peers(n) = {} THEN "stopped" ELSE "select"

Init ==
    /\ role = [n \in Nodes |-> FirstRole(n)]
    /\ term = [n \in Nodes |-> 0]
    /\ leader = [n \in Nodes |-> FirstLeader(n)]
    /\ at = [n \in Nodes |-> FirstAt(n)]
    /\ todo = [n \in Nodes |-> {}]
    /\ asking = [n \in Nodes |-> None]
    /\ votes = [n \in Nodes |-> 0]
    /\ ballot = [n \in Nodes |-> 0]
    /\ requests = {} /\ beats = {}
    /\ elections = 0 /\ outages = 0
    /\ granted = {} /\ won = {}
    /\ orderly = TRUE

-----------------------------------------------------------------------------
(* Heartbeats *)

\* Seeded fault: every node sends heartbeats.
EveryoneBeats(n) ==
    /\ at[n] = "select"
    /\ at' = [at EXCEPT ![n] = "beat"]
    /\ UNCHANGED <<node, todo, asking, votes, ballot, net, bounds, history>>

\* The ticker fires and the node sees itself as leader.
HeartbeatTick(n) ==
    /\ at[n] = "select"
    /\ role[n] = "leader"
    /\ at' = [at EXCEPT ![n] = "beat"]
    /\ UNCHANGED <<node, todo, asking, votes, ballot, net, bounds, history>>

\* POST to the peer's heartbeat endpoint; nobody looks at the answer.
SendHeartbeat(n, q) == [to |-> q, term |-> term[n], leader |-> n]

\* The term is read again; one goroutine per peer sends.
sendHeartbeats(n) ==
    /\ at[n] = "beat"
    /\ beats' = beats \cup {SendHeartbeat(n, q) : q \in Peers(n)}
    /\ at' = [at EXCEPT ![n] = "select"]
    /\ UNCHANGED <<node, todo, asking, votes, ballot, requests, bounds, history>>

\* A stale term is refused.  The election timer is not touched.
ReceiveHeartbeat(n, t, l) ==
    IF t < term[n] THEN UNCHANGED node
    ELSE /\ term' = [term EXCEPT ![n] = t]
         /\ leader' = [leader EXCEPT ![n] = l]
         /\ role' = [role EXCEPT ![n] = "follower"]

HandleHeartbeat(h) ==
    /\ beats' = beats \ {h}
    /\ ReceiveHeartbeat(h.to, h.term, h.leader)
    /\ UNCHANGED <<loop, requests, bounds, granted, won, orderly>>

-----------------------------------------------------------------------------
(* Elections *)

\* The timer fires; a leader only starts it again.
ElectionTimeout(n) ==
    /\ at[n] = "select"
    /\ IF role[n] = "leader"
       THEN UNCHANGED <<at, elections>>
       ELSE /\ elections < MaxElections
            /\ elections' = elections + 1
            /\ at' = [at EXCEPT ![n] = "elect"]
    /\ UNCHANGED <<node, todo, asking, votes, ballot, net, outages, granted, won,
                   orderly>>

startElection(n) ==
    /\ at[n] = "elect"
    /\ term' = [term EXCEPT ![n] = term[n] + 1]
    /\ role' = [role EXCEPT ![n] = "candidate"]
    /\ ballot' = [ballot EXCEPT ![n] = term[n] + 1]
    /\ votes' = [votes EXCEPT ![n] = 1]
    /\ todo' = [todo EXCEPT ![n] = Peers(n)]
    /\ at' = [at EXCEPT ![n] = "ask"]
    /\ UNCHANGED <<leader, asking, net, bounds, history>>

\* Seeded fault: a peer that was asked stays on the list.
AsksAgain(n) ==
    /\ at[n] = "ask" /\ asking[n] = None
    /\ \E q \in todo[n] :
          /\ requests' = requests \cup {[from |-> n, to |-> q,
                term |-> ballot[n], stage |-> "sent", open |-> TRUE]}
          /\ asking' = [asking EXCEPT ![n] = q]
    /\ UNCHANGED <<node, at, todo, votes, ballot, beats, bounds, history>>

\* One peer after the other is asked, each call waited for.
RequestVote(n) ==
    /\ at[n] = "ask" /\ asking[n] = None
    /\ \E q \in todo[n] :
          /\ requests' = requests \cup {[from |-> n, to |-> q,
                term |-> ballot[n], stage |-> "sent", open |-> TRUE]}
          /\ asking' = [asking EXCEPT ![n] = q]
          /\ todo' = [todo EXCEPT ![n] = todo[n] \ {q}]
    /\ UNCHANGED <<node, at, votes, ballot, beats, bounds, history>>

VoteGranted(n) ==
    /\ at[n] = "ask"
    /\ \E m \in requests :
          /\ m.from = n /\ m.to = asking[n] /\ m.stage = "granted" /\ m.open
          /\ requests' = requests \ {m}
    /\ votes' = [votes EXCEPT ![n] = votes[n] + 1]
    /\ asking' = [asking EXCEPT ![n] = None]
    /\ UNCHANGED <<node, at, todo, ballot, beats, bounds, history>>

\* The candidate's side of every request of n is gone.
Abandon(n) ==
    {[from |-> m.from, to |-> m.to, term |-> m.term, stage |-> m.stage,
      open |-> m.open /\ m.from # n] : m \in requests}

\* Refused, failed or timed out; the peer may still serve the request later.
VoteFails(n) ==
    /\ at[n] = "ask" /\ asking[n] # None
    /\ requests' = Abandon(n)
    /\ asking' = [asking EXCEPT ![n] = None]
    /\ UNCHANGED <<node, at, todo, votes, ballot, beats, bounds, history>>

\* Seeded fault: half of the nodes are enough.
Half(n) == (Cardinality(Peers(n)) + 1) \div 2

Majority(n) == (Cardinality(Peers(n)) + 1) \div 2 + 1

\* Seeded fault: a lost election leaves the candidate a candidate.
LoserStaysCandidate(n) ==
    /\ at[n] = "ask" /\ asking[n] = None /\ todo[n] = {}
    /\ IF votes[n] >= Majority(n) /\ role[n] = "candidate" /\ term[n] = ballot[n]
       THEN /\ role' = [role EXCEPT ![n] = "leader"]
            /\ leader' = [leader EXCEPT ![n] = n]
            /\ won' = won \cup {<<n, ballot[n]>>}
       ELSE UNCHANGED <<role, leader, won>>
    /\ at' = [at EXCEPT ![n] = "select"]
    /\ UNCHANGED <<term, todo, asking, votes, ballot, net, bounds, granted, orderly>>

\* The end of startElection, and the restart of the timer after it.
CountVotes(n) ==
    /\ at[n] = "ask" /\ asking[n] = None /\ todo[n] = {}
    /\ IF votes[n] >= Majority(n) /\ role[n] = "candidate" /\ term[n] = ballot[n]
       THEN /\ role' = [role EXCEPT ![n] = "leader"]
            /\ leader' = [leader EXCEPT ![n] = n]
            /\ won' = won \cup {<<n, ballot[n]>>}
       ELSE /\ role' = [role EXCEPT ![n] = IF role[n] = "candidate"
                                           THEN "follower" ELSE role[n]]
            /\ UNCHANGED <<leader, won>>
    /\ at' = [at EXCEPT ![n] = "select"]
    /\ UNCHANGED <<term, todo, asking, votes, ballot, net, bounds, granted, orderly>>

-----------------------------------------------------------------------------
(* HandleVote: compare under the read lock, grant under the write lock *)

Serving(n) == {m \in requests : m.to = n /\ m.stage = "granting"}

At(m, stage) == [from |-> m.from, to |-> m.to, term |-> m.term,
                 stage |-> stage, open |-> m.open]

\* A refusal reaches the candidate as VoteFails.
CompareTerms(m) ==
    /\ m.stage = "sent"
    /\ Cardinality(Serving(m.to)) < MaxHandlers
    /\ requests' = (requests \ {m})
          \cup IF m.term > term[m.to] THEN {At(m, "granting")} ELSE {}
    /\ UNCHANGED <<node, loop, beats, bounds, history>>

\* Seeded fault: a vote does not raise the voter's term.
TermNotRaised(m) ==
    /\ m.stage = "granting"
    /\ role' = [role EXCEPT ![m.to] = "follower"]
    /\ requests' = (requests \ {m}) \cup IF m.open THEN {At(m, "granted")} ELSE {}
    /\ granted' = granted \cup {<<m.to, m.from, m.term>>}
    /\ orderly' = (orderly /\ m.term > term[m.to])
    /\ UNCHANGED <<term, leader, loop, beats, bounds, won>>

\* The terms are not compared again.
GrantVote(m) ==
    /\ m.stage = "granting"
    /\ term' = [term EXCEPT ![m.to] = m.term]
    /\ role' = [role EXCEPT ![m.to] = "follower"]
    /\ requests' = (requests \ {m}) \cup IF m.open THEN {At(m, "granted")} ELSE {}
    /\ granted' = granted \cup {<<m.to, m.from, m.term>>}
    /\ orderly' = (orderly /\ m.term > term[m.to])
    /\ UNCHANGED <<leader, loop, beats, bounds, won>>

-----------------------------------------------------------------------------
(* Failures *)

\* The process is restarted: New and Start, with term 0 again.
Restart(n) ==
    /\ outages < MaxOutages
    /\ outages' = outages + 1
    /\ role' = [role EXCEPT ![n] = FirstRole(n)]
    /\ term' = [term EXCEPT ![n] = 0]
    /\ leader' = [leader EXCEPT ![n] = FirstLeader(n)]
    /\ at' = [at EXCEPT ![n] = FirstAt(n)]
    /\ todo' = [todo EXCEPT ![n] = {}]
    /\ asking' = [asking EXCEPT ![n] = None]
    /\ votes' = [votes EXCEPT ![n] = 0]
    /\ ballot' = [ballot EXCEPT ![n] = 0]
    /\ requests' = {m \in Abandon(n) : m.to # n \/ m.stage = "sent"}
    /\ orderly' = FALSE
    /\ UNCHANGED <<beats, elections, granted, won>>

\* runLoop returns; the handlers go on answering.
Stop(n) ==
    /\ at[n] = "select"
    /\ outages < MaxOutages
    /\ outages' = outages + 1
    /\ at' = [at EXCEPT ![n] = "stopped"]
    /\ UNCHANGED <<node, todo, asking, votes, ballot, net, elections, history>>

-----------------------------------------------------------------------------
\* runLoop between two selects: no outside event is needed for it to go on.
Loop(n) ==
    \/ sendHeartbeats(n) \/ startElection(n) \/ RequestVote(n)
    \/ VoteGranted(n) \/ VoteFails(n) \/ CountVotes(n)

\* Nothing obliges a message to be delivered: a lost one stays in the set for
\* ever, and VoteFails ends the wait of whoever asked.
Next ==
    \/ \E n \in Nodes : \/ HeartbeatTick(n) \/ ElectionTimeout(n) \/ Loop(n)
                        \/ Restart(n) \/ Stop(n)
    \/ \E h \in beats : HandleHeartbeat(h)
    \/ \E m \in requests : CompareTerms(m) \/ GrantVote(m)

\* A running goroutine is scheduled, and RequestVote returns within the two
\* seconds of the HTTP client's timeout.  Timers and messages are not fair.
Fairness == \A n \in Nodes : WF_vars(Loop(n))

Spec == Init /\ [][Next]_vars /\ Fairness

-----------------------------------------------------------------------------
(* Properties *)

\* A node is leader of a term only if more than half of the nodes, itself
\* included, granted it that term (startElection counts every vote once),
\* whatever is lost, delayed or restarted.
LeaderHasMajority ==
    \A n \in Nodes :
        role[n] = "leader" /\ Peers(n) # {} =>
            2 * Cardinality({n} \cup {v \in Nodes : <<v, n, term[n]>> \in granted})
                > Cardinality(Nodes)

\* The leader a node reports (Leader, GET /admin/v1/cluster/status) has won an
\* election: no heartbeat is ever sent by a node that was not elected.
ReportedLeaderWasElected ==
    \A n \in Nodes : leader[n] # None /\ Peers(n) # {} =>
        \E t \in 0..elections : <<leader[n], t>> \in won

\* Two nodes are leader of the same term at the same time only if they are one.
OneLeaderPerTerm ==
    \A m, n \in Nodes :
        role[m] = "leader" /\ role[n] = "leader" /\ term[m] = term[n] => m = n

\* "RoleLeader means this node is the current cluster leader".  Two leaders of
\* one term take a restarted node, or a vote that HandleVote grants on a
\* comparison that no longer holds: otherwise requests may overlap, get lost
\* and arrive late, and a term has one leader.
OneLeaderIfOrderly == orderly => OneLeaderPerTerm

\* Every election is decided: no node stays a candidate for ever.
ElectionEnds ==
    \A n \in Nodes : role[n] = "candidate" ~> role[n] # "candidate"
=============================================================================
