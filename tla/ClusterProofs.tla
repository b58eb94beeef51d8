--------------------------- MODULE ClusterProofs ---------------------------
(***************************************************************************)
(* Proofs about the leader election of Cluster, for every set of nodes and *)
(* every bound.  The inductive invariant has four parts: how runLoop       *)
(* counts votes (Counting), what a vote request on its way stands for      *)
(* (Requested), who has won an election (Elected), and what every voter    *)
(* remembers while all is orderly (VotesOnce).                             *)
(***************************************************************************)
EXTENDS Cluster, FiniteSetTheorems, TLAPS

\* The peers whose votes startElection has counted, or given up on: they
\* have been asked, and the answer is not awaited any more.
Voters(n) == {v \in Peers(n) \ todo[n] : v # asking[n] /\ <<v, n, ballot[n]>> \in granted}

\* A peer is on the list, being waited for, or done with; no vote is counted
\* that was not granted.
Counts(n) ==
    /\ todo[n] \subseteq Peers(n)
    /\ asking[n] # None => at[n] = "ask" /\ asking[n] \in Peers(n) \ todo[n]
    /\ at[n] = "ask" => votes[n] <= 1 + Cardinality(Voters(n))
    /\ Peers(n) = {} => at[n] = "stopped"

Counting == \A n \in Nodes : Counts(n)

\* The one request a candidate waits for asks for the term it runs for; a
\* request is answered "granted" only after the vote was granted.
Requested ==
    /\ \A m \in requests : m.open => /\ m.to = asking[m.from]
                                     /\ m.term = ballot[m.from]
    /\ \A l, m \in requests : l.open /\ m.open /\ l.from = m.from => l = m
    /\ \A m \in requests : m.stage = "granted" => <<m.to, m.from, m.term>> \in granted

\* The nodes about to start an election that is counted already.
Electing == {n \in Nodes : at[n] = "elect"}

\* There have been enough elections for term t and for those about to start.
Reached(t) == t + Cardinality(Electing) <= elections

HasWon(n) == \E t \in 0..elections : <<n, t>> \in won

\* Terms come from elections, heartbeats from nodes that won one.
Elected ==
    /\ Reached(0)
    /\ \A n \in Nodes : Reached(term[n]) /\ Reached(ballot[n])
    /\ \A m \in requests : Reached(m.term)
    /\ \A h \in beats : Reached(h.term) /\ HasWon(h.leader)
    /\ \A n \in Nodes : at[n] = "beat" => HasWon(n)
    /\ \A n \in Nodes : Peers(n) # {} =>
          /\ role[n] = "leader" => HasWon(n)
          /\ leader[n] # None => HasWon(leader[n])

\* Nodes that never lose their memory grant a term once, and not if they
\* stand for it themselves.
VotesOnce ==
    orderly =>
        /\ \A v, a \in Nodes, t \in Nat : <<v, a, t>> \in granted => t <= term[v]
        /\ \A v, a, b \in Nodes, t \in Nat :
              <<v, a, t>> \in granted /\ <<v, b, t>> \in granted => a = b
        /\ \A n \in Nodes : at[n] = "ask" =>
              /\ ballot[n] <= term[n]
              /\ \A a \in Nodes : <<n, a, ballot[n]>> \notin granted
        /\ \A n \in Nodes : role[n] = "leader" =>
              \A a \in Nodes : <<n, a, term[n]>> \notin granted

\* The inductive invariant.
Inv == Counting /\ Requested /\ Elected /\ LeaderHasMajority /\ VotesOnce

-----------------------------------------------------------------------------
(* Counting peers *)

\* Every other node is a peer.
LEMMA PeersCount ==
    ASSUME NEW n \in Nodes
    PROVE  /\ IsFiniteSet(Peers(n))
           /\ Cardinality(Nodes) \in Nat /\ Cardinality(Peers(n)) \in Nat
           /\ Cardinality(Peers(n)) + 1 = Cardinality(Nodes)
<1>1. IsFiniteSet(Nodes) /\ Cardinality(Nodes) \in Nat
    BY ClusterAssumption, FS_CardinalityType
<1>2. IsFiniteSet(Peers(n)) /\ Cardinality(Peers(n)) = Cardinality(Nodes) - 1
    BY <1>1, FS_RemoveElement DEF Peers
<1>3. Cardinality(Peers(n)) \in Nat
    BY <1>2, FS_CardinalityType
<1> QED BY <1>1, <1>2, <1>3

\* A set of peers together with the node itself.
LEMMA WithSelf ==
    ASSUME NEW n \in Nodes, NEW S \in SUBSET Peers(n)
    PROVE  /\ IsFiniteSet(S) /\ Cardinality(S) \in Nat
           /\ Cardinality(S) <= Cardinality(Peers(n))
           /\ Cardinality({n} \cup S) = Cardinality(S) + 1
<1>1. IsFiniteSet(S) /\ Cardinality(S) <= Cardinality(Peers(n))
    BY PeersCount, FS_Subset
<1>2. n \notin S
    BY DEF Peers
<1> QED BY <1>1, <1>2, FS_AddElement, FS_CardinalityType, PeersCount

\* The bound that TypeOK puts on votes.
LEMMA VotesBound ==
    ASSUME TypeOK, Counting, NEW n \in Nodes, at[n] = "ask", asking[n] # None
    PROVE  votes[n] + 1 \in 0..Cardinality(Nodes)
<1> DEFINE q == asking[n]
<1>1. q \in Peers(n) /\ q \notin Voters(n)
    BY DEF Counting, Counts, Voters
<1>2. Voters(n) \cup {q} \subseteq Peers(n)
    BY <1>1 DEF Voters
<1>3. /\ IsFiniteSet(Voters(n)) /\ Cardinality(Voters(n)) \in Nat
      /\ Cardinality(Voters(n) \cup {q}) <= Cardinality(Peers(n))
    BY <1>2, WithSelf
<1>4. Cardinality(Voters(n) \cup {q}) = Cardinality(Voters(n)) + 1
    BY <1>1, <1>3, FS_AddElement
<1>5. votes[n] <= 1 + Cardinality(Voters(n)) /\ votes[n] \in Nat
    BY DEF Counting, Counts, TypeOK
<1> QED BY <1>3, <1>4, <1>5, PeersCount

-----------------------------------------------------------------------------
(* Type correctness *)

LEMMA InitType == Init => TypeOK
<1>1. Cardinality(Nodes) \in Nat
    BY ClusterAssumption, FS_CardinalityType
<1> QED BY <1>1 DEF Init, TypeOK, FirstRole, FirstLeader, FirstAt

\* A closed request is still a request.
LEMMA AbandonType ==
    ASSUME requests \subseteq VoteRequest, NEW n \in Nodes
    PROVE  Abandon(n) \subseteq VoteRequest
<1> SUFFICES ASSUME NEW m \in requests
             PROVE  [from |-> m.from, to |-> m.to, term |-> m.term, stage |-> m.stage,
                     open |-> m.open /\ m.from # n] \in VoteRequest
    BY DEF Abandon
<1>1. m \in VoteRequest
    OBVIOUS
<1>2. (m.open /\ m.from # n) \in BOOLEAN
    OBVIOUS
<1> QED BY <1>1, <1>2 DEF VoteRequest

\* Every step keeps the types; the count of votes needs Counting.
LEMMA TypeStep == TypeOK /\ Counting /\ [Next]_vars => TypeOK'
<1> SUFFICES ASSUME TypeOK, Counting, [Next]_vars PROVE TypeOK'
    OBVIOUS
<1>0. ASSUME NEW n \in Nodes
      PROVE  /\ Cardinality(Nodes) \in Nat /\ Cardinality(Nodes) >= 1
             /\ Peers(n) \subseteq Nodes
    <2>1. Peers(n) \subseteq Nodes
        BY DEF Peers
    <2> QED BY <2>1, PeersCount
<1> USE <1>0 DEF TypeOK
<1>1. ASSUME NEW n \in Nodes, HeartbeatTick(n) \/ Stop(n) PROVE TypeOK'
    BY <1>1 DEF HeartbeatTick, Stop, node, net, bounds, history
<1>2. ASSUME NEW n \in Nodes, ElectionTimeout(n) PROVE TypeOK'
    BY <1>2 DEF ElectionTimeout, node, net
<1>3. ASSUME NEW n \in Nodes, sendHeartbeats(n) PROVE TypeOK'
    BY <1>3 DEF sendHeartbeats, SendHeartbeat, Heartbeat, node, bounds, history
<1>4. ASSUME NEW n \in Nodes, startElection(n) PROVE TypeOK'
    BY <1>4 DEF startElection, net, bounds, history
<1>5. ASSUME NEW n \in Nodes, RequestVote(n) PROVE TypeOK'
    <2>1. PICK q \in todo[n] :
             /\ requests' = requests \cup {[from |-> n, to |-> q, term |-> ballot[n],
                                           stage |-> "sent", open |-> TRUE]}
             /\ asking' = [asking EXCEPT ![n] = q]
             /\ todo' = [todo EXCEPT ![n] = todo[n] \ {q}]
        BY <1>5 DEF RequestVote
    <2>2. [from |-> n, to |-> q, term |-> ballot[n], stage |-> "sent", open |-> TRUE]
             \in VoteRequest
        BY DEF VoteRequest
    <2>3. asking' \in [Nodes -> Nodes \cup {None}] /\ todo' \in [Nodes -> SUBSET Nodes]
        BY <2>1
    <2> QED BY <1>5, <2>1, <2>2, <2>3 DEF RequestVote, node, bounds, history
<1>6. ASSUME NEW n \in Nodes, VoteGranted(n) PROVE TypeOK'
    <2>1. asking[n] # None /\ at[n] = "ask"
        BY <1>6, ClusterAssumption DEF VoteGranted, VoteRequest
    <2>2. votes[n] + 1 \in 0..Cardinality(Nodes)
        BY <2>1, VotesBound
    <2> QED BY <1>6, <2>2 DEF VoteGranted, node, bounds, history
<1>7. ASSUME NEW n \in Nodes, VoteFails(n) PROVE TypeOK'
    BY <1>7, AbandonType DEF VoteFails, node, bounds, history
<1>8. ASSUME NEW n \in Nodes, CountVotes(n) PROVE TypeOK'
    BY <1>8 DEF CountVotes, net, bounds
<1>9. ASSUME NEW n \in Nodes, Restart(n) PROVE TypeOK'
    <2>1. requests' \subseteq VoteRequest
        BY <1>9, AbandonType DEF Restart
    <2>2. /\ FirstRole(n) \in {"leader", "follower", "candidate"}
          /\ FirstLeader(n) \in Nodes \cup {None}
          /\ FirstAt(n) \in {"select", "beat", "elect", "ask", "stopped"}
        BY DEF FirstRole, FirstLeader, FirstAt
    <2>3. 0 \in 0..Cardinality(Nodes) /\ outages' \in Nat
        BY <1>9 DEF Restart
    <2> QED BY <1>9, <2>1, <2>2, <2>3 DEF Restart
<1>10. ASSUME NEW h \in beats, HandleHeartbeat(h) PROVE TypeOK'
    BY <1>10 DEF HandleHeartbeat, ReceiveHeartbeat, Heartbeat, node, loop, bounds
<1>11. ASSUME NEW m \in requests, CompareTerms(m) PROVE TypeOK'
    BY <1>11 DEF CompareTerms, At, VoteRequest, node, loop, bounds, history
<1>12. ASSUME NEW m \in requests, GrantVote(m) PROVE TypeOK'
    BY <1>12 DEF GrantVote, At, VoteRequest, loop, bounds
<1>13. CASE UNCHANGED vars
    BY <1>13 DEF vars, node, loop, net, bounds, history
<1> QED BY <1>1, <1>2, <1>3, <1>4, <1>5, <1>6, <1>7, <1>8, <1>9, <1>10, <1>11,
           <1>12, <1>13 DEF Next, Loop

-----------------------------------------------------------------------------
(* Counting: how runLoop counts votes *)

\* No vote is ever taken back.
LEMMA GrantedGrows == [Next]_vars => granted \subseteq granted'
BY DEF Next, Loop, HeartbeatTick, Stop, ElectionTimeout, sendHeartbeats, startElection,
   RequestVote, VoteGranted, VoteFails, CountVotes, Restart, HandleHeartbeat,
   CompareTerms, GrantVote, history, vars

\* A node whose loop does not move keeps its count.
LEMMA CountsKept ==
    ASSUME TypeOK, NEW n \in Nodes, Counts(n), granted \subseteq granted',
           todo'[n] = todo[n], asking'[n] = asking[n], votes'[n] = votes[n],
           ballot'[n] = ballot[n],
           at'[n] = "ask" <=> at[n] = "ask",
           at[n] = "stopped" => at'[n] = "stopped"
    PROVE  Counts(n)'
<1>1. Voters(n) \in SUBSET Voters(n)' /\ Voters(n)' \in SUBSET Peers(n)
    BY DEF Voters, Peers
<1>2. /\ Cardinality(Voters(n)) <= Cardinality(Voters(n)')
      /\ Cardinality(Voters(n)) \in Nat /\ Cardinality(Voters(n)') \in Nat
    BY <1>1, WithSelf, FS_Subset
<1>3. votes[n] \in Nat
    BY DEF TypeOK
<1> QED BY <1>2, <1>3 DEF Counts, Peers

LEMMA CountingStep == TypeOK /\ Counting /\ Requested /\ [Next]_vars => Counting'
<1> SUFFICES ASSUME TypeOK, Counting, Requested, [Next]_vars, NEW n \in Nodes
             PROVE  Counts(n)'
    BY DEF Counting
<1>0. Counts(n) /\ granted \subseteq granted'
    BY GrantedGrows DEF Counting
<1>1. CASE /\ todo'[n] = todo[n] /\ asking'[n] = asking[n] /\ votes'[n] = votes[n]
           /\ ballot'[n] = ballot[n]
           /\ (at'[n] = "ask" <=> at[n] = "ask")
           /\ (at[n] = "stopped" => at'[n] = "stopped")
    BY <1>0, <1>1, CountsKept
<1>2. CASE startElection(n)
    <2>1. /\ todo'[n] = Peers(n) /\ asking'[n] = asking[n] /\ at'[n] = "ask"
          /\ at[n] = "elect" /\ votes'[n] = 1
        BY <1>2 DEF startElection, TypeOK
    <2>2. Voters(n)' \in SUBSET Peers(n) /\ Cardinality(Voters(n)') \in Nat
        <3>1. Voters(n)' \in SUBSET Peers(n)
            BY DEF Voters, Peers
        <3> QED BY <3>1, WithSelf
    <2> QED BY <1>0, <2>1, <2>2 DEF Counts, Peers
<1>3. CASE RequestVote(n)
    <2>1. PICK q \in todo[n] : /\ asking' = [asking EXCEPT ![n] = q]
                               /\ todo' = [todo EXCEPT ![n] = todo[n] \ {q}]
        BY <1>3 DEF RequestVote
    <2>2. /\ asking'[n] = q /\ todo'[n] = todo[n] \ {q} /\ asking[n] = None
          /\ at'[n] = at[n] /\ at[n] = "ask" /\ votes'[n] = votes[n]
          /\ ballot'[n] = ballot[n]
        BY <1>3, <2>1 DEF RequestVote, TypeOK
    <2>3. Voters(n) \in SUBSET Voters(n)' /\ Voters(n)' \in SUBSET Peers(n)
        BY <1>0, <2>2 DEF Voters, Peers
    <2>4. /\ Cardinality(Voters(n)) <= Cardinality(Voters(n)')
          /\ Cardinality(Voters(n)) \in Nat /\ Cardinality(Voters(n)') \in Nat
        BY <2>3, WithSelf, FS_Subset
    <2>5. votes[n] \in Nat /\ q \in Peers(n)
        BY <1>0 DEF TypeOK, Counts
    <2> QED BY <1>0, <2>2, <2>4, <2>5 DEF Counts, Peers
<1>4. CASE VoteGranted(n)
    <2>1. PICK m \in requests : m.from = n /\ m.to = asking[n] /\ m.stage = "granted" /\ m.open
        BY <1>4 DEF VoteGranted
    <2> DEFINE q == asking[n]
    <2>2. /\ asking'[n] = None /\ todo'[n] = todo[n] /\ votes'[n] = votes[n] + 1
          /\ at'[n] = at[n] /\ at[n] = "ask" /\ ballot'[n] = ballot[n]
        BY <1>4 DEF VoteGranted, node, TypeOK
    <2>3. q # None /\ <<q, n, ballot[n]>> \in granted
        BY <2>1, ClusterAssumption DEF Requested, TypeOK, VoteRequest
    <2>4. q \in Peers(n) \ todo[n]
        BY <1>0, <2>3 DEF Counts
    <2>5. q \in Voters(n)' /\ q \notin Voters(n) /\ Voters(n) \subseteq Voters(n)'
        BY <1>0, <2>2, <2>3, <2>4, ClusterAssumption DEF Voters, Peers
    <2>6. Voters(n)' \in SUBSET Peers(n)
        BY DEF Voters, Peers
    <2>7. /\ Cardinality(Voters(n) \cup {q}) <= Cardinality(Voters(n)')
          /\ Cardinality(Voters(n)) \in Nat /\ Cardinality(Voters(n)') \in Nat
          /\ Cardinality(Voters(n) \cup {q}) = Cardinality(Voters(n)) + 1
        <3>1. Voters(n) \in SUBSET Peers(n)
            BY <2>5, <2>6
        <3>2. IsFiniteSet(Voters(n)) /\ IsFiniteSet(Voters(n)')
            BY <2>6, <3>1, WithSelf, FS_Subset
        <3>3. Cardinality(Voters(n)) \in Nat /\ Cardinality(Voters(n)') \in Nat
            BY <3>2, FS_CardinalityType
        <3>4. Cardinality(Voters(n) \cup {q}) = Cardinality(Voters(n)) + 1
            BY <2>5, <3>2, FS_AddElement
        <3>5. Cardinality(Voters(n) \cup {q}) <= Cardinality(Voters(n)')
            BY <2>5, <3>2, FS_Subset
        <3> QED BY <3>3, <3>4, <3>5
    <2>8. votes[n] \in Nat
        BY DEF TypeOK
    <2> QED BY <1>0, <2>2, <2>7, <2>8 DEF Counts, Peers
<1>5. CASE VoteFails(n)
    <2>1. /\ asking'[n] = None /\ todo'[n] = todo[n] /\ votes'[n] = votes[n]
          /\ at'[n] = at[n] /\ at[n] = "ask" /\ ballot'[n] = ballot[n]
        BY <1>5 DEF VoteFails, node, TypeOK
    <2>2. Voters(n) \in SUBSET Voters(n)' /\ Voters(n)' \in SUBSET Peers(n)
        BY <1>0, <2>1, ClusterAssumption DEF Voters, Peers
    <2>3. /\ Cardinality(Voters(n)) <= Cardinality(Voters(n)')
          /\ Cardinality(Voters(n)) \in Nat /\ Cardinality(Voters(n)') \in Nat
        BY <2>2, WithSelf, FS_Subset
    <2>4. votes[n] \in Nat
        BY DEF TypeOK
    <2> QED BY <1>0, <2>1, <2>3, <2>4 DEF Counts, Peers
<1>6. CASE CountVotes(n)
    <2>1. at'[n] = "select" /\ todo'[n] = todo[n] /\ asking'[n] = None /\ at[n] = "ask"
        BY <1>6 DEF CountVotes, TypeOK
    <2> QED BY <1>0, <2>1 DEF Counts, Peers
<1>7. CASE Restart(n)
    <2>1. /\ at'[n] \in {"select", "stopped"} /\ todo'[n] = {} /\ asking'[n] = None
          /\ Peers(n) = {} => at'[n] = "stopped"
        BY <1>7 DEF Restart, TypeOK, FirstAt
    <2> QED BY <2>1 DEF Counts, Peers
<1>8. ASSUME NEW o \in Nodes \ {n},
             \/ HeartbeatTick(o) \/ Stop(o) \/ ElectionTimeout(o) \/ sendHeartbeats(o)
             \/ startElection(o) \/ RequestVote(o) \/ VoteGranted(o) \/ VoteFails(o)
             \/ CountVotes(o) \/ Restart(o)
      PROVE  Counts(n)'
    <2>1. /\ todo'[n] = todo[n] /\ asking'[n] = asking[n] /\ votes'[n] = votes[n]
          /\ ballot'[n] = ballot[n] /\ at'[n] = at[n]
        BY <1>8 DEF TypeOK, HeartbeatTick, Stop, ElectionTimeout, sendHeartbeats,
           startElection, RequestVote, VoteGranted, VoteFails, CountVotes, Restart, node
    <2> QED BY <1>1, <2>1
<1>9. CASE HeartbeatTick(n) \/ Stop(n) \/ ElectionTimeout(n) \/ sendHeartbeats(n)
    <2>1. /\ todo'[n] = todo[n] /\ asking'[n] = asking[n] /\ votes'[n] = votes[n]
          /\ ballot'[n] = ballot[n] /\ at[n] # "ask" /\ at'[n] # "ask"
          /\ (at[n] = "stopped" => at'[n] = "stopped")
        BY <1>9 DEF TypeOK, HeartbeatTick, Stop, ElectionTimeout, sendHeartbeats, node
    <2> QED BY <1>1, <2>1
<1>10. CASE \/ \E h \in beats : HandleHeartbeat(h)
            \/ \E m \in requests : CompareTerms(m) \/ GrantVote(m)
            \/ UNCHANGED vars
    <2>1. UNCHANGED loop
        BY <1>10 DEF HandleHeartbeat, CompareTerms, GrantVote, vars
    <2> QED BY <1>1, <2>1 DEF loop
<1> QED BY <1>2, <1>3, <1>4, <1>5, <1>6, <1>7, <1>8, <1>9, <1>10 DEF Next, Loop

-----------------------------------------------------------------------------
(* Requested: the requests on their way *)

\* A request that nobody waits for stands for nothing but its grant.
LEMMA RequestedKept ==
    ASSUME Requested, granted \subseteq granted', requests' \subseteq requests,
           asking' = asking, ballot' = ballot
    PROVE  Requested'
BY DEF Requested

\* The same when requests of n are abandoned, and its loop moves.
LEMMA RequestedAbandoned ==
    ASSUME TypeOK, Requested, NEW n \in Nodes, granted \subseteq granted',
           requests' \subseteq Abandon(n),
           \A o \in Nodes \ {n} : asking'[o] = asking[o] /\ ballot'[o] = ballot[o]
    PROVE  Requested'
<1>1. ASSUME NEW m \in requests'
      PROVE  \E k \in requests : /\ m.from = k.from /\ m.to = k.to /\ m.term = k.term
                                 /\ m.stage = k.stage
                                 /\ m.open => m = k /\ m.from \in Nodes \ {n}
    <2>1. PICK k \in requests : m = [from |-> k.from, to |-> k.to, term |-> k.term,
                                     stage |-> k.stage, open |-> k.open /\ k.from # n]
        BY DEF Abandon
    <2>2. k \in VoteRequest
        BY DEF TypeOK
    <2>3. CASE m.open
        <3>1. k.open /\ k.from # n
            BY <2>1, <2>3
        <3>2. (k.open /\ k.from # n) = k.open
            BY <2>2, <3>1 DEF VoteRequest
        <3>3. m = k
            BY <2>1, <2>2, <3>2 DEF VoteRequest
        <3> QED BY <2>2, <3>1, <3>3 DEF VoteRequest
    <2> QED BY <2>1, <2>3
<1>2. ASSUME NEW m \in requests', m.open
      PROVE  m \in requests /\ m.from \in Nodes \ {n}
    BY <1>1, <1>2
<1>3. \A m \in requests' : m.open => m.to = asking'[m.from] /\ m.term = ballot'[m.from]
    BY <1>2 DEF Requested
<1>4. \A l, m \in requests' : l.open /\ m.open /\ l.from = m.from => l = m
    BY <1>2 DEF Requested
<1>5. \A m \in requests' : m.stage = "granted" => <<m.to, m.from, m.term>> \in granted'
    BY <1>1 DEF Requested
<1> QED BY <1>3, <1>4, <1>5 DEF Requested

\* A request moves on at the voter.
LEMMA RequestedMoved ==
    ASSUME TypeOK, Requested, NEW m \in requests, NEW stage \in {"granting", "granted"},
           granted \subseteq granted',
           requests' \subseteq (requests \ {m}) \cup {At(m, stage)},
           stage = "granted" => <<m.to, m.from, m.term>> \in granted',
           asking' = asking, ballot' = ballot
    PROVE  Requested'
<1> DEFINE k == At(m, stage)
<1>1. /\ k.from = m.from /\ k.to = m.to /\ k.term = m.term /\ k.stage = stage
      /\ k.open = m.open
    BY DEF At
<1>2. \A l \in requests' : l = k \/ (l \in requests /\ l # m)
    OBVIOUS
<1> HIDE DEF k
<1>3. \A l \in requests' : l.open => l.to = asking'[l.from] /\ l.term = ballot'[l.from]
    BY <1>1, <1>2 DEF Requested
<1>4. \A l, o \in requests' : l.open /\ o.open /\ l.from = o.from => l = o
    BY <1>1, <1>2 DEF Requested
<1>5. \A l \in requests' : l.stage = "granted" => <<l.to, l.from, l.term>> \in granted'
    BY <1>1, <1>2 DEF Requested
<1> QED BY <1>3, <1>4, <1>5 DEF Requested

LEMMA RequestedStep == TypeOK /\ Counting /\ Requested /\ [Next]_vars => Requested'
<1> SUFFICES ASSUME TypeOK, Counting, Requested, [Next]_vars PROVE Requested'
    OBVIOUS
<1>0. granted \subseteq granted'
    BY GrantedGrows
<1>1. ASSUME NEW n \in Nodes,
             \/ HeartbeatTick(n) \/ Stop(n) \/ ElectionTimeout(n) \/ sendHeartbeats(n)
             \/ CountVotes(n)
      PROVE  Requested'
    <2>1. UNCHANGED <<requests, asking, ballot>>
        BY <1>1 DEF HeartbeatTick, Stop, ElectionTimeout, sendHeartbeats, CountVotes, net
    <2> QED BY <1>0, <2>1, RequestedKept
<1>2. ASSUME NEW n \in Nodes, startElection(n) PROVE Requested'
    <2>1. \A m \in requests : m.open => m.from # n
        <3>1. asking[n] = None
            BY <1>2 DEF startElection, Counting, Counts
        <3> QED BY <3>1, ClusterAssumption DEF Requested, TypeOK, VoteRequest
    <2>2. /\ requests' = requests /\ asking' = asking
          /\ \A o \in Nodes \ {n} : ballot'[o] = ballot[o]
        BY <1>2 DEF startElection, net, TypeOK
    <2>3. \A m \in requests' : m.open => m.to = asking'[m.from] /\ m.term = ballot'[m.from]
        BY <2>1, <2>2 DEF Requested, TypeOK, VoteRequest
    <2> QED BY <1>0, <2>2, <2>3 DEF Requested
<1>3. ASSUME NEW n \in Nodes, RequestVote(n) PROVE Requested'
    <2>1. PICK q \in todo[n] :
             /\ requests' = requests \cup {[from |-> n, to |-> q, term |-> ballot[n],
                                           stage |-> "sent", open |-> TRUE]}
             /\ asking' = [asking EXCEPT ![n] = q]
        BY <1>3 DEF RequestVote
    <2> DEFINE r == [from |-> n, to |-> q, term |-> ballot[n], stage |-> "sent",
                     open |-> TRUE]
    <2>2. \A m \in requests : m.open => m.from # n
        BY <1>3, ClusterAssumption DEF RequestVote, Requested, TypeOK, VoteRequest
    <2>3. /\ ballot' = ballot /\ asking'[n] = q
          /\ \A o \in Nodes \ {n} : asking'[o] = asking[o]
        BY <1>3, <2>1 DEF RequestVote, TypeOK
    <2>4. /\ r.from = n /\ r.to = q /\ r.term = ballot[n] /\ r.stage = "sent"
          /\ \A m \in requests' : m = r \/ m \in requests
        BY <2>1
    <2> HIDE DEF r
    <2>5. \A m \in requests' : m.open => m.to = asking'[m.from] /\ m.term = ballot'[m.from]
        BY <2>2, <2>3, <2>4 DEF Requested, TypeOK, VoteRequest
    <2>6. \A l, m \in requests' : l.open /\ m.open /\ l.from = m.from => l = m
        BY <2>2, <2>4 DEF Requested
    <2>7. \A m \in requests' : m.stage = "granted" => <<m.to, m.from, m.term>> \in granted'
        BY <1>0, <2>4 DEF Requested
    <2> QED BY <2>5, <2>6, <2>7 DEF Requested
<1>4. ASSUME NEW n \in Nodes, VoteGranted(n) PROVE Requested'
    <2>1. PICK m \in requests : /\ m.from = n /\ m.open /\ requests' = requests \ {m}
        BY <1>4 DEF VoteGranted
    <2>2. /\ ballot' = ballot
          /\ \A o \in Nodes \ {n} : asking'[o] = asking[o]
        BY <1>4 DEF VoteGranted, TypeOK
    <2>3. \A l \in requests' : l \in requests /\ (l.open => l.from # n)
        BY <2>1 DEF Requested
    <2>4. \A l \in requests' : l.open => l.to = asking'[l.from] /\ l.term = ballot'[l.from]
        BY <2>2, <2>3 DEF Requested, TypeOK, VoteRequest
    <2> QED BY <1>0, <2>3, <2>4 DEF Requested
<1>5. ASSUME NEW n \in Nodes, VoteFails(n) \/ Restart(n) PROVE Requested'
    <2>1. requests' \subseteq Abandon(n)
        BY <1>5 DEF VoteFails, Restart
    <2>2. \A o \in Nodes \ {n} : asking'[o] = asking[o] /\ ballot'[o] = ballot[o]
        BY <1>5 DEF VoteFails, Restart, TypeOK
    <2> QED BY <1>0, <2>1, <2>2, RequestedAbandoned
<1>6. ASSUME NEW h \in beats, HandleHeartbeat(h) PROVE Requested'
    BY <1>0, <1>6, RequestedKept DEF HandleHeartbeat, loop
<1>7. ASSUME NEW m \in requests, CompareTerms(m) PROVE Requested'
    <2>1. requests' \subseteq (requests \ {m}) \cup {At(m, "granting")}
        BY <1>7 DEF CompareTerms
    <2>2. asking' = asking /\ ballot' = ballot
        BY <1>7 DEF CompareTerms, loop
    <2> QED BY <1>0, <2>1, <2>2, RequestedMoved
<1>8. ASSUME NEW m \in requests, GrantVote(m) PROVE Requested'
    <2>1. /\ requests' \subseteq (requests \ {m}) \cup {At(m, "granted")}
          /\ <<m.to, m.from, m.term>> \in granted'
        BY <1>8 DEF GrantVote
    <2>2. asking' = asking /\ ballot' = ballot
        BY <1>8 DEF GrantVote, loop
    <2> QED BY <1>0, <2>1, <2>2, RequestedMoved
<1>9. CASE UNCHANGED vars
    BY <1>0, <1>9, RequestedKept DEF vars, loop, net
<1> QED BY <1>1, <1>2, <1>3, <1>4, <1>5, <1>6, <1>7, <1>8, <1>9 DEF Next, Loop

-----------------------------------------------------------------------------
(* Elected: terms come from elections, leaders from winning one *)

LEMMA ElectingFinite == IsFiniteSet(Electing) /\ Cardinality(Electing) \in Nat
<1>1. Electing \in SUBSET Nodes
    BY DEF Electing
<1> QED BY <1>1, ClusterAssumption, FS_Subset, FS_CardinalityType

\* What has been reached or won stays so.
LEMMA Lasting ==
    ASSUME TypeOK, [Next]_vars
    PROVE  /\ \A t \in Nat : Reached(t) => Reached(t)'
           /\ \A n \in Nodes : HasWon(n) => HasWon(n)'
           /\ \A n \in Nodes, t \in Nat : startElection(n) /\ Reached(t) => Reached(t + 1)'
<1>0. elections \in Nat
    BY DEF TypeOK
<1>1. ASSUME NEW n \in Nodes, ElectionTimeout(n), role[n] # "leader"
      PROVE  \A t \in Nat : Reached(t) => Reached(t)'
    <2>1. elections' = elections + 1 /\ Electing' = Electing \cup {n} /\ n \notin Electing
        BY <1>1 DEF ElectionTimeout, Electing, TypeOK
    <2>2. Cardinality(Electing') = Cardinality(Electing) + 1
        BY <2>1, ElectingFinite, FS_AddElement
    <2> QED BY <1>0, <2>1, <2>2, ElectingFinite DEF Reached
<1>2. ASSUME NEW n \in Nodes, startElection(n)
      PROVE  /\ \A t \in Nat : Reached(t) => Reached(t)'
             /\ \A t \in Nat : Reached(t) => Reached(t + 1)'
    <2>1. elections' = elections /\ Electing' = Electing \ {n} /\ n \in Electing
        BY <1>2 DEF startElection, Electing, TypeOK, bounds
    <2>2. Cardinality(Electing') = Cardinality(Electing) - 1
        BY <2>1, ElectingFinite, FS_RemoveElement
    <2> SUFFICES ASSUME NEW t \in Nat, t + Cardinality(Electing) <= elections
                 PROVE  /\ t + Cardinality(Electing') <= elections'
                        /\ (t + 1) + Cardinality(Electing') <= elections'
        BY DEF Reached
    <2> QED BY <1>0, <2>1, <2>2, ElectingFinite
<1>3. ASSUME elections' = elections, Electing' \in SUBSET Electing
      PROVE  \A t \in Nat : Reached(t) => Reached(t)'
    <2>1. Cardinality(Electing') <= Cardinality(Electing) /\ Cardinality(Electing') \in Nat
        BY <1>3, ElectingFinite, FS_Subset, FS_CardinalityType
    <2> QED BY <1>0, <1>3, <2>1, ElectingFinite DEF Reached
<1>4. ASSUME NEW n \in Nodes,
             \/ HeartbeatTick(n) \/ Stop(n) \/ sendHeartbeats(n) \/ RequestVote(n)
             \/ VoteGranted(n) \/ VoteFails(n) \/ CountVotes(n) \/ Restart(n)
             \/ ElectionTimeout(n) /\ role[n] = "leader"
      PROVE  elections' = elections /\ Electing' \in SUBSET Electing
    BY <1>4 DEF HeartbeatTick, Stop, sendHeartbeats, RequestVote, VoteGranted, VoteFails,
       CountVotes, Restart, ElectionTimeout, FirstAt, Electing, TypeOK, bounds, node
<1>5. ASSUME \/ \E h \in beats : HandleHeartbeat(h)
             \/ \E m \in requests : CompareTerms(m) \/ GrantVote(m)
             \/ UNCHANGED vars
      PROVE  elections' = elections /\ Electing' \in SUBSET Electing
    BY <1>5 DEF HandleHeartbeat, CompareTerms, GrantVote, vars, loop, bounds, Electing
<1>6. \A t \in Nat : Reached(t) => Reached(t)'
    BY <1>1, <1>2, <1>3, <1>4, <1>5 DEF Next, Loop
<1>7. won \subseteq won' /\ elections' \in Nat /\ elections <= elections'
    BY <1>0 DEF Next, Loop, HeartbeatTick, Stop, ElectionTimeout, sendHeartbeats,
       startElection, RequestVote, VoteGranted, VoteFails, CountVotes, Restart,
       HandleHeartbeat, CompareTerms, GrantVote, history, bounds, vars
<1>8. \A n \in Nodes : HasWon(n) => HasWon(n)'
    BY <1>0, <1>7 DEF HasWon
<1> QED BY <1>2, <1>6, <1>8

LEMMA ElectedStep == TypeOK /\ Counting /\ Requested /\ Elected /\ [Next]_vars => Elected'
<1> SUFFICES ASSUME TypeOK, Counting, Requested, Elected, [Next]_vars PROVE Elected'
    OBVIOUS
<1>0. /\ \A t \in Nat : Reached(t) => Reached(t)'
      /\ \A n \in Nodes : HasWon(n) => HasWon(n)'
      /\ Reached(0)'
    BY Lasting DEF Elected
<1>1. ASSUME NEW n \in Nodes,
             \/ HeartbeatTick(n) \/ Stop(n) \/ ElectionTimeout(n)
      PROVE  Elected'
    <2>1. at[n] = "select" /\ UNCHANGED <<node, ballot, net>>
        BY <1>1 DEF HeartbeatTick, Stop, ElectionTimeout
    <2>2. \A o \in Nodes : at'[o] = "beat" => at[o] = "beat" \/ (o = n /\ role[n] = "leader")
        BY <1>1 DEF HeartbeatTick, Stop, ElectionTimeout, TypeOK
    <2>3. Peers(n) # {}
        BY <2>1 DEF Counting, Counts
    <2> QED BY <1>0, <2>1, <2>2, <2>3 DEF Elected, TypeOK, node, net, VoteRequest, Heartbeat
<1>2. ASSUME NEW n \in Nodes, sendHeartbeats(n) PROVE Elected'
    <2>1. /\ UNCHANGED <<node, ballot, requests>>
          /\ \A o \in Nodes : at'[o] = "beat" => at[o] = "beat"
          /\ at[n] = "beat"
        BY <1>2 DEF sendHeartbeats, TypeOK
    <2>2. \A h \in beats' : h \in beats \/ (h.term = term[n] /\ h.leader = n)
        BY <1>2 DEF sendHeartbeats, SendHeartbeat
    <2>3. \A h \in beats' : Reached(h.term)' /\ HasWon(h.leader)'
        BY <1>0, <2>1, <2>2 DEF Elected, TypeOK, Heartbeat
    <2> QED BY <1>0, <2>1, <2>3 DEF Elected, TypeOK, node, VoteRequest
<1>3. ASSUME NEW n \in Nodes, startElection(n) PROVE Elected'
    <2>1. /\ UNCHANGED <<leader, net>> /\ role'[n] = "candidate"
          /\ term'[n] = term[n] + 1 /\ ballot'[n] = term[n] + 1 /\ at'[n] = "ask"
          /\ \A o \in Nodes \ {n} : /\ role'[o] = role[o] /\ term'[o] = term[o]
                                    /\ ballot'[o] = ballot[o] /\ at'[o] = at[o]
        BY <1>3 DEF startElection, TypeOK
    <2>2. ASSUME NEW t \in Nat, t = term[n] PROVE Reached(t + 1)'
        BY <1>3, <2>2, Lasting DEF Elected
    <2>3. Reached(term[n])' /\ Reached(ballot[n])'
        BY <2>1, <2>2 DEF TypeOK, Reached
    <2> QED BY <1>0, <2>1, <2>3 DEF Elected, TypeOK, net, VoteRequest, Heartbeat
<1>4. ASSUME NEW n \in Nodes, RequestVote(n) PROVE Elected'
    <2>1. UNCHANGED <<node, at, ballot, beats>>
        BY <1>4 DEF RequestVote
    <2>2. \A m \in requests' : m \in requests \/ m.term = ballot[n]
        BY <1>4 DEF RequestVote
    <2>3. \A m \in requests' : Reached(m.term)'
        BY <1>0, <2>2 DEF Elected, TypeOK, VoteRequest
    <2> QED BY <1>0, <2>1, <2>3 DEF Elected, TypeOK, node, Heartbeat
<1>5. ASSUME NEW n \in Nodes, VoteGranted(n) \/ VoteFails(n) PROVE Elected'
    <2>1. UNCHANGED <<node, at, ballot, beats>>
        BY <1>5 DEF VoteGranted, VoteFails
    <2>2. \A m \in requests' : \E k \in requests : m.term = k.term
        BY <1>5 DEF VoteGranted, VoteFails, Abandon
    <2>3. \A m \in requests' : Reached(m.term)'
        BY <1>0, <2>2 DEF Elected, TypeOK, VoteRequest
    <2> QED BY <1>0, <2>1, <2>3 DEF Elected, TypeOK, node, Heartbeat
<1>6. ASSUME NEW n \in Nodes, CountVotes(n) PROVE Elected'
    <2>1. /\ UNCHANGED <<term, ballot, net, bounds>>
          /\ \A o \in Nodes : at'[o] = "beat" => at[o] = "beat"
          /\ \A o \in Nodes \ {n} : role'[o] = role[o] /\ leader'[o] = leader[o]
        BY <1>6 DEF CountVotes, TypeOK
    <2>2. \/ role'[n] = "leader" /\ leader'[n] = n /\ <<n, ballot[n]>> \in won'
          \/ role'[n] \in {role[n], "follower"} /\ leader'[n] = leader[n]
        BY <1>6 DEF CountVotes, TypeOK
    <2>3. <<n, ballot[n]>> \in won' => HasWon(n)'
        <3>1. ballot[n] \in 0..elections'
            BY <2>1, ElectingFinite DEF Elected, Reached, TypeOK, bounds
        <3> QED BY <3>1 DEF HasWon
    <2> QED BY <1>0, <2>1, <2>2, <2>3 DEF Elected, TypeOK, net, VoteRequest, Heartbeat
<1>7. ASSUME NEW n \in Nodes, Restart(n) PROVE Elected'
    <2>1. /\ UNCHANGED beats /\ term'[n] = 0 /\ ballot'[n] = 0 /\ at'[n] # "beat"
          /\ Peers(n) # {} => role'[n] = "follower" /\ leader'[n] = None
          /\ \A o \in Nodes \ {n} : /\ role'[o] = role[o] /\ term'[o] = term[o]
                                    /\ ballot'[o] = ballot[o] /\ at'[o] = at[o]
                                    /\ leader'[o] = leader[o]
        BY <1>7 DEF Restart, TypeOK, FirstRole, FirstLeader, FirstAt
    <2>2. \A m \in requests' : \E k \in requests : m.term = k.term
        BY <1>7 DEF Restart, Abandon
    <2>3. \A m \in requests' : Reached(m.term)'
        BY <1>0, <2>2 DEF Elected, TypeOK, VoteRequest
    <2> QED BY <1>0, <2>1, <2>3 DEF Elected, TypeOK, Heartbeat
<1>8. ASSUME NEW h \in beats, HandleHeartbeat(h) PROVE Elected'
    <2>1. /\ UNCHANGED <<loop, requests>> /\ beats' \subseteq beats
          /\ \A n \in Nodes :
                \/ role'[n] = role[n] /\ term'[n] = term[n] /\ leader'[n] = leader[n]
                \/ role'[n] = "follower" /\ term'[n] = h.term /\ leader'[n] = h.leader
        BY <1>8 DEF HandleHeartbeat, ReceiveHeartbeat, TypeOK, Heartbeat, node
    <2> QED BY <1>0, <2>1 DEF Elected, TypeOK, loop, VoteRequest, Heartbeat
<1>9. ASSUME NEW m \in requests, CompareTerms(m) \/ GrantVote(m) PROVE Elected'
    <2>1. /\ UNCHANGED <<loop, beats, leader>>
          /\ \A n \in Nodes : \/ role'[n] = role[n] /\ term'[n] = term[n]
                              \/ role'[n] = "follower" /\ term'[n] = m.term
        BY <1>9 DEF CompareTerms, GrantVote, TypeOK, VoteRequest, node
    <2>2. \A k \in requests' : \E l \in requests : k.term = l.term
        BY <1>9 DEF CompareTerms, GrantVote, At
    <2>3. \A k \in requests' : Reached(k.term)'
        BY <1>0, <2>2 DEF Elected, TypeOK, VoteRequest
    <2> QED BY <1>0, <2>1, <2>3 DEF Elected, TypeOK, loop, VoteRequest, Heartbeat
<1>10. CASE UNCHANGED vars
    BY <1>0, <1>10 DEF vars, node, loop, net, Elected, TypeOK, VoteRequest, Heartbeat
<1> QED BY <1>1, <1>2, <1>3, <1>4, <1>5, <1>6, <1>7, <1>8, <1>9, <1>10 DEF Next, Loop

-----------------------------------------------------------------------------
(* LeaderHasMajority *)

\* A node and those who granted it its term.
Supporters(n) == {n} \cup {v \in Nodes : <<v, n, term[n]>> \in granted}

\* An election won is won with the votes of a majority.
LEMMA WinnerHasMajority ==
    ASSUME TypeOK, Counting, NEW n \in Nodes, at[n] = "ask", term[n] = ballot[n],
           votes[n] >= Majority(n)
    PROVE  2 * Cardinality(Supporters(n)) > Cardinality(Nodes)
<1>1. votes[n] <= 1 + Cardinality(Voters(n)) /\ votes[n] \in Nat
    BY DEF Counting, Counts, TypeOK
<1>2. Voters(n) \in SUBSET Peers(n)
    BY DEF Voters
<1>3. /\ Cardinality({n} \cup Voters(n)) = Cardinality(Voters(n)) + 1
      /\ Cardinality(Voters(n)) \in Nat
    BY <1>2, WithSelf
<1>4. {n} \cup Voters(n) \in SUBSET Supporters(n) /\ Supporters(n) \in SUBSET Nodes
    BY DEF Voters, Supporters, Peers
<1>5. /\ Cardinality({n} \cup Voters(n)) <= Cardinality(Supporters(n))
      /\ Cardinality(Supporters(n)) \in Nat
    BY <1>4, ClusterAssumption, FS_Subset, FS_CardinalityType
<1>6. 2 * votes[n] > Cardinality(Nodes)
    BY <1>1, PeersCount DEF Majority
<1> QED BY <1>1, <1>3, <1>5, <1>6, PeersCount

LEMMA MajorityStep ==
    TypeOK /\ Counting /\ LeaderHasMajority /\ [Next]_vars => LeaderHasMajority'
<1> SUFFICES ASSUME TypeOK, Counting, LeaderHasMajority, [Next]_vars,
                    NEW n \in Nodes, role'[n] = "leader", Peers(n) # {}
             PROVE  2 * Cardinality(Supporters(n)') > Cardinality(Nodes)
    BY DEF LeaderHasMajority, Supporters, Peers
<1>0. granted \subseteq granted'
    BY GrantedGrows
<1>1. CASE role[n] = "leader" /\ term'[n] = term[n]
    <2>1. 2 * Cardinality(Supporters(n)) > Cardinality(Nodes)
        BY <1>1 DEF LeaderHasMajority, Supporters
    <2>2. Supporters(n) \in SUBSET Supporters(n)' /\ Supporters(n)' \in SUBSET Nodes
        BY <1>0, <1>1 DEF Supporters
    <2>3. /\ Cardinality(Supporters(n)) <= Cardinality(Supporters(n)')
          /\ Cardinality(Supporters(n)) \in Nat /\ Cardinality(Supporters(n)') \in Nat
        BY <2>2, ClusterAssumption, FS_Subset, FS_CardinalityType
    <2> QED BY <2>1, <2>3, PeersCount
<1>2. CASE CountVotes(n) /\ role[n] # "leader"
    <2>1. /\ at[n] = "ask" /\ term[n] = ballot[n] /\ votes[n] >= Majority(n)
          /\ term' = term /\ granted' = granted
        BY <1>2 DEF CountVotes, TypeOK
    <2>2. Supporters(n)' = Supporters(n)
        BY <2>1 DEF Supporters
    <2> QED BY <2>1, <2>2, WinnerHasMajority
<1>3. ASSUME NEW o \in Nodes,
             \/ HeartbeatTick(o) \/ Stop(o) \/ ElectionTimeout(o) \/ sendHeartbeats(o)
             \/ startElection(o) \/ RequestVote(o) \/ VoteGranted(o) \/ VoteFails(o)
             \/ Restart(o)
             \/ CountVotes(o) /\ (o # n \/ role[n] = "leader")
      PROVE  role[n] = "leader" /\ term'[n] = term[n]
    BY <1>3 DEF TypeOK, HeartbeatTick, Stop, ElectionTimeout, sendHeartbeats,
       startElection, RequestVote, VoteGranted, VoteFails, CountVotes, Restart, FirstRole,
       node
<1>4. ASSUME \/ \E h \in beats : HandleHeartbeat(h)
             \/ \E m \in requests : CompareTerms(m) \/ GrantVote(m)
             \/ UNCHANGED vars
      PROVE  role[n] = "leader" /\ term'[n] = term[n]
    BY <1>4 DEF TypeOK, HandleHeartbeat, ReceiveHeartbeat, CompareTerms, GrantVote,
       VoteRequest, Heartbeat, node, vars
<1>5. \/ role[n] = "leader" /\ term'[n] = term[n]
      \/ CountVotes(n) /\ role[n] # "leader"
    <2>1. CASE \/ \E h \in beats : HandleHeartbeat(h)
               \/ \E m \in requests : CompareTerms(m) \/ GrantVote(m)
               \/ UNCHANGED vars
        BY <2>1, <1>4
    <2>2. ASSUME NEW o \in Nodes,
                 \/ HeartbeatTick(o) \/ ElectionTimeout(o) \/ Loop(o)
                 \/ Restart(o) \/ Stop(o)
          PROVE  \/ role[n] = "leader" /\ term'[n] = term[n]
                 \/ CountVotes(n) /\ role[n] # "leader"
        <3>1. CASE CountVotes(o) /\ o = n /\ role[n] # "leader"
            BY <3>1
        <3>2. CASE CountVotes(o) /\ (o # n \/ role[n] = "leader")
            BY <3>2, <1>3
        <3>3. CASE ~CountVotes(o)
            <4>1. \/ HeartbeatTick(o) \/ Stop(o) \/ ElectionTimeout(o) \/ sendHeartbeats(o)
                  \/ startElection(o) \/ RequestVote(o) \/ VoteGranted(o) \/ VoteFails(o)
                  \/ Restart(o)
                BY <3>3, <2>2 DEF Loop
            <4> QED BY <4>1, <1>3
        <3> QED BY <3>1, <3>2, <3>3
    <2> QED BY <2>1, <2>2 DEF Next
<1> QED BY <1>1, <1>2, <1>5

-----------------------------------------------------------------------------
(* VotesOnce: a voter remembers, as long as it is not restarted *)

\* Where nothing is granted and terms only grow, votes stay single; a node
\* that stands or leads does so for a term it has not granted.
LEMMA VotesOnceKept ==
    ASSUME TypeOK, VotesOnce, granted' = granted, orderly' => orderly,
           \A n \in Nodes : term[n] <= term'[n] /\ term'[n] \in Nat,
           \A n \in Nodes : at'[n] = "ask" => at[n] = "ask" /\ ballot'[n] = ballot[n],
           \A n \in Nodes : role'[n] = "leader" => role[n] = "leader" /\ term'[n] = term[n]
    PROVE  VotesOnce'
<1> SUFFICES ASSUME orderly' PROVE VotesOnce'
    BY DEF VotesOnce
<1>1. \A v, a \in Nodes, t \in Nat : <<v, a, t>> \in granted' => t <= term'[v]
    <2> SUFFICES ASSUME NEW v \in Nodes, NEW a \in Nodes, NEW t \in Nat,
                        <<v, a, t>> \in granted
                 PROVE  t <= term'[v]
        OBVIOUS
    <2>1. t <= term[v] /\ term[v] \in Nat
        BY DEF VotesOnce, TypeOK
    <2> QED BY <2>1
<1>2. \A n \in Nodes : at'[n] = "ask" =>
         ballot'[n] <= term'[n] /\ \A a \in Nodes : <<n, a, ballot'[n]>> \notin granted'
    <2> SUFFICES ASSUME NEW n \in Nodes, at'[n] = "ask"
                 PROVE  /\ ballot[n] <= term'[n]
                        /\ \A a \in Nodes : <<n, a, ballot[n]>> \notin granted
        OBVIOUS
    <2>1. ballot[n] <= term[n] /\ term[n] \in Nat /\ ballot[n] \in Nat
        BY DEF VotesOnce, TypeOK
    <2> QED BY <2>1 DEF VotesOnce
<1> QED BY <1>1, <1>2 DEF VotesOnce

LEMMA OnceStep == TypeOK /\ VotesOnce /\ [Next]_vars => VotesOnce'
<1> SUFFICES ASSUME TypeOK, VotesOnce, [Next]_vars PROVE VotesOnce'
    OBVIOUS
<1>1. ASSUME NEW n \in Nodes,
             \/ HeartbeatTick(n) \/ Stop(n) \/ ElectionTimeout(n) \/ sendHeartbeats(n)
             \/ RequestVote(n) \/ VoteGranted(n) \/ VoteFails(n)
      PROVE  VotesOnce'
    <2>1. /\ UNCHANGED <<node, ballot, granted, orderly>>
          /\ \A o \in Nodes : at'[o] = "ask" => at[o] = "ask"
        BY <1>1 DEF TypeOK, HeartbeatTick, Stop, ElectionTimeout, sendHeartbeats,
           RequestVote, VoteGranted, VoteFails, history
    <2> QED BY <2>1, VotesOnceKept DEF node, TypeOK
<1>2. ASSUME NEW n \in Nodes, startElection(n) PROVE VotesOnce'
    <2> SUFFICES ASSUME orderly' PROVE VotesOnce'
        BY DEF VotesOnce
    <2>1. /\ orderly /\ granted' = granted
          /\ role'[n] = "candidate" /\ at'[n] = "ask"
          /\ term'[n] = term[n] + 1 /\ ballot'[n] = term[n] + 1 /\ term[n] \in Nat
          /\ \A o \in Nodes \ {n} : /\ role'[o] = role[o] /\ term'[o] = term[o]
                                    /\ ballot'[o] = ballot[o] /\ at'[o] = at[o]
        BY <1>2 DEF startElection, history, TypeOK
    <2>2. \A a \in Nodes : <<n, a, term[n] + 1>> \notin granted
        BY <2>1 DEF VotesOnce
    <2>3. \A v, a \in Nodes, t \in Nat : <<v, a, t>> \in granted => t <= term'[v]
        BY <2>1 DEF VotesOnce
    <2> QED BY <2>1, <2>2, <2>3 DEF VotesOnce
<1>3. ASSUME NEW n \in Nodes, CountVotes(n) PROVE VotesOnce'
    <2> SUFFICES ASSUME orderly' PROVE VotesOnce'
        BY DEF VotesOnce
    <2>1. /\ UNCHANGED <<term, ballot, granted, orderly>> /\ at[n] = "ask"
          /\ \A o \in Nodes : at'[o] = "ask" => at[o] = "ask"
          /\ \A o \in Nodes : \/ role'[o] = "leader" => role[o] = "leader"
                              \/ o = n /\ term[n] = ballot[n]
        BY <1>3 DEF CountVotes, TypeOK
    <2> QED BY <2>1 DEF VotesOnce
<1>4. ASSUME NEW n \in Nodes, Restart(n) PROVE VotesOnce'
    BY <1>4 DEF Restart, VotesOnce
<1>5. ASSUME NEW h \in beats, HandleHeartbeat(h) PROVE VotesOnce'
    <2>1. /\ UNCHANGED <<loop, granted, orderly>>
          /\ \A n \in Nodes : term[n] <= term'[n] /\ term'[n] \in Nat
          /\ \A n \in Nodes : role'[n] = "leader" => role[n] = "leader" /\ term'[n] = term[n]
        BY <1>5 DEF HandleHeartbeat, ReceiveHeartbeat, TypeOK, Heartbeat, node
    <2> QED BY <2>1, VotesOnceKept DEF loop
<1>6. ASSUME NEW m \in requests, CompareTerms(m) PROVE VotesOnce'
    BY <1>6, VotesOnceKept DEF CompareTerms, node, loop, history, TypeOK
<1>7. ASSUME NEW m \in requests, GrantVote(m) PROVE VotesOnce'
    <2> SUFFICES ASSUME orderly' PROVE VotesOnce'
        BY DEF VotesOnce
    <2> DEFINE v == m.to
    <2>1. v \in Nodes /\ m.from \in Nodes /\ m.term \in Nat /\ term[v] \in Nat
        BY DEF TypeOK, VoteRequest
    <2>2. /\ orderly /\ m.term > term[v] /\ UNCHANGED loop
          /\ granted' = granted \cup {<<v, m.from, m.term>>}
          /\ term'[v] = m.term /\ role'[v] = "follower"
          /\ \A o \in Nodes \ {v} : role'[o] = role[o] /\ term'[o] = term[o]
        BY <1>7, <2>1 DEF GrantVote, TypeOK
    <2>3. \A a \in Nodes : <<v, a, m.term>> \notin granted
        BY <2>1, <2>2 DEF VotesOnce
    <2>4. \A w, a \in Nodes, t \in Nat : <<w, a, t>> \in granted' => t <= term'[w]
        <3> SUFFICES ASSUME NEW w \in Nodes, NEW a \in Nodes, NEW t \in Nat,
                            <<w, a, t>> \in granted'
                     PROVE  t <= term'[w]
            OBVIOUS
        <3>1. CASE <<w, a, t>> \in granted
            <4>1. t <= term[w] /\ term[w] \in Nat
                BY <2>2, <3>1 DEF VotesOnce, TypeOK
            <4> QED BY <2>1, <2>2, <4>1
        <3>2. CASE <<w, a, t>> = <<v, m.from, m.term>>
            BY <2>1, <2>2, <3>2
        <3> QED BY <2>2, <3>1, <3>2
    <2>5. \A w, a, b \in Nodes, t \in Nat :
             <<w, a, t>> \in granted' /\ <<w, b, t>> \in granted' => a = b
        BY <2>2, <2>3 DEF VotesOnce
    <2>6. ASSUME NEW n \in Nodes, at'[n] = "ask"
          PROVE  /\ ballot'[n] <= term'[n]
                 /\ \A a \in Nodes : <<n, a, ballot'[n]>> \notin granted'
        <3>1. /\ ballot'[n] = ballot[n] /\ ballot[n] <= term[n] /\ ballot[n] \in Nat
              /\ \A a \in Nodes : <<n, a, ballot[n]>> \notin granted
            BY <2>2, <2>6 DEF VotesOnce, loop, TypeOK
        <3> QED BY <2>1, <2>2, <3>1
    <2>7. ASSUME NEW n \in Nodes, role'[n] = "leader"
          PROVE  \A a \in Nodes : <<n, a, term'[n]>> \notin granted'
        BY <2>2, <2>7 DEF VotesOnce
    <2> QED BY <2>4, <2>5, <2>6, <2>7 DEF VotesOnce
<1>8. CASE UNCHANGED vars
    BY <1>8, VotesOnceKept DEF vars, node, loop, history, TypeOK
<1> QED BY <1>1, <1>2, <1>3, <1>4, <1>5, <1>6, <1>7, <1>8 DEF Next, Loop

-----------------------------------------------------------------------------
(* The invariant, and what follows from it *)

LEMMA InitInv == Init => Inv
<1> SUFFICES ASSUME Init PROVE Inv
    OBVIOUS
<1>1. Counting
    BY DEF Init, Counting, Counts, FirstAt
<1>2. Requested
    BY DEF Init, Requested
<1>3. Elected
    <2>1. Electing = {}
        BY DEF Init, Electing, FirstAt
    <2>2. Reached(0)
        BY <2>1, FS_EmptySet DEF Init, Reached
    <2> QED BY <2>2, ClusterAssumption DEF Init, Elected, FirstRole, FirstLeader, FirstAt
<1>4. LeaderHasMajority
    BY DEF Init, LeaderHasMajority, FirstRole
<1>5. VotesOnce
    BY DEF Init, VotesOnce, FirstAt
<1> QED BY <1>1, <1>2, <1>3, <1>4, <1>5 DEF Inv

LEMMA InvHolds == Spec => [](TypeOK /\ Inv)
<1>1. TypeOK /\ Inv /\ [Next]_vars => TypeOK' /\ Inv'
    BY TypeStep, CountingStep, RequestedStep, ElectedStep, MajorityStep, OnceStep DEF Inv
<1> QED BY <1>1, InitType, InitInv, PTL DEF Spec

\* Every variable of Cluster keeps its type; no election counts more votes
\* than there are nodes.
THEOREM ClusterTypeCorrect == Spec => []TypeOK
BY InvHolds, PTL

\* CountVotes: a node leads a term with the votes of more than half of the
\* nodes, whatever is lost, delayed or restarted.
THEOREM MajorityLeads == Spec => []LeaderHasMajority
BY InvHolds, PTL DEF Inv

\* ReceiveHeartbeat: the leader a node reports has won an election.
THEOREM ReportedWon == Spec => []ReportedLeaderWasElected
<1>1. Inv => ReportedLeaderWasElected
    BY DEF Inv, Elected, HasWon, ReportedLeaderWasElected
<1> QED BY <1>1, InvHolds, PTL

\* HandleVote and startElection: as long as no node was restarted and no vote
\* was granted on a comparison that no longer held, a term has one leader.
\* Two majorities share a voter: it would have granted the term twice, or
\* granted the term it stood for itself.
THEOREM OneLeader == Spec => []OneLeaderIfOrderly
<1>1. TypeOK /\ Inv => OneLeaderIfOrderly
    <2> SUFFICES ASSUME TypeOK, Inv, orderly, NEW m \in Nodes, NEW n \in Nodes,
                        role[m] = "leader", role[n] = "leader", term[m] = term[n],
                        m # n
                 PROVE  FALSE
        BY DEF OneLeaderIfOrderly, OneLeaderPerTerm
    <2>1. Peers(m) # {} /\ Peers(n) # {}
        BY DEF Peers
    <2>2. /\ 2 * Cardinality(Supporters(m)) > Cardinality(Nodes)
          /\ 2 * Cardinality(Supporters(n)) > Cardinality(Nodes)
        BY <2>1 DEF Inv, LeaderHasMajority, Supporters
    <2>3. /\ Supporters(m) \in SUBSET Nodes /\ Supporters(n) \in SUBSET Nodes
          /\ Cardinality(Supporters(m)) \in Nat /\ Cardinality(Supporters(n)) \in Nat
        <3>1. Supporters(m) \in SUBSET Nodes /\ Supporters(n) \in SUBSET Nodes
            BY DEF Supporters
        <3> QED BY <3>1, ClusterAssumption, FS_Subset, FS_CardinalityType
    <2>4. Supporters(m) \cap Supporters(n) # {}
        <3>1. Cardinality(Supporters(m)) + Cardinality(Supporters(n)) > Cardinality(Nodes)
            BY <2>2, <2>3, PeersCount
        <3> QED BY <3>1, <2>3, ClusterAssumption, FS_MajoritiesIntersect
    <2>5. PICK v \in Nodes : v \in Supporters(m) /\ v \in Supporters(n)
        BY <2>3, <2>4
    <2>6. term[m] \in Nat
        BY DEF TypeOK
    <2> QED BY <2>5, <2>6 DEF Supporters, Inv, VotesOnce
<1> QED BY <1>1, InvHolds, PTL
=============================================================================
