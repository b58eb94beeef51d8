--------------------------- MODULE TieringProofs ----------------------------
(***************************************************************************)
(* A scan from hot to cold finds the last write, and Exists is sound.  The *)
(* argument: until something is excused, at most one move or one running   *)
(* delete is under way (OneAtATime), so that nothing else touches the      *)
(* files meanwhile, and a move knows what is where (MoveKnows): it writes  *)
(* the visible copy above or just below the place it is later deleted      *)
(* from, and each of its steps leaves the visible body as it was.          *)
(***************************************************************************)
EXTENDS Tiering, WellFoundedInduction, TLAPS

-----------------------------------------------------------------------------
(* The inductive invariant *)

Stages == {"idle", "found", "notfound", "error", "write", "record", "scan", "touch",
           "get", "deleteTier", "forget"} \cup Moves

CallRecord == [op : {"none", "write", "read", "exists", "stat", "delete"}, at : Stages,
               tier : Tiers, buf : Bodies \cup {None}, failed : BOOLEAN, id : 0..MaxOps]

WorkerRecord == [at : {"idle", "check", "read", "write", "delete", "settle"}, tier : Tiers,
                 buf : Bodies \cup {None}, live : BOOLEAN, rec : AccessRecord \cup {None}]

\* The local variables of calls and worker, which TypeOK leaves out.
LocalsOK ==
  /\ reqs \in [Clients -> CallRecord]
  /\ worker \in WorkerRecord
  /\ \A c \in Clients : At(c, "write") => reqs[c].id \in Bodies
  /\ \A c \in Clients : reqs[c].at \in Moves => reqs[c].tier > 0
  /\ worker.live => access # None
  /\ worker.at = "check" /\ ~worker.live => worker.rec # None
  /\ worker.at \in {"read", "write", "delete", "settle"} => worker.tier < Last
  /\ gap \in [Clients -> BOOLEAN]

\* A promotion is under way; a delete has removed the hot file.
Promoting(c) == reqs[c].at \in Moves \/ (At(c, "scan") /\ reqs[c].op = "read" /\ reqs[c].tier > 0)
Deleting(c) == At(c, "deleteTier") /\ reqs[c].tier > 0

OneAtATime ==
  \A c \in Clients : Promoting(c) \/ Deleting(c) =>
     /\ ~Demoting
     /\ \A d \in Clients \ {c} : ~Promoting(d) /\ ~Deleting(d)

\* What a move or a delete has seen or done is still so.
Above(i) == \A j \in Tiers : j < i => tiers[j] = None

MoveKnows ==
  /\ \A c \in Clients :
        /\ At(c, "deleteTier") => Above(reqs[c].tier) /\ ~reqs[c].failed
        /\ Promoting(c) /\ ~At(c, "promoteDelete") => Above(reqs[c].tier)
        /\ At(c, "promoteWrite") => reqs[c].buf = tiers[reqs[c].tier]
        /\ At(c, "promoteDelete") => tiers[0] # None
  /\ worker.at = "write" => tiers[worker.tier] = worker.buf
  /\ worker.at = "delete" => /\ tiers[worker.tier] = worker.buf
                             /\ tiers[worker.tier + 1] = worker.buf

Latest == (\A c \in Clients : ~Deleting(c)) => Visible(tiers) \in want

\* What Exists has passed is still empty, unless the object was absent or came
\* into the hot tier.
Searching(c) ==
  reqs[c].op = "exists" =>
    /\ reqs[c].at \in {"scan", "found", "notfound", "error"}
    /\ At(c, "scan") => gap[c] \/ Above(reqs[c].tier)
    /\ At(c, "notfound") => gap[c]

Good == OneAtATime /\ MoveKnows /\ Latest

Inv == excused \/ (Good /\ \A c \in Clients : Searching(c))

-----------------------------------------------------------------------------
(* The visible copy *)

Files == [Tiers -> Bodies \cup {None}]

LEMMA LeastExists ==
  ASSUME NEW S \in SUBSET Nat, S # {}
  PROVE  \E m \in S : \A j \in S : m <= j
<1>1. PICK m \in S : \A j \in S : <<j, m>> \notin OpToRel(<, Nat)
  BY NatLessThanWellFounded, WFMin
<1>2. \A j \in S : ~(j < m)
  BY <1>1 DEF OpToRel
<1> QED BY <1>2

LEMMA NothingVisible ==
  ASSUME NEW t \in Files, \A j \in Tiers : t[j] = None
  PROVE  Visible(t) = None
BY DEF Visible, Present

LEMMA VisibleAt ==
  ASSUME NEW t \in Files, NEW m \in Tiers, t[m] # None,
         \A j \in Tiers : j < m => t[j] = None
  PROVE  Visible(t) = t[m]
<1>1. m \in Present(t) /\ \A j \in Present(t) : m <= j
  BY TieringAssumption DEF Present, Tiers
<1> DEFINE f == CHOOSE i \in Present(t) : \A j \in Present(t) : i <= j
<1>2. f \in Present(t) /\ \A j \in Present(t) : f <= j
  BY <1>1
<1>3. f \in Nat /\ m \in Nat
  BY <1>2 DEF Present, Tiers
<1>4. f = m
  <2> HIDE DEF f
  <2> QED BY <1>1, <1>2, <1>3
<1> QED BY <1>1, <1>4 DEF Visible

LEMMA FirstCopy ==
  ASSUME NEW t \in Files
  PROVE  \/ \A j \in Tiers : t[j] = None
         \/ \E m \in Tiers : t[m] # None /\ \A j \in Tiers : j < m => t[j] = None
<1>1. Present(t) \in SUBSET Nat
  BY DEF Present, Tiers
<1>2. CASE Present(t) = {}
  BY <1>2 DEF Present
<1>3. CASE Present(t) # {}
  <2>1. PICK m \in Present(t) : \A j \in Present(t) : m <= j
    BY <1>1, <1>3, LeastExists
  <2>2. m \in Nat /\ \A j \in Tiers : j \in Nat /\ (j \in Present(t) <=> t[j] # None)
    BY <1>1 DEF Present, Tiers
  <2>3. \A j \in Tiers : j < m => t[j] = None
    BY <2>1, <2>2
  <2> QED BY <2>1, <2>3 DEF Present
<1> QED BY <1>2, <1>3

\* A copy is added below one that is there.
LEMMA CopyBelow ==
  ASSUME NEW t \in Files, NEW i \in Tiers, t[i] # None, i < Last, NEW b \in Bodies
  PROVE  Visible([t EXCEPT ![i + 1] = b]) = Visible(t)
<1> DEFINE u == [t EXCEPT ![i + 1] = b]
<1>1. i + 1 \in Tiers /\ u \in Files
  BY TieringAssumption DEF Tiers, Files
<1>2. PICK m \in Tiers : t[m] # None /\ \A j \in Tiers : j < m => t[j] = None
  BY FirstCopy
<1>3. m \in Nat /\ i \in Nat /\ m <= i
  BY <1>2 DEF Tiers
<1>4. u[m] = t[m] /\ \A j \in Tiers : j < m => u[j] = None
  BY <1>1, <1>2, <1>3 DEF Tiers, Files
<1>5. Visible(t) = t[m]
  BY <1>2, VisibleAt
<1> HIDE DEF u
<1>6. Visible(u) = u[m]
  BY <1>1, <1>2, <1>4, VisibleAt
<1> QED BY <1>4, <1>5, <1>6 DEF u

\* The upper one of two equal neighbours goes.
LEMMA CopyAbove ==
  ASSUME NEW t \in Files, NEW i \in Tiers, i < Last, t[i] # None, t[i + 1] = t[i]
  PROVE  Visible([t EXCEPT ![i] = None]) = Visible(t)
<1> DEFINE u == [t EXCEPT ![i] = None]
<1>1. i + 1 \in Tiers /\ u \in Files
  BY TieringAssumption DEF Tiers, Files
<1>2. PICK m \in Tiers : t[m] # None /\ \A j \in Tiers : j < m => t[j] = None
  BY FirstCopy
<1>3. m \in Nat /\ i \in Nat /\ m <= i
  BY <1>2 DEF Tiers
<1>4. Visible(t) = t[m]
  BY <1>2, VisibleAt
<1>5. \A j \in Tiers : j # i => u[j] = t[j]
  BY DEF Files
<1>6. u[i] = None
  BY DEF Files
<1> HIDE DEF u
<1>7. CASE m < i
  <2>1. u[m] = t[m] /\ \A j \in Tiers : j < m => u[j] = None
    BY <1>2, <1>3, <1>5, <1>7 DEF Tiers
  <2>2. Visible(u) = u[m]
    BY <1>1, <1>2, <2>1, VisibleAt
  <2> QED BY <1>4, <2>1, <2>2 DEF u
<1>8. CASE m = i
  <2>1. u[i + 1] = t[i] /\ \A j \in Tiers : j < i + 1 => u[j] = None
    BY <1>1, <1>2, <1>3, <1>5, <1>6, <1>8 DEF Tiers
  <2>2. Visible(u) = u[i + 1]
    BY <1>1, <2>1, VisibleAt
  <2> QED BY <1>4, <1>8, <2>1, <2>2 DEF u
<1> QED BY <1>3, <1>7, <1>8

-----------------------------------------------------------------------------
(* What the steps do to one call *)

\* A call comes to its answer.
LEMMA ReturnEffect ==
  ASSUME LocalsOK, NEW c \in Clients, NEW answer \in Stages, Return(c, answer)
  PROVE  /\ reqs' \in [Clients -> CallRecord]
         /\ reqs'[c].at = answer /\ reqs'[c].tier = 0 /\ ~reqs'[c].failed
         /\ reqs'[c].op = reqs[c].op /\ reqs'[c].id = reqs[c].id
         /\ \A d \in Clients \ {c} : reqs'[d] = reqs[d]
<1> DEFINE q == CallAt(reqs[c].op, answer, reqs[c].id)
<1>1. q = [op |-> reqs[c].op, at |-> answer, tier |-> 0, buf |-> None, failed |-> FALSE,
           id |-> reqs[c].id]
  BY DEF CallAt
<1>2. 0 \in Tiers
  BY TieringAssumption DEF Tiers
<1>3. q \in CallRecord
  BY <1>1, <1>2 DEF LocalsOK, CallRecord
<1>4. reqs' = [reqs EXCEPT ![c] = q]
  BY DEF Return
<1>5. /\ q.at = answer /\ q.tier = 0 /\ q.failed = FALSE
      /\ q.op = reqs[c].op /\ q.id = reqs[c].id
  BY <1>1
<1> HIDE DEF q
<1> QED BY <1>3, <1>4, <1>5 DEF LocalsOK

\* A call begins.
LEMMA BeginEffect ==
  ASSUME TypeOK, LocalsOK, NEW c \in Clients,
         NEW op \in {"write", "read", "exists", "stat", "delete"},
         NEW stage \in {"write", "scan", "deleteTier"}, Begin(c, op, stage)
  PROVE  /\ reqs' \in [Clients -> CallRecord]
         /\ reqs'[c].at = stage /\ reqs'[c].tier = 0 /\ ~reqs'[c].failed
         /\ reqs'[c].op = op /\ reqs'[c].id = nops + 1 /\ nops + 1 \in Bodies
         /\ \A d \in Clients \ {c} : reqs'[d] = reqs[d]
<1> DEFINE q == CallAt(op, stage, nops + 1)
<1>1. q = [op |-> op, at |-> stage, tier |-> 0, buf |-> None, failed |-> FALSE, id |-> nops + 1]
  BY DEF CallAt
<1>2. 0 \in Tiers /\ nops + 1 \in Bodies /\ nops + 1 \in 0..MaxOps
  BY TieringAssumption DEF Tiers, Bodies, Begin, TypeOK
<1>3. q \in CallRecord
  <2>1. stage \in Stages /\ op \in {"none", "write", "read", "exists", "stat", "delete"}
    BY DEF Stages
  <2>2. [op |-> op, at |-> stage, tier |-> 0, buf |-> None, failed |-> FALSE, id |-> nops + 1]
          \in CallRecord
    BY <1>2, <2>1 DEF CallRecord
  <2> QED BY <1>1, <2>2
<1>4. reqs' = [reqs EXCEPT ![c] = q]
  BY DEF Begin
<1>5. q.at = stage /\ q.tier = 0 /\ q.failed = FALSE /\ q.op = op /\ q.id = nops + 1
  BY <1>1
<1> HIDE DEF q
<1> QED BY <1>2, <1>3, <1>4, <1>5 DEF LocalsOK

\* A call moves on and keeps the rest.
LEMMA GotoEffect ==
  ASSUME LocalsOK, NEW c \in Clients, NEW stage \in Stages, Goto(c, stage)
  PROVE  /\ reqs' \in [Clients -> CallRecord]
         /\ reqs'[c].at = stage /\ reqs'[c].tier = reqs[c].tier
         /\ reqs'[c].failed = reqs[c].failed /\ reqs'[c].buf = reqs[c].buf
         /\ reqs'[c].op = reqs[c].op /\ reqs'[c].id = reqs[c].id
         /\ \A d \in Clients \ {c} : reqs'[d] = reqs[d]
BY DEF LocalsOK, Goto, CallRecord

\* A scan turns to the next tier or ends.
LEMMA MissEffect ==
  ASSUME LocalsOK, NEW c \in Clients, Miss(c)
  PROVE  /\ reqs' \in [Clients -> CallRecord]
         /\ reqs'[c].op = reqs[c].op /\ reqs'[c].id = reqs[c].id
         /\ \/ /\ reqs[c].tier = Last
               /\ reqs'[c].at = "notfound" /\ reqs'[c].tier = 0 /\ ~reqs'[c].failed
            \/ /\ reqs[c].tier + 1 \in Tiers
               /\ reqs'[c].at = reqs[c].at /\ reqs'[c].tier = reqs[c].tier + 1
         /\ \A d \in Clients \ {c} : reqs'[d] = reqs[d]
<1>1. CASE reqs[c].tier = Last
  <2>1. Return(c, "notfound") /\ "notfound" \in Stages
    BY <1>1 DEF Miss, Stages
  <2> QED BY <1>1, <2>1, ReturnEffect
<1>2. CASE reqs[c].tier # Last
  <2>1. reqs[c].tier + 1 \in Tiers
    BY <1>2, TieringAssumption DEF LocalsOK, CallRecord, Tiers
  <2>2. reqs' = [reqs EXCEPT ![c].tier = reqs[c].tier + 1]
    BY <1>2 DEF Miss
  <2> QED BY <2>1, <2>2 DEF LocalsOK, CallRecord
<1> QED BY <1>1, <1>2

-----------------------------------------------------------------------------
(* Types *)

\* What Observe adds is a truth value for each caller.
LEMMA GapTyped == ASSUME Observe PROVE gap' \in [Clients -> BOOLEAN]
BY DEF Observe

\* The parts of the types that one call can disturb.
CallsTyped ==
  /\ reqs \in [Clients -> CallRecord]
  /\ \A c \in Clients : At(c, "write") => reqs[c].id \in Bodies
  /\ \A c \in Clients : At(c, "promoteWrite") => reqs[c].buf # None
  /\ \A c \in Clients : reqs[c].at \in Moves => reqs[c].tier > 0

FilesTyped ==
  /\ tiers \in [Tiers -> Bodies \cup {None}]
  /\ access \in AccessRecord \cup {None}
  /\ nops \in 0..MaxOps /\ faults \in 0..MaxFaults
  /\ want \subseteq Bodies \cup {None}
  /\ excused \in BOOLEAN

WorkerTyped ==
  /\ worker \in WorkerRecord
  /\ worker.at \in {"write", "delete"} => worker.buf # None
  /\ worker.live => access # None
  /\ worker.at = "check" /\ ~worker.live => worker.rec # None
  /\ worker.at \in {"read", "write", "delete", "settle"} => worker.tier < Last

LEMMA TypesTogether ==
  TypeOK /\ LocalsOK <=> CallsTyped /\ FilesTyped /\ WorkerTyped /\ gap \in [Clients -> BOOLEAN]
<1>1. TypeOK /\ LocalsOK => CallsTyped /\ FilesTyped /\ WorkerTyped /\ gap \in [Clients -> BOOLEAN]
  BY DEF TypeOK, LocalsOK, CallsTyped, FilesTyped, WorkerTyped
<1>2. CallsTyped /\ FilesTyped /\ WorkerTyped /\ gap \in [Clients -> BOOLEAN] => TypeOK /\ LocalsOK
  BY DEF TypeOK, LocalsOK, CallsTyped, FilesTyped, WorkerTyped, WorkerRecord, Moves, At
<1> QED BY <1>1, <1>2

LEMMA OneCallTyped ==
  ASSUME CallsTyped, NEW c \in Clients, reqs' \in [Clients -> CallRecord],
         \A d \in Clients \ {c} : reqs'[d] = reqs[d],
         reqs'[c].at = "write" => reqs'[c].id \in Bodies,
         reqs'[c].at = "promoteWrite" => reqs'[c].buf # None,
         reqs'[c].at \in Moves => reqs'[c].tier > 0
  PROVE  CallsTyped'
BY DEF CallsTyped, At

\* A record is replaced: a demotion keeps the old one.
LEMMA ReplaceTyped ==
  ASSUME FilesTyped, WorkerTyped, NEW rec \in AccessRecord \cup {None}, ReplaceRecord(rec)
  PROVE  /\ WorkerTyped' /\ access' = rec
         /\ worker'.at = worker.at /\ worker'.tier = worker.tier /\ worker'.buf = worker.buf
<1>1. access' = rec
  BY DEF ReplaceRecord
<1>2. CASE worker.live
  <2> DEFINE w == [worker EXCEPT !.live = FALSE, !.rec = access]
  <2>1. worker' = w
    BY <1>2 DEF ReplaceRecord
  <2>2. /\ w.at = worker.at /\ w.tier = worker.tier /\ w.buf = worker.buf
        /\ w.live = FALSE /\ w.rec = access
    BY DEF WorkerTyped, WorkerRecord
  <2>3. w \in WorkerRecord
    BY DEF WorkerTyped, WorkerRecord, FilesTyped
  <2> HIDE DEF w
  <2> QED BY <1>1, <1>2, <2>1, <2>2, <2>3 DEF WorkerTyped
<1>3. CASE ~worker.live
  <2>1. worker' = worker
    BY <1>3 DEF ReplaceRecord
  <2> QED BY <1>1, <1>3, <2>1 DEF WorkerTyped
<1> QED BY <1>2, <1>3

LEMMA InitType == Init => TypeOK /\ LocalsOK
<1> SUFFICES ASSUME Init PROVE TypeOK /\ LocalsOK
  OBVIOUS
<1>1. 0 \in Tiers
  BY TieringAssumption DEF Tiers
<1>2. /\ CallAt("none", "idle", 0) \in CallRecord
      /\ CallAt("none", "idle", 0).at = "idle"
  BY <1>1, TieringAssumption DEF CallAt, CallRecord, Stages
<1>3. CallsTyped
  BY <1>2 DEF Init, CallsTyped, NoCall, At, Moves
<1>4. FilesTyped
  <2>1. nops \in 0..MaxOps /\ faults \in 0..MaxFaults
    BY TieringAssumption DEF Init
  <2> QED BY <2>1 DEF Init, FilesTyped
<1>5. WorkerTyped
  BY <1>1 DEF Init, WorkerTyped, WorkerRecord, Resting
<1> QED BY <1>3, <1>4, <1>5, TypesTogether DEF Init

LEMMA ClientTyped ==
  ASSUME TypeOK, LocalsOK, NEW c \in Clients,
         \/ Begin(c, "write", "write") \/ Begin(c, "read", "scan")
         \/ Begin(c, "exists", "scan") \/ Begin(c, "stat", "scan")
         \/ Begin(c, "delete", "deleteTier")
         \/ Call(c) \/ TierFails(c)
  PROVE  CallsTyped' /\ FilesTyped' /\ WorkerTyped'
<1>0. CallsTyped /\ FilesTyped /\ WorkerTyped
  BY TypesTogether
<1>1. /\ {"found", "notfound", "error", "record", "touch", "get", "forget", "scan",
          "promoteRead", "promoteDelete"} \subseteq Stages
      /\ reqs[c] \in CallRecord /\ reqs[c].id \in 0..MaxOps
  BY DEF Stages, Moves, LocalsOK, CallRecord
<1>2. ASSUME NEW op \in {"write", "read", "exists", "stat", "delete"},
             NEW stage \in {"write", "scan", "deleteTier"}, Begin(c, op, stage)
      PROVE  CallsTyped' /\ FilesTyped' /\ WorkerTyped'
  <2>1. CallsTyped'
    BY <1>0, <1>2, BeginEffect, OneCallTyped DEF Moves
  <2>2. nops' \in 0..MaxOps /\ UNCHANGED <<tiers, access, worker, faults, excused>>
    BY <1>2, TieringAssumption DEF Begin, TypeOK
  <2>3. want' \subseteq Bodies \cup {None}
    BY <1>2 DEF Begin, TypeOK
  <2> QED BY <1>0, <2>1, <2>2, <2>3 DEF FilesTyped, WorkerTyped
<1>3. CASE Write(c)
  <2>1. reqs[c].id \in Bodies
    BY <1>3 DEF Write, LocalsOK
  <2>2. CallsTyped'
    <3>1. Goto(c, "record")
      BY <1>3 DEF Write
    <3> QED BY <1>0, <1>1, <3>1, GotoEffect, OneCallTyped DEF Moves
  <2>3. FilesTyped'
    BY <1>0, <1>3, <2>1 DEF Write, Put, FilesTyped
  <2> QED BY <1>0, <1>3, <2>2, <2>3 DEF Write, WorkerTyped
<1>4. CASE WriteRecord(c)
  <2>1. [tier |-> 0, cold |-> FALSE] \in AccessRecord
    BY TieringAssumption DEF AccessRecord, Tiers
  <2>2. WorkerTyped' /\ access' = [tier |-> 0, cold |-> FALSE]
    BY <1>0, <1>4, <2>1, ReplaceTyped DEF WriteRecord
  <2>3. CallsTyped'
    <3>1. Return(c, "found")
      BY <1>4 DEF WriteRecord
    <3> QED BY <1>0, <1>1, <3>1, ReturnEffect, OneCallTyped DEF Moves
  <2> QED BY <1>0, <1>4, <2>1, <2>2, <2>3 DEF WriteRecord, FilesTyped
<1>5. CASE Scan(c)
  <2>1. \/ Goto(c, "touch")
        \/ Goto(c, "promoteRead") /\ reqs[c].tier # 0
        \/ Miss(c)
    BY <1>5 DEF Scan
  <2>2. reqs[c].at = "scan"
    BY <1>5 DEF Scan, At
  <2>3. CallsTyped'
    <3>1. CASE Miss(c)
      BY <1>0, <2>2, <3>1, MissEffect, OneCallTyped DEF Moves
    <3>2. CASE Goto(c, "touch")
      BY <1>0, <1>1, <3>2, GotoEffect, OneCallTyped DEF Moves
    <3>3. CASE Goto(c, "promoteRead") /\ reqs[c].tier # 0
      <4>1. reqs[c].tier > 0
        BY <1>1, <3>3, TieringAssumption DEF CallRecord, Tiers
      <4> QED BY <1>0, <1>1, <3>3, <4>1, GotoEffect, OneCallTyped DEF Moves
    <3> QED BY <2>1, <3>1, <3>2, <3>3
  <2>4. FilesTyped'
    BY <1>0, <1>5 DEF Scan, FilesTyped
  <2> QED BY <1>0, <1>5, <2>3, <2>4 DEF Scan, WorkerTyped
<1>6. CASE Probe(c)
  <2>1. Return(c, "found") \/ Goto(c, "get") \/ Miss(c)
    BY <1>6 DEF Probe
  <2>2. reqs[c].at = "scan"
    BY <1>6 DEF Probe, At
  <2>3. CallsTyped'
    <3>1. CASE Miss(c)
      BY <1>0, <2>2, <3>1, MissEffect, OneCallTyped DEF Moves
    <3>2. CASE Return(c, "found")
      BY <1>0, <1>1, <3>2, ReturnEffect, OneCallTyped DEF Moves
    <3>3. CASE Goto(c, "get")
      BY <1>0, <1>1, <3>3, GotoEffect, OneCallTyped DEF Moves
    <3> QED BY <2>1, <3>1, <3>2, <3>3
  <2> QED BY <1>0, <1>6, <2>3 DEF Probe, FilesTyped, WorkerTyped
<1>7. CASE TierFails(c)
  <2>1. faults' \in 0..MaxFaults /\ UNCHANGED <<tiers, access, worker, nops, want>>
    BY <1>7, TieringAssumption DEF TierFails, TypeOK
  <2>5. excused' = TRUE \/ excused' = excused
    BY <1>7 DEF TierFails
  <2>6. excused' \in BOOLEAN
    BY <2>5 DEF TypeOK
  <2>2. \/ Miss(c) /\ reqs[c].at = "scan"
        \/ Return(c, "error") \/ Goto(c, "touch")
        \/ /\ reqs[c].at = "deleteTier"
           /\ reqs' = [reqs EXCEPT ![c].failed = TRUE,
                         ![c].tier = IF reqs[c].tier = Last THEN Last ELSE reqs[c].tier + 1,
                         ![c].at = IF reqs[c].tier = Last THEN "forget" ELSE @]
    BY <1>7 DEF TierFails
  <2>3. CallsTyped'
    <3>1. CASE Miss(c) /\ reqs[c].at = "scan"
      BY <1>0, <3>1, MissEffect, OneCallTyped DEF Moves
    <3>2. CASE Return(c, "error")
      BY <1>0, <1>1, <3>2, ReturnEffect, OneCallTyped DEF Moves
    <3>3. CASE Goto(c, "touch")
      BY <1>0, <1>1, <3>3, GotoEffect, OneCallTyped DEF Moves
    <3>4. CASE /\ reqs[c].at = "deleteTier"
               /\ reqs' = [reqs EXCEPT ![c].failed = TRUE,
                             ![c].tier = IF reqs[c].tier = Last THEN Last ELSE reqs[c].tier + 1,
                             ![c].at = IF reqs[c].tier = Last THEN "forget" ELSE @]
      <4> DEFINE i == IF reqs[c].tier = Last THEN Last ELSE reqs[c].tier + 1
                 s == IF reqs[c].tier = Last THEN "forget" ELSE reqs[c].at
      <4>1. i \in Tiers /\ s \in Stages /\ s \in {"forget", "deleteTier"}
        BY <1>1, <3>4, TieringAssumption DEF CallRecord, Tiers
      <4>2. reqs' = [reqs EXCEPT ![c].failed = TRUE, ![c].tier = i, ![c].at = s]
        BY <3>4
      <4> HIDE DEF i, s
      <4>3. reqs' \in [Clients -> CallRecord]
        <5> DEFINE f == [reqs EXCEPT ![c].failed = TRUE]
                   g == [f EXCEPT ![c].tier = i]
        <5>1. f \in [Clients -> CallRecord]
          BY DEF LocalsOK, CallRecord
        <5>2. g \in [Clients -> CallRecord]
          <6> HIDE DEF f
          <6> QED BY <4>1, <5>1 DEF CallRecord
        <5>3. reqs' = [g EXCEPT ![c].at = s]
          BY <4>2
        <5> HIDE DEF f, g
        <5> QED BY <4>1, <5>2, <5>3 DEF CallRecord
      <4>4. reqs'[c].at = s /\ \A d \in Clients \ {c} : reqs'[d] = reqs[d]
        BY <4>2 DEF LocalsOK, CallRecord
      <4> QED BY <1>0, <4>1, <4>3, <4>4, OneCallTyped DEF Moves
    <3> QED BY <2>2, <3>1, <3>2, <3>3, <3>4
  <2> QED BY <1>0, <2>1, <2>3, <2>6 DEF FilesTyped, WorkerTyped
<1>8. CASE promoteRead(c)
  <2> DEFINE b == tiers[reqs[c].tier]
             s == IF b = None THEN "touch" ELSE "promoteWrite"
  <2>1. b \in Bodies \cup {None} /\ s \in Stages
    BY <1>1 DEF TypeOK, CallRecord, Stages, Moves
  <2>2. reqs' = [reqs EXCEPT ![c].buf = b, ![c].at = s]
        /\ UNCHANGED <<tiers, access, worker, nops, faults, want, excused>>
    BY <1>8 DEF promoteRead
  <2>3. s \in {"touch", "promoteWrite"} /\ (s = "promoteWrite" => b # None)
    OBVIOUS
  <2> HIDE DEF b, s
  <2>4. reqs' \in [Clients -> CallRecord]
    <3> DEFINE f == [reqs EXCEPT ![c].buf = b]
    <3>1. f \in [Clients -> CallRecord]
      BY <2>1 DEF LocalsOK, CallRecord
    <3>2. reqs' = [f EXCEPT ![c].at = s]
      BY <2>2
    <3> HIDE DEF f
    <3> QED BY <2>1, <3>1, <3>2 DEF CallRecord
  <2>5. /\ reqs'[c].at = s /\ reqs'[c].buf = b /\ reqs'[c].tier = reqs[c].tier
        /\ \A d \in Clients \ {c} : reqs'[d] = reqs[d]
    BY <2>2 DEF LocalsOK, CallRecord
  <2>6. reqs[c].tier > 0
    BY <1>8 DEF promoteRead, At, LocalsOK, Moves
  <2>7. CallsTyped'
    BY <1>0, <2>3, <2>4, <2>5, <2>6, OneCallTyped DEF Moves
  <2> QED BY <1>0, <2>2, <2>7 DEF FilesTyped, WorkerTyped
<1>9. CASE promoteWrite(c)
  <2>1. Goto(c, "promoteDelete") /\ At(c, "promoteWrite")
    BY <1>9 DEF promoteWrite
  <2>2. CallsTyped'
    <3>1. reqs[c].tier > 0
      BY <2>1 DEF LocalsOK, At, Moves
    <3>2. reqs'[c].tier > 0
      BY <1>1, <2>1, <3>1, GotoEffect
    <3> QED BY <1>0, <1>1, <2>1, <3>2, GotoEffect, OneCallTyped DEF Moves
  <2>3. reqs[c].buf \in Bodies \cup {None}
    BY <1>1 DEF CallRecord
  <2>4. FilesTyped'
    BY <1>0, <1>9, <2>3 DEF promoteWrite, Put, FilesTyped
  <2> QED BY <1>0, <1>9, <2>2, <2>4 DEF promoteWrite, WorkerTyped
<1>10. CASE promoteDelete(c)
  <2>1. reqs' = [reqs EXCEPT ![c].at = "touch", ![c].tier = 0] /\ 0 \in Tiers
    BY <1>10, TieringAssumption DEF promoteDelete, Tiers
  <2>2. /\ reqs' \in [Clients -> CallRecord] /\ reqs'[c].at = "touch"
        /\ \A d \in Clients \ {c} : reqs'[d] = reqs[d]
    BY <1>1, <2>1 DEF LocalsOK, CallRecord
  <2>3. CallsTyped'
    BY <1>0, <2>2, OneCallTyped DEF Moves
  <2>4. FilesTyped'
    BY <1>0, <1>10 DEF promoteDelete, Put, FilesTyped
  <2> QED BY <1>0, <1>10, <2>3, <2>4 DEF promoteDelete, WorkerTyped
<1>11. CASE Touch(c)
  <2>1. Goto(c, "get")
    BY <1>11 DEF Touch
  <2>2. CallsTyped'
    <3>1. "get" \in Stages /\ "get" \notin Moves
      BY DEF Stages, Moves
    <3> QED BY <1>0, <2>1, <3>1, GotoEffect, OneCallTyped DEF Moves
  <2>3. access' \in AccessRecord /\ worker' = worker
    BY <1>1, <1>11 DEF Touch, recordAccess, AccessRecord, CallRecord
  <2>4. access' # None
    BY <2>3, NoneAssumption
  <2> QED BY <1>0, <1>11, <2>2, <2>3, <2>4 DEF Touch, FilesTyped, WorkerTyped
<1>12. CASE Get(c)
  <2>1. Return(c, "found") \/ Return(c, "notfound")
    BY <1>12 DEF Get, Stat
  <2>2. CallsTyped'
    BY <1>0, <1>1, <2>1, ReturnEffect, OneCallTyped DEF Moves
  <2> QED BY <1>0, <1>12, <2>2 DEF Get, FilesTyped, WorkerTyped
<1>13. CASE DeleteTier(c)
  <2> DEFINE i == IF reqs[c].tier = Last THEN reqs[c].tier ELSE reqs[c].tier + 1
             s == IF reqs[c].tier = Last THEN "forget" ELSE reqs[c].at
  <2>1. reqs[c].at = "deleteTier"
    BY <1>13 DEF DeleteTier, At
  <2>2. i \in Tiers /\ s \in {"forget", "deleteTier"}
    BY <1>1, <2>1, TieringAssumption DEF CallRecord, Tiers
  <2>3. reqs' = [reqs EXCEPT ![c].tier = i, ![c].at = s]
    BY <1>13 DEF DeleteTier
  <2> HIDE DEF i, s
  <2>4. /\ reqs' \in [Clients -> CallRecord] /\ reqs'[c].at = s
        /\ \A d \in Clients \ {c} : reqs'[d] = reqs[d]
    <3> DEFINE f == [reqs EXCEPT ![c].tier = i]
    <3>1. f \in [Clients -> CallRecord] /\ \A d \in Clients \ {c} : f[d] = reqs[d]
      BY <2>2 DEF LocalsOK, CallRecord
    <3>2. reqs' = [f EXCEPT ![c].at = s]
      BY <2>3
    <3> HIDE DEF f
    <3> QED BY <2>2, <3>1, <3>2 DEF CallRecord, Stages
  <2>5. CallsTyped'
    BY <1>0, <2>2, <2>4, OneCallTyped DEF Moves
  <2>6. FilesTyped'
    <3>1. excused' \in BOOLEAN
      BY <1>13 DEF DeleteTier
    <3>2. tiers' \in [Tiers -> Bodies \cup {None}] /\ want' \subseteq Bodies \cup {None}
      BY <1>0, <1>13 DEF DeleteTier, Put, FilesTyped
    <3> QED BY <1>0, <1>13, <3>1, <3>2 DEF DeleteTier, FilesTyped
  <2> QED BY <1>0, <1>13, <2>5, <2>6 DEF DeleteTier, WorkerTyped
<1>14. CASE DeleteRecord(c)
  <2>1. Return(c, "found") \/ Return(c, "error")
    BY <1>14 DEF DeleteRecord
  <2>2. CallsTyped'
    BY <1>0, <1>1, <2>1, ReturnEffect, OneCallTyped DEF Moves
  <2>3. WorkerTyped' /\ access' = None
    BY <1>0, <1>14, ReplaceTyped DEF DeleteRecord
  <2> QED BY <1>0, <1>14, <2>2, <2>3 DEF DeleteRecord, FilesTyped
<1> QED BY <1>2, <1>3, <1>4, <1>5, <1>6, <1>7, <1>8, <1>9, <1>10, <1>11, <1>12, <1>13, <1>14
        DEF Call

LEMMA RestingTyped == /\ Resting \in WorkerRecord /\ Resting.at = "idle"
                      /\ Resting.live = FALSE /\ Resting.tier = 0
BY TieringAssumption DEF Resting, WorkerRecord, Tiers

LEMMA WorkerStepTyped ==
  ASSUME TypeOK, LocalsOK, Demotion \/ DemotionFails \/ Age \/ Crash
  PROVE  CallsTyped' /\ FilesTyped' /\ WorkerTyped'
<1>0. CallsTyped /\ FilesTyped /\ WorkerTyped
  BY TypesTogether
<1>1. CASE Snapshot
  <2> DEFINE w == [Resting EXCEPT !.at = "check", !.live = TRUE]
  <2>1. w \in WorkerRecord /\ w.at = "check" /\ w.live = TRUE
    <3> DEFINE v == [Resting EXCEPT !.at = "check"]
    <3>1. v \in WorkerRecord /\ v.at = "check"
      BY RestingTyped DEF WorkerRecord
    <3>2. w = [v EXCEPT !.live = TRUE]
      OBVIOUS
    <3> HIDE DEF v, w
    <3> QED BY <3>1, <3>2 DEF WorkerRecord
  <2>2. worker' = w /\ access # None /\ access' = access
    BY <1>1 DEF Snapshot
  <2> HIDE DEF w
  <2>3. WorkerTyped'
    BY <2>1, <2>2 DEF WorkerTyped
  <2> QED BY <1>0, <1>1, <2>3 DEF Snapshot, CallsTyped, FilesTyped, At
<1>2. CASE Check
  <2> DEFINE rec == IF worker.live THEN access ELSE worker.rec
             w == [worker EXCEPT !.at = "read", !.tier = rec.tier]
  <2>1. worker.at = "check" /\ UNCHANGED <<tiers, access, reqs, nops, faults, want, excused>>
    BY <1>2 DEF Check
  <2>2. rec \in AccessRecord
    BY <1>0, <2>1 DEF WorkerTyped, FilesTyped, WorkerRecord
  <2>3. \/ worker' = Resting
        \/ worker' = w /\ rec.tier < Last
    BY <1>2 DEF Check
  <2>4. rec.tier \in Tiers
    BY <2>2 DEF AccessRecord
  <2> HIDE DEF rec
  <2>5. w \in WorkerRecord /\ w.at = "read" /\ w.tier = rec.tier /\ w.live = worker.live
    BY <1>0, <2>4 DEF WorkerTyped, WorkerRecord
  <2> HIDE DEF w
  <2>6. WorkerTyped'
    BY <1>0, <2>1, <2>3, <2>5, RestingTyped DEF WorkerTyped
  <2> QED BY <1>0, <2>1, <2>6 DEF CallsTyped, FilesTyped, At
<1>3. CASE demoteRead
  <2> DEFINE b == tiers[worker.tier]
             w == [worker EXCEPT !.at = "write", !.buf = b]
  <2>1. b \in Bodies \cup {None} /\ worker.tier < Last
    BY <1>0, <1>3 DEF demoteRead, WorkerTyped, WorkerRecord, FilesTyped
  <2>2. \/ worker' = Resting
        \/ worker' = w /\ b # None
    BY <1>3 DEF demoteRead
  <2> HIDE DEF b
  <2>3. /\ w \in WorkerRecord /\ w.at = "write" /\ w.buf = b
        /\ w.tier = worker.tier /\ w.live = worker.live
    BY <1>0, <2>1 DEF WorkerTyped, WorkerRecord
  <2> HIDE DEF w
  <2>4. UNCHANGED <<tiers, access, reqs, nops, faults, want>> /\ excused' \in BOOLEAN
    BY <1>3 DEF demoteRead
  <2>5. WorkerTyped'
    BY <1>0, <2>1, <2>2, <2>3, <2>4, RestingTyped DEF WorkerTyped
  <2> QED BY <1>0, <2>4, <2>5 DEF CallsTyped, FilesTyped, At
<1>4. CASE demoteWrite
  <2> DEFINE w == [worker EXCEPT !.at = "delete"]
  <2>1. /\ w \in WorkerRecord /\ w.at = "delete" /\ w.buf = worker.buf
        /\ w.tier = worker.tier /\ w.live = worker.live
    BY <1>0 DEF WorkerTyped, WorkerRecord
  <2>2. worker' = w /\ worker.at = "write" /\ tiers' = [tiers EXCEPT ![worker.tier + 1] = worker.buf]
    BY <1>4 DEF demoteWrite, Put
  <2>3. UNCHANGED <<access, reqs, nops, faults, want, excused>>
    BY <1>4 DEF demoteWrite
  <2> HIDE DEF w
  <2>4. WorkerTyped'
    BY <1>0, <2>1, <2>2, <2>3 DEF WorkerTyped
  <2>5. tiers' \in [Tiers -> Bodies \cup {None}]
    BY <1>0, <2>2 DEF FilesTyped, WorkerTyped, WorkerRecord
  <2> QED BY <1>0, <2>3, <2>4, <2>5 DEF CallsTyped, FilesTyped, At
<1>5. CASE demoteDelete
  <2> DEFINE w == [worker EXCEPT !.at = "settle"]
  <2>1. w \in WorkerRecord /\ w.at = "settle" /\ w.tier = worker.tier /\ w.live = worker.live
    BY <1>0 DEF WorkerTyped, WorkerRecord
  <2>2. worker' = w /\ worker.at = "delete" /\ tiers' = [tiers EXCEPT ![worker.tier] = None]
    BY <1>5 DEF demoteDelete, Put
  <2>3. UNCHANGED <<access, reqs, nops, faults, want, excused>>
    BY <1>5 DEF demoteDelete
  <2> HIDE DEF w
  <2>4. WorkerTyped'
    BY <1>0, <2>1, <2>2, <2>3 DEF WorkerTyped
  <2>5. tiers' \in [Tiers -> Bodies \cup {None}]
    BY <1>0, <2>2 DEF FilesTyped
  <2> QED BY <1>0, <2>3, <2>4, <2>5 DEF CallsTyped, FilesTyped, At
<1>6. CASE Settle
  <2>1. worker' = Resting /\ UNCHANGED <<tiers, reqs, nops, faults, want, excused>>
    BY <1>6 DEF Settle
  <2>2. worker.tier + 1 \in Tiers
    BY <1>0, <1>6, TieringAssumption DEF Settle, WorkerTyped, WorkerRecord, Tiers
  <2>3. access' \in AccessRecord \cup {None}
    BY <1>0, <1>6, <2>2 DEF Settle, FilesTyped, AccessRecord
  <2>4. WorkerTyped'
    BY <2>1, RestingTyped DEF WorkerTyped
  <2> QED BY <1>0, <2>1, <2>3, <2>4 DEF CallsTyped, FilesTyped, At
<1>7. CASE DemotionFails
  <2>1. faults' \in 0..MaxFaults
    BY <1>0, <1>7, TieringAssumption DEF DemotionFails, FilesTyped
  <2>2. worker' = Resting /\ UNCHANGED <<tiers, access, reqs, nops, want, excused>>
    BY <1>7 DEF DemotionFails
  <2>3. WorkerTyped'
    BY <2>2, RestingTyped DEF WorkerTyped
  <2> QED BY <1>0, <2>1, <2>2, <2>3 DEF CallsTyped, FilesTyped, At
<1>8. CASE Age
  <2>1. access' \in AccessRecord
    BY <1>0, <1>8 DEF Age, FilesTyped, AccessRecord
  <2>2. access' # None
    BY <2>1, NoneAssumption
  <2> QED BY <1>0, <1>8, <2>1, <2>2 DEF Age, CallsTyped, FilesTyped, WorkerTyped, At
<1>9. CASE Crash
  <2>1. faults' \in 0..MaxFaults
    BY <1>0, <1>9, TieringAssumption DEF Crash, FilesTyped
  <2>2. /\ CallAt("none", "idle", 0) \in CallRecord
        /\ CallAt("none", "idle", 0).at = "idle"
    BY TieringAssumption DEF CallAt, CallRecord, Stages, Tiers
  <2>3. CallsTyped'
    BY <1>9, <2>2 DEF Crash, NoCall, CallsTyped, At, Moves
  <2>4. WorkerTyped'
    BY <1>9, RestingTyped DEF Crash, WorkerTyped
  <2>5. excused' \in BOOLEAN
    BY <1>9 DEF Crash
  <2> QED BY <1>0, <1>9, <2>1, <2>3, <2>4, <2>5 DEF Crash, FilesTyped
<1> QED BY <1>1, <1>2, <1>3, <1>4, <1>5, <1>6, <1>7, <1>8, <1>9 DEF Demotion

\* Every step keeps the types.
LEMMA TypeStep == TypeOK /\ LocalsOK /\ [Next]_vars => TypeOK' /\ LocalsOK'
<1> SUFFICES ASSUME TypeOK, LocalsOK, [Next]_vars PROVE TypeOK' /\ LocalsOK'
  OBVIOUS
<1>1. CASE Next
  <2>1. gap' \in [Clients -> BOOLEAN]
    BY <1>1, GapTyped DEF Next
  <2>2. CallsTyped' /\ FilesTyped' /\ WorkerTyped'
    BY <1>1, ClientTyped, WorkerStepTyped DEF Next, Step
  <2>3. (TypeOK /\ LocalsOK)' <=> (CallsTyped /\ FilesTyped /\ WorkerTyped /\ gap \in [Clients -> BOOLEAN])'
    BY TypesTogether, PTL
  <2> QED BY <2>1, <2>2, <2>3
<1>2. CASE UNCHANGED vars
  BY <1>2 DEF vars, TypeOK, LocalsOK, At
<1> QED BY <1>1, <1>2

\* TypeOK holds of every behaviour: no tier, record or running move is ever
\* out of its range, and a move that writes holds the bytes it read.
THEOREM TieringTypeCorrect == Spec => []TypeOK
<1>1. Init => TypeOK /\ LocalsOK
  BY InitType
<1>2. TypeOK /\ LocalsOK /\ [Next]_vars => (TypeOK /\ LocalsOK)'
  BY TypeStep
<1> QED BY <1>1, <1>2, PTL DEF Spec

-----------------------------------------------------------------------------
(* The last write stays visible *)

\* A caller that moves and deletes nothing leaves Good as it is.
LEMMA PassiveCall ==
  ASSUME TypeOK, LocalsOK, Good, NEW c \in Clients, tiers' = tiers,
         worker'.at = worker.at, worker'.tier = worker.tier, worker'.buf = worker.buf,
         want \subseteq want', ~Deleting(c),
         \A d \in Clients \ {c} : reqs'[d] = reqs[d],
         ~Promoting(c)', reqs'[c].at = "deleteTier" => reqs'[c].tier = 0 /\ ~reqs'[c].failed
  PROVE  Good'
<1>1. OneAtATime' /\ \A d \in Clients : ~Deleting(d)' => ~Deleting(d)
  <2>1. ~Deleting(c)'
    BY DEF Deleting, At
  <2>2. \A d \in Clients \ {c} : (Promoting(d)' <=> Promoting(d)) /\ (Deleting(d)' <=> Deleting(d))
    BY DEF Promoting, Deleting, At
  <2>3. Demoting' <=> Demoting
    BY DEF Demoting
  <2> QED BY <2>1, <2>2, <2>3 DEF Good, OneAtATime
<1>2. MoveKnows'
  <2>1. \A j \in Tiers : ~(j < 0)
    BY DEF Tiers
  <2>2. ~(reqs'[c].at \in Moves) /\ (reqs'[c].at = "deleteTier" => Above(reqs[c].tier)')
    BY <2>1 DEF Promoting, Above
  <2>3. ASSUME NEW d \in Clients
        PROVE  (/\ At(d, "deleteTier") => Above(reqs[d].tier) /\ ~reqs[d].failed
                /\ Promoting(d) /\ ~At(d, "promoteDelete") => Above(reqs[d].tier)
                /\ At(d, "promoteWrite") => reqs[d].buf = tiers[reqs[d].tier]
                /\ At(d, "promoteDelete") => tiers[0] # None)'
    <3>1. CASE d = c
      BY <2>2, <3>1 DEF At, Moves
    <3>2. CASE d # c
      BY <2>3, <3>2 DEF Good, MoveKnows, At, Promoting, Above
    <3> QED BY <3>1, <3>2
  <2> QED BY <2>3 DEF Good, MoveKnows
<1>3. Latest'
  BY <1>1 DEF Good, Latest
<1> QED BY <1>1, <1>2, <1>3 DEF Good

\* So does a worker that is not in the middle of a move.
LEMMA PassiveWorker ==
  ASSUME Good, UNCHANGED <<tiers, reqs, want>>, worker'.at \notin {"write", "delete"}
  PROVE  Good'
BY DEF Good, OneAtATime, MoveKnows, Latest, Promoting, Deleting, Demoting, At, Above

\* When nobody is moving or deleting.
LEMMA Alone ==
  ASSUME NEW c \in Clients, ~Others(c)
  PROVE  /\ ~Demoting
         /\ \A d \in Clients \ {c} : ~Promoting(d) /\ ~At(d, "deleteTier")
<1>1. ~Demoting /\ Busy \ {c} = {}
  BY DEF Others
<1>2. \A d \in Clients \ {c} : d \notin Busy
  BY <1>1
<1>3. ASSUME NEW d \in Clients \ {c} PROVE ~Promoting(d) /\ ~At(d, "deleteTier")
  <2>1. d \notin Busy
    BY <1>2
  <2> QED BY <2>1 DEF Busy, Promoting, At
<1> QED BY <1>1, <1>3

LEMMA TierNat == /\ \A j \in Tiers : j \in Nat /\ ~(j < 0)
                 /\ 0 \in Tiers
BY TieringAssumption DEF Tiers

\* Only one call moves on, within its promotion.
LEMMA PromotionGoesOn ==
  ASSUME TypeOK, LocalsOK, Good, NEW c \in Clients, tiers' = tiers, worker' = worker, want' = want,
         \A d \in Clients \ {c} : reqs'[d] = reqs[d],
         Promoting(c) \/ ~Others(c), ~Deleting(c), Promoting(c)', reqs'[c].at # "promoteDelete",
         Above(reqs[c].tier)', reqs'[c].at = "promoteWrite" => reqs'[c].buf = tiers[reqs'[c].tier]
  PROVE  Good'
<1>1. ~Deleting(c)' /\ reqs'[c].at # "deleteTier"
  BY DEF Promoting, Deleting, At, Moves
<1>2. \A d \in Clients \ {c} : (Promoting(d)' <=> Promoting(d)) /\ (Deleting(d)' <=> Deleting(d))
  BY DEF Promoting, Deleting, At
<1>3. ~Demoting /\ \A d \in Clients \ {c} : ~Promoting(d) /\ ~Deleting(d)
  BY Alone DEF Good, OneAtATime, Deleting
<1>4. OneAtATime'
  BY <1>1, <1>2, <1>3 DEF OneAtATime, Demoting
<1>5. MoveKnows'
  <2>1. ASSUME NEW d \in Clients
        PROVE  (/\ At(d, "deleteTier") => Above(reqs[d].tier) /\ ~reqs[d].failed
                /\ Promoting(d) /\ ~At(d, "promoteDelete") => Above(reqs[d].tier)
                /\ At(d, "promoteWrite") => reqs[d].buf = tiers[reqs[d].tier]
                /\ At(d, "promoteDelete") => tiers[0] # None)'
    <3>1. CASE d = c
      BY <1>1, <3>1 DEF At
    <3>2. CASE d # c
      BY <2>1, <3>2 DEF Good, MoveKnows, At, Promoting, Above
    <3> QED BY <3>1, <3>2
  <2> QED BY <2>1 DEF Good, MoveKnows
<1>6. Latest'
  BY <1>1, <1>2 DEF Good, Latest
<1> QED BY <1>4, <1>5, <1>6 DEF Good

\* A call changes a file and is then in no move, or about to delete the copy
\* it promoted, while nobody else is in the middle of anything.
LEMMA FileChanges ==
  ASSUME TypeOK, LocalsOK, Good, NEW c \in Clients, ~Demoting, worker' = worker,
         \A d \in Clients \ {c} : reqs'[d] = reqs[d] /\ ~Promoting(d) /\ ~Deleting(d),
         \/ ~Promoting(c)' /\ reqs'[c].at # "deleteTier"
         \/ reqs'[c].at = "promoteDelete" /\ tiers'[0] # None,
         Visible(tiers') \in want'
  PROVE  Good'
<1>1. \A d \in Clients \ {c} : ~Promoting(d)' /\ ~Deleting(d)'
  BY DEF Promoting, Deleting, At
<1>2. OneAtATime'
  BY <1>1 DEF OneAtATime, Demoting, Deleting, At
<1>3. MoveKnows'
  <2>1. ASSUME NEW d \in Clients
        PROVE  (/\ At(d, "deleteTier") => Above(reqs[d].tier) /\ ~reqs[d].failed
                /\ Promoting(d) /\ ~At(d, "promoteDelete") => Above(reqs[d].tier)
                /\ At(d, "promoteWrite") => reqs[d].buf = tiers[reqs[d].tier]
                /\ At(d, "promoteDelete") => tiers[0] # None)'
    <3>1. CASE d = c
      BY <3>1 DEF At, Promoting, Moves
    <3>2. CASE d # c
      <4>1. reqs'[d] = reqs[d] /\ reqs'[d].at \notin Moves /\ ~Promoting(d)' /\ ~Deleting(d)
        BY <1>1, <3>2 DEF Promoting
      <4>2. reqs'[d].at = "deleteTier" => reqs'[d].tier = 0 /\ ~reqs'[d].failed
        BY <4>1, TieringAssumption DEF Good, MoveKnows, Deleting, At, LocalsOK, CallRecord, Tiers
      <4>3. At(d, "deleteTier")' => Above(reqs[d].tier)' /\ ~reqs'[d].failed
        BY <4>2, TierNat DEF Above, At
      <4> QED BY <4>1, <4>3 DEF At, Moves
    <3> QED BY <3>1, <3>2
  <2>2. worker.at \notin {"write", "delete"}
    BY DEF Demoting
  <2> QED BY <2>1, <2>2 DEF MoveKnows
<1> QED BY <1>2, <1>3 DEF Good, Latest

\* Every step of a caller keeps what is known, or is excused.
LEMMA GoodCall ==
  ASSUME TypeOK, LocalsOK, Good, ~excused', NEW c \in Clients,
         \/ Begin(c, "write", "write") \/ Begin(c, "read", "scan")
         \/ Begin(c, "exists", "scan") \/ Begin(c, "stat", "scan")
         \/ Begin(c, "delete", "deleteTier")
         \/ Call(c) \/ TierFails(c)
  PROVE  Good'
<1>0. /\ {"found", "notfound", "error", "record", "touch", "get", "forget", "scan",
          "promoteRead", "promoteDelete"} \subseteq Stages
      /\ CallsTyped /\ FilesTyped /\ WorkerTyped /\ tiers \in Files
      /\ reqs[c] \in CallRecord /\ reqs[c].tier \in Tiers
  BY TypesTogether DEF Stages, Moves, LocalsOK, CallRecord, Files, TypeOK
<1>1. ASSUME NEW op \in {"write", "read", "exists", "stat", "delete"},
             NEW stage \in {"write", "scan", "deleteTier"}, Begin(c, op, stage)
      PROVE  Good'
  <2>1. ~Deleting(c) /\ tiers' = tiers /\ worker' = worker /\ want \subseteq want'
    BY <1>1 DEF Begin, Deleting, At
  <2>2. ~Promoting(c)' /\ (reqs'[c].at = "deleteTier" => reqs'[c].tier = 0 /\ ~reqs'[c].failed)
    BY <1>1, BeginEffect, TierNat DEF Promoting, At, Moves
  <2> QED BY <1>1, <2>1, <2>2, BeginEffect, PassiveCall
\* A call that comes to its answer, or goes on to touch or get.
<1>2. ASSUME NEW answer \in {"found", "notfound", "error", "touch", "get"},
             Return(c, answer) \/ Goto(c, answer), ~Deleting(c),
             tiers' = tiers, worker'.at = worker.at, worker'.tier = worker.tier,
             worker'.buf = worker.buf, want' = want
      PROVE  Good'
  <2>1. answer \in Stages
    BY <1>0
  <2>2. reqs'[c].at = answer /\ \A d \in Clients \ {c} : reqs'[d] = reqs[d]
    BY <1>2, <2>1, ReturnEffect, GotoEffect
  <2>3. ~Promoting(c)' /\ reqs'[c].at # "deleteTier"
    BY <2>2 DEF Promoting, At, Moves
  <2> QED BY <1>2, <2>2, <2>3, PassiveCall
<1>3. CASE Write(c)
  <2>1. ~Others(c) /\ reqs[c].id \in Bodies /\ Goto(c, "record")
    BY <1>3 DEF Write, LocalsOK
  <2>2. tiers' \in Files /\ tiers'[0] = reqs[c].id
    BY <1>0, <1>3, <2>1, TierNat DEF Write, Put, Files
  <2>3. Visible(tiers') = reqs[c].id
    BY <2>1, <2>2, VisibleAt, TierNat, NoneAssumption
  <2>4. want' = {reqs[c].id} /\ worker' = worker
    BY <1>3 DEF Write
  <2>5. reqs'[c].at = "record" /\ \A d \in Clients \ {c} : reqs'[d] = reqs[d]
    BY <1>0, <2>1, GotoEffect
  <2>6. ~Promoting(c)' /\ reqs'[c].at # "deleteTier"
    BY <2>5 DEF Promoting, At, Moves
  <2> QED BY <2>1, <2>3, <2>4, <2>5, <2>6, Alone, FileChanges DEF Deleting
<1>4. CASE WriteRecord(c)
  <2>1. [tier |-> 0, cold |-> FALSE] \in AccessRecord
    BY TieringAssumption DEF AccessRecord, Tiers
  <2>2. worker'.at = worker.at /\ worker'.tier = worker.tier /\ worker'.buf = worker.buf
    BY <1>0, <1>4, <2>1, ReplaceTyped DEF WriteRecord
  <2>3. Return(c, "found") /\ tiers' = tiers /\ want' = want /\ ~Deleting(c)
    BY <1>4 DEF WriteRecord, Deleting, At
  <2> QED BY <1>2, <2>2, <2>3
<1>5. CASE Scan(c)
  <2>0. /\ tiers' = tiers /\ worker' = worker /\ want' = want /\ ~Deleting(c)
        /\ reqs[c].at = "scan" /\ reqs[c].op = "read"
    BY <1>5 DEF Scan, Deleting, At
  <2>1. CASE reqs[c].tier = 0 /\ tiers[0] # None
    <3>1. Goto(c, "touch")
      BY <1>5, <2>1 DEF Scan, Exists
    <3> QED BY <1>2, <2>0, <3>1
  <2>2. CASE reqs[c].tier = 0 /\ tiers[0] = None
    <3>1. Miss(c) /\ ~Others(c)
      BY <1>5, <2>2 DEF Scan, Exists
    <3>2. CASE Last = 0
      <4>1. Return(c, "notfound")
        BY <2>2, <3>1, <3>2 DEF Miss
      <4> QED BY <1>2, <2>0, <4>1
    <3>3. CASE Last # 0
      <4>1. /\ reqs'[c].at = "scan" /\ reqs'[c].op = "read" /\ reqs'[c].tier = 1
            /\ \A d \in Clients \ {c} : reqs'[d] = reqs[d]
        BY <2>0, <2>2, <3>1, <3>3, MissEffect
      <4>2. Promoting(c)' /\ Above(reqs[c].tier)'
        <5>1. \A j \in Tiers : j < 1 => j = 0
          BY DEF Tiers
        <5> QED BY <2>0, <2>2, <4>1, <5>1 DEF Promoting, At, Above
      <4> QED BY <2>0, <3>1, <4>1, <4>2, PromotionGoesOn
    <3> QED BY <3>2, <3>3
  <2>3. CASE reqs[c].tier # 0
    <3>1. Promoting(c) /\ Above(reqs[c].tier) /\ reqs[c].tier > 0
      BY <1>0, <2>0, <2>3, TieringAssumption DEF Promoting, At, Tiers, Good, MoveKnows
    <3>2. CASE tiers[reqs[c].tier] # None
      <4>1. Goto(c, "promoteRead")
        BY <1>5, <2>3, <3>2 DEF Scan, Exists
      <4>2. /\ reqs'[c].at = "promoteRead" /\ reqs'[c].tier = reqs[c].tier
            /\ \A d \in Clients \ {c} : reqs'[d] = reqs[d]
        BY <1>0, <4>1, GotoEffect
      <4>3. Promoting(c)' /\ Above(reqs[c].tier)'
        BY <2>0, <3>1, <4>2 DEF Promoting, At, Moves, Above
      <4> QED BY <2>0, <3>1, <4>2, <4>3, PromotionGoesOn
    <3>3. CASE tiers[reqs[c].tier] = None /\ reqs[c].tier = Last
      <4>1. Return(c, "notfound")
        BY <1>5, <3>3 DEF Scan, Exists, Miss
      <4> QED BY <1>2, <2>0, <4>1
    <3>4. CASE tiers[reqs[c].tier] = None /\ reqs[c].tier # Last
      <4>1. Miss(c)
        BY <1>5, <3>4 DEF Scan, Exists
      <4>2. /\ reqs'[c].at = "scan" /\ reqs'[c].op = "read" /\ reqs'[c].tier = reqs[c].tier + 1
            /\ \A d \in Clients \ {c} : reqs'[d] = reqs[d]
        BY <2>0, <3>4, <4>1, MissEffect
      <4>3. \A j \in Tiers : j < reqs[c].tier + 1 => j < reqs[c].tier \/ j = reqs[c].tier
        BY <1>0 DEF Tiers
      <4>4. Above(reqs[c].tier)'
        BY <2>0, <3>1, <3>4, <4>2, <4>3 DEF Above
      <4>5. Promoting(c)'
        BY <1>0, <3>1, <4>2 DEF Promoting, At, Tiers
      <4> QED BY <2>0, <3>1, <4>2, <4>4, <4>5, PromotionGoesOn
    <3> QED BY <3>2, <3>3, <3>4
  <2> QED BY <2>1, <2>2, <2>3
<1>6. CASE Probe(c)
  <2>1. /\ tiers' = tiers /\ worker' = worker /\ want' = want /\ ~Deleting(c)
        /\ reqs[c].at = "scan" /\ reqs[c].op # "read"
    BY <1>6 DEF Probe, Deleting, At
  <2>2. Return(c, "found") \/ Goto(c, "get") \/ Miss(c)
    BY <1>6 DEF Probe
  <2>3. CASE Miss(c)
    <3>1. ~Promoting(c)' /\ reqs'[c].at # "deleteTier" /\ \A d \in Clients \ {c} : reqs'[d] = reqs[d]
      BY <2>1, <2>3, MissEffect DEF Promoting, At, Moves
    <3> QED BY <2>1, <3>1, PassiveCall
  <2> QED BY <1>2, <2>1, <2>2, <2>3
<1>7. CASE TierFails(c)
  <2>1. tiers' = tiers /\ worker' = worker /\ want' = want
    BY <1>7 DEF TierFails
  <2>2. \/ reqs[c].at \in {"scan", "get", "write"} /\ Return(c, "error")
        \/ reqs[c].at \in Moves /\ Goto(c, "touch")
    BY <1>7 DEF TierFails
  <2>3. ~Deleting(c)
    BY <2>2 DEF Deleting, At, Moves
  <2> QED BY <1>2, <2>1, <2>2, <2>3
<1>8. CASE Touch(c) \/ Get(c)
  <2>1. /\ Goto(c, "get") \/ Return(c, "found") \/ Return(c, "notfound")
        /\ tiers' = tiers /\ worker' = worker /\ want' = want
    BY <1>8 DEF Touch, Get, recordAccess, Stat
  <2>2. ~Deleting(c)
    BY <1>8 DEF Touch, Get, Deleting, At
  <2> QED BY <1>2, <2>1, <2>2
<1>9. CASE DeleteRecord(c)
  <2>1. worker'.at = worker.at /\ worker'.tier = worker.tier /\ worker'.buf = worker.buf
    BY <1>0, <1>9, ReplaceTyped DEF DeleteRecord
  <2>2. /\ Return(c, "found") \/ Return(c, "error")
        /\ tiers' = tiers /\ want' = want /\ ~Deleting(c)
    BY <1>9 DEF DeleteRecord, Deleting, At
  <2> QED BY <1>2, <2>1, <2>2
<1>10. CASE promoteRead(c)
  <2>0. Promoting(c) /\ ~Deleting(c) /\ reqs[c].tier > 0 /\ Above(reqs[c].tier)
    BY <1>10 DEF promoteRead, Promoting, Deleting, At, Moves, Good, MoveKnows, LocalsOK
  <2>1. /\ tiers' = tiers /\ worker' = worker /\ want' = want
        /\ reqs'[c].at = IF tiers[reqs[c].tier] = None THEN "touch" ELSE "promoteWrite"
        /\ reqs'[c].buf = tiers[reqs[c].tier] /\ reqs'[c].tier = reqs[c].tier
        /\ \A d \in Clients \ {c} : reqs'[d] = reqs[d]
    BY <1>10 DEF promoteRead, LocalsOK, CallRecord
  <2>2. CASE tiers[reqs[c].tier] = None
    <3>1. ~Promoting(c)' /\ reqs'[c].at # "deleteTier"
      BY <2>1, <2>2 DEF Promoting, At, Moves
    <3> QED BY <2>0, <2>1, <3>1, PassiveCall
  <2>3. CASE tiers[reqs[c].tier] # None
    <3>1. Promoting(c)' /\ reqs'[c].at # "promoteDelete" /\ Above(reqs[c].tier)'
      BY <2>0, <2>1, <2>3 DEF Promoting, At, Moves, Above
    <3> QED BY <2>0, <2>1, <3>1, PromotionGoesOn
  <2> QED BY <2>2, <2>3
<1>11. CASE promoteWrite(c)
  <2> DEFINE i == reqs[c].tier
             b == reqs[c].buf
  <2>1. /\ Promoting(c) /\ ~Deleting(c) /\ i > 0 /\ Above(i) /\ b = tiers[i] /\ b # None
    BY <1>11 DEF promoteWrite, Promoting, Deleting, At, Moves, Good, MoveKnows, LocalsOK, TypeOK
  <2>2. Visible(tiers) = b
    BY <1>0, <2>1, VisibleAt DEF Above
  <2>3. tiers' = [tiers EXCEPT ![0] = b] /\ Goto(c, "promoteDelete") /\ want' = want /\ worker' = worker
    BY <1>11 DEF promoteWrite, Put
  <2>4. b \in Bodies \cup {None}
    BY <1>0 DEF CallRecord
  <2>5. tiers' \in Files /\ tiers'[0] = b
    BY <1>0, <2>3, <2>4, TierNat DEF Files
  <2>6. Visible(tiers') = b
    BY <2>1, <2>5, VisibleAt, TierNat
  <2>7. ~Demoting /\ \A d \in Clients \ {c} : ~Promoting(d) /\ ~Deleting(d)
    BY <2>1 DEF Good, OneAtATime
  <2>8. Visible(tiers) \in want
    BY <2>1, <2>7 DEF Good, Latest
  <2>9. reqs'[c].at = "promoteDelete" /\ \A d \in Clients \ {c} : reqs'[d] = reqs[d]
    BY <1>0, <2>3, GotoEffect
  <2> QED BY <2>1, <2>2, <2>3, <2>5, <2>6, <2>7, <2>8, <2>9, FileChanges
<1>12. CASE promoteDelete(c)
  <2> DEFINE i == reqs[c].tier
  <2>1. Promoting(c) /\ ~Deleting(c) /\ i > 0 /\ tiers[0] # None
    BY <1>12 DEF promoteDelete, Promoting, Deleting, At, Moves, Good, MoveKnows, LocalsOK
  <2>2. tiers' = [tiers EXCEPT ![i] = None] /\ want' = want /\ worker' = worker
    BY <1>12 DEF promoteDelete, Put
  <2>3. tiers' \in Files /\ tiers'[0] = tiers[0]
    <3>1. i # 0
      BY <1>0, <2>1 DEF Tiers
    <3> QED BY <1>0, <2>2, <3>1, TierNat DEF Files
  <2>4. Visible(tiers) = tiers[0] /\ Visible(tiers') = tiers[0]
    BY <1>0, <2>1, <2>3, VisibleAt, TierNat
  <2>5. ~Demoting /\ \A d \in Clients \ {c} : ~Promoting(d) /\ ~Deleting(d)
    BY <2>1 DEF Good, OneAtATime
  <2>6. Visible(tiers) \in want
    BY <2>1, <2>5 DEF Good, Latest
  <2>7. reqs'[c].at = "touch" /\ \A d \in Clients \ {c} : reqs'[d] = reqs[d]
    BY <1>12 DEF promoteDelete, LocalsOK, CallRecord
  <2>8. ~Promoting(c)' /\ reqs'[c].at # "deleteTier"
    BY <2>7 DEF Promoting, At, Moves
  <2> QED BY <2>2, <2>4, <2>5, <2>6, <2>7, <2>8, FileChanges
<1>13. CASE DeleteTier(c)
  <2> DEFINE i == reqs[c].tier
  <2>1. ~Others(c) /\ Above(i) /\ reqs[c].failed = FALSE
    BY <1>0, <1>13 DEF DeleteTier, At, Good, MoveKnows, CallRecord
  <2>2. /\ tiers' = [tiers EXCEPT ![i] = None] /\ worker' = worker
        /\ want' = IF i = Last THEN {None} ELSE want
    BY <1>13, <2>1 DEF DeleteTier, Put
  <2>3. /\ reqs'[c].tier = IF i = Last THEN i ELSE i + 1
        /\ reqs'[c].at = IF i = Last THEN "forget" ELSE "deleteTier"
        /\ reqs'[c].failed = FALSE
        /\ \A d \in Clients \ {c} : reqs'[d] = reqs[d]
    BY <1>13, <2>1 DEF DeleteTier, At, LocalsOK, CallRecord
  <2>4. ~Demoting /\ \A d \in Clients \ {c} : ~Promoting(d) /\ ~At(d, "deleteTier")
    BY <2>1, Alone
  <2>5. tiers' \in Files /\ \A j \in Tiers : j <= i => tiers'[j] = None
    BY <1>0, <2>1, <2>2 DEF Above, Files, Tiers
  <2>6. CASE i = Last
    <3>1. \A j \in Tiers : tiers'[j] = None
      BY <2>5, <2>6 DEF Tiers
    <3>2. Visible(tiers') = None
      BY <2>5, <3>1, NothingVisible
    <3>3. ~Promoting(c)' /\ reqs'[c].at # "deleteTier"
      BY <2>3, <2>6 DEF Promoting, At, Moves
    <3> QED BY <2>2, <2>3, <2>4, <2>6, <3>2, <3>3, FileChanges DEF Deleting
  <2>7. CASE i # Last
    <3>1. \A d \in Clients \ {c} : ~Promoting(d)' /\ ~At(d, "deleteTier")'
      BY <2>3, <2>4 DEF Promoting, At
    <3>2. ~Promoting(c)' /\ reqs'[c].tier = i + 1 /\ reqs'[c].at = "deleteTier"
      BY <2>3, <2>7 DEF Promoting, At, Moves
    <3>3. Deleting(c)' /\ Above(reqs[c].tier)'
      <4>1. i \in Nat /\ \A j \in Tiers : j < i + 1 => j <= i
        BY <1>0 DEF Tiers
      <4> QED BY <2>5, <3>2, <4>1 DEF Deleting, Above, At
    <3>4. OneAtATime'
      BY <2>2, <2>4, <3>1, <3>2 DEF OneAtATime, Demoting, Deleting
    <3>5. MoveKnows'
      <4>1. ASSUME NEW d \in Clients
            PROVE  (/\ At(d, "deleteTier") => Above(reqs[d].tier) /\ ~reqs[d].failed
                    /\ Promoting(d) /\ ~At(d, "promoteDelete") => Above(reqs[d].tier)
                    /\ At(d, "promoteWrite") => reqs[d].buf = tiers[reqs[d].tier]
                    /\ At(d, "promoteDelete") => tiers[0] # None)'
        <5>1. ~Promoting(d)'
          BY <3>1, <3>2
        <5>2. reqs'[d].at # "promoteWrite" /\ reqs'[d].at # "promoteDelete"
          BY <5>1 DEF Promoting, Moves
        <5>3. At(d, "deleteTier")' => d = c
          BY <3>1
        <5> QED BY <2>3, <3>3, <5>1, <5>2, <5>3 DEF At
      <4>2. worker'.at \notin {"write", "delete"}
        BY <2>2, <2>4 DEF Demoting
      <4> QED BY <4>1, <4>2 DEF MoveKnows
    <3> QED BY <3>3, <3>4, <3>5 DEF Good, Latest
  <2> QED BY <2>6, <2>7
<1> QED BY <1>1, <1>3, <1>4, <1>5, <1>6, <1>7, <1>8, <1>9, <1>10, <1>11, <1>12, <1>13 DEF Call

\* While the worker moves a file, nobody is in the middle of a move, and a
\* running delete has not begun.
LEMMA MovesAlone ==
  ASSUME LocalsOK, Good, worker.at \in {"write", "delete"}
  PROVE  \A d \in Clients : /\ ~Promoting(d) /\ ~Deleting(d)
                            /\ At(d, "deleteTier") => reqs[d].tier = 0 /\ ~reqs[d].failed
<1>1. \A d \in Clients : ~Promoting(d) /\ ~Deleting(d)
  BY DEF Good, OneAtATime, Demoting
<1>2. ASSUME NEW d \in Clients, At(d, "deleteTier")
      PROVE  reqs[d].tier = 0 /\ ~reqs[d].failed
  BY <1>1, <1>2 DEF Deleting, LocalsOK, CallRecord, Tiers, Good, MoveKnows
<1> QED BY <1>1, <1>2

\* A move of the worker that leaves the visible body as it was.
LEMMA MoveChangesFile ==
  ASSUME LocalsOK, Good, reqs' = reqs, want' = want, Visible(tiers') = Visible(tiers),
         \A d \in Clients : /\ ~Promoting(d) /\ ~Deleting(d)
                            /\ At(d, "deleteTier") => reqs[d].tier = 0 /\ ~reqs[d].failed,
         (worker.at = "write" => tiers[worker.tier] = worker.buf)',
         (worker.at = "delete" => /\ tiers[worker.tier] = worker.buf
                                  /\ tiers[worker.tier + 1] = worker.buf)'
  PROVE  Good'
<1>1. \A d \in Clients : ~Promoting(d)' /\ ~Deleting(d)' /\ reqs'[d].at \notin Moves
  BY DEF Promoting, Deleting, At
<1>2. OneAtATime'
  BY <1>1 DEF OneAtATime
<1>3. MoveKnows'
  <2>1. ASSUME NEW d \in Clients
        PROVE  (/\ At(d, "deleteTier") => Above(reqs[d].tier) /\ ~reqs[d].failed
                /\ Promoting(d) /\ ~At(d, "promoteDelete") => Above(reqs[d].tier)
                /\ At(d, "promoteWrite") => reqs[d].buf = tiers[reqs[d].tier]
                /\ At(d, "promoteDelete") => tiers[0] # None)'
    <3>1. At(d, "deleteTier")' => Above(reqs[d].tier)' /\ ~reqs'[d].failed
      BY TierNat DEF At, Above
    <3> QED BY <1>1, <3>1 DEF At, Moves
  <2> QED BY <2>1 DEF MoveKnows
<1> QED BY <1>2, <1>3 DEF Good, Latest

\* Every step of the worker keeps what is known, or is excused; so does a crash.
LEMMA GoodWorker ==
  ASSUME TypeOK, LocalsOK, Good, ~excused', Demotion \/ DemotionFails \/ Age \/ Crash
  PROVE  Good'
<1>0. WorkerTyped /\ tiers \in Files /\ worker.tier \in Tiers
  BY TypesTogether DEF Files, TypeOK
<1>1. CASE Snapshot \/ Settle \/ DemotionFails
  <2>1. UNCHANGED <<tiers, reqs, want>>
    BY <1>1 DEF Snapshot, Settle, DemotionFails
  <2>2. worker'.at \notin {"write", "delete"}
    BY <1>1, RestingTyped DEF Snapshot, Settle, DemotionFails, Resting
  <2> QED BY <2>1, <2>2, PassiveWorker
<1>2. CASE Check
  <2>1. UNCHANGED <<tiers, reqs, want>>
    BY <1>2 DEF Check
  <2>2. worker'.at \notin {"write", "delete"}
    BY <1>0, <1>2, RestingTyped DEF Check, WorkerTyped, WorkerRecord
  <2> QED BY <2>1, <2>2, PassiveWorker
<1>3. CASE demoteRead
  <2>1. UNCHANGED <<tiers, reqs, want>> /\ Busy = {}
    BY <1>3 DEF demoteRead
  <2>2. CASE tiers[worker.tier] = None
    <3>1. worker'.at \notin {"write", "delete"}
      BY <1>3, <2>2, RestingTyped DEF demoteRead
    <3> QED BY <2>1, <3>1, PassiveWorker
  <2>3. CASE tiers[worker.tier] # None
    <3>1. worker'.at = "write" /\ worker'.tier = worker.tier /\ worker'.buf = tiers[worker.tier]
      BY <1>0, <1>3, <2>3 DEF demoteRead, WorkerTyped, WorkerRecord
    <3>2. ASSUME NEW d \in Clients
          PROVE  ~Promoting(d) /\ ~Deleting(d) /\ ~At(d, "deleteTier")
      <4>1. d \notin Busy
        BY <2>1
      <4> QED BY <4>1 DEF Busy, Promoting, Deleting, At
    <3> QED BY <2>1, <3>1, <3>2, MoveChangesFile
  <2> QED BY <2>2, <2>3
<1>4. CASE demoteWrite
  <2> DEFINE i == worker.tier
             b == worker.buf
  <2>1. /\ worker.at = "write" /\ tiers[i] = b /\ b # None /\ b \in Bodies /\ i < Last
    BY <1>0, <1>4 DEF demoteWrite, WorkerTyped, WorkerRecord, Good, MoveKnows
  <2>2. /\ tiers' = [tiers EXCEPT ![i + 1] = b] /\ reqs' = reqs /\ want' = want
        /\ worker'.at = "delete" /\ worker'.tier = i /\ worker'.buf = b
    BY <1>0, <1>4 DEF demoteWrite, Put, WorkerTyped, WorkerRecord
  <2>3. Visible(tiers') = Visible(tiers)
    BY <1>0, <2>1, <2>2, CopyBelow
  <2>4. i + 1 \in Tiers /\ i + 1 # i
    BY <1>0, <2>1, TieringAssumption DEF Tiers
  <2>5. tiers'[i] = b /\ tiers'[i + 1] = b
    BY <1>0, <2>1, <2>2, <2>4 DEF Files
  <2> QED BY <2>1, <2>2, <2>3, <2>5, MovesAlone, MoveChangesFile
<1>5. CASE demoteDelete
  <2> DEFINE i == worker.tier
  <2>1. /\ worker.at = "delete" /\ tiers[i] # None /\ i < Last /\ tiers[i + 1] = tiers[i]
    BY <1>0, <1>5 DEF demoteDelete, WorkerTyped, WorkerRecord, Good, MoveKnows
  <2>2. /\ tiers' = [tiers EXCEPT ![i] = None] /\ reqs' = reqs /\ want' = want
        /\ worker'.at = "settle"
    BY <1>0, <1>5 DEF demoteDelete, Put, WorkerTyped, WorkerRecord
  <2>3. Visible(tiers') = Visible(tiers)
    BY <1>0, <2>1, <2>2, CopyAbove
  <2> QED BY <2>1, <2>2, <2>3, MovesAlone, MoveChangesFile
<1>6. CASE Age
  <2>1. UNCHANGED <<tiers, reqs, want, worker>>
    BY <1>6 DEF Age
  <2> QED BY <2>1 DEF Good, OneAtATime, MoveKnows, Latest, Promoting, Deleting, Demoting, At, Above
<1>7. CASE Crash
  <2>1. UNCHANGED <<tiers, want>> /\ worker'.at = "idle"
    BY <1>7, RestingTyped DEF Crash
  <2>2. \A d \in Clients : ~At(d, "deleteTier")
    BY <1>7 DEF Crash
  <2>3. CallAt("none", "idle", 0).at = "idle"
    BY DEF CallAt
  <2>4. \A d \in Clients : reqs'[d].at = "idle"
    BY <1>7, <2>3 DEF Crash, NoCall
  <2>5. \A d \in Clients : ~Promoting(d)' /\ ~Deleting(d)'
    BY <2>4 DEF Promoting, Deleting, At, Moves
  <2>6. OneAtATime' /\ MoveKnows'
    BY <2>1, <2>4, <2>5 DEF OneAtATime, MoveKnows, At
  <2> QED BY <2>1, <2>2, <2>6 DEF Good, Latest, Deleting
<1> QED BY <1>1, <1>2, <1>3, <1>4, <1>5, <1>6, <1>7 DEF Demotion

-----------------------------------------------------------------------------
(* Exists *)

\* A step creates a file only in the hot tier or below one that is there.
BelowACopy ==
  \A j \in Tiers : tiers[j] = None /\ tiers'[j] # None =>
     j = 0 \/ \E k \in Tiers : k < j /\ tiers[k] # None

\* What a search has passed stays empty while others take such steps.
LEMMA StillSearching ==
  ASSUME TypeOK, LocalsOK, Observe, BelowACopy, NEW d \in Clients, Searching(d),
         reqs'[d] = reqs[d]
  PROVE  Searching(d)'
<1>1. gap'[d] = (\/ Visible(tiers') = None
                 \/ tiers[0] = None /\ tiers'[0] # None
                 \/ gap[d] /\ reqs'[d].id = reqs[d].id)
  BY DEF Observe
<1>2. gap[d] => gap'[d]
  BY <1>1
<1>3. ASSUME ~gap'[d], Above(reqs[d].tier) PROVE Above(reqs[d].tier)'
  <2>1. ~(tiers[0] = None /\ tiers'[0] # None)
    BY <1>1, <1>3
  <2>2. ASSUME NEW j \in Tiers, j < reqs[d].tier PROVE tiers'[j] = None
    <3>1. tiers[j] = None
      BY <1>3, <2>2 DEF Above
    <3>2. \A k \in Tiers : k < j => tiers[k] = None
      BY <1>3, <2>2 DEF Above, Tiers, LocalsOK, CallRecord
    <3> QED BY <2>1, <3>1, <3>2 DEF BelowACopy
  <2> QED BY <2>2 DEF Above
<1> QED BY <1>2, <1>3 DEF Searching, At

LEMMA SearchesKept ==
  ASSUME TypeOK, LocalsOK, Observe, BelowACopy, NEW c \in Clients,
         \A d \in Clients : Searching(d), \A d \in Clients \ {c} : reqs'[d] = reqs[d],
         Searching(c)'
  PROVE  \A d \in Clients : Searching(d)'
BY StillSearching

\* The caller itself: a call of Exists is in its loop or has its answer.
LEMMA NotExists ==
  ASSUME NEW c \in Clients, Searching(c), reqs'[c].op = reqs[c].op,
         reqs[c].at \notin {"scan", "found", "notfound", "error"} \/ reqs[c].op # "exists"
  PROVE  Searching(c)'
BY DEF Searching

LEMMA SearchCall ==
  ASSUME TypeOK, LocalsOK, Good, ~excused', Observe, NEW c \in Clients,
         \A d \in Clients : Searching(d),
         \/ Begin(c, "write", "write") \/ Begin(c, "read", "scan")
         \/ Begin(c, "exists", "scan") \/ Begin(c, "stat", "scan")
         \/ Begin(c, "delete", "deleteTier")
         \/ Call(c) \/ TierFails(c)
  PROVE  \A d \in Clients : Searching(d)'
<1>0. /\ {"found", "notfound", "error", "record", "touch", "get", "forget", "scan",
          "promoteRead", "promoteDelete"} \subseteq Stages
      /\ tiers \in Files /\ reqs[c] \in CallRecord /\ reqs[c].tier \in Tiers
  BY DEF Stages, Moves, LocalsOK, CallRecord, Files, TypeOK
<1>1. ASSUME NEW op \in {"write", "read", "exists", "stat", "delete"},
             NEW stage \in {"write", "scan", "deleteTier"}, Begin(c, op, stage),
             op = "exists" => stage = "scan"
      PROVE  \A d \in Clients : Searching(d)'
  <2>1. BelowACopy
    BY <1>1 DEF Begin, BelowACopy
  <2>2. /\ reqs'[c].at = stage /\ reqs'[c].tier = 0 /\ reqs'[c].op = op
        /\ \A d \in Clients \ {c} : reqs'[d] = reqs[d]
    BY <1>1, BeginEffect
  <2>3. Above(reqs[c].tier)'
    BY <2>2, TierNat DEF Above
  <2>4. Searching(c)'
    BY <1>1, <2>2, <2>3 DEF Searching, At
  <2> QED BY <2>1, <2>2, <2>4, SearchesKept
<1>2. CASE Probe(c)
  <2>1. tiers' = tiers /\ reqs[c].at = "scan"
    BY <1>2 DEF Probe, At
  <2>2. BelowACopy
    BY <2>1 DEF BelowACopy
  <2>3. \/ Return(c, "found")
        \/ Goto(c, "get") /\ reqs[c].op # "exists"
        \/ Miss(c) /\ tiers[reqs[c].tier] = None
    BY <1>2 DEF Probe, Exists
  <2>4. CASE Return(c, "found")
    <3>1. reqs'[c].at = "found" /\ \A d \in Clients \ {c} : reqs'[d] = reqs[d]
      BY <1>0, <2>4, ReturnEffect
    <3>2. Searching(c)'
      BY <3>1 DEF Searching, At
    <3> QED BY <2>2, <3>1, <3>2, SearchesKept
  <2>5. CASE Goto(c, "get") /\ reqs[c].op # "exists"
    <3>1. reqs'[c].op = reqs[c].op /\ \A d \in Clients \ {c} : reqs'[d] = reqs[d]
      BY <1>0, <2>5, GotoEffect
    <3> QED BY <2>2, <2>5, <3>1, NotExists, SearchesKept
  <2>6. CASE Miss(c) /\ tiers[reqs[c].tier] = None
    <3>1. /\ reqs'[c].op = reqs[c].op /\ reqs'[c].id = reqs[c].id
          /\ \/ reqs[c].tier = Last /\ reqs'[c].at = "notfound"
             \/ reqs'[c].at = "scan" /\ reqs'[c].tier = reqs[c].tier + 1
          /\ \A d \in Clients \ {c} : reqs'[d] = reqs[d]
      BY <2>1, <2>6, MissEffect
    <3>2. gap'[c] = (\/ Visible(tiers') = None
                     \/ tiers[0] = None /\ tiers'[0] # None
                     \/ gap[c] /\ reqs'[c].id = reqs[c].id)
      BY DEF Observe
    <3>3. gap[c] => gap'[c]
      BY <3>1, <3>2
    <3>4. ASSUME ~gap[c], reqs[c].op = "exists"
          PROVE  \A j \in Tiers : j <= reqs[c].tier => tiers[j] = None
      <4>1. Above(reqs[c].tier)
        BY <2>1, <3>4 DEF Searching, At
      <4> QED BY <1>0, <2>6, <4>1 DEF Above, Tiers
    <3>5. CASE reqs[c].tier = Last /\ reqs'[c].at = "notfound"
      <4>1. ASSUME ~gap[c], reqs[c].op = "exists" PROVE gap'[c]
        <5>1. \A j \in Tiers : tiers[j] = None
          BY <3>4, <3>5, <4>1 DEF Tiers
        <5>2. Visible(tiers') = None
          BY <1>0, <2>1, <5>1, NothingVisible
        <5> QED BY <3>2, <5>2
      <4>2. Searching(c)'
        BY <3>1, <3>3, <3>5, <4>1 DEF Searching, At
      <4> QED BY <2>2, <3>1, <4>2, SearchesKept
    <3>6. CASE reqs'[c].at = "scan" /\ reqs'[c].tier = reqs[c].tier + 1
      <4>1. ASSUME ~gap[c], reqs[c].op = "exists" PROVE Above(reqs[c].tier)'
        <5>1. \A j \in Tiers : j < reqs[c].tier + 1 => j <= reqs[c].tier
          BY <1>0 DEF Tiers
        <5> QED BY <2>1, <3>4, <3>6, <4>1, <5>1 DEF Above
      <4>2. Searching(c)'
        BY <3>1, <3>3, <3>6, <4>1 DEF Searching, At
      <4> QED BY <2>2, <3>1, <4>2, SearchesKept
    <3> QED BY <3>1, <3>5, <3>6
  <2> QED BY <2>3, <2>4, <2>5, <2>6
\* The other steps are not of Exists.
<1>3. ASSUME BelowACopy, reqs'[c].op = reqs[c].op, \A d \in Clients \ {c} : reqs'[d] = reqs[d],
             reqs[c].at \notin {"scan", "found", "notfound", "error"} \/ reqs[c].op # "exists"
      PROVE  \A d \in Clients : Searching(d)'
  BY <1>3, NotExists, SearchesKept
<1>4. CASE Scan(c)
  <2>1. tiers' = tiers /\ reqs[c].op # "exists" /\ (Goto(c, "touch") \/ Goto(c, "promoteRead") \/ Miss(c))
    BY <1>4 DEF Scan
  <2>2. reqs'[c].op = reqs[c].op /\ \A d \in Clients \ {c} : reqs'[d] = reqs[d]
    BY <1>0, <2>1, GotoEffect, MissEffect
  <2> QED BY <1>3, <2>1, <2>2 DEF BelowACopy
<1>5. CASE TierFails(c)
  <2>1. tiers' = tiers
    BY <1>5 DEF TierFails
  <2>2. \/ Return(c, "error")
        \/ reqs[c].at \in Moves /\ Goto(c, "touch")
    BY <1>5 DEF TierFails
  <2>3. CASE Return(c, "error")
    <3>1. reqs'[c].at = "error" /\ \A d \in Clients \ {c} : reqs'[d] = reqs[d]
      BY <1>0, <2>3, ReturnEffect
    <3>2. Searching(c)'
      BY <3>1 DEF Searching, At
    <3> QED BY <2>1, <3>1, <3>2, SearchesKept DEF BelowACopy
  <2>4. CASE reqs[c].at \in Moves /\ Goto(c, "touch")
    <3>1. reqs'[c].op = reqs[c].op /\ \A d \in Clients \ {c} : reqs'[d] = reqs[d]
      BY <1>0, <2>4, GotoEffect
    <3> QED BY <1>3, <2>1, <2>4, <3>1 DEF BelowACopy, Moves
  <2> QED BY <2>2, <2>3, <2>4
<1>6. CASE WriteRecord(c) \/ Get(c) \/ DeleteRecord(c)
  <2>1. /\ tiers' = tiers /\ reqs[c].at \in {"record", "get", "forget"}
        /\ Return(c, "found") \/ Return(c, "notfound") \/ Return(c, "error")
    BY <1>6 DEF WriteRecord, Get, DeleteRecord, Stat, At
  <2>2. reqs'[c].op = reqs[c].op /\ \A d \in Clients \ {c} : reqs'[d] = reqs[d]
    BY <1>0, <2>1, ReturnEffect
  <2> QED BY <1>3, <2>1, <2>2 DEF BelowACopy
<1>7. CASE Write(c) \/ promoteWrite(c) \/ Touch(c)
  <2>1. /\ reqs[c].at \in {"write", "promoteWrite", "touch"}
        /\ Goto(c, "record") \/ Goto(c, "promoteDelete") \/ Goto(c, "get")
    BY <1>7 DEF Write, promoteWrite, Touch, At
  <2>2. \A j \in Tiers : j # 0 => tiers'[j] = tiers[j]
    BY <1>0, <1>7 DEF Write, promoteWrite, Touch, Put, Files
  <2>3. reqs'[c].op = reqs[c].op /\ \A d \in Clients \ {c} : reqs'[d] = reqs[d]
    BY <1>0, <2>1, GotoEffect
  <2> QED BY <1>3, <2>1, <2>2, <2>3 DEF BelowACopy
<1>8. CASE promoteRead(c) \/ promoteDelete(c) \/ DeleteTier(c)
  <2>1. reqs[c].at \in {"promoteRead", "promoteDelete", "deleteTier"}
    BY <1>8 DEF promoteRead, promoteDelete, DeleteTier, At
  <2>2. \A j \in Tiers : tiers[j] = None => tiers'[j] = None
    BY <1>0, <1>8 DEF promoteRead, promoteDelete, DeleteTier, Put, Files
  <2>3. reqs'[c].op = reqs[c].op /\ \A d \in Clients \ {c} : reqs'[d] = reqs[d]
    BY <1>8 DEF promoteRead, promoteDelete, DeleteTier, LocalsOK, CallRecord
  <2> QED BY <1>3, <2>1, <2>2, <2>3 DEF BelowACopy
<1> QED BY <1>1, <1>2, <1>4, <1>5, <1>6, <1>7, <1>8 DEF Call

LEMMA SearchWorker ==
  ASSUME TypeOK, LocalsOK, Good, Observe, \A d \in Clients : Searching(d),
         Demotion \/ DemotionFails \/ Age \/ Crash
  PROVE  \A d \in Clients : Searching(d)'
<1>1. CASE Crash
  <2>1. CallAt("none", "idle", 0).op = "none"
    BY DEF CallAt
  <2> QED BY <1>1, <2>1 DEF Crash, NoCall, Searching
<1>2. CASE Demotion \/ DemotionFails \/ Age
  <2>1. reqs' = reqs
    BY <1>2 DEF Demotion, DemotionFails, Age, Snapshot, Check, demoteRead, demoteWrite, demoteDelete, Settle
  <2>2. BelowACopy
    <3>1. CASE demoteWrite
      <4>1. /\ tiers' = [tiers EXCEPT ![worker.tier + 1] = worker.buf]
            /\ tiers[worker.tier] = worker.buf /\ worker.buf # None
        BY <3>1 DEF demoteWrite, Put, Good, MoveKnows, TypeOK
      <4>2. worker.tier \in Tiers /\ worker.tier < worker.tier + 1
        BY DEF TypeOK, Tiers
      <4>3. \A j \in Tiers : tiers'[j] # tiers[j] => j = worker.tier + 1
        BY <4>1 DEF TypeOK
      <4> QED BY <4>1, <4>2, <4>3 DEF BelowACopy
    <3>2. CASE demoteDelete
      BY <3>2 DEF demoteDelete, Put, BelowACopy, TypeOK
    <3>3. CASE tiers' = tiers
      BY <3>3 DEF BelowACopy
    <3> QED BY <1>2, <3>1, <3>2, <3>3 DEF Demotion, DemotionFails, Age, Snapshot, Check, demoteRead, Settle
  <2> QED BY <2>1, <2>2, StillSearching
<1> QED BY <1>1, <1>2

-----------------------------------------------------------------------------
(* The theorems *)

LEMMA InvInit == Init => Inv
<1> SUFFICES ASSUME Init PROVE Good /\ \A c \in Clients : Searching(c)
  BY DEF Inv
<1>1. CallAt("none", "idle", 0).at = "idle" /\ CallAt("none", "idle", 0).op = "none"
  BY DEF CallAt
<1>2. \A c \in Clients : reqs[c].at = "idle" /\ reqs[c].op = "none"
  BY <1>1 DEF Init, NoCall
<1>3. \A c \in Clients : ~Promoting(c) /\ ~Deleting(c)
  BY <1>2 DEF Promoting, Deleting, At, Moves
<1>4. Visible(tiers) \in want
  BY NothingVisible DEF Init, Files
<1>5. OneAtATime /\ MoveKnows /\ Latest
  BY <1>2, <1>3, <1>4, RestingTyped DEF OneAtATime, MoveKnows, Latest, At, Init
<1> QED BY <1>2, <1>5 DEF Good, Searching

LEMMA InvStep == TypeOK /\ LocalsOK /\ Inv /\ [Next]_vars => Inv'
<1> SUFFICES ASSUME TypeOK, LocalsOK, Inv, [Next]_vars, ~excused'
             PROVE  Good' /\ \A c \in Clients : Searching(c)'
  BY DEF Inv
<1>1. CASE Next
  <2>1. ~excused
    BY <1>1 DEF Next, Step, Begin, Call, Write, WriteRecord, Scan, Probe, promoteRead, promoteWrite,
                promoteDelete, Touch, Get, DeleteTier, DeleteRecord, TierFails, Demotion, Snapshot,
                Check, demoteRead, demoteWrite, demoteDelete, Settle, DemotionFails, Age, Crash
  <2>2. Good /\ \A c \in Clients : Searching(c)
    BY <2>1 DEF Inv
  <2>3. Step /\ Observe
    BY <1>1 DEF Next
  <2>4. CASE \E c \in Clients : \/ Begin(c, "write", "write") \/ Begin(c, "read", "scan")
                                \/ Begin(c, "exists", "scan") \/ Begin(c, "stat", "scan")
                                \/ Begin(c, "delete", "deleteTier")
                                \/ Call(c) \/ TierFails(c)
    BY <2>2, <2>3, <2>4, GoodCall, SearchCall
  <2>5. CASE Demotion \/ DemotionFails \/ Age \/ Crash
    BY <2>2, <2>3, <2>5, GoodWorker, SearchWorker
  <2> QED BY <2>3, <2>4, <2>5 DEF Step
<1>2. CASE UNCHANGED vars
  <2>1. ~excused
    BY <1>2 DEF vars
  <2> QED BY <1>2, <2>1 DEF vars, Inv, Good, OneAtATime, MoveKnows, Latest, Searching, Promoting,
                            Deleting, Demoting, At, Above
<1> QED BY <1>1, <1>2

LEMMA TieringInvariant == Spec => [](TypeOK /\ LocalsOK /\ Inv)
<1>1. Init => TypeOK /\ LocalsOK /\ Inv
  BY InitType, InvInit
<1>2. TypeOK /\ LocalsOK /\ Inv /\ [Next]_vars => (TypeOK /\ LocalsOK /\ Inv)'
  BY TypeStep, InvStep
<1> QED BY <1>1, <1>2, PTL DEF Spec

\* For any number of callers, tiers, calls and faults, a scan from hot to cold
\* finds the body of the last write, and nothing after a delete, whatever
\* Read's promotions and runDemotion move meanwhile, with LatestVisible's
\* exceptions.
THEOREM LatestIsVisible == Spec => []LatestVisible
<1>1. Inv => LatestVisible
  BY DEF Inv, Good, Latest, LatestVisible, Deleting
<1> QED BY <1>1, TieringInvariant, PTL

\* For any number of callers and tiers, Exists answers "not found" only when
\* the object was absent during the call or came into the hot tier meanwhile:
\* a demotion alone never hides it from the scan.
THEOREM ExistsIsSound == Spec => []ExistsSound
<1>1. Inv => ExistsSound
  BY DEF Inv, Searching, ExistsSound
<1> QED BY <1>1, TieringInvariant, PTL
=============================================================================
