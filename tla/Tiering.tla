------------------------------ MODULE Tiering ------------------------------
(***************************************************************************)
(* The tiered backend (internal/backend/tiered/tiered.go): a write goes to *)
(* the hot tier, a read moves the object back to it, and a background      *)
(* worker moves objects that nobody has read for a while one tier down.    *)
(* The lock of the backend guards only the access records; the calls on    *)
(* the tiers of different goroutines interleave freely.  Objects do not    *)
(* interact, so the module follows one of them.                            *)
(***************************************************************************)
EXTENDS Naturals

CONSTANTS
  Clients,   \* concurrent callers of the backend
  Last,      \* index of the coldest tier; the hot tier is 0
  MaxOps,    \* bound on the number of calls
  MaxFaults, \* bound on I/O errors and crashes
  None

ASSUME TieringAssumption ==
  /\ Last \in Nat
  /\ MaxOps \in Nat
  /\ MaxFaults \in Nat

Tiers == 0..Last
\* A body is known by the number of the call that writes it.
Bodies == 1..MaxOps

\* accessRecord: cold stands for "DemoteAfter has elapsed since lastAccess".
AccessRecord == [tier : Tiers, cold : BOOLEAN]

\* None is neither a body nor a record.
ASSUME NoneAssumption == None \notin Bodies \cup AccessRecord

VARIABLES
  tiers,    \* the object's file in each tier
  access,   \* its access record, or None
  reqs,     \* calls in progress: [op, at, tier, buf, failed, id]
  worker,   \* the demotion worker: [at, tier, buf, live, rec]
  nops,     \* calls begun
  faults,   \* faults left
  want,     \* the bodies a reader may find (history)
  excused,  \* something overlapped or failed that can undo a write (history)
  gap       \* for each caller: the object was absent or came into the hot tier since it began (history)

vars == <<tiers, access, reqs, worker, nops, faults, want, excused, gap>>

CallAt(op, stage, id) ==
  [op |-> op, at |-> stage, tier |-> 0, buf |-> None, failed |-> FALSE, id |-> id]
NoCall == CallAt("none", "idle", 0)
Resting == [at |-> "idle", tier |-> 0, buf |-> None, live |-> FALSE, rec |-> None]

\* The copy a scan from hot to cold finds.
Present(t) == {i \in Tiers : t[i] # None}
Visible(t) ==
  IF Present(t) = {} THEN None
  ELSE t[CHOOSE i \in Present(t) : \A j \in Present(t) : i <= j]

Init ==
  /\ tiers = [i \in Tiers |-> None]
  /\ access = None
  /\ reqs = [c \in Clients |-> NoCall]
  /\ worker = Resting
  /\ nops = 0
  /\ faults = MaxFaults
  /\ want = {None}
  /\ excused = FALSE
  /\ gap = [c \in Clients |-> FALSE]

-----------------------------------------------------------------------------
(* Steps of a call.                                                        *)

At(c, stage) == reqs[c].at = stage
Goto(c, stage) == reqs' = [reqs EXCEPT ![c].at = stage]
Return(c, answer) ==
  reqs' = [reqs EXCEPT ![c] = CallAt(reqs[c].op, answer, reqs[c].id)]
Put(i, b) == tiers' = [tiers EXCEPT ![i] = b]

\* The calls of a tier: is its file there, and what does opening it answer?
Exists(i) == tiers[i] # None
Stat(i) == IF Exists(i) THEN "found" ELSE "notfound"

\* Who is in the middle of a move or of a delete.  A promotion begins when
\* Read has not found the object in the hot tier.
Moves == {"promoteRead", "promoteWrite", "promoteDelete"}
Busy == {d \in Clients : reqs[d].at \in Moves \cup {"deleteTier"}}
     \cup {d \in Clients : At(d, "scan") /\ reqs[d].op = "read" /\ reqs[d].tier > 0}
Demoting == worker.at \in {"write", "delete"}
Others(c) == Demoting \/ Busy \ {c} # {}

\* The record of an object is updated in place, also for a demotion that
\* holds a pointer to it, or replaced (Write, Delete), and then a demotion
\* keeps the old one.
recordAccess(i) ==
  /\ access' = [tier |-> i, cold |-> FALSE]
  /\ UNCHANGED worker

ReplaceRecord(rec) ==
  /\ access' = rec
  /\ worker' = IF worker.live THEN [worker EXCEPT !.live = FALSE, !.rec = access] ELSE worker

Begin(c, op, stage) ==
  /\ reqs[c].at \in {"idle", "found", "notfound", "error"}
  /\ nops < MaxOps
  /\ nops' = nops + 1
  /\ reqs' = [reqs EXCEPT ![c] = CallAt(op, stage, nops + 1)]
  /\ want' = IF op = "delete" THEN want \cup {None} ELSE want
  /\ UNCHANGED <<tiers, access, worker, faults, excused>>

\* Write: the hot tier first, then a fresh record.
Write(c) ==
  /\ At(c, "write")
  /\ Put(0, reqs[c].id)
  /\ Goto(c, "record")
  /\ want' = {reqs[c].id}
  /\ excused' = (excused \/ Others(c))
  /\ UNCHANGED <<access, worker, nops, faults>>

WriteRecord(c) ==
  /\ At(c, "record")
  /\ ReplaceRecord([tier |-> 0, cold |-> FALSE])
  /\ Return(c, "found")
  /\ UNCHANGED <<tiers, nops, faults, want, excused>>

\* The object is not in this tier: on to the next.
Miss(c) ==
  IF reqs[c].tier = Last THEN Return(c, "notfound") ELSE reqs' = [reqs EXCEPT ![c].tier = @ + 1]

\* One round of Read's loop.
Scan(c) ==
  LET i == reqs[c].tier
  IN /\ At(c, "scan") /\ reqs[c].op = "read"
     /\ IF Exists(i) THEN Goto(c, IF i = 0 THEN "touch" ELSE "promoteRead") ELSE Miss(c)
     /\ excused' = (excused \/ (i = 0 /\ tiers[0] = None /\ Others(c)))
     /\ UNCHANGED <<tiers, access, worker, nops, faults, want>>

\* Seeded fault: the search starts at the coldest tier.
ColdestFirst(c) ==
  /\ At(c, "scan") /\ reqs[c].op # "read"
  /\ IF tiers[Last - reqs[c].tier] = None THEN Miss(c) ELSE Return(c, "found")
  /\ UNCHANGED <<tiers, access, worker, nops, faults, want, excused>>

\* One round of the loop of Exists and of Stat.
Probe(c) ==
  /\ At(c, "scan") /\ reqs[c].op # "read"
  /\ IF ~Exists(reqs[c].tier) THEN Miss(c)
     ELSE IF reqs[c].op = "exists" THEN Return(c, "found") ELSE Goto(c, "get")
  /\ UNCHANGED <<tiers, access, worker, nops, faults, want, excused>>

\* Seeded fault: a promotion goes on when there was nothing to read.
PromotesNothing(c) ==
  /\ At(c, "promoteRead")
  /\ reqs' = [reqs EXCEPT ![c].buf = tiers[reqs[c].tier], ![c].at = "promoteWrite"]
  /\ UNCHANGED <<tiers, access, worker, nops, faults, want, excused>>

\* moveObject for a promotion: read, write to the hot tier, delete.  When the
\* file is gone the promotion fails and Read turns to the tier it scanned.
promoteRead(c) ==
  LET i == reqs[c].tier
  IN /\ At(c, "promoteRead")
     /\ reqs' = [reqs EXCEPT ![c].buf = tiers[i],
                             ![c].at = IF tiers[i] = None THEN "touch" ELSE "promoteWrite"]
     /\ UNCHANGED <<tiers, access, worker, nops, faults, want, excused>>

promoteWrite(c) ==
  /\ At(c, "promoteWrite")
  /\ Put(0, reqs[c].buf)
  /\ Goto(c, "promoteDelete")
  /\ UNCHANGED <<access, worker, nops, faults, want, excused>>

promoteDelete(c) ==
  /\ At(c, "promoteDelete")
  /\ Put(reqs[c].tier, None)
  /\ reqs' = [reqs EXCEPT ![c].at = "touch", ![c].tier = 0]
  /\ UNCHANGED <<access, worker, nops, faults, want, excused>>

\* recordAccess, then Read of the tier the object is expected in.
Touch(c) ==
  /\ At(c, "touch")
  /\ recordAccess(reqs[c].tier)
  /\ Goto(c, "get")
  /\ UNCHANGED <<tiers, nops, faults, want, excused>>

\* The file is opened, or for Stat its length looked up: it may be gone since
\* it was found.
Get(c) ==
  /\ At(c, "get")
  /\ Return(c, Stat(reqs[c].tier))
  /\ UNCHANGED <<tiers, access, worker, nops, faults, want, excused>>

\* One round of Delete's loop; a missing file is no error.  After the last
\* tier the record is removed and the last error, if any, returned.
DeleteTier(c) ==
  LET i == reqs[c].tier
  IN /\ At(c, "deleteTier")
     /\ Put(i, None)
     /\ reqs' = [reqs EXCEPT ![c].tier = IF i = Last THEN i ELSE i + 1,
                             ![c].at = IF i = Last THEN "forget" ELSE @]
     /\ want' = IF i = Last /\ ~reqs[c].failed THEN {None} ELSE want
     /\ excused' = (excused \/ Others(c))
     /\ UNCHANGED <<access, worker, nops, faults>>

DeleteRecord(c) ==
  /\ At(c, "forget")
  /\ ReplaceRecord(None)
  /\ Return(c, IF reqs[c].failed THEN "error" ELSE "found")
  /\ UNCHANGED <<tiers, nops, faults, want, excused>>

\* A call on a tier fails.  Read skips a tier it cannot probe and falls back
\* to the lower tier when a promotion fails, Delete goes on with the next
\* tier, and the others return the error.
TierFails(c) ==
  LET q == reqs[c]
  IN /\ faults > 0
     /\ faults' = faults - 1
     /\ \/ /\ q.at = "scan" /\ q.op = "read"
           /\ Miss(c)
           /\ excused' = TRUE
        \/ /\ q.at \in {"scan", "get", "write"} /\ ~(q.at = "scan" /\ q.op = "read")
           /\ Return(c, "error")
           /\ UNCHANGED excused
        \/ /\ q.at \in Moves
           /\ Goto(c, "touch")
           /\ UNCHANGED excused
        \/ /\ q.at = "deleteTier"
           /\ reqs' = [reqs EXCEPT ![c].failed = TRUE,
                                   ![c].tier = IF q.tier = Last THEN Last ELSE q.tier + 1,
                                   ![c].at = IF q.tier = Last THEN "forget" ELSE @]
           /\ excused' = TRUE
     /\ UNCHANGED <<tiers, access, worker, nops, want>>

-----------------------------------------------------------------------------
(* The demotion worker.                                                    *)

\* Time passes: DemoteAfter has elapsed for the record (and for the one the
\* worker holds a pointer to).
Age ==
  /\ access # None
  /\ ~access.cold
  /\ access' = [access EXCEPT !.cold = TRUE]
  /\ UNCHANGED <<tiers, reqs, worker, nops, faults, want, excused>>

\* runDemotion copies the pointers under the lock ...
Snapshot ==
  /\ worker.at = "idle"
  /\ access # None
  /\ worker' = [Resting EXCEPT !.at = "check", !.live = TRUE]
  /\ UNCHANGED <<tiers, access, reqs, nops, faults, want, excused>>

\* ... and reads tier and age of each record later, without it.
Check ==
  LET rec == IF worker.live THEN access ELSE worker.rec
  IN /\ worker.at = "check"
     /\ worker' = IF rec.cold /\ rec.tier < Last
                  THEN [worker EXCEPT !.at = "read", !.tier = rec.tier] ELSE Resting
     /\ UNCHANGED <<tiers, access, reqs, nops, faults, want, excused>>

\* Seeded fault: a move takes the file away before it has been copied.
TakesFirst ==
  /\ worker.at = "read"
  /\ Put(worker.tier, None)
  /\ worker' = IF tiers[worker.tier] = None THEN Resting
               ELSE [worker EXCEPT !.at = "write", !.buf = tiers[worker.tier]]
  /\ excused' = (excused \/ Busy # {})
  /\ UNCHANGED <<access, reqs, nops, faults, want>>

\* moveObject for a demotion: read, write one tier down, delete.
demoteRead ==
  /\ worker.at = "read"
  /\ worker' = IF tiers[worker.tier] = None THEN Resting
               ELSE [worker EXCEPT !.at = "write", !.buf = tiers[worker.tier]]
  /\ excused' = (excused \/ Busy # {})
  /\ UNCHANGED <<tiers, access, reqs, nops, faults, want>>

demoteWrite ==
  /\ worker.at = "write"
  /\ Put(worker.tier + 1, worker.buf)
  /\ worker' = [worker EXCEPT !.at = "delete"]
  /\ UNCHANGED <<access, reqs, nops, faults, want, excused>>

demoteDelete ==
  /\ worker.at = "delete"
  /\ Put(worker.tier, None)
  /\ worker' = [worker EXCEPT !.at = "settle"]
  /\ UNCHANGED <<access, reqs, nops, faults, want, excused>>

\* The record that is there now gets the new tier.
Settle ==
  /\ worker.at = "settle"
  /\ access' = IF access = None THEN None ELSE [access EXCEPT !.tier = worker.tier + 1]
  /\ worker' = Resting
  /\ UNCHANGED <<tiers, reqs, nops, faults, want, excused>>

DemotionFails ==
  /\ faults > 0
  /\ worker.at \in {"read", "write", "delete"}
  /\ faults' = faults - 1
  /\ worker' = Resting
  /\ UNCHANGED <<tiers, access, reqs, nops, want, excused>>

\* The process dies: calls, worker and access records are gone, files stay.
Crash ==
  /\ faults > 0
  /\ faults' = faults - 1
  /\ reqs' = [c \in Clients |-> NoCall]
  /\ worker' = Resting
  /\ access' = None
  /\ excused' = (excused \/ \E c \in Clients : At(c, "deleteTier"))
  /\ UNCHANGED <<tiers, nops, want>>

Call(c) ==
  \/ Write(c) \/ WriteRecord(c) \/ Scan(c) \/ Probe(c) \/ promoteRead(c) \/ promoteWrite(c)
  \/ promoteDelete(c) \/ Touch(c) \/ Get(c) \/ DeleteTier(c) \/ DeleteRecord(c)

Demotion == Snapshot \/ Check \/ demoteRead \/ demoteWrite \/ demoteDelete \/ Settle

\* For each caller: was the object absent, or did it come into the hot tier,
\* since the call began?
Observe ==
  gap' = [c \in Clients |->
            \/ Visible(tiers') = None
            \/ tiers[0] = None /\ tiers'[0] # None
            \/ gap[c] /\ reqs'[c].id = reqs[c].id]

Step ==
  \/ \E c \in Clients : \/ Begin(c, "write", "write") \/ Begin(c, "read", "scan")
                        \/ Begin(c, "exists", "scan") \/ Begin(c, "stat", "scan")
                        \/ Begin(c, "delete", "deleteTier")
                        \/ Call(c) \/ TierFails(c)
  \/ Demotion \/ DemotionFails \/ Age \/ Crash

Next == Step /\ Observe

Spec == Init /\ [][Next]_vars

-----------------------------------------------------------------------------
(* Properties.                                                             *)

\* Every variable of Tiering has its type; a move holds the bytes it read.
TypeOK ==
  /\ tiers \in [Tiers -> Bodies \cup {None}]
  /\ access \in AccessRecord \cup {None}
  /\ worker.tier \in Tiers /\ worker.buf \in Bodies \cup {None}
  /\ worker.at \in {"write", "delete"} => worker.buf # None /\ worker.tier < Last
  /\ \A c \in Clients : At(c, "promoteWrite") => reqs[c].buf # None /\ reqs[c].tier > 0
  /\ nops \in 0..MaxOps /\ faults \in 0..MaxFaults
  /\ want \subseteq Bodies \cup {None}
  /\ excused \in BOOLEAN

\* Write, Read, Delete and runDemotion: whatever moves between the tiers,
\* a scan from hot to cold finds the body of the last write, and nothing
\* once a delete has succeeded.  Copies of older bodies stay in lower tiers
\* after every overwrite, so this is what keeps them hidden.  Crashes and
\* errors in moves and writes are harmless; excused are a move that overlaps
\* a write, a delete or another move (a promotion lasts from the moment Read
\* has missed the hot tier), a delete that fails or is cut short, and a read
\* that could not probe a tier.
LatestVisible ==
  (~excused /\ \A c \in Clients : ~At(c, "deleteTier")) => Visible(tiers) \in want

\* Exists: the answer "not found" means that the object was absent at some
\* moment of the call, or came into the hot tier during it (a promotion or
\* a write).  A demotion by itself never causes it, because a move writes
\* before it deletes and the scan goes the same way.  The exceptions are
\* those of LatestVisible.
ExistsSound ==
  \A c \in Clients : reqs[c].op = "exists" /\ At(c, "notfound") => gap[c] \/ excused
=============================================================================
