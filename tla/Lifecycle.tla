----------------------------- MODULE Lifecycle -----------------------------
(***************************************************************************)
(* The lifecycle job (internal/storage/lifecycle.go) beside the clients of *)
(* a bucket.  ApplyLifecycle works from copies: of the bucket's rules, of  *)
(* the first ListLimit objects under a rule's prefix and of the uploads.   *)
(* What it found old enough it removes by key, one after the other, while  *)
(* clients go on writing.  A day is the unit of time.                      *)
(***************************************************************************)
EXTENDS Listing

CONSTANTS
  ListLimit,   \* objects one pass of a rule looks at (1000 in the code)
  RuleLists,   \* configurations: sequences of rules
  Uploads,     \* ids of multipart uploads
  MaxActive    \* bound on listings and jobs begun in a behaviour

\* A rule; its filter is a prefix and perhaps tags, 0 days means "not set".
\* ExpirationDate and NoncurrentDays are stored and never looked at.
Rules == [enabled : BOOLEAN, prefix : PrefixSets, tags : BOOLEAN, days : Nat, abortDays : Nat]

ASSUME LifecycleAssumption ==
  /\ ListLimit \in Nat \ {0} /\ MaxActive \in Nat
  /\ RuleLists \subseteq Seq(Rules)

VARIABLES
  rules,    \* LifecycleRules of the bucket record
  uploads,  \* the day each open upload was initiated
  job,      \* the job: [at, all, left, now, batch, old, cut, failed]
  steady    \* keys untouched since the job began (history)

vars == <<storeVars, lister, stable, rules, uploads, job, steady>>

Init ==
  /\ InitListing
  /\ rules \in RuleLists
  /\ uploads = [u \in Uploads |-> None]
  /\ job = [at |-> "idle", all |-> <<>>, left |-> <<>>, now |-> 0, batch |-> <<>>, old |-> {},
            cut |-> FALSE, failed |-> FALSE]
  /\ steady = Keys

-----------------------------------------------------------------------------
(* Clients.                                                                *)

\* The rules of PUT ?lifecycle, which checks none of them, or of DELETE.
xmlLifecycleToMeta == RuleLists \cup {<<>>}

SetLifecycleRules(l) == rules' = l

putBucketLifecycle ==
  /\ \E l \in xmlLifecycleToMeta : SetLifecycleRules(l)
  /\ nops < MaxOps
  /\ nops' = nops + 1
  /\ UNCHANGED <<store, clock, lister, uploads, job>>

\* An upload is begun, or completed or aborted by its client.
ChangeUpload(u) ==
  /\ nops < MaxOps
  /\ nops' = nops + 1
  /\ uploads' = [uploads EXCEPT ![u] = IF @ = None THEN clock ELSE None]
  /\ UNCHANGED <<store, clock, lister, rules, job>>

-----------------------------------------------------------------------------
(* The job.                                                                *)

\* Listings and jobs begun so far.
Active == (IF lister.at = "idle" THEN 0 ELSE 1) + (IF job.at = "idle" THEN 0 ELSE 1)

\* The rules in the record of the bucket that ListBuckets returns.
ListBuckets == rules

\* What was listed is a copy from here on.
ApplyLifecycle ==
  /\ job.at = "idle"
  /\ Active < MaxActive
  /\ job' = [job EXCEPT !.at = "bucket", !.all = ListBuckets, !.left = ListBuckets]
  /\ UNCHANGED <<storeVars, lister, rules, uploads>>

\* The time all thresholds are counted from.
applyBucketLifecycle ==
  /\ job.at = "bucket"
  /\ job' = [job EXCEPT !.at = "rule", !.now = clock]
  /\ UNCHANGED <<storeVars, lister, rules, uploads>>

objectMatchesFilter(rec, rule) == rule.tags => rec.tagged

\* LastModified.Before(now - ExpirationDays), in days.
Expired(rec, rule, now) ==
  /\ rec.mtime + rule.days < now
  /\ objectMatchesFilter(rec, rule)

\* Seeded fault: a rule is applied to all objects under its prefix, however
\* many and whatever its filter says of tags.
IgnoresFilter(rule) ==
  LET found == {k \in Present(store) \cap rule.prefix : store[k].mtime + rule.days < job.now}
  IN [i \in 1..Cardinality(found) |->
        LET k == InOrder(found)[i] IN [key |-> k, rec |-> store[k]]]

\* Seeded fault: the threshold takes the whole last day along.
SparesLastDay(rule) ==
  LET found == {k \in Present(store) \cap rule.prefix : store[k].mtime + rule.days + 1 < job.now}
  IN [i \in 1..Cardinality(found) |->
        LET k == InOrder(found)[i] IN [key |-> k, rec |-> store[k]]]

\* What a rule finds: the expired ones of the first ListLimit objects under
\* its prefix.
Finds(rule) ==
  LET q == [prefix |-> rule.prefix, delimited |-> FALSE, start |-> 0, max |-> ListLimit]
      found == {k \in ListObjects(Present(store), q, 0).records : Expired(store[k], rule, job.now)}
  IN [i \in 1..Cardinality(found) |->
        LET k == InOrder(found)[i] IN [key |-> k, rec |-> store[k]]]

\* expireObjects lists and picks; a listing that fails ends it.
expireObjects ==
  LET rule == Head(job.left)
  IN /\ job.at = "rule" /\ job.left # <<>>
     /\ IF ~rule.enabled THEN job' = [job EXCEPT !.left = Tail(@)]
        ELSE IF rule.days = 0 THEN job' = [job EXCEPT !.at = "uploads"]
        ELSE \/ job' = [job EXCEPT !.at = "expire", !.batch = Finds(rule),
                                   !.cut = @ \/ Cardinality(Present(store) \cap rule.prefix) > ListLimit]
             \/ job' = [job EXCEPT !.at = "uploads", !.failed = TRUE]
     /\ UNCHANGED <<storeVars, lister, rules, uploads>>

\* DeleteObject by key, whatever the key holds now; an error is ignored.
ExpireOne ==
  /\ job.at = "expire" /\ job.batch # <<>>
  /\ \/ /\ store' = [store EXCEPT ![Head(job.batch).key] = None]
        /\ job' = [job EXCEPT !.batch = Tail(@)]
     \/ /\ UNCHANGED store
        /\ job' = [job EXCEPT !.batch = Tail(@), !.failed = TRUE]
  /\ UNCHANGED <<clock, nops, lister, rules, uploads>>

ListMultiparts == {u \in Uploads : uploads[u] # None}

\* abortIncompleteMultiparts lists the uploads and picks the old ones.
abortIncompleteMultiparts ==
  LET rule == Head(job.left)
  IN /\ job.at = "uploads" \/ (job.at = "expire" /\ job.batch = <<>>)
     /\ \/ job' = [job EXCEPT !.at = "abort",
                              !.old = {u \in ListMultiparts : /\ rule.abortDays > 0
                                                              /\ uploads[u] + rule.abortDays < job.now}]
        \/ /\ rule.abortDays > 0
           /\ job' = [job EXCEPT !.at = "rule", !.left = Tail(@), !.failed = TRUE]
     /\ UNCHANGED <<storeVars, lister, rules, uploads>>

AbortOne ==
  /\ job.at = "abort"
  /\ \E u \in job.old :
       \/ /\ uploads' = [uploads EXCEPT ![u] = None]
          /\ job' = [job EXCEPT !.old = @ \ {u}]
       \/ /\ UNCHANGED uploads
          /\ job' = [job EXCEPT !.old = @ \ {u}, !.failed = TRUE]
  /\ UNCHANGED <<storeVars, lister, rules>>

RuleDone ==
  /\ job.at = "abort" /\ job.old = {}
  /\ job' = [job EXCEPT !.at = "rule", !.left = Tail(@)]
  /\ UNCHANGED <<storeVars, lister, rules, uploads>>

JobDone ==
  /\ job.at = "rule" /\ job.left = <<>>
  /\ job' = [job EXCEPT !.at = "done"]
  /\ UNCHANGED <<storeVars, lister, rules, uploads>>

Job ==
  \/ ApplyLifecycle \/ applyBucketLifecycle \/ expireObjects \/ ExpireOne
  \/ abortIncompleteMultiparts \/ AbortOne \/ RuleDone \/ JobDone

-----------------------------------------------------------------------------

Observe ==
  /\ stable' = (IF lister.at = "idle" THEN Keys ELSE stable) \cap Present(store')
  /\ steady' = {k \in IF job.at = "idle" THEN Keys ELSE steady : job.at = "idle" \/ store'[k] = store[k]}

Next ==
  /\ \/ Change /\ UNCHANGED <<lister, rules, uploads, job>>
     \/ Active < MaxActive /\ BeginListing /\ UNCHANGED <<rules, uploads, job>>
     \/ (Page \/ PageFails) /\ UNCHANGED <<rules, uploads, job>>
     \/ putBucketLifecycle
     \/ \E u \in Uploads : ChangeUpload(u)
     \/ Job
  /\ Observe

Spec == Init /\ [][Next]_vars

-----------------------------------------------------------------------------
(* Properties.                                                             *)

\* Every variable of Listing and Lifecycle has its type; the job deletes no
\* more than one page of objects a rule.
TypeOK ==
  /\ store \in [Keys -> Records \cup {None}]
  /\ clock \in 0..MaxClock /\ nops \in 0..MaxOps
  /\ lister.query \in Queries \cup {None} /\ lister.pages \in 0..MaxPages
  /\ lister.keys \in Seq(Keys)
  /\ uploads \in [Uploads -> 0..MaxClock \cup {None}]
  /\ rules \in xmlLifecycleToMeta
  /\ job.now <= clock
  /\ Len(job.batch) <= ListLimit
  /\ job.old \subseteq Uploads
  /\ stable \subseteq Present(store) /\ steady \subseteq Keys

\* expireObjects and DeleteObject: an object the job removes was old enough
\* for the rule by the clock of that moment and had its tags, unless it has
\* been written or tagged since the job listed it.
ExpiresOnlyOld ==
  [][\A k \in Keys :
       job.at = "expire" /\ job' # job /\ store[k] # None /\ store'[k] = None
         => LET found == Head(job.batch)
            IN /\ k = found.key
               /\ store[k] = found.rec => Expired(store[k], Head(job.left), clock)]_vars

\* ApplyLifecycle: when it returns, no object that nobody touched meanwhile
\* and no upload is left that a rule in its copy of the rules would remove,
\* unless a call failed or a rule's prefix holds more objects than one
\* listing returns.
SweepComplete ==
  job.at = "done" /\ ~job.failed =>
    \A i \in DOMAIN job.all :
      LET rule == job.all[i]
      IN rule.enabled =>
           /\ rule.days > 0 /\ ~job.cut =>
                \A k \in steady \cap Present(store) \cap rule.prefix : ~Expired(store[k], rule, job.now)
           /\ rule.abortDays > 0 =>
                \A u \in Uploads : uploads[u] # None => uploads[u] + rule.abortDays >= job.now
=============================================================================
