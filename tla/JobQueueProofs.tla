--------------------------- MODULE JobQueueProofs ---------------------------
(***************************************************************************)
(* Theorems about JobQueue for every set of sources, documents, workers    *)
(* and enqueuers and every value of the bounds.                            *)
(***************************************************************************)
EXTENDS JobQueue, TLAPS

(***************************************************************************)
(* The operators on rows and tables.                                       *)
(***************************************************************************)
LEMMA NewJobType ==
    ASSUME NEW when \in Nat, NEW created \in Nat
    PROVE  NewJob(when, created) \in Rows
BY JobQueueAssumption DEF NewJob, Rows, JobStatus, Never

LEMMA ClaimedType ==
    ASSUME NEW row \in Rows, NEW w \in Workers, now \in Nat
    PROVE  Claimed(row, w) \in Rows
BY DEF Claimed, Rows, JobStatus

LEMMA CompletedType ==
    ASSUME NEW row \in Rows, NEW d \in Docs \cup {NoDoc}
    PROVE  Completed(row, d) \in Rows
BY DEF Completed, Rows, JobStatus, Never

LEMMA BackoffType ==
    ASSUME NEW n \in Nat \ {0}
    PROVE  BackoffFor(n) \in Nat
<1>1. Least(n, Len(Backoff)) \in 1..Len(Backoff)
  BY JobQueueAssumption DEF Least
<1>2. QED
  BY <1>1, JobQueueAssumption DEF BackoffFor

LEMMA FailedType ==
    ASSUME NEW row \in Rows, now \in Nat
    PROVE  Failed(row) \in Rows
<1>1. row.attempts \in Nat
  BY DEF Rows
<1>2. BackoffFor(row.attempts + 1) \in Nat
  BY <1>1, BackoffType
<1>3. Least(now + BackoffFor(row.attempts + 1), MaxTime) \in Nat
  BY <1>2, JobQueueAssumption DEF Least
<1> DEFINE exhausted == row.attempts + 1 >= MaxAttempts
           status == IF exhausted THEN "dead" ELSE "queued"
           runAfter == IF exhausted THEN now
                       ELSE Least(now + BackoffFor(row.attempts + 1), MaxTime)
<1>4. status \in JobStatus /\ runAfter \in Nat /\ row.attempts + 1 \in Nat
  BY <1>1, <1>3 DEF JobStatus
<1>5. Failed(row) = [row EXCEPT !.status = status,
                                !.attempts = row.attempts + 1,
                                !.runAfter = runAfter,
                                !.lockedAt = Never, !.lockedBy = NoWorker]
  BY DEF Failed
<1> HIDE DEF status, runAfter, exhausted
<1>6. Failed(row) = [status |-> status, runAfter |-> runAfter,
                     created |-> row.created, attempts |-> row.attempts + 1,
                     lockedAt |-> Never, lockedBy |-> NoWorker,
                     result |-> row.result]
  BY <1>5 DEF Rows
<1>7. QED
  BY <1>4, <1>6 DEF Rows, Never

\* Where no row is 'running' there is nothing to reclaim.
LEMMA NothingToReclaim ==
    ASSUME RunningNeverCommitted, jobs = [k \in DOMAIN jobs |-> jobs[k]]
    PROVE  Reclaimed(jobs) = jobs
BY DEF Reclaimed, Stale, RunningNeverCommitted

LEMMA InsertMissingType ==
    ASSUME NEW table, DOMAIN table \subseteq Keys,
           table \in [DOMAIN table -> Rows],
           NEW keys \in SUBSET Keys, NEW when \in Nat, NEW created \in Nat
    PROVE  LET t == InsertMissing(table, keys, when, created)
           IN  /\ DOMAIN t = DOMAIN table \cup keys
               /\ DOMAIN t \subseteq Keys
               /\ t \in [DOMAIN t -> Rows]
BY NewJobType DEF InsertMissing

(***************************************************************************)
(* What a commit of worker w does to the table: its own row becomes row,   *)
(* the keys in new that are missing are inserted, all else stays.          *)
(***************************************************************************)
CommitShape(w, row, new) ==
    /\ DOMAIN jobs' = DOMAIN jobs \cup new
    /\ jobs' = [k \in DOMAIN jobs' |-> jobs'[k]]
    /\ \A k \in DOMAIN jobs :
          jobs'[k] = IF k = tx[w].key THEN row ELSE jobs[k]
    /\ \A k \in new \ DOMAIN jobs :
          jobs'[k] = NewJob(now, tx[w].row.lockedAt)

LEMMA LoadKeysType ==
    ASSUME NEW captured, NEW d \in Docs
    PROVE  LoadKeysFor(captured, d) \in SUBSET Keys
BY DEF LoadKeysFor, LoadKey, Keys, LoadKeys

LEMMA CapturedType ==
    ASSUME TypeOK, NEW d \in Docs, NEW s \in Sources
    PROVE  /\ DOMAIN Captured(d, s) = DOMAIN docs \cup {d}
           /\ Captured(d, s) \in [DOMAIN Captured(d, s) -> Sources]
           /\ \A x \in DOMAIN docs : Captured(d, s)[x] = docs[x]
BY DEF TypeOK, Captured, Put

LEMMA TxType ==
    ASSUME TypeOK, NEW w \in DOMAIN tx
    PROVE  /\ w \in Workers /\ tx[w].key \in Keys /\ tx[w].row \in Rows
           /\ tx[w].row.lockedAt \in Nat /\ tx[w].row.attempts \in Nat
           /\ tx[w].key.kind = "fetch_source" => tx[w].key.subject \in Sources
           /\ tx[w].key.kind = "normalize_load" => tx[w].key.subject \in Docs
BY DEF TypeOK, Rows, Keys, FetchKeys, LoadKeys

LEMMA DropTxType ==
    ASSUME TypeOK, NEW w, tx' = Drop(tx, w)
    PROVE  /\ DOMAIN tx' = DOMAIN tx \ {w}
           /\ DOMAIN tx' \subseteq Workers
           /\ tx' \in [DOMAIN tx' -> [key : Keys, row : Rows]]
           /\ \A v \in DOMAIN tx' : tx'[v] = tx[v]
BY DEF TypeOK, Drop

LEMMA CommitIsShaped ==
    ASSUME QueueInv, NEW w \in DOMAIN tx, NEW row \in Rows,
           jobs' = Commit(w, row)
    PROVE  CommitShape(w, row, {}) /\ jobs' \in [DOMAIN jobs' -> Rows]
BY TxType DEF QueueInv, TypeOK, ClaimedRowsAreCurrent, Commit, CommitShape

LEMMA CommitWithLoadIsShaped ==
    ASSUME QueueInv, NEW w \in DOMAIN tx, NEW row \in Rows,
           NEW new \in SUBSET Keys,
           jobs' = InsertMissing(Commit(w, row), new, now,
                                 tx[w].row.lockedAt)
    PROVE  CommitShape(w, row, new) /\ jobs' \in [DOMAIN jobs' -> Rows]
<1> DEFINE table == Commit(w, row)
<1>1. /\ DOMAIN table = DOMAIN jobs
      /\ table \in [DOMAIN table -> Rows]
      /\ \A k \in DOMAIN jobs :
            table[k] = IF k = tx[w].key THEN row ELSE jobs[k]
  BY TxType DEF QueueInv, TypeOK, ClaimedRowsAreCurrent, Commit
<1>2. now \in Nat /\ tx[w].row.lockedAt \in Nat /\ DOMAIN table \subseteq Keys
  BY <1>1, TxType DEF QueueInv, TypeOK
<1>3. jobs' = InsertMissing(table, new, now, tx[w].row.lockedAt)
  OBVIOUS
<1> HIDE DEF table
<1>4. /\ DOMAIN jobs' = DOMAIN table \cup new
      /\ jobs' \in [DOMAIN jobs' -> Rows]
  <2>1. now \in Nat /\ tx[w].row.lockedAt \in Nat
    BY <1>2
  <2>2. DOMAIN table \subseteq Keys /\ table \in [DOMAIN table -> Rows]
    BY <1>1, <1>2
  <2>3. LET t == InsertMissing(table, new, now, tx[w].row.lockedAt)
        IN  DOMAIN t = DOMAIN table \cup new /\ t \in [DOMAIN t -> Rows]
    BY ONLY <2>1, <2>2, new \in SUBSET Keys, InsertMissingType
  <2>4. QED
    BY ONLY <1>3, <2>3
<1>5. jobs' = [k \in DOMAIN table \cup new |->
                 IF k \in DOMAIN table THEN table[k]
                 ELSE NewJob(now, tx[w].row.lockedAt)]
  BY <1>3 DEF InsertMissing
<1>6. QED
  BY <1>1, <1>4, <1>5 DEF CommitShape

\* The committed row after a failed or a successful run.
LEMMA FailedOutcome ==
    ASSUME QueueInv, NEW w \in DOMAIN tx
    PROVE  LET row == Failed(tx[w].row) IN
           /\ row \in Rows
           /\ row.status \in {"queued", "dead"}
           /\ row.attempts <= MaxAttempts
           /\ row.status = "dead" <=> row.attempts = MaxAttempts
           /\ row.runAfter >= now
<1>1. tx[w].row \in Rows /\ tx[w].row.attempts \in Nat
  BY TxType DEF QueueInv
<1>2. now \in Nat /\ now <= MaxTime
  BY DEF QueueInv, TypeOK
<1>3. /\ tx[w].row.attempts <= MaxAttempts
      /\ tx[w].row.attempts # MaxAttempts
  <2>1. tx[w].key \in DOMAIN jobs /\ jobs[tx[w].key].status = "queued"
    BY DEF QueueInv, ClaimedRowsAreCurrent
  <2>2. tx[w].row.attempts = jobs[tx[w].key].attempts
    BY <2>1 DEF QueueInv, DeadAfterMaxAttempts
  <2>3. QED
    BY <2>1, <2>2 DEF QueueInv, DeadAfterMaxAttempts
<1>4. Failed(tx[w].row) \in Rows
  BY <1>1, <1>2, FailedType
<1>5. BackoffFor(tx[w].row.attempts + 1) \in Nat
  BY <1>1, BackoffType
<1> DEFINE n == tx[w].row.attempts + 1
           later == Least(now + BackoffFor(n), MaxTime)
<1>6. later \in Nat /\ later >= now
  BY <1>2, <1>5, JobQueueAssumption DEF Least
<1>7. /\ Failed(tx[w].row).status = IF n >= MaxAttempts THEN "dead"
                                    ELSE "queued"
      /\ Failed(tx[w].row).attempts = n
      /\ Failed(tx[w].row).runAfter = IF n >= MaxAttempts THEN now ELSE later
  BY <1>1 DEF Failed, Rows
<1> HIDE DEF later
<1>8. /\ Failed(tx[w].row).status \in {"queued", "dead"}
      /\ Failed(tx[w].row).runAfter >= now
  BY <1>2, <1>6, <1>7
<1>9. n \in Nat /\ MaxAttempts \in Nat /\ n <= MaxAttempts
  BY <1>1, <1>3, JobQueueAssumption
<1> HIDE DEF n
<1>10. /\ Failed(tx[w].row).attempts <= MaxAttempts
       /\ (Failed(tx[w].row).status = "dead") = (n = MaxAttempts)
  BY <1>7, <1>9
<1>11. QED
  BY <1>4, <1>7, <1>8, <1>10

LEMMA CompletedOutcome ==
    ASSUME QueueInv, NEW w \in DOMAIN tx, NEW d \in Docs \cup {NoDoc}
    PROVE  LET row == Completed(tx[w].row, d) IN
           /\ row \in Rows
           /\ row.status = "succeeded"
           /\ row.result = d
           /\ row.attempts <= MaxAttempts
           /\ row.attempts # MaxAttempts
<1>1. tx[w].row \in Rows /\ tx[w].row.attempts \in Nat
  BY TxType DEF QueueInv
<1>2. tx[w].row.attempts <= MaxAttempts /\ tx[w].row.attempts # MaxAttempts
  <2>1. tx[w].key \in DOMAIN jobs /\ jobs[tx[w].key].status = "queued"
    BY DEF QueueInv, ClaimedRowsAreCurrent
  <2>2. tx[w].row.attempts = jobs[tx[w].key].attempts
    BY <2>1 DEF QueueInv, DeadAfterMaxAttempts
  <2>3. QED
    BY <2>1, <2>2 DEF QueueInv, DeadAfterMaxAttempts
<1>3. Completed(tx[w].row, d) \in Rows
  BY <1>1, CompletedType
<1>4. /\ Completed(tx[w].row, d).status = "succeeded"
      /\ Completed(tx[w].row, d).result = d
      /\ Completed(tx[w].row, d).attempts = tx[w].row.attempts
  BY <1>1 DEF Completed, Rows
<1>5. QED
  BY <1>2, <1>3, <1>4

(***************************************************************************)
(* Commits preserve the parts of QueueInv about jobs and tx.               *)
(***************************************************************************)
LEMMA CommitKeepsLocks ==
    ASSUME QueueInv, NEW w \in DOMAIN tx, NEW row \in Rows,
           NEW new \in SUBSET Keys,
           CommitShape(w, row, new), tx' = Drop(tx, w), now' = now,
           row.status \in {"queued", "succeeded", "dead"},
           row.attempts <= MaxAttempts,
           row.status = "dead" <=> row.attempts = MaxAttempts
    PROVE  /\ ClaimedRowsAreCurrent'
           /\ OneWorkerPerJob'
           /\ RunningNeverCommitted'
           /\ DeadAfterMaxAttempts'
<1>1. /\ DOMAIN tx' = DOMAIN tx \ {w}
      /\ \A v \in DOMAIN tx' : tx'[v] = tx[v]
  BY DropTxType DEF QueueInv
<1>2. \A v \in DOMAIN tx' : tx'[v].key # tx[w].key
  BY <1>1 DEF QueueInv, OneWorkerPerJob
<1>3. \A k \in new \ DOMAIN jobs : /\ jobs'[k].status = "queued"
                                   /\ jobs'[k].attempts = 0
  BY DEF CommitShape, NewJob
<1>4. \A v \in DOMAIN tx' : tx[v].key \in DOMAIN jobs
                            /\ jobs'[tx[v].key] = jobs[tx[v].key]
  BY <1>1, <1>2 DEF QueueInv, ClaimedRowsAreCurrent, CommitShape
<1>5. ClaimedRowsAreCurrent'
  BY <1>1, <1>4 DEF QueueInv, ClaimedRowsAreCurrent, CommitShape
<1>6. OneWorkerPerJob'
  BY <1>1 DEF QueueInv, OneWorkerPerJob
<1>7. RunningNeverCommitted'
  BY <1>3 DEF QueueInv, RunningNeverCommitted, CommitShape
<1>8. DeadAfterMaxAttempts'
  <2> SUFFICES ASSUME NEW k \in DOMAIN jobs'
               PROVE  /\ jobs'[k].attempts <= MaxAttempts
                      /\ jobs'[k].status = "dead"
                            <=> jobs'[k].attempts = MaxAttempts
                      /\ \A v \in DOMAIN tx' : tx'[v].key = k =>
                            tx'[v].row.attempts = jobs'[k].attempts
    BY DEF DeadAfterMaxAttempts
  <2>1. CASE k = tx[w].key
    BY <2>1, <1>2 DEF CommitShape, QueueInv, ClaimedRowsAreCurrent
  <2>2. CASE k \in DOMAIN jobs /\ k # tx[w].key
    BY <2>2, <1>1 DEF CommitShape, QueueInv, DeadAfterMaxAttempts
  <2>3. CASE k \notin DOMAIN jobs
    <3>1. jobs'[k].attempts = 0 /\ jobs'[k].status = "queued"
      BY <2>3, <1>3 DEF CommitShape
    <3>2. \A v \in DOMAIN tx' : tx'[v].key # k
      BY <2>3, <1>1, <1>4
    <3>3. QED
      BY <3>1, <3>2, JobQueueAssumption
  <2>4. QED
    BY <2>1, <2>2, <2>3
<1>9. QED
  BY <1>5, <1>6, <1>7, <1>8

\* Captured documents stay captured, by the same source.
Grows(captured) ==
    \A d \in DOMAIN docs : d \in DOMAIN captured /\ captured[d] = docs[d]

LEMMA CommitKeepsHandOn ==
    ASSUME QueueInv, NEW w \in DOMAIN tx, NEW row \in Rows,
           NEW new \in SUBSET Keys,
           CommitShape(w, row, new), Grows(docs'),
           \A k \in new : /\ k.kind = "normalize_load"
                          /\ k.subject \in DOMAIN docs'
                          /\ docs'[k.subject] \in AdaptedSources,
           row.status = "succeeded" /\ tx[w].key.kind # "normalize_load" =>
               /\ row.result \in DOMAIN docs'
               /\ docs'[row.result] \in AdaptedSources =>
                     LoadKey(row.result) \in DOMAIN jobs'
    PROVE  LoadsFollowTheFirstSource'
<1> SUFFICES ASSUME NEW k \in DOMAIN jobs'
             PROVE  IF k.kind = "normalize_load"
                    THEN /\ k.subject \in DOMAIN docs'
                         /\ docs'[k.subject] \in AdaptedSources
                    ELSE jobs'[k].status = "succeeded" =>
                           /\ jobs'[k].result \in DOMAIN docs'
                           /\ docs'[jobs'[k].result] \in AdaptedSources =>
                                 LoadKey(jobs'[k].result) \in DOMAIN jobs'
  BY DEF LoadsFollowTheFirstSource, LoadKey
<1>1. CASE k \in DOMAIN jobs /\ k.kind = "normalize_load"
  BY <1>1 DEF QueueInv, LoadsFollowTheFirstSource, Grows
<1>2. CASE k \in DOMAIN jobs /\ k.kind # "normalize_load" /\ k # tx[w].key
  <2>1. jobs'[k] = jobs[k]
    BY <1>2 DEF CommitShape
  <2>2. SUFFICES ASSUME jobs[k].status = "succeeded"
                 PROVE  /\ jobs[k].result \in DOMAIN docs'
                        /\ docs'[jobs[k].result] \in AdaptedSources =>
                              LoadKey(jobs[k].result) \in DOMAIN jobs'
    BY <2>1, <1>2
  <2>3. /\ jobs[k].result \in DOMAIN docs
        /\ docs[jobs[k].result] \in AdaptedSources =>
              LoadKey(jobs[k].result) \in DOMAIN jobs
    BY <1>2, <2>2 DEF QueueInv, LoadsFollowTheFirstSource
  <2>4. QED
    BY <2>3 DEF Grows, CommitShape
<1>3. CASE k \in DOMAIN jobs /\ k.kind # "normalize_load" /\ k = tx[w].key
  BY <1>3 DEF CommitShape
<1>4. CASE k \notin DOMAIN jobs
  BY <1>4 DEF CommitShape
<1>5. QED
  BY <1>1, <1>2, <1>3, <1>4

\* Steps that leave the table and the workers' transactions alone.
LEMMA FrameKeepsQueue ==
    ASSUME QueueInv, TypeOK', UNCHANGED <<jobs, tx>>,
           now <= now', now' <= MaxTime, Grows(docs')
    PROVE  QueueInv'
<1>1. now \in Nat /\ now' \in Nat
  BY DEF QueueInv, TypeOK
<1>2. ClaimedRowsAreCurrent'
  <2> SUFFICES ASSUME NEW w \in DOMAIN tx
               PROVE  tx[w].row.lockedAt <= now'
    BY DEF QueueInv, ClaimedRowsAreCurrent
  <2>1. tx[w].row.lockedAt \in Nat /\ tx[w].row.lockedAt <= now
    BY TxType DEF QueueInv, ClaimedRowsAreCurrent
  <2>2. QED
    BY <2>1, <1>1
<1>3. OneWorkerPerJob' /\ RunningNeverCommitted' /\ DeadAfterMaxAttempts'
  BY DEF QueueInv, OneWorkerPerJob, RunningNeverCommitted,
         DeadAfterMaxAttempts
<1>4. LoadsFollowTheFirstSource'
  BY DEF QueueInv, LoadsFollowTheFirstSource, LoadKey, Grows
<1>5. QED
  BY <1>2, <1>3, <1>4 DEF QueueInv

(***************************************************************************)
(* Types: one step per action.                                             *)
(***************************************************************************)
LEMMA BucketType ==
    ASSUME TypeOK, NEW s \in Sources
    PROVE  /\ source[s].last \in Nat /\ Cadence[s] \in Nat \ {0}
           /\ Bucket(s) \in Nat /\ FetchKey(s, Bucket(s)) \in FetchKeys
BY JobQueueAssumption DEF TypeOK, Bucket, FetchKey, FetchKeys

LEMMA CaptureKeepsTypes ==
    ASSUME TypeOK, NEW d \in Docs, NEW s \in Sources, NEW t \in Nat,
           docs' = Captured(d, s), source' = LastFetched(s, t)
    PROVE  /\ source' \in [Sources -> [status : SourceStatus, last : Nat]]
           /\ DOMAIN docs' \subseteq Docs
           /\ docs' \in [DOMAIN docs' -> Sources]
           /\ d \in DOMAIN docs'
           /\ Grows(docs')
<1>1. source' \in [Sources -> [status : SourceStatus, last : Nat]]
  BY DEF TypeOK, LastFetched
<1>2. /\ DOMAIN docs' = DOMAIN docs \cup {d}
      /\ docs' \in [DOMAIN docs' -> Sources]
      /\ \A x \in DOMAIN docs : docs'[x] = docs[x]
  BY CapturedType
<1>3. QED
  BY <1>1, <1>2 DEF TypeOK, Grows

LEMMA CommitKeepsType ==
    ASSUME QueueInv, NEW w \in DOMAIN tx, NEW row \in Rows,
           NEW new \in SUBSET Keys,
           CommitShape(w, row, new), jobs' \in [DOMAIN jobs' -> Rows],
           tx' = Drop(tx, w), UNCHANGED <<now, enq, manual, kills, dbErrors>>,
           source' \in [Sources -> [status : SourceStatus, last : Nat]],
           DOMAIN docs' \subseteq Docs, docs' \in [DOMAIN docs' -> Sources]
    PROVE  TypeOK'
<1>1. DOMAIN jobs' \subseteq Keys
  BY DEF CommitShape, QueueInv, TypeOK
<1>2. /\ DOMAIN tx' \subseteq Workers
      /\ tx' \in [DOMAIN tx' -> [key : Keys, row : Rows]]
  BY DropTxType DEF QueueInv
<1>3. QED
  BY <1>1, <1>2 DEF QueueInv, TypeOK

(***************************************************************************)
(* QueueInv holds initially and every action preserves it.                 *)
(***************************************************************************)
LEMMA InitQueue == Init => QueueInv
<1> SUFFICES ASSUME Init PROVE QueueInv
  OBVIOUS
<1>1. TypeOK
  BY JobQueueAssumption DEF Init, TypeOK, EmptyTable, SourceStatus, Never
<1>2. now <= MaxTime
  BY JobQueueAssumption DEF Init
<1>3. DOMAIN jobs = {} /\ DOMAIN tx = {}
  BY DEF Init, EmptyTable
<1>4. QED
  BY <1>1, <1>2, <1>3
     DEF QueueInv, ClaimedRowsAreCurrent, OneWorkerPerJob,
         RunningNeverCommitted, DeadAfterMaxAttempts, LoadsFollowTheFirstSource

LEMMA TickKeepsQueue == QueueInv /\ Tick => QueueInv'
<1> SUFFICES ASSUME QueueInv, Tick PROVE QueueInv'
  OBVIOUS
<1>1. now \in Nat /\ now' = now + 1 /\ now' <= MaxTime
  BY JobQueueAssumption DEF QueueInv, TypeOK, Tick
<1>2. TypeOK'
  BY <1>1 DEF QueueInv, TypeOK, Tick
<1>3. QED
  BY <1>1, <1>2, FrameKeepsQueue DEF Tick, Grows

LEMMA ListDueKeepsQueue ==
    ASSUME QueueInv, NEW e \in Enqueuers, ListDue(e)
    PROVE  QueueInv'
<1> DEFINE keys == {FetchKey(s, Bucket(s)) : s \in {x \in Sources : Due(x)}}
<1>1. keys \in SUBSET FetchKeys
  BY BucketType DEF QueueInv
<1>2. enq' = Put(enq, e, [when |-> now, keys |-> keys])
  BY DEF ListDue
<1> HIDE DEF keys
<1>3. [when |-> now, keys |-> keys] \in [when : Nat, keys : SUBSET FetchKeys]
  BY <1>1 DEF QueueInv, TypeOK
<1>4. /\ DOMAIN enq' \subseteq Enqueuers
      /\ enq' \in [DOMAIN enq' -> [when : Nat, keys : SUBSET FetchKeys]]
  BY <1>2, <1>3 DEF QueueInv, TypeOK, Put
<1>5. TypeOK'
  BY <1>4 DEF QueueInv, TypeOK, ListDue
<1>6. now <= now' /\ now' <= MaxTime /\ Grows(docs')
  BY DEF QueueInv, TypeOK, ListDue, Grows
<1>7. QED
  BY <1>5, <1>6, FrameKeepsQueue DEF ListDue

LEMMA ManualFetchKeepsQueue ==
    ASSUME QueueInv, NEW s \in Sources, ManualFetch(s) \/ ManualFetchEnds(s)
    PROVE  QueueInv'
<1>1. now <= now' /\ now' <= MaxTime /\ UNCHANGED <<jobs, tx>>
  BY DEF QueueInv, TypeOK, ManualFetch, ManualFetchEnds
<1>2. CASE ManualFetch(s)
  <2>1. DOMAIN manual' \subseteq Sources /\ manual' \in [DOMAIN manual' -> Nat]
    BY <1>2 DEF QueueInv, TypeOK, ManualFetch, Put
  <2>2. TypeOK' /\ Grows(docs')
    BY <1>2, <2>1 DEF QueueInv, TypeOK, ManualFetch, Grows
  <2>3. QED
    BY <1>1, <2>2, FrameKeepsQueue
<1>3. CASE ManualFetchEnds(s)
  <2>1. DOMAIN manual' \subseteq Sources /\ manual' \in [DOMAIN manual' -> Nat]
    BY <1>3 DEF QueueInv, TypeOK, ManualFetchEnds, Drop
  <2>2. Content[s] \subseteq Docs /\ TypeOK
    BY JobQueueAssumption DEF QueueInv
  <2>3. /\ source' \in [Sources -> [status : SourceStatus, last : Nat]]
        /\ DOMAIN docs' \subseteq Docs
        /\ docs' \in [DOMAIN docs' -> Sources]
        /\ Grows(docs')
    <3>1. CASE UNCHANGED <<docs, source>>
      BY <3>1, <2>2 DEF TypeOK, Grows
    <3>2. CASE /\ \E d \in Content[s] : docs' = Captured(d, s)
               /\ source' = LastFetched(s, manual[s])
      <4>1. manual[s] \in Nat
        BY <1>3 DEF QueueInv, TypeOK, ManualFetchEnds
      <4>2. PICK d \in Docs : docs' = Captured(d, s)
        BY <3>2, <2>2
      <4>3. QED
        BY <4>1, <4>2, <3>2, <2>2, CaptureKeepsTypes
    <3>3. QED
      BY <1>3, <3>1, <3>2 DEF ManualFetchEnds
  <2>4. TypeOK'
    BY <1>3, <2>1, <2>2, <2>3 DEF TypeOK, ManualFetchEnds
  <2>5. QED
    BY <1>1, <2>3, <2>4, FrameKeepsQueue
<1>4. QED
  BY <1>2, <1>3

LEMMA SetStatusKeepsQueue ==
    ASSUME QueueInv, NEW s \in Sources,
           ApproveSource(s) \/ DemoteSource(s) \/ RetireSource(s)
    PROVE  QueueInv'
<1>1. PICK to \in SourceStatus : source' = [source EXCEPT ![s].status = to]
  BY DEF ApproveSource, DemoteSource, RetireSource, SetStatus, SourceStatus
<1>2. UNCHANGED <<now, docs, jobs, tx, enq, manual, kills, dbErrors>>
  BY DEF ApproveSource, DemoteSource, RetireSource, SetStatus
<1>3. TypeOK'
  BY <1>1, <1>2 DEF QueueInv, TypeOK
<1>4. QED
  BY <1>2, <1>3, FrameKeepsQueue DEF QueueInv, TypeOK, Grows

LEMMA EnqueueDueKeepsQueue ==
    ASSUME QueueInv, NEW e \in Enqueuers, EnqueueDue(e)
    PROVE  QueueInv'
<1> DEFINE keys == enq[e].keys
           when == enq[e].when
<1>1. keys \in SUBSET FetchKeys /\ keys \in SUBSET Keys /\ when \in Nat
  BY DEF QueueInv, TypeOK, EnqueueDue, Keys
<1>2. jobs' = InsertMissing(jobs, keys, when, when)
  BY DEF EnqueueDue
<1> HIDE DEF keys, when
<1>3. /\ DOMAIN jobs' = DOMAIN jobs \cup keys
      /\ DOMAIN jobs' \subseteq Keys
      /\ jobs' \in [DOMAIN jobs' -> Rows]
  <2>1. DOMAIN jobs \subseteq Keys /\ jobs \in [DOMAIN jobs -> Rows]
    BY DEF QueueInv, TypeOK
  <2>2. /\ DOMAIN InsertMissing(jobs, keys, when, when) = DOMAIN jobs \cup keys
        /\ DOMAIN InsertMissing(jobs, keys, when, when) \subseteq Keys
        /\ InsertMissing(jobs, keys, when, when) \in
              [DOMAIN InsertMissing(jobs, keys, when, when) -> Rows]
    BY <1>1, <2>1, InsertMissingType
  <2> QED
    BY <1>2, <2>2
<1>4. /\ \A k \in DOMAIN jobs : jobs'[k] = jobs[k]
      /\ \A k \in keys \ DOMAIN jobs : jobs'[k] = NewJob(when, when)
  BY <1>2 DEF InsertMissing
<1>5. \A k \in DOMAIN jobs' \ DOMAIN jobs :
         /\ jobs'[k].status = "queued" /\ jobs'[k].attempts = 0
         /\ k.kind # "normalize_load"
  BY <1>1, <1>3, <1>4 DEF NewJob, FetchKeys
<1>6. /\ DOMAIN enq' \subseteq Enqueuers
      /\ enq' \in [DOMAIN enq' -> [when : Nat, keys : SUBSET FetchKeys]]
  BY DEF QueueInv, TypeOK, EnqueueDue, Drop
<1>7. UNCHANGED <<now, source, docs, tx, manual, kills, dbErrors>>
  BY DEF EnqueueDue
<1>8. TypeOK'
  BY <1>3, <1>6, <1>7 DEF QueueInv, TypeOK
<1>9. ClaimedRowsAreCurrent'
  BY <1>3, <1>4, <1>7 DEF QueueInv, ClaimedRowsAreCurrent
<1>10. OneWorkerPerJob' /\ RunningNeverCommitted'
  BY <1>4, <1>5, <1>7 DEF QueueInv, OneWorkerPerJob, RunningNeverCommitted
<1>11. DeadAfterMaxAttempts'
  <2> SUFFICES ASSUME NEW k \in DOMAIN jobs'
               PROVE  /\ jobs'[k].attempts <= MaxAttempts
                      /\ jobs'[k].status = "dead"
                            <=> jobs'[k].attempts = MaxAttempts
                      /\ \A v \in DOMAIN tx : tx[v].key = k =>
                            tx[v].row.attempts = jobs'[k].attempts
    BY <1>7 DEF DeadAfterMaxAttempts
  <2>1. CASE k \in DOMAIN jobs
    BY <2>1, <1>4 DEF QueueInv, DeadAfterMaxAttempts
  <2>2. CASE k \notin DOMAIN jobs
    <3>1. \A v \in DOMAIN tx : tx[v].key # k
      BY <2>2 DEF QueueInv, ClaimedRowsAreCurrent
    <3>2. QED
      BY <3>1, <2>2, <1>5, JobQueueAssumption
  <2>3. QED
    BY <2>1, <2>2
<1>12. LoadsFollowTheFirstSource'
  BY <1>3, <1>4, <1>5, <1>7 DEF QueueInv, LoadsFollowTheFirstSource, LoadKey
<1>13. QED
  BY <1>7, <1>8, <1>9, <1>10, <1>11, <1>12 DEF QueueInv

\* A claim leaves the table as it is and opens a transaction on a free row.
LEMMA ClaimShape ==
    ASSUME QueueInv, NEW w \in Workers, Claim(w)
    PROVE  /\ jobs' = jobs
           /\ w \notin DOMAIN tx
           /\ \E k \in Claimable(jobs) :
                 tx' = Put(tx, w, [key |-> k, row |-> Claimed(jobs[k], w)])
<1>1. jobs = [k \in DOMAIN jobs |-> jobs[k]]
  BY DEF QueueInv, TypeOK
<1>2. Reclaimed(jobs) = jobs
  BY <1>1, NothingToReclaim DEF QueueInv
<1>3. QED
  BY <1>2 DEF Claim, NextJobs

LEMMA ClaimKeepsQueue ==
    ASSUME QueueInv, NEW w \in Workers, Claim(w)
    PROVE  QueueInv'
<1>1. jobs' = jobs /\ w \notin DOMAIN tx
  BY ClaimShape
<1>2. PICK k \in Claimable(jobs) :
         tx' = Put(tx, w, [key |-> k, row |-> Claimed(jobs[k], w)])
  BY ClaimShape
<1>3. /\ k \in DOMAIN jobs /\ k \in Keys /\ jobs[k] \in Rows
      /\ jobs[k].status = "queued"
      /\ jobs[k].runAfter <= now
      /\ \A v \in DOMAIN tx : tx[v].key # k
  BY <1>2 DEF Claimable, Locked, QueueInv, TypeOK
<1> DEFINE row == Claimed(jobs[k], w)
<1>4. /\ row \in Rows /\ row.status = "running" /\ row.lockedBy = w
      /\ row.runAfter = jobs[k].runAfter /\ row.attempts = jobs[k].attempts
      /\ row.lockedAt = now
  BY <1>3, ClaimedType DEF QueueInv, TypeOK, Claimed, Rows
<1> HIDE DEF row
<1>5. /\ DOMAIN tx' = DOMAIN tx \cup {w}
      /\ tx'[w].key = k /\ tx'[w].row = row
      /\ \A v \in DOMAIN tx : tx'[v] = tx[v]
      /\ tx' = [v \in DOMAIN tx' |-> tx'[v]]
  BY <1>1, <1>2 DEF Put, row
<1>6. tx' \in [DOMAIN tx' -> [key : Keys, row : Rows]]
  BY <1>2, <1>3, <1>4 DEF QueueInv, TypeOK, Put, row
<1>7. UNCHANGED <<now, source, docs, enq, manual, kills, dbErrors>>
  BY DEF Claim
<1>8. TypeOK'
  BY <1>1, <1>5, <1>6, <1>7 DEF QueueInv, TypeOK
<1>9. ClaimedRowsAreCurrent'
  <2> SUFFICES ASSUME NEW v \in DOMAIN tx'
               PROVE  /\ tx'[v].key \in DOMAIN jobs
                      /\ jobs[tx'[v].key].status = "queued"
                      /\ tx'[v].row.status = "running"
                      /\ tx'[v].row.lockedBy = v
                      /\ tx'[v].row.runAfter = jobs[tx'[v].key].runAfter
                      /\ tx'[v].row.attempts = jobs[tx'[v].key].attempts
                      /\ tx'[v].row.runAfter <= tx'[v].row.lockedAt
                      /\ tx'[v].row.lockedAt <= now
    BY <1>1, <1>7 DEF ClaimedRowsAreCurrent
  <2>1. CASE v = w
    BY <2>1, <1>3, <1>4, <1>5 DEF QueueInv, TypeOK
  <2>2. CASE v \in DOMAIN tx
    BY <2>2, <1>5 DEF QueueInv, ClaimedRowsAreCurrent
  <2>3. QED
    BY <2>1, <2>2, <1>5
<1>10. OneWorkerPerJob'
  BY <1>1, <1>3, <1>5 DEF QueueInv, OneWorkerPerJob
<1>11. RunningNeverCommitted'
  BY <1>1 DEF QueueInv, RunningNeverCommitted
<1>12. DeadAfterMaxAttempts'
  BY <1>1, <1>3, <1>4, <1>5 DEF QueueInv, DeadAfterMaxAttempts
<1>13. LoadsFollowTheFirstSource'
  BY <1>1, <1>7 DEF QueueInv, LoadsFollowTheFirstSource, LoadKey
<1>14. QED
  BY <1>7, <1>8, <1>9, <1>10, <1>11, <1>12, <1>13 DEF QueueInv

LEMMA RollbackKeepsQueue ==
    ASSUME QueueInv, NEW w \in Workers, DbError(w) \/ Killed(w)
    PROVE  QueueInv'
<1>1. /\ tx' = Drop(tx, w)
      /\ UNCHANGED <<now, source, docs, jobs, enq, manual>>
      /\ kills' \in Nat /\ dbErrors' \in Nat
  BY DEF DbError, Killed, QueueInv, TypeOK
<1>2. /\ DOMAIN tx' = DOMAIN tx \ {w}
      /\ DOMAIN tx' \subseteq Workers
      /\ tx' \in [DOMAIN tx' -> [key : Keys, row : Rows]]
      /\ \A v \in DOMAIN tx' : tx'[v] = tx[v]
  BY <1>1, DropTxType DEF QueueInv
<1>3. TypeOK'
  BY <1>1, <1>2 DEF QueueInv, TypeOK
<1>4. ClaimedRowsAreCurrent' /\ OneWorkerPerJob'
  BY <1>1, <1>2 DEF QueueInv, ClaimedRowsAreCurrent, OneWorkerPerJob
<1>5. RunningNeverCommitted' /\ DeadAfterMaxAttempts' /\ LoadsFollowTheFirstSource'
  BY <1>1, <1>2 DEF QueueInv, RunningNeverCommitted, DeadAfterMaxAttempts,
                    LoadsFollowTheFirstSource, LoadKey
<1>6. QED
  BY <1>1, <1>3, <1>4, <1>5 DEF QueueInv

\* What the three ways to fail a job have in common.
FailureStep(w) ==
    /\ w \in DOMAIN tx
    /\ jobs' = Commit(w, Failed(tx[w].row))
    /\ tx' = Drop(tx, w)
    /\ UNCHANGED <<now, enq, manual, kills, dbErrors>>

LEMMA FailuresFail ==
    ASSUME NEW w, FetchFails(w) \/ FetchFailsLate(w) \/ LoadFails(w)
    PROVE  FailureStep(w)
BY DEF FetchFails, FetchFailsLate, LoadFails, FailureStep, Runs

LEMMA FailureCaptures ==
    ASSUME TypeOK, NEW w \in DOMAIN tx,
           FetchFails(w) \/ FetchFailsLate(w) \/ LoadFails(w)
    PROVE  /\ source' \in [Sources -> [status : SourceStatus, last : Nat]]
           /\ DOMAIN docs' \subseteq Docs
           /\ docs' \in [DOMAIN docs' -> Sources]
           /\ Grows(docs')
<1>1. CASE FetchFails(w) \/ LoadFails(w)
  BY <1>1 DEF FetchFails, LoadFails, TypeOK, Grows
<1>2. CASE FetchFailsLate(w)
  <2> DEFINE s == tx[w].key.subject
  <2>1. s \in Sources /\ tx[w].row.lockedAt \in Nat /\ Content[s] \subseteq Docs
    BY <1>2, TxType, JobQueueAssumption DEF FetchFailsLate, Runs
  <2>2. /\ \E d \in Content[s] : docs' = Captured(d, s)
        /\ source' = LastFetched(s, tx[w].row.lockedAt)
    BY <1>2 DEF FetchFailsLate
  <2> HIDE DEF s
  <2>3. QED
    BY <2>1, <2>2, CaptureKeepsTypes
<1>3. QED
  BY <1>1, <1>2

LEMMA FailureKeepsQueue ==
    ASSUME QueueInv, NEW w \in Workers,
           FetchFails(w) \/ FetchFailsLate(w) \/ LoadFails(w)
    PROVE  QueueInv'
<1> DEFINE row == Failed(tx[w].row)
<1>1. FailureStep(w) /\ w \in DOMAIN tx
  BY FailuresFail DEF FailureStep
<1>2. /\ row \in Rows
      /\ row.status \in {"queued", "dead"}
      /\ row.attempts <= MaxAttempts
      /\ row.status = "dead" <=> row.attempts = MaxAttempts
  BY <1>1, FailedOutcome
<1> HIDE DEF row
<1>3. CommitShape(w, row, {}) /\ jobs' \in [DOMAIN jobs' -> Rows]
  BY <1>1, <1>2, CommitIsShaped DEF FailureStep, row
<1>4. /\ source' \in [Sources -> [status : SourceStatus, last : Nat]]
      /\ DOMAIN docs' \subseteq Docs
      /\ docs' \in [DOMAIN docs' -> Sources]
      /\ Grows(docs')
  BY <1>1, FailureCaptures DEF QueueInv
<1>5. TypeOK'
  BY <1>1, <1>2, <1>3, <1>4, CommitKeepsType DEF FailureStep
<1>6. /\ ClaimedRowsAreCurrent' /\ OneWorkerPerJob'
      /\ RunningNeverCommitted' /\ DeadAfterMaxAttempts'
  BY <1>1, <1>2, <1>3, CommitKeepsLocks DEF FailureStep
<1>7. LoadsFollowTheFirstSource'
  BY <1>1, <1>2, <1>3, <1>4, CommitKeepsHandOn
<1>8. QED
  BY <1>1, <1>5, <1>6, <1>7 DEF QueueInv, FailureStep

LEMMA LoadOkKeepsQueue ==
    ASSUME QueueInv, NEW w \in Workers, LoadOk(w)
    PROVE  QueueInv'
<1> DEFINE row == Completed(tx[w].row, NoDoc)
<1>1. /\ w \in DOMAIN tx /\ tx[w].key.kind = "normalize_load"
      /\ jobs' = Commit(w, row)
      /\ tx' = Drop(tx, w)
      /\ UNCHANGED <<now, source, docs, enq, manual, kills, dbErrors>>
  BY DEF LoadOk, Runs
<1>2. /\ row \in Rows /\ row.status = "succeeded"
      /\ row.attempts <= MaxAttempts /\ row.attempts # MaxAttempts
  BY <1>1, CompletedOutcome
<1> HIDE DEF row
<1>3. CommitShape(w, row, {}) /\ jobs' \in [DOMAIN jobs' -> Rows]
  BY <1>1, <1>2, CommitIsShaped
<1>4. TypeOK'
  BY <1>1, <1>2, <1>3, CommitKeepsType DEF QueueInv, TypeOK
<1>5. /\ ClaimedRowsAreCurrent' /\ OneWorkerPerJob'
      /\ RunningNeverCommitted' /\ DeadAfterMaxAttempts'
  BY <1>1, <1>2, <1>3, CommitKeepsLocks
<1>6. LoadsFollowTheFirstSource'
  BY <1>1, <1>2, <1>3, CommitKeepsHandOn DEF Grows
<1>7. QED
  BY <1>1, <1>4, <1>5, <1>6 DEF QueueInv

\* A fetch that succeeds commits its row, its capture and its load job.
LEMMA FetchOkShape ==
    ASSUME QueueInv, NEW w \in Workers, FetchOk(w)
    PROVE  \E d \in Docs : LET row == Completed(tx[w].row, d)
                               s == tx[w].key.subject
                               new == LoadKeysFor(docs', d) IN
             /\ w \in DOMAIN tx /\ tx[w].key.kind = "fetch_source"
             /\ s \in Sources
             /\ docs' = Captured(d, s)
             /\ source' = LastFetched(s, tx[w].row.lockedAt)
             /\ new \in SUBSET Keys
             /\ CommitShape(w, row, new)
             /\ jobs' \in [DOMAIN jobs' -> Rows]
             /\ tx' = Drop(tx, w)
             /\ UNCHANGED <<now, enq, manual, kills, dbErrors>>
<1>1. /\ w \in DOMAIN tx /\ tx[w].key.kind = "fetch_source"
      /\ tx[w].key.subject \in Sources
      /\ tx' = Drop(tx, w)
      /\ UNCHANGED <<now, enq, manual, kills, dbErrors>>
  BY TxType DEF FetchOk, Runs, QueueInv
<1> DEFINE s == tx[w].key.subject
<1>2. PICK d \in Docs :
         /\ docs' = Captured(d, s)
         /\ source' = LastFetched(s, tx[w].row.lockedAt)
         /\ jobs' = InsertMissing(Commit(w, Completed(tx[w].row, d)),
                                  LoadKeysFor(Captured(d, s), d),
                                  now, tx[w].row.lockedAt)
  BY <1>1, JobQueueAssumption DEF FetchOk, HandOn
<1> DEFINE row == Completed(tx[w].row, d)
           new == LoadKeysFor(docs', d)
<1>3. row \in Rows
  BY <1>1, CompletedOutcome
<1>4. new \in SUBSET Keys
  BY LoadKeysType
<1>5. jobs' = InsertMissing(Commit(w, row), new, now, tx[w].row.lockedAt)
  BY <1>2
<1> HIDE DEF row, new
<1>6. CommitShape(w, row, new) /\ jobs' \in [DOMAIN jobs' -> Rows]
  BY <1>1, <1>3, <1>4, <1>5, CommitWithLoadIsShaped
<1>7. QED
  BY <1>1, <1>2, <1>4, <1>6 DEF row, new

LEMMA FetchOkKeepsQueue ==
    ASSUME QueueInv, NEW w \in Workers, FetchOk(w)
    PROVE  QueueInv'
<1>1. PICK d \in Docs : LET row == Completed(tx[w].row, d)
                            s == tx[w].key.subject
                            new == LoadKeysFor(docs', d) IN
         /\ w \in DOMAIN tx /\ tx[w].key.kind = "fetch_source"
         /\ s \in Sources
         /\ docs' = Captured(d, s)
         /\ source' = LastFetched(s, tx[w].row.lockedAt)
         /\ new \in SUBSET Keys
         /\ CommitShape(w, row, new)
         /\ jobs' \in [DOMAIN jobs' -> Rows]
         /\ tx' = Drop(tx, w)
         /\ UNCHANGED <<now, enq, manual, kills, dbErrors>>
  BY FetchOkShape
<1> DEFINE row == Completed(tx[w].row, d)
           s == tx[w].key.subject
           new == LoadKeysFor(docs', d)
<1>2. /\ row \in Rows /\ row.status = "succeeded" /\ row.result = d
      /\ row.attempts <= MaxAttempts /\ row.attempts # MaxAttempts
  BY <1>1, CompletedOutcome
<1>3. /\ w \in DOMAIN tx /\ tx[w].key.kind = "fetch_source"
      /\ s \in Sources
      /\ docs' = Captured(d, s)
      /\ source' = LastFetched(s, tx[w].row.lockedAt)
      /\ new \in SUBSET Keys
      /\ CommitShape(w, row, new)
      /\ jobs' \in [DOMAIN jobs' -> Rows]
      /\ tx' = Drop(tx, w)
      /\ UNCHANGED <<now, enq, manual, kills, dbErrors>>
  BY <1>1
<1>4. \A k \in new : /\ k.kind = "normalize_load" /\ k.subject = d
                     /\ docs'[d] \in AdaptedSources
  BY DEF LoadKeysFor, LoadKey
<1>5. new \subseteq DOMAIN jobs'
  BY <1>3 DEF CommitShape
<1> HIDE DEF row, s
<1>6. /\ source' \in [Sources -> [status : SourceStatus, last : Nat]]
      /\ DOMAIN docs' \subseteq Docs
      /\ docs' \in [DOMAIN docs' -> Sources]
      /\ d \in DOMAIN docs'
      /\ Grows(docs')
  BY <1>3, TxType, CaptureKeepsTypes DEF QueueInv
<1>7. LoadsFollowTheFirstSource'
  <2>1. \A k \in new : /\ k.kind = "normalize_load" /\ k.subject \in DOMAIN docs'
                        /\ docs'[k.subject] \in AdaptedSources
    BY <1>4, <1>6
  <2>2. /\ row.result \in DOMAIN docs'
        /\ docs'[row.result] \in AdaptedSources =>
              LoadKey(row.result) \in DOMAIN jobs'
    BY <1>2, <1>5, <1>6 DEF LoadKeysFor
  <2> HIDE DEF new
  <2>3. QED
    BY <1>2, <1>3, <1>6, <2>1, <2>2, CommitKeepsHandOn
<1> HIDE DEF new
<1>8. TypeOK'
  BY <1>2, <1>3, <1>6, CommitKeepsType
<1>9. /\ ClaimedRowsAreCurrent' /\ OneWorkerPerJob'
      /\ RunningNeverCommitted' /\ DeadAfterMaxAttempts'
  BY <1>2, <1>3, CommitKeepsLocks
<1>10. QED
  BY <1>3, <1>7, <1>8, <1>9 DEF QueueInv

LEMMA NextKeepsQueue == QueueInv /\ [Next]_vars => QueueInv'
<1> SUFFICES ASSUME QueueInv, [Next]_vars PROVE QueueInv'
  OBVIOUS
<1>1. CASE Tick
  BY <1>1, TickKeepsQueue
<1>2. CASE \E e \in Enqueuers : ListDue(e) \/ EnqueueDue(e)
  BY <1>2, ListDueKeepsQueue, EnqueueDueKeepsQueue
<1>3. ASSUME NEW w \in Workers, Claim(w) \/ Finish(w) \/ Killed(w)
      PROVE  QueueInv'
  BY <1>3, ClaimKeepsQueue, FetchOkKeepsQueue, FailureKeepsQueue,
     LoadOkKeepsQueue, RollbackKeepsQueue DEF Finish
<1>4. ASSUME NEW s \in Sources,
             \/ ManualFetch(s) \/ ManualFetchEnds(s)
             \/ ApproveSource(s) \/ DemoteSource(s) \/ RetireSource(s)
      PROVE  QueueInv'
  BY <1>4, ManualFetchKeepsQueue, SetStatusKeepsQueue
<1>5. CASE UNCHANGED vars
  <2>1. UNCHANGED <<now, source, docs, jobs, tx, enq, manual, kills, dbErrors>>
    BY <1>5 DEF vars
  <2>2. TypeOK' /\ now <= now' /\ now' <= MaxTime /\ Grows(docs')
    BY <2>1 DEF QueueInv, TypeOK, Grows
  <2>3. QED
    BY <2>1, <2>2, FrameKeepsQueue
<1>6. QED
  BY <1>1, <1>2, <1>3, <1>4, <1>5 DEF Next

\* The inductive invariant of the queue.
THEOREM QueueInvariant == Spec => []QueueInv
<1>1. QED
  BY InitQueue, NextKeepsQueue, PTL DEF Spec

\* The variables keep their types, whatever the constants are.
THEOREM TypeCorrect == Spec => []TypeOK
<1>1. QueueInv => TypeOK
  BY DEF QueueInv
<1>2. QED
  BY <1>1, QueueInvariant, PTL

\* Two workers never hold the same job, for any number of workers,
\* enqueuers, crashes and retries.
THEOREM JobsHaveOneWorker == Spec => []OneWorkerPerJob
<1>1. QueueInv => OneWorkerPerJob
  BY DEF QueueInv
<1>2. QED
  BY <1>1, QueueInvariant, PTL

\* No committed row is 'running', so reclaim_stale_jobs finds nothing.
THEOREM NothingIsReclaimed == Spec => []RunningNeverCommitted
<1>1. QueueInv => RunningNeverCommitted
  BY DEF QueueInv
<1>2. QED
  BY <1>1, QueueInvariant, PTL

\* A dead job is one whose attempts are used up, and nothing else is.
THEOREM DeadMeansExhausted == Spec => []DeadAfterMaxAttempts
<1>1. QueueInv => DeadAfterMaxAttempts
  BY DEF QueueInv
<1>2. QED
  BY <1>1, QueueInvariant, PTL

\* The first source of a document decides of its load: a load job is queued with
\* each fetch that succeeds when an adapter reads that source, and for no other
\* document, whatever workers, kills and stale rows do (_maybe_enqueue_normalize_load).
THEOREM FirstSourceDecidesTheLoad == Spec => []LoadsFollowTheFirstSource
<1>1. QueueInv => LoadsFollowTheFirstSource
  BY DEF QueueInv
<1>2. QED
  BY <1>1, QueueInvariant, PTL

(***************************************************************************)
(* What a step does to the rows of the table.                              *)
(***************************************************************************)
OnlyOwnersWrite ==
    \A k \in DOMAIN jobs :
        /\ k \in DOMAIN jobs'
        /\ jobs'[k] = jobs[k] \/ \E w \in DOMAIN tx : tx[w].key = k

LEMMA StepWritesOwnedRows ==
    ASSUME QueueInv, [Next]_vars
    PROVE  OnlyOwnersWrite
<1>1. CASE UNCHANGED jobs
  BY <1>1 DEF OnlyOwnersWrite
<1>2. ASSUME NEW e \in Enqueuers, EnqueueDue(e)
      PROVE  OnlyOwnersWrite
  BY <1>2 DEF EnqueueDue, InsertMissing, OnlyOwnersWrite
<1>3. ASSUME NEW w \in Workers, FetchOk(w)
      PROVE  OnlyOwnersWrite
  BY <1>3, FetchOkShape DEF CommitShape, OnlyOwnersWrite
<1>4. ASSUME NEW w \in Workers,
             FetchFails(w) \/ FetchFailsLate(w) \/ LoadFails(w)
      PROVE  OnlyOwnersWrite
  <2>1. w \in DOMAIN tx /\ jobs' = Commit(w, Failed(tx[w].row))
    BY <1>4, FailuresFail DEF FailureStep
  <2>2. QED
    BY <2>1 DEF Commit, OnlyOwnersWrite
<1>5. ASSUME NEW w \in Workers, LoadOk(w)
      PROVE  OnlyOwnersWrite
  BY <1>5 DEF LoadOk, Runs, Commit, OnlyOwnersWrite
<1>6. ASSUME NEW w \in Workers, Claim(w)
      PROVE  UNCHANGED jobs
  BY <1>6, ClaimShape
<1>7. QED
  BY <1>1, <1>2, <1>3, <1>4, <1>5, <1>6
     DEF Next, vars, Finish, Tick, ListDue, DbError, Killed, ManualFetch,
         ManualFetchEnds, ApproveSource, DemoteSource, RetireSource, SetStatus

\* A job that ended is never touched again and its key is never reused.
THEOREM EndedJobsAreFinal == Spec => EndedJobsStay
<1> DEFINE Stay == \A k \in DOMAIN jobs : Terminal(jobs[k]) =>
                      k \in DOMAIN jobs' /\ jobs'[k] = jobs[k]
<1>1. ASSUME QueueInv, [Next]_vars
      PROVE  [Stay]_vars
  <2>1. \A w \in DOMAIN tx : /\ tx[w].key \in DOMAIN jobs
                             /\ jobs[tx[w].key].status = "queued"
    BY <1>1 DEF QueueInv, ClaimedRowsAreCurrent
  <2>2. OnlyOwnersWrite
    BY <1>1, StepWritesOwnedRows
  <2>3. Stay
    BY <2>1, <2>2 DEF OnlyOwnersWrite, Terminal
  <2>4. QED
    BY <2>3
<1>2. QED
  BY <1>1, QueueInvariant, PTL DEF Spec, EndedJobsStay

(***************************************************************************)
(* Spacing: OneOpenWindow is inductive beside QueueInv.                    *)
(***************************************************************************)
WindowInv == QueueInv /\ OneOpenWindow

LEMMA InitWindow == Init => WindowInv
BY InitQueue DEF WindowInv, Init, OneOpenWindow, QueuedWindow, ListedWindow,
                 EmptyTable

\* Steps that move no window and touch neither jobs, enq nor manual of s.
LEMMA QuietStepKeepsWindow ==
    ASSUME WindowInv, NEW s \in PlainSources,
           source'[s].last = source[s].last, UNCHANGED <<jobs, enq>>,
           s \notin DOMAIN manual'
    PROVE  s \notin DOMAIN manual' /\ QueuedWindow(s)' /\ ListedWindow(s)'
<1>1. QueuedWindow(s) /\ ListedWindow(s)
  BY DEF WindowInv, OneOpenWindow
<1>2. QED
  BY <1>1 DEF QueuedWindow, ListedWindow, Bucket, DueBy

LEMMA ListDueKeepsWindow ==
    ASSUME WindowInv, NEW s \in PlainSources, NEW e \in Enqueuers, ListDue(e)
    PROVE  s \notin DOMAIN manual' /\ QueuedWindow(s)' /\ ListedWindow(s)'
<1>1. s \notin DOMAIN manual /\ QueuedWindow(s) /\ ListedWindow(s)
  BY DEF WindowInv, OneOpenWindow
<1>2. UNCHANGED <<now, source, docs, jobs, tx, manual, kills, dbErrors>>
  BY DEF ListDue
<1> DEFINE keys == {FetchKey(x, Bucket(x)) : x \in {y \in Sources : Due(y)}}
<1>3. \A k \in keys : k.subject = s =>
         k.bucket = Bucket(s) /\ DueBy(s, now)
  BY DEF FetchKey, Due, DueBy, Bucket
<1>4. enq' = Put(enq, e, [when |-> now, keys |-> keys])
  BY DEF ListDue
<1> HIDE DEF keys
<1>5. \A f \in DOMAIN enq' : \/ enq'[f].when = now /\ enq'[f].keys = keys
                             \/ f \in DOMAIN enq /\ enq'[f] = enq[f]
  BY <1>4 DEF Put
<1>6. ListedWindow(s)'
  BY <1>1, <1>2, <1>3, <1>5 DEF ListedWindow, Bucket, DueBy
<1>7. QueuedWindow(s)'
  BY <1>1, <1>2 DEF QueuedWindow, Bucket, DueBy
<1>8. QED
  BY <1>1, <1>2, <1>6, <1>7

LEMMA EnqueueDueKeepsWindow ==
    ASSUME WindowInv, NEW s \in PlainSources, NEW e \in Enqueuers,
           EnqueueDue(e)
    PROVE  s \notin DOMAIN manual' /\ QueuedWindow(s)' /\ ListedWindow(s)'
<1>1. s \notin DOMAIN manual /\ QueuedWindow(s) /\ ListedWindow(s)
  BY DEF WindowInv, OneOpenWindow
<1>2. UNCHANGED <<now, source, docs, tx, manual, kills, dbErrors>>
  BY DEF EnqueueDue
<1>3. e \in DOMAIN enq /\ DOMAIN jobs' = DOMAIN jobs \cup enq[e].keys
  BY DEF EnqueueDue, InsertMissing
<1>4. /\ \A k \in DOMAIN jobs : jobs'[k] = jobs[k]
      /\ \A k \in enq[e].keys \ DOMAIN jobs :
            jobs'[k].runAfter = enq[e].when
  BY DEF EnqueueDue, InsertMissing, NewJob
<1>5. \A f \in DOMAIN enq' : f \in DOMAIN enq /\ enq'[f] = enq[f]
  BY DEF EnqueueDue, Drop
<1>6. QueuedWindow(s)'
  <2> SUFFICES ASSUME NEW k \in DOMAIN jobs', k.kind = "fetch_source",
                      k.subject = s, jobs'[k].status = "queued"
               PROVE  k.bucket = Bucket(s) /\ DueBy(s, jobs'[k].runAfter)
    BY <1>2 DEF QueuedWindow, Bucket, DueBy
  <2>1. CASE k \in DOMAIN jobs
    BY <2>1, <1>1, <1>4 DEF QueuedWindow
  <2>2. CASE k \notin DOMAIN jobs
    BY <2>2, <1>1, <1>3, <1>4 DEF ListedWindow
  <2>3. QED
    BY <2>1, <2>2
<1>7. ListedWindow(s)'
  BY <1>1, <1>2, <1>3, <1>5 DEF ListedWindow, Bucket, DueBy
<1>8. QED
  BY <1>1, <1>2, <1>6, <1>7

\* A fetch that succeeds closes the window of its source, and no key of the
\* new window exists yet.
LEMMA FetchOkKeepsWindow ==
    ASSUME WindowInv, NEW s \in PlainSources, NEW w \in Workers, FetchOk(w)
    PROVE  s \notin DOMAIN manual' /\ QueuedWindow(s)' /\ ListedWindow(s)'
<1>1. /\ QueueInv
      /\ s \notin DOMAIN manual /\ QueuedWindow(s) /\ ListedWindow(s)
  BY DEF WindowInv, OneOpenWindow
<1> DEFINE key == tx[w].key
<1>2. PICK d \in Docs :
         /\ w \in DOMAIN tx /\ key.kind = "fetch_source"
         /\ key.subject \in Sources
         /\ source' = LastFetched(key.subject, tx[w].row.lockedAt)
         /\ CommitShape(w, Completed(tx[w].row, d), LoadKeysFor(docs', d))
         /\ UNCHANGED <<now, enq, manual, kills, dbErrors>>
  BY <1>1, FetchOkShape
<1>3. /\ Completed(tx[w].row, d).status = "succeeded"
      /\ \A k \in LoadKeysFor(docs', d) : k.kind = "normalize_load"
  BY <1>1, <1>2, CompletedOutcome DEF LoadKeysFor, LoadKey
<1>4. \A k \in DOMAIN jobs' :
         k.kind = "fetch_source" /\ jobs'[k].status = "queued" =>
            k \in DOMAIN jobs /\ k # key /\ jobs'[k] = jobs[k]
  BY <1>2, <1>3 DEF CommitShape
<1>5. DOMAIN jobs \subseteq DOMAIN jobs'
  BY <1>2 DEF CommitShape
<1>6. key \in DOMAIN jobs /\ jobs[key].status = "queued" /\ key \in FetchKeys
  BY <1>1, <1>2, TxType
     DEF QueueInv, ClaimedRowsAreCurrent, TypeOK, Keys, LoadKeys
<1> HIDE DEF key
<1>7. CASE key.subject # s
  <2>1. source'[s].last = source[s].last
    BY <1>1, <1>2, <1>7 DEF LastFetched, QueueInv, TypeOK, PlainSources
  <2>2. QueuedWindow(s)' /\ ListedWindow(s)'
    BY <1>1, <1>2, <1>4, <1>5, <2>1
       DEF QueuedWindow, ListedWindow, Bucket, DueBy
  <2>3. QED
    BY <1>1, <1>2, <2>2
<1>8. CASE key.subject = s
  <2>1. key.bucket = Bucket(s)
    BY <1>1, <1>2, <1>6, <1>8 DEF QueuedWindow
  <2>2. \A k \in FetchKeys : k.subject = s /\ k.bucket = Bucket(s) => k = key
    BY <2>1, <1>6, <1>8 DEF FetchKeys
  <2>3. \A k \in DOMAIN jobs :
           k.kind = "fetch_source" /\ k.subject = s
           /\ jobs[k].status = "queued" => k = key
    BY <2>2, <1>1 DEF QueuedWindow, QueueInv, TypeOK, Keys, LoadKeys
  <2>4. QueuedWindow(s)'
    BY <2>3, <1>4 DEF QueuedWindow
  <2>5. \A e \in DOMAIN enq : \A k \in enq[e].keys :
           k.subject = s => k \in DOMAIN jobs
    BY <2>2, <1>1, <1>6 DEF ListedWindow, QueueInv, TypeOK
  <2>6. ListedWindow(s)'
    BY <2>5, <1>2, <1>5 DEF ListedWindow
  <2>7. QED
    BY <1>1, <1>2, <2>4, <2>6
<1>9. QED
  BY <1>7, <1>8

\* A failed fetch stays in its window, later than before.
LEMMA FailureKeepsWindow ==
    ASSUME WindowInv, NEW s \in PlainSources, NEW w \in Workers,
           FetchFails(w) \/ FetchFailsLate(w) \/ LoadFails(w)
    PROVE  s \notin DOMAIN manual' /\ QueuedWindow(s)' /\ ListedWindow(s)'
<1>1. /\ QueueInv
      /\ s \notin DOMAIN manual /\ QueuedWindow(s) /\ ListedWindow(s)
  BY DEF WindowInv, OneOpenWindow
<1> DEFINE key == tx[w].key
           row == Failed(tx[w].row)
<1>2. /\ w \in DOMAIN tx
      /\ jobs' = Commit(w, row)
      /\ UNCHANGED <<now, enq, manual, kills, dbErrors>>
  BY FailuresFail DEF FailureStep
<1>3. key \in DOMAIN jobs /\ jobs[key].status = "queued"
  BY <1>1, <1>2 DEF QueueInv, ClaimedRowsAreCurrent
<1>4. row \in Rows /\ row.runAfter >= now
  BY <1>1, <1>2, FailedOutcome
<1>5. /\ DOMAIN jobs' = DOMAIN jobs
      /\ \A k \in DOMAIN jobs : jobs'[k] = IF k = key THEN row ELSE jobs[k]
  BY <1>1, <1>2, <1>4 DEF Commit, QueueInv, TypeOK
<1>6. source'[s].last = source[s].last
  <2>1. CASE FetchFails(w) \/ LoadFails(w)
    BY <2>1 DEF FetchFails, LoadFails
  <2>2. CASE FetchFailsLate(w)
    BY <2>2, <1>1 DEF FetchFailsLate, LastFetched, PlainSources, QueueInv,
                      TypeOK
  <2>3. QED
    BY <2>1, <2>2
<1>7. /\ now \in Nat /\ jobs[key].runAfter \in Nat /\ row.runAfter \in Nat
      /\ jobs[key].runAfter <= now
  <2>1. /\ tx[w].row.runAfter = jobs[key].runAfter
        /\ tx[w].row.runAfter <= tx[w].row.lockedAt
        /\ tx[w].row.lockedAt <= now
    BY <1>1, <1>2 DEF QueueInv, ClaimedRowsAreCurrent
  <2>2. jobs[key] \in Rows /\ tx[w].row.lockedAt \in Nat /\ now \in Nat
    BY <1>1, <1>2, <1>3, TxType DEF QueueInv, TypeOK
  <2>3. QED
    BY <1>4, <2>1, <2>2 DEF Rows
<1> HIDE DEF key, row
<1>8. QueuedWindow(s)'
  <2> SUFFICES ASSUME NEW k \in DOMAIN jobs, k.kind = "fetch_source",
                      k.subject = s, jobs'[k].status = "queued"
               PROVE  k.bucket = Bucket(s) /\ DueBy(s, jobs'[k].runAfter)
    BY <1>5, <1>6 DEF QueuedWindow, Bucket, DueBy
  <2>1. CASE k # key
    BY <2>1, <1>1, <1>5 DEF QueuedWindow
  <2>2. CASE k = key
    <3>1. k.bucket = Bucket(s) /\ DueBy(s, jobs[key].runAfter)
      BY <2>2, <1>1, <1>3 DEF QueuedWindow
    <3>2. s \in Sources /\ Bucket(s) \in Nat
      BY <1>1, BucketType DEF PlainSources, QueueInv
    <3>3. QED
      BY <2>2, <3>1, <3>2, <1>4, <1>5, <1>7 DEF DueBy
  <2>3. QED
    BY <2>1, <2>2
<1>9. ListedWindow(s)'
  BY <1>1, <1>2, <1>5, <1>6 DEF ListedWindow, Bucket, DueBy
<1>10. QED
  BY <1>1, <1>2, <1>8, <1>9

\* The other steps of a worker, an operator or the clock move no window of a
\* plain source and insert nothing.
LEMMA OtherStepsAreQuiet ==
    ASSUME WindowInv, NEW s \in PlainSources, [Next]_vars,
           \A e \in Enqueuers : ~ListDue(e) /\ ~EnqueueDue(e),
           \A w \in Workers : /\ ~FetchOk(w) /\ ~FetchFails(w)
                              /\ ~FetchFailsLate(w) /\ ~LoadFails(w)
    PROVE  /\ source'[s].last = source[s].last
           /\ enq' = enq
           /\ s \notin DOMAIN manual'
           /\ \/ jobs' = jobs
              \/ \E w \in Workers : LoadOk(w)
<1>1. /\ QueueInv /\ TypeOK /\ s \in Sources /\ s \notin DOMAIN manual
      /\ s \notin ManualSources
  BY DEF WindowInv, OneOpenWindow, QueueInv, PlainSources
<1>2. CASE Tick \/ UNCHANGED vars
  BY <1>1, <1>2 DEF Tick, vars
<1>3. ASSUME NEW w \in Workers, LoadOk(w) \/ DbError(w) \/ Killed(w)
      PROVE  /\ UNCHANGED <<source, enq, manual>>
             /\ jobs' = jobs \/ LoadOk(w)
  BY <1>3 DEF LoadOk, DbError, Killed
<1>4. ASSUME NEW w \in Workers, Claim(w)
      PROVE  UNCHANGED <<source, enq, manual, jobs>>
  BY <1>1, <1>4, ClaimShape DEF Claim
<1>5. ASSUME NEW x \in Sources, ManualFetch(x) \/ ManualFetchEnds(x)
      PROVE  /\ source'[s].last = source[s].last
             /\ UNCHANGED <<enq, jobs>>
             /\ s \notin DOMAIN manual'
  <2>1. CASE ManualFetch(x)
    BY <1>1, <2>1 DEF ManualFetch, Put
  <2>2. CASE ManualFetchEnds(x)
    <3>1. x # s
      BY <1>1, <2>2 DEF ManualFetchEnds
    <3>2. QED
      BY <1>1, <2>2, <3>1 DEF ManualFetchEnds, LastFetched, Drop, TypeOK
  <2>3. QED
    BY <1>5, <2>1, <2>2
<1>6. ASSUME NEW x \in Sources,
             ApproveSource(x) \/ DemoteSource(x) \/ RetireSource(x)
      PROVE  /\ source'[s].last = source[s].last
             /\ UNCHANGED <<enq, jobs, manual>>
  BY <1>1, <1>6 DEF ApproveSource, DemoteSource, RetireSource, SetStatus,
                    TypeOK
<1>7. QED
  BY <1>1, <1>2, <1>3, <1>4, <1>5, <1>6 DEF Next, Finish

LEMMA NextKeepsWindow == WindowInv /\ [Next]_vars => WindowInv'
<1> SUFFICES ASSUME WindowInv, [Next]_vars PROVE WindowInv'
  OBVIOUS
<1>1. QueueInv /\ QueueInv'
  BY NextKeepsQueue DEF WindowInv
<1> SUFFICES ASSUME NEW s \in PlainSources
             PROVE  s \notin DOMAIN manual' /\ QueuedWindow(s)'
                    /\ ListedWindow(s)'
  BY <1>1 DEF WindowInv, OneOpenWindow, PlainSources
<1>2. CASE \E e \in Enqueuers : ListDue(e) \/ EnqueueDue(e)
  BY <1>2, ListDueKeepsWindow, EnqueueDueKeepsWindow
<1>3. CASE \E w \in Workers : \/ FetchOk(w) \/ FetchFails(w)
                              \/ FetchFailsLate(w) \/ LoadFails(w)
  BY <1>3, FetchOkKeepsWindow, FailureKeepsWindow
<1>4. CASE /\ ~\E e \in Enqueuers : ListDue(e) \/ EnqueueDue(e)
           /\ ~\E w \in Workers : \/ FetchOk(w) \/ FetchFails(w)
                                  \/ FetchFailsLate(w) \/ LoadFails(w)
  <2>1. /\ source'[s].last = source[s].last
        /\ enq' = enq
        /\ s \notin DOMAIN manual'
        /\ jobs' = jobs \/ \E w \in Workers : LoadOk(w)
    BY <1>4, OtherStepsAreQuiet
  <2>2. CASE jobs' = jobs
    BY <2>1, <2>2, QuietStepKeepsWindow
  <2>3. ASSUME NEW w \in Workers, LoadOk(w)
        PROVE  QueuedWindow(s)' /\ ListedWindow(s)'
    <3>1. /\ w \in DOMAIN tx
          /\ jobs' = Commit(w, Completed(tx[w].row, NoDoc))
      BY <2>3 DEF LoadOk, Runs
    <3>2. Completed(tx[w].row, NoDoc).status = "succeeded"
      BY <1>1, <3>1, CompletedOutcome
    <3>3. /\ DOMAIN jobs' = DOMAIN jobs
          /\ \A k \in DOMAIN jobs : \/ jobs'[k] = jobs[k]
                                    \/ jobs'[k].status = "succeeded"
      BY <3>1, <3>2 DEF Commit
    <3>4. QueuedWindow(s) /\ ListedWindow(s)
      BY DEF WindowInv, OneOpenWindow
    <3>5. QED
      BY <2>1, <3>3, <3>4 DEF QueuedWindow, ListedWindow, Bucket, DueBy
  <2>4. QED
    BY <2>1, <2>2, <2>3
<1>5. QED
  BY <1>2, <1>3, <1>4

LEMMA WindowInvariant == Spec => []WindowInv
<1>1. QED
  BY InitWindow, NextKeepsWindow, PTL DEF Spec

\* Plain sources are never fetched twice within one cadence, for any number
\* of enqueuers with stale lists, workers, crashes and retries.
THEOREM FetchesAreSpaced == Spec => FetchSpacing
<1> DEFINE Spaced ==
             \A s \in PlainSources :
                source'[s].last # source[s].last /\ source[s].last # Never =>
                    source'[s].last >= source[s].last + Cadence[s]
<1>1. ASSUME WindowInv, [Next]_vars
      PROVE  Spaced
  <2> SUFFICES ASSUME NEW s \in PlainSources,
                      source'[s].last # source[s].last,
                      source[s].last # Never
               PROVE  source'[s].last >= source[s].last + Cadence[s]
    OBVIOUS
  <2>1. QueueInv /\ TypeOK /\ QueuedWindow(s) /\ s \in Sources
    BY <1>1 DEF WindowInv, OneOpenWindow, QueueInv, PlainSources
  <2>2. \/ \E e \in Enqueuers : ListDue(e) \/ EnqueueDue(e)
        \/ \E w \in Workers : \/ FetchOk(w) \/ FetchFails(w)
                              \/ FetchFailsLate(w) \/ LoadFails(w)
    BY <1>1, OtherStepsAreQuiet
  <2>3. \A e \in Enqueuers : ~ListDue(e) /\ ~EnqueueDue(e)
    BY DEF ListDue, EnqueueDue
  <2>4. \A w \in Workers : ~FetchFails(w) /\ ~LoadFails(w)
    BY DEF FetchFails, LoadFails
  <2>5. \A w \in Workers : ~FetchFailsLate(w)
    BY <2>1 DEF FetchFailsLate, LastFetched, PlainSources, TypeOK
  <2>6. PICK w \in Workers : FetchOk(w)
    BY <2>2, <2>3, <2>4, <2>5
  <2>7. /\ w \in DOMAIN tx /\ tx[w].key.kind = "fetch_source"
        /\ source' = LastFetched(tx[w].key.subject, tx[w].row.lockedAt)
    BY <2>6 DEF FetchOk, Runs
  <2>8. tx[w].key.subject = s /\ source'[s].last = tx[w].row.lockedAt
    BY <2>1, <2>7 DEF LastFetched, TypeOK
  <2>9. /\ tx[w].key \in DOMAIN jobs /\ jobs[tx[w].key].status = "queued"
        /\ tx[w].row.runAfter = jobs[tx[w].key].runAfter
        /\ tx[w].row.runAfter <= tx[w].row.lockedAt
    BY <2>1, <2>7 DEF QueueInv, ClaimedRowsAreCurrent
  <2>10. tx[w].row.runAfter >= Bucket(s)
    BY <2>1, <2>7, <2>8, <2>9 DEF QueuedWindow, DueBy
  <2>11. /\ tx[w].row.runAfter \in Nat /\ tx[w].row.lockedAt \in Nat
         /\ Bucket(s) \in Nat
    BY <2>1, <2>7, TxType, BucketType DEF Rows
  <2>12. QED
    BY <2>8, <2>9, <2>10, <2>11 DEF Bucket
<1>2. QED
  BY <1>1, WindowInvariant, PTL DEF Spec, FetchSpacing

(***************************************************************************)
(* Refinement: JobQueue implements WorkQueue.                              *)
(***************************************************************************)
LEMMA InitRefines == Init => WQ!WQInit
BY DEF Init, EmptyTable, WQ!WQInit, Waiting, Owner, WithStatus

\* The abstract view of the table, in the terms of the concrete one.
LEMMA KnownIsTable ==
    ASSUME QueueInv
    PROVE  /\ WQ!Taken = {tx[w].key : w \in DOMAIN tx}
           /\ WQ!Known = DOMAIN jobs
<1>1. WQ!Taken = {tx[w].key : w \in DOMAIN tx}
  BY DEF WQ!Taken, Owner
<1>2. \A w \in DOMAIN tx : tx[w].key \in DOMAIN jobs
  BY DEF QueueInv, ClaimedRowsAreCurrent
<1>3. \A k \in DOMAIN jobs : jobs[k].status = "queued" =>
         k \in Waiting \/ k \in WQ!Taken
  BY <1>1 DEF Waiting, WithStatus, Locked
<1>4. QED
  BY <1>1, <1>2, <1>3
     DEF WQ!Known, Waiting, WithStatus, QueueInv, RunningNeverCommitted

LEMMA EnqueueDueRefines ==
    ASSUME QueueInv, QueueInv', NEW e \in Enqueuers, EnqueueDue(e)
    PROVE  WQ!Submit
<1>1. tx' = tx
  BY DEF EnqueueDue
<1>2. /\ DOMAIN jobs \subseteq DOMAIN jobs'
      /\ \A k \in DOMAIN jobs : jobs'[k] = jobs[k]
      /\ \A k \in DOMAIN jobs' \ DOMAIN jobs : jobs'[k].status = "queued"
  BY DEF EnqueueDue, InsertMissing, NewJob
<1>3. Waiting \subseteq Waiting'
  BY <1>1, <1>2 DEF Waiting, WithStatus, Locked
<1>4. Waiting' \ Waiting \subseteq DOMAIN jobs' \ DOMAIN jobs
  BY <1>1, <1>2 DEF Waiting, WithStatus, Locked
<1>5. DOMAIN jobs' \subseteq Keys
  BY DEF QueueInv, TypeOK
<1>6. WQ!AddsFreshKeys
  BY <1>3, <1>4, <1>5, KnownIsTable DEF WQ!AddsFreshKeys
<1>7. /\ Owner' = Owner
      /\ WithStatus("succeeded")' = WithStatus("succeeded")
      /\ WithStatus("dead")' = WithStatus("dead")
  BY <1>1, <1>2 DEF Owner, WithStatus
<1>8. QED
  BY <1>6, <1>7 DEF WQ!Submit

LEMMA ClaimRefines ==
    ASSUME QueueInv, NEW w \in Workers, Claim(w)
    PROVE  \E k \in Waiting : WQ!Take(w, k)
<1>1. jobs' = jobs /\ w \notin DOMAIN tx
  BY ClaimShape
<1>2. PICK k \in Claimable(jobs) :
         tx' = Put(tx, w, [key |-> k, row |-> Claimed(jobs[k], w)])
  BY ClaimShape
<1>3. k \in Waiting
  BY <1>2 DEF Claimable, Waiting, WithStatus
<1>4. /\ DOMAIN tx' = DOMAIN tx \cup {w}
      /\ tx'[w].key = k
      /\ \A v \in DOMAIN tx : tx'[v] = tx[v]
  BY <1>1, <1>2 DEF Put
<1>5. Waiting' = Waiting \ {k}
  BY <1>1, <1>4 DEF Waiting, WithStatus, Locked
<1>6. Owner' = [v \in DOMAIN Owner \cup {w} |-> IF v = w THEN k ELSE Owner[v]]
  BY <1>1, <1>4 DEF Owner
<1>7. /\ DOMAIN Owner = DOMAIN tx
      /\ WithStatus("succeeded")' = WithStatus("succeeded")
      /\ WithStatus("dead")' = WithStatus("dead")
  BY <1>1 DEF Owner, WithStatus
<1>8. WQ!Take(w, k)
  BY <1>1, <1>3, <1>5, <1>6, <1>7 DEF WQ!Take
<1>9. QED
  BY <1>3, <1>8

\* Ending a transaction frees its key and no other.
LEMMA DropReleases ==
    ASSUME QueueInv, NEW w \in DOMAIN tx, tx' = Drop(tx, w)
    PROVE  /\ WQ!Release(w)
           /\ w \in DOMAIN Owner /\ Owner[w] = tx[w].key
           /\ \A k : Locked(k)' <=> Locked(k) /\ k # tx[w].key
           /\ Locked(tx[w].key)
           /\ tx[w].key \in WithStatus("queued")
<1>1. /\ DOMAIN tx' = DOMAIN tx \ {w}
      /\ \A v \in DOMAIN tx' : tx'[v] = tx[v]
  BY DropTxType DEF QueueInv
<1>2. WQ!Release(w)
  BY <1>1 DEF WQ!Release, Owner
<1>3. \A v \in DOMAIN tx : tx[v].key = tx[w].key => v = w
  BY DEF QueueInv, OneWorkerPerJob
<1>4. \A k : Locked(k)' <=> Locked(k) /\ k # tx[w].key
  BY <1>1, <1>3 DEF Locked
<1>5. QED
  BY <1>2, <1>4 DEF Owner, Locked, WithStatus, QueueInv, ClaimedRowsAreCurrent

LEMMA RollbackRefines ==
    ASSUME QueueInv, NEW w \in Workers, DbError(w) \/ Killed(w)
    PROVE  WQ!GiveBack(w)
<1>1. w \in DOMAIN tx /\ tx' = Drop(tx, w) /\ jobs' = jobs
  BY DEF DbError, Killed
<1>2. /\ WQ!Release(w)
      /\ w \in DOMAIN Owner /\ Owner[w] = tx[w].key
      /\ \A k : Locked(k)' <=> Locked(k) /\ k # tx[w].key
      /\ tx[w].key \in WithStatus("queued")
  BY <1>1, DropReleases
<1>3. Waiting' = Waiting \cup {tx[w].key}
  BY <1>1, <1>2 DEF Waiting, WithStatus
<1>4. QED
  BY <1>1, <1>2, <1>3 DEF WQ!GiveBack, WithStatus

LEMMA FailureRefines ==
    ASSUME QueueInv, NEW w \in Workers,
           FetchFails(w) \/ FetchFailsLate(w) \/ LoadFails(w)
    PROVE  WQ!GiveBack(w) \/ WQ!GiveUp(w)
<1> DEFINE row == Failed(tx[w].row)
           key == tx[w].key
<1>1. w \in DOMAIN tx /\ tx' = Drop(tx, w) /\ jobs' = Commit(w, row)
  BY FailuresFail DEF FailureStep
<1>2. row \in Rows /\ row.status \in {"queued", "dead"}
  BY <1>1, FailedOutcome
<1> HIDE DEF row
<1>3. CommitShape(w, row, {})
  BY <1>1, <1>2, CommitIsShaped
<1>4. /\ WQ!Release(w)
      /\ w \in DOMAIN Owner /\ Owner[w] = key
      /\ \A k : Locked(k)' <=> Locked(k) /\ k # key
      /\ Locked(key)
      /\ key \in WithStatus("queued")
  BY <1>1, DropReleases
<1>5. /\ DOMAIN jobs' = DOMAIN jobs
      /\ \A k \in DOMAIN jobs : jobs'[k] = IF k = key THEN row ELSE jobs[k]
      /\ key \in DOMAIN jobs /\ jobs[key].status = "queued"
  BY <1>3, <1>4 DEF CommitShape, WithStatus
<1> HIDE DEF key
<1>6. WithStatus("succeeded")' = WithStatus("succeeded")
  BY <1>2, <1>5 DEF WithStatus
<1>7. CASE row.status = "queued"
  <2>1. Waiting' = Waiting \cup {key}
    BY <1>4, <1>5, <1>7 DEF Waiting, WithStatus
  <2>2. WithStatus("dead")' = WithStatus("dead")
    BY <1>5, <1>7 DEF WithStatus
  <2>3. QED
    BY <1>4, <1>6, <2>1, <2>2 DEF WQ!GiveBack
<1>8. CASE row.status = "dead"
  <2>1. Waiting' = Waiting
    BY <1>4, <1>5, <1>8 DEF Waiting, WithStatus
  <2>2. WithStatus("dead")' = WithStatus("dead") \cup {key}
    BY <1>5, <1>8 DEF WithStatus
  <2>3. QED
    BY <1>4, <1>6, <2>1, <2>2 DEF WQ!GiveUp
<1>9. QED
  BY <1>2, <1>7, <1>8

LEMMA SuccessRefines ==
    ASSUME QueueInv, NEW w \in DOMAIN tx, NEW row \in Rows,
           row.status = "succeeded", NEW new \in SUBSET Keys,
           CommitShape(w, row, new), tx' = Drop(tx, w)
    PROVE  WQ!Done(w)
<1> DEFINE key == tx[w].key
<1>1. /\ WQ!Release(w)
      /\ w \in DOMAIN Owner /\ Owner[w] = key
      /\ \A k : Locked(k)' <=> Locked(k) /\ k # key
      /\ Locked(key)
      /\ key \in WithStatus("queued")
  BY DropReleases
<1>2. /\ DOMAIN jobs' = DOMAIN jobs \cup new
      /\ \A k \in DOMAIN jobs : jobs'[k] = IF k = key THEN row ELSE jobs[k]
      /\ \A k \in new \ DOMAIN jobs : jobs'[k].status = "queued"
      /\ key \in DOMAIN jobs /\ jobs[key].status = "queued"
  BY <1>1 DEF CommitShape, WithStatus, NewJob
<1> HIDE DEF key
<1>3. WithStatus("succeeded")' = WithStatus("succeeded") \cup {key}
  BY <1>2 DEF WithStatus
<1>4. WithStatus("dead")' = WithStatus("dead")
  BY <1>2 DEF WithStatus
<1>5. Waiting \subseteq Waiting'
  BY <1>1, <1>2 DEF Waiting, WithStatus
<1>6. Waiting' \ Waiting \subseteq new \ DOMAIN jobs
  BY <1>1, <1>2 DEF Waiting, WithStatus
<1>7. WQ!AddsFreshKeys
  BY <1>5, <1>6, KnownIsTable DEF WQ!AddsFreshKeys
<1>8. QED
  BY <1>1, <1>3, <1>4, <1>7 DEF WQ!Done

LEMMA StepRefines ==
    ASSUME QueueInv, QueueInv', [Next]_vars
    PROVE  [WQ!WQNext]_(WQ!wqVars)
<1>1. CASE UNCHANGED <<jobs, tx>>
  BY <1>1 DEF WQ!wqVars, Waiting, Owner, WithStatus, Locked
<1>2. ASSUME NEW e \in Enqueuers, EnqueueDue(e)
      PROVE  WQ!WQNext
  BY <1>2, EnqueueDueRefines DEF WQ!WQNext
<1>3. ASSUME NEW w \in Workers, Claim(w)
      PROVE  WQ!WQNext
  BY <1>3, ClaimRefines DEF WQ!WQNext
<1>4. ASSUME NEW w \in Workers, DbError(w) \/ Killed(w)
      PROVE  WQ!WQNext
  BY <1>4, RollbackRefines DEF WQ!WQNext
<1>5. ASSUME NEW w \in Workers,
             FetchFails(w) \/ FetchFailsLate(w) \/ LoadFails(w)
      PROVE  WQ!WQNext
  BY <1>5, FailureRefines DEF WQ!WQNext
<1>6. ASSUME NEW w \in Workers, LoadOk(w)
      PROVE  WQ!WQNext
  <2> DEFINE row == Completed(tx[w].row, NoDoc)
  <2>1. w \in DOMAIN tx /\ tx' = Drop(tx, w) /\ jobs' = Commit(w, row)
    BY <1>6 DEF LoadOk, Runs
  <2>2. row \in Rows /\ row.status = "succeeded"
    BY <2>1, CompletedOutcome
  <2> HIDE DEF row
  <2>3. CommitShape(w, row, {})
    BY <2>1, <2>2, CommitIsShaped
  <2>4. WQ!Done(w)
    BY <2>1, <2>2, <2>3, SuccessRefines
  <2>5. QED
    BY <2>4 DEF WQ!WQNext
<1>7. ASSUME NEW w \in Workers, FetchOk(w)
      PROVE  WQ!WQNext
  <2>1. PICK d \in Docs :
           /\ w \in DOMAIN tx
           /\ LoadKeysFor(docs', d) \in SUBSET Keys
           /\ CommitShape(w, Completed(tx[w].row, d), LoadKeysFor(docs', d))
           /\ tx' = Drop(tx, w)
    BY <1>7, FetchOkShape
  <2>2. /\ Completed(tx[w].row, d) \in Rows
        /\ Completed(tx[w].row, d).status = "succeeded"
    BY <2>1, CompletedOutcome
  <2>3. WQ!Done(w)
    BY <2>1, <2>2, SuccessRefines
  <2>4. QED
    BY <2>3 DEF WQ!WQNext
<1>8. QED
  BY <1>1, <1>2, <1>3, <1>4, <1>5, <1>6, <1>7
     DEF Next, vars, Finish, Tick, ListDue, ManualFetch, ManualFetchEnds,
         ApproveSource, DemoteSource, RetireSource, SetStatus

\* The job table implements the abstract queue: a key is submitted once, is
\* in the hands of one worker at a time, and ends for good.
THEOREM QueueImplementsWorkQueue == Spec => ImplementsWorkQueue
<1>1. QueueInv /\ QueueInv' /\ [Next]_vars => [WQ!WQNext]_(WQ!wqVars)
  BY StepRefines
<1>2. QED
  BY <1>1, InitRefines, QueueInvariant, PTL
     DEF Spec, ImplementsWorkQueue, WQ!WQSpec
=============================================================================
