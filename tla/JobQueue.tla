------------------------------ MODULE JobQueue ------------------------------
(***************************************************************************)
(* The scheduler: the Postgres table "jobs" and the processes that share   *)
(* it (engine/src/naijaledger/jobs).  A cron job runs "naijaledger-jobs    *)
(* enqueue", any number of workers run "naijaledger-jobs work", operators  *)
(* change the status of sources and sometimes fetch a source by hand.      *)
(*                                                                         *)
(* Every command runs inside ONE database transaction (jobs/cli.py,        *)
(* fetch/cli.py).  The variables source, docs and jobs are the committed   *)
(* rows; tx, enq and manual are the open transactions, whose writes nobody *)
(* else sees.  A worker's transaction holds the lock of the job row it     *)
(* claimed until it commits or is rolled back.                             *)
(***************************************************************************)
EXTENDS Naturals, Sequences, FiniteSets

CONSTANTS
    Sources,         \* rows of the table sources
    Docs,            \* distinct byte strings a portal can serve (by sha256)
    Workers,         \* processes running "naijaledger-jobs work"
    Enqueuers,       \* processes running "naijaledger-jobs enqueue"
    Cadence,         \* expected_cadence of each source
    Content,         \* what each source's URL may answer
    AdaptedSources,  \* sources for which adapter_for_source finds an adapter
    CatalogSources,  \* sources whose page is followed to child artifacts
    ManualSources,   \* sources also fetched by "make fetch-sources"
    ManagedSources,  \* sources whose status an operator changes
    PoisonDocs,      \* documents whose load always raises a database error
    MaxAttempts,     \* settings.job_max_attempts
    Backoff,         \* BACKOFF_SECONDS
    LockTimeout,     \* DEFAULT_LOCK_TIMEOUT_SECONDS
    OutageEnd,       \* from this time on every portal answers
    MaxTime,         \* bound: the clock stops there ("any later time")
    MaxKills,        \* bound on the number of killed workers
    MaxDbErrors,     \* bound on the number of transient database errors
    NoWorker, NoDoc  \* SQL NULL in locked_by and in result

ASSUME JobQueueAssumption ==
    /\ Cadence \in [Sources -> Nat \ {0}]
    /\ Content \in [Sources -> SUBSET Docs]
    /\ AdaptedSources \subseteq Sources
    /\ CatalogSources \subseteq Sources
    /\ ManualSources \subseteq Sources
    /\ ManagedSources \subseteq Sources
    /\ PoisonDocs \subseteq Docs
    /\ MaxAttempts \in Nat \ {0}
    /\ Backoff \in Seq(Nat) /\ Len(Backoff) > 0
    /\ LockTimeout \in Nat
    /\ OutageEnd \in Nat
    /\ MaxTime \in Nat \ {0}
    /\ MaxKills \in Nat /\ MaxDbErrors \in Nat
    /\ NoWorker \notin Workers
    /\ NoDoc \notin Docs

VARIABLES
    now,      \* the clock all processes read
    source,   \* source -> [status, last]; last = Never is last_fetched_at NULL
    docs,     \* captured document -> the source that captured it first
    jobs,     \* idempotency key -> committed row of jobs
    tx,       \* worker -> its open transaction: the claimed key and its row
    enq,      \* enqueuer -> its open transaction: when, and the due keys
    manual,   \* source -> requested_at of the manual fetch under way
    kills, dbErrors

vars == <<now, source, docs, jobs, tx, enq, manual, kills, dbErrors>>

Never == 0
SourceStatus == {"proposed", "approved", "retired"}
JobStatus == {"queued", "running", "succeeded", "failed", "dead"}

FetchKeys == [kind : {"fetch_source"}, subject : Sources, bucket : Nat]
LoadKeys == [kind : {"normalize_load"}, subject : Docs, bucket : {0}]
Keys == FetchKeys \cup LoadKeys

Rows == [status : JobStatus, runAfter : Nat, created : Nat, attempts : Nat,
         lockedAt : Nat, lockedBy : Workers \cup {NoWorker},
         result : Docs \cup {NoDoc}]

Put(f, x, v) == [y \in DOMAIN f \cup {x} |-> IF y = x THEN v ELSE f[y]]
Drop(f, x) == [y \in DOMAIN f \ {x} |-> f[y]]
Least(a, b) == IF a < b THEN a ELSE b

EmptyTable == [x \in {} |-> x]

Terminal(row) == row.status \in {"succeeded", "dead"}
-----------------------------------------------------------------------------
(***************************************************************************)
(* Rows of jobs, and what each statement of jobs/service.py does to one.   *)
(***************************************************************************)

\* Fault: no due window in the key.
FetchKeyPerSource(s, bucket) ==
    [kind |-> "fetch_source", subject |-> s, bucket |-> 0]

FetchKey(s, bucket) ==
    [kind |-> "fetch_source", subject |-> s, bucket |-> bucket]

LoadKey(d) == [kind |-> "normalize_load", subject |-> d, bucket |-> 0]

\* Fault: the window is counted from the time of the enqueue.
BucketFromNow(s) == now + Cadence[s]

\* Idempotency window: coalesce(last_fetched_at, epoch) + cadence.
Bucket(s) == source[s].last + Cadence[s]

Due(s) ==
    /\ source[s].status = "approved"
    /\ source[s].last = Never \/ now >= source[s].last + Cadence[s]

NewJob(when, created) ==
    [status |-> "queued", runAfter |-> when, created |-> created,
     attempts |-> 0, lockedAt |-> Never, lockedBy |-> NoWorker,
     result |-> NoDoc]

\* Fault: ON CONFLICT DO UPDATE, back to a fresh row.
InsertAnyway(table, keys, when, created) ==
    [k \in DOMAIN table \cup keys |->
        IF k \in keys THEN NewJob(when, created) ELSE table[k]]

\* INSERT ... ON CONFLICT (idempotency_key) DO NOTHING.
InsertMissing(table, keys, when, created) ==
    [k \in DOMAIN table \cup keys |->
        IF k \in DOMAIN table THEN table[k] ELSE NewJob(when, created)]

\* A row left 'running' with a lock older than the timeout is queued again.
Stale(row) ==
    /\ row.status = "running"
    /\ row.lockedAt # Never
    /\ row.lockedAt + LockTimeout < now

Reclaimed(table) ==
    [k \in DOMAIN table |->
        IF Stale(table[k])
        THEN [table[k] EXCEPT !.status = "queued", !.lockedAt = Never,
                              !.lockedBy = NoWorker]
        ELSE table[k]]

Claimed(row, w) ==
    [row EXCEPT !.status = "running", !.lockedAt = now, !.lockedBy = w]

Completed(row, d) ==
    [row EXCEPT !.status = "succeeded", !.result = d,
                !.lockedAt = Never, !.lockedBy = NoWorker]

BackoffFor(attempts) == Backoff[Least(attempts, Len(Backoff))]

\* Faults: one attempt too many; no count kept.
FailedOnceMore(row) ==
    [row EXCEPT !.status = IF row.attempts >= MaxAttempts THEN "dead"
                           ELSE "queued",
                !.attempts = row.attempts + 1,
                !.lockedAt = Never, !.lockedBy = NoWorker]

FailedUncounted(row) ==
    [row EXCEPT !.status = "queued", !.lockedAt = Never, !.lockedBy = NoWorker]

\* One more attempt; the last one makes the job dead, the others delay it.
Failed(row) ==
    LET attempts == row.attempts + 1
        exhausted == attempts >= MaxAttempts
    IN  [row EXCEPT
            !.status = IF exhausted THEN "dead" ELSE "queued",
            !.attempts = attempts,
            !.runAfter = IF exhausted THEN now
                         ELSE Least(now + BackoffFor(attempts), MaxTime),
            !.lockedAt = Never, !.lockedBy = NoWorker]

\* Fault: rows other transactions hold are not skipped.
LockedUnseen(k) == FALSE

Locked(k) == \E w \in DOMAIN tx : tx[w].key = k

\* FOR UPDATE SKIP LOCKED passes over the rows other transactions hold.
Claimable(table) ==
    {k \in DOMAIN table : /\ table[k].status = "queued"
                          /\ table[k].runAfter <= now
                          /\ ~Locked(k)}

\* ORDER BY run_after ASC, created_at ASC LIMIT 1.
NextJobs(table) ==
    {k \in Claimable(table) :
        \A other \in Claimable(table) :
            \/ table[k].runAfter < table[other].runAfter
            \/ /\ table[k].runAfter = table[other].runAfter
               /\ table[k].created <= table[other].created}

\* The adapter is looked up with the source that captured the document FIRST.
LoadKeysFor(captured, d) ==
    IF captured[d] \in AdaptedSources THEN {LoadKey(d)} ELSE {}

\* INSERT INTO documents ... ON CONFLICT (sha256) DO NOTHING.
Captured(d, s) == IF d \in DOMAIN docs THEN docs ELSE Put(docs, d, s)

\* Fault: only a document captured for the first time is handed on.
HandOnNew(table, d, s, sent) ==
    IF d \in DOMAIN docs THEN table
    ELSE InsertMissing(table, LoadKeysFor(Captured(d, s), d), now, sent)

\* A successful fetch enqueues the load of its document, once.
HandOn(table, d, s, sent) ==
    InsertMissing(table, LoadKeysFor(Captured(d, s), d), now, sent)

LastFetched(s, t) == [source EXCEPT ![s].last = t]
-----------------------------------------------------------------------------
Init ==
    /\ now = 1
    /\ source \in [Sources -> [status : {"proposed", "approved"},
                               last : {Never}]]
    /\ \A s \in Sources \ ManagedSources : source[s].status = "approved"
    /\ docs = EmptyTable
    /\ jobs = EmptyTable
    /\ tx = EmptyTable
    /\ enq = EmptyTable
    /\ manual = EmptyTable
    /\ kills = 0 /\ dbErrors = 0

Tick ==
    /\ now < MaxTime
    /\ now' = now + 1
    /\ UNCHANGED <<source, docs, jobs, tx, enq, manual, kills, dbErrors>>

(***************************************************************************)
(* "enqueue": one SELECT of the due sources, then one INSERT for each.     *)
(* What other transactions commit in between is not in the list read.      *)
(* (A SELECT that finds nothing due changes nothing and is left out.)      *)
(***************************************************************************)
ListDue(e) ==
    LET due == {s \in Sources : Due(s)}
    IN  /\ e \notin DOMAIN enq
        /\ due # {}
        /\ enq' = Put(enq, e, [when |-> now,
                               keys |-> {FetchKey(s, Bucket(s)) : s \in due}])
        /\ UNCHANGED <<now, source, docs, jobs, tx, manual, kills, dbErrors>>

EnqueueDue(e) ==
    /\ e \in DOMAIN enq
    /\ jobs' = InsertMissing(jobs, enq[e].keys, enq[e].when, enq[e].when)
    /\ enq' = Drop(enq, e)
    /\ UNCHANGED <<now, source, docs, tx, manual, kills, dbErrors>>

(***************************************************************************)
(* "work": claim_next_job reclaims stale rows, then claims one row.  The   *)
(* reclaim is written at once: by RunningNeverCommitted it finds no row.   *)
(***************************************************************************)
Claim(w) ==
    /\ w \notin DOMAIN tx
    /\ \E k \in NextJobs(Reclaimed(jobs)) :
          tx' = Put(tx, w, [key |-> k, row |-> Claimed(Reclaimed(jobs)[k], w)])
    /\ jobs' = Reclaimed(jobs)
    /\ UNCHANGED <<now, source, docs, enq, manual, kills, dbErrors>>

Runs(w, kind) == w \in DOMAIN tx /\ tx[w].key.kind = kind

\* The worker's transaction commits with this version of the claimed row.
Commit(w, row) == [jobs EXCEPT ![tx[w].key] = row]

\* The portal answered: the capture, the load job and the result commit
\* together.  last_fetched_at becomes the time the request was sent.
FetchOk(w) ==
    /\ Runs(w, "fetch_source")
    /\ LET s == tx[w].key.subject
           sent == tx[w].row.lockedAt
       IN  \E d \in Content[s] :
             /\ docs' = Captured(d, s)
             /\ source' = LastFetched(s, sent)
             /\ jobs' = HandOn(Commit(w, Completed(tx[w].row, d)), d, s, sent)
    /\ tx' = Drop(tx, w)
    /\ UNCHANGED <<now, enq, manual, kills, dbErrors>>

\* No answer, an HTTP error, or an exception before anything was captured.
FetchFails(w) ==
    /\ Runs(w, "fetch_source")
    /\ now < OutageEnd
    /\ jobs' = Commit(w, Failed(tx[w].row))
    /\ tx' = Drop(tx, w)
    /\ UNCHANGED <<now, source, docs, enq, manual, kills, dbErrors>>

\* The catalog page was captured and an exception left the loop over its
\* children: the handler fails the job and commits the capture with it.
FetchFailsLate(w) ==
    /\ Runs(w, "fetch_source")
    /\ now < OutageEnd
    /\ LET s == tx[w].key.subject
       IN  /\ s \in CatalogSources
           /\ \E d \in Content[s] : docs' = Captured(d, s)
           /\ source' = LastFetched(s, tx[w].row.lockedAt)
    /\ jobs' = Commit(w, Failed(tx[w].row))
    /\ tx' = Drop(tx, w)
    /\ UNCHANGED <<now, enq, manual, kills, dbErrors>>

LoadOk(w) ==
    /\ Runs(w, "normalize_load")
    /\ tx[w].key.subject \notin PoisonDocs
    /\ jobs' = Commit(w, Completed(tx[w].row, NoDoc))
    /\ tx' = Drop(tx, w)
    /\ UNCHANGED <<now, source, docs, enq, manual, kills, dbErrors>>

\* A Python exception in the adapter, the normaliser or the loader.
LoadFails(w) ==
    /\ Runs(w, "normalize_load")
    /\ tx[w].key.subject \notin PoisonDocs
    /\ jobs' = Commit(w, Failed(tx[w].row))
    /\ tx' = Drop(tx, w)
    /\ UNCHANGED <<now, source, docs, enq, manual, kills, dbErrors>>

(***************************************************************************)
(* A statement of the job fails.  Postgres refuses every later statement   *)
(* of the transaction, so fail_job raises too and all of it is rolled      *)
(* back, the claim included.                                               *)
(***************************************************************************)
DbError(w) ==
    /\ w \in DOMAIN tx
    /\ \/ /\ tx[w].key.kind = "normalize_load"
          /\ tx[w].key.subject \in PoisonDocs
          /\ UNCHANGED dbErrors
       \/ /\ dbErrors < MaxDbErrors
          /\ dbErrors' = dbErrors + 1
    /\ tx' = Drop(tx, w)
    /\ UNCHANGED <<now, source, docs, jobs, enq, manual, kills>>

\* The worker process dies: its connection closes and Postgres rolls back.
Killed(w) ==
    /\ w \in DOMAIN tx
    /\ kills < MaxKills
    /\ kills' = kills + 1
    /\ tx' = Drop(tx, w)
    /\ UNCHANGED <<now, source, docs, jobs, enq, manual, dbErrors>>

(***************************************************************************)
(* "make fetch-sources": the same capture, with no job.                    *)
(***************************************************************************)
ManualFetch(s) ==
    /\ s \in ManualSources
    /\ s \notin DOMAIN manual
    /\ source[s].status = "approved"
    /\ manual' = Put(manual, s, now)
    /\ UNCHANGED <<now, source, docs, jobs, tx, enq, kills, dbErrors>>

ManualFetchEnds(s) ==
    /\ s \in DOMAIN manual
    /\ \/ /\ \E d \in Content[s] : docs' = Captured(d, s)
          /\ source' = LastFetched(s, manual[s])
       \/ UNCHANGED <<docs, source>>
    /\ manual' = Drop(manual, s)
    /\ UNCHANGED <<now, jobs, tx, enq, kills, dbErrors>>

(***************************************************************************)
(* Operators approve, demote and retire sources.                           *)
(***************************************************************************)
SetStatus(s, from, to) ==
    /\ s \in ManagedSources
    /\ source[s].status \in from
    /\ source' = [source EXCEPT ![s].status = to]
    /\ UNCHANGED <<now, docs, jobs, tx, enq, manual, kills, dbErrors>>

ApproveSource(s) == SetStatus(s, {"proposed"}, "approved")
DemoteSource(s) == SetStatus(s, {"approved"}, "proposed")
RetireSource(s) == SetStatus(s, {"proposed", "approved"}, "retired")
-----------------------------------------------------------------------------
Finish(w) ==
    FetchOk(w) \/ FetchFails(w) \/ FetchFailsLate(w)
        \/ LoadOk(w) \/ LoadFails(w) \/ DbError(w)

Next ==
    \/ Tick
    \/ \E e \in Enqueuers : ListDue(e) \/ EnqueueDue(e)
    \/ \E w \in Workers : Claim(w) \/ Finish(w) \/ Killed(w)
    \/ \E s \in Sources :
          \/ ManualFetch(s) \/ ManualFetchEnds(s)
          \/ ApproveSource(s) \/ DemoteSource(s) \/ RetireSource(s)

Spec == Init /\ [][Next]_vars

\* cron starts the commands again and again, and every command ends.
Fairness ==
    /\ WF_vars(Tick)
    /\ \A e \in Enqueuers : WF_vars(ListDue(e)) /\ WF_vars(EnqueueDue(e))
    /\ \A w \in Workers : WF_vars(Claim(w)) /\ WF_vars(Finish(w))

FairSpec == Spec /\ Fairness
-----------------------------------------------------------------------------
TypeOK ==
    /\ now \in Nat
    /\ source \in [Sources -> [status : SourceStatus, last : Nat]]
    /\ DOMAIN docs \subseteq Docs /\ docs \in [DOMAIN docs -> Sources]
    /\ DOMAIN jobs \subseteq Keys /\ jobs \in [DOMAIN jobs -> Rows]
    /\ DOMAIN tx \subseteq Workers
    /\ tx \in [DOMAIN tx -> [key : Keys, row : Rows]]
    /\ DOMAIN enq \subseteq Enqueuers
    /\ enq \in [DOMAIN enq -> [when : Nat, keys : SUBSET FetchKeys]]
    /\ DOMAIN manual \subseteq Sources /\ manual \in [DOMAIN manual -> Nat]
    /\ kills \in Nat /\ dbErrors \in Nat

(***************************************************************************)
(* Safety.                                                                 *)
(***************************************************************************)

\* The row lock taken by FOR UPDATE SKIP LOCKED keeps two workers from
\* running the same job, whatever crashes and retries came before.
OneWorkerPerJob ==
    \A v, w \in DOMAIN tx : tx[v].key = tx[w].key => v = w

\* No committed row is ever 'running' (nor 'failed'): a claim commits with
\* its outcome or not at all, so a killed worker leaves nothing to reclaim.
RunningNeverCommitted ==
    \A k \in DOMAIN jobs : jobs[k].status \in {"queued", "succeeded", "dead"}

\* A job is dead exactly when its attempts are used up; rollbacks in between
\* neither add an attempt nor lose one that was committed.
DeadAfterMaxAttempts ==
    \A k \in DOMAIN jobs :
        /\ jobs[k].attempts <= MaxAttempts
        /\ jobs[k].status = "dead" <=> jobs[k].attempts = MaxAttempts
        /\ \A w \in DOMAIN tx :
              tx[w].key = k => tx[w].row.attempts = jobs[k].attempts

\* What is loaded is what an adapter reads: a load job is of a captured document
\* whose first source has an adapter, and when a fetch job has succeeded with such
\* a document its load is in the queue, whichever source was fetched.  Spec 0033,
\* section 3, has the source that was fetched decide instead: fetched with success,
\* an adapted source whose bytes another one captured first gets no load.
LoadsFollowTheFirstSource ==
    \A k \in DOMAIN jobs :
        IF k.kind = "normalize_load"
        THEN k.subject \in DOMAIN docs /\ docs[k.subject] \in AdaptedSources
        ELSE jobs[k].status = "succeeded" =>
               /\ jobs[k].result \in DOMAIN docs
               /\ docs[jobs[k].result] \in AdaptedSources =>
                     LoadKey(jobs[k].result) \in DOMAIN jobs

\* A job that ended is never touched again and its key is never reused.
EndedJobsStay ==
    [][\A k \in DOMAIN jobs : Terminal(jobs[k]) =>
          k \in DOMAIN jobs' /\ jobs'[k] = jobs[k]]_vars

\* Sources that are neither catalogs nor fetched by hand are never fetched
\* twice within one cadence, however stale the list an enqueuer works from.
PlainSources == Sources \ (CatalogSources \cup ManualSources)

FetchSpacing ==
    [][\A s \in PlainSources :
          source'[s].last # source[s].last /\ source[s].last # Never =>
              source'[s].last >= source[s].last + Cadence[s]]_vars

(***************************************************************************)
(* Liveness, under FairSpec.                                               *)
(***************************************************************************)

\* Every job ends: it succeeds or, after its attempts, is dead.
Ended(k) == k \in DOMAIN jobs /\ Terminal(jobs[k])
LoadJobsEnd ==
    \A d \in Docs : LoadKey(d) \in DOMAIN jobs ~> Ended(LoadKey(d))

\* A source that is due is fetched (or no longer approved).
DueSourceIsFetched == \A s \in Sources : Due(s) ~> ~Due(s)

(***************************************************************************)
(* The inductive invariant.                                                *)
(***************************************************************************)

\* What a worker writes at its commit is the committed row it claimed, with
\* the claim's own fields: nobody changed the row under the lock.
ClaimedRowsAreCurrent ==
    \A w \in DOMAIN tx :
        LET k == tx[w].key
            row == tx[w].row
        IN  /\ k \in DOMAIN jobs
            /\ jobs[k].status = "queued"
            /\ row.status = "running" /\ row.lockedBy = w
            /\ row.runAfter = jobs[k].runAfter
            /\ row.attempts = jobs[k].attempts
            /\ row.runAfter <= row.lockedAt
            /\ row.lockedAt <= now

QueueInv ==
    /\ TypeOK
    /\ now <= MaxTime
    /\ ClaimedRowsAreCurrent
    /\ OneWorkerPerJob
    /\ RunningNeverCommitted
    /\ DeadAfterMaxAttempts
    /\ LoadsFollowTheFirstSource

\* t is late enough for the source to be due again.
DueBy(s, t) == source[s].last = Never \/ t >= Bucket(s)

\* Every unfinished fetch job of s is for its current window.
QueuedWindow(s) ==
    \A k \in DOMAIN jobs :
        k.kind = "fetch_source" /\ k.subject = s /\ jobs[k].status = "queued"
            => k.bucket = Bucket(s) /\ DueBy(s, jobs[k].runAfter)

\* What an enqueuer still holds for s is a window the table already knows,
\* or the current one.
ListedWindow(s) ==
    \A e \in DOMAIN enq : \A k \in enq[e].keys :
        k.subject = s => \/ k \in DOMAIN jobs
                         \/ k.bucket = Bucket(s) /\ DueBy(s, enq[e].when)

\* Why the key makes stale lists harmless for plain sources.
OneOpenWindow ==
    \A s \in PlainSources :
        s \notin DOMAIN manual /\ QueuedWindow(s) /\ ListedWindow(s)

(***************************************************************************)
(* The table implements the abstract queue.                                *)
(***************************************************************************)
WithStatus(st) == {k \in DOMAIN jobs : jobs[k].status = st}
Waiting == {k \in WithStatus("queued") : ~Locked(k)}
Owner == [w \in DOMAIN tx |-> tx[w].key]

WQ == INSTANCE WorkQueue WITH
    Key <- Keys,
    Worker <- Workers,
    waiting <- Waiting,
    owner <- Owner,
    finished <- WithStatus("succeeded"),
    exhausted <- WithStatus("dead")

\* Submitted once, owned by one worker at a time, ended for good.
ImplementsWorkQueue == WQ!WQSpec
=============================================================================
