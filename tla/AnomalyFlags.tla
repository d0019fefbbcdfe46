---------------------------- MODULE AnomalyFlags ----------------------------
(***************************************************************************)
(* The flags of the anomaly rules (engine/src/naijaledger/anomaly): rule   *)
(* runs that insert and refresh open flags, and reviewers who dismiss or   *)
(* confirm them.  Each run and each review is one database transaction.    *)
(* flags holds the committed rows; run and desk are the open transactions, *)
(* with the rows they wrote, which stay locked until they end.             *)
(***************************************************************************)
EXTENDS Naturals, FiniteSets

CONSTANTS
    Keys,        \* (rule, subject_type, subject_id)
    Runners,     \* processes in run_anomaly_rules
    Reviewers,   \* callers of dismiss_flag and confirm_flag
    FlagIds,     \* ids of rows; as many flags as there are ids are made
    NoKey

ASSUME AnomalyFlagsAssumption == NoKey \notin Keys /\ IsFiniteSet(Runners)

VARIABLES
    flags,   \* flag id -> committed row
    run,     \* runner -> its transaction
    desk     \* reviewer -> its transaction

vars == <<flags, run, desk>>

Reviewed == {"dismissed", "confirmed"}

\* evidence is the run whose draft was written last.
Rows == [key : Keys, status : {"open"} \cup Reviewed, evidence : Runners]

Put(f, x, v) == [y \in DOMAIN f \cup {x} |-> IF y = x THEN v ELSE f[y]]
Drop(f, x) == [y \in DOMAIN f \ {x} |-> f[y]]

Written(r) == DOMAIN run[r].wrote

\* Who holds the lock of a row: it wrote it or selected it FOR UPDATE.
HeldByRun(r, f) == f \in Written(r) \cup run[r].held
HeldByOtherRun(r, f) == \E q \in DOMAIN run \ {r} : HeldByRun(q, f)
HeldByReviewer(f) == \E v \in DOMAIN desk : desk[v].updated /\ desk[v].flag = f

FlagsOf(k) == {f \in DOMAIN flags : flags[f].key = k}

\* Fault: the conflict target has no WHERE (status = 'open').
OpenRowsAnyStatus(k) == FlagsOf(k)

OpenRows(k) == {f \in FlagsOf(k) : flags[f].status = "open"}

\* Fault: a confirmed flag does not stick.
StickyRowsDismissed(k) == {f \in FlagsOf(k) : flags[f].status = "dismissed"}

StickyRows(k) == {f \in FlagsOf(k) : flags[f].status \in Reviewed}

\* Fault: no unique index on the open flags of a key.
InsertedUnseen(r, k) == FALSE

\* Rows of the key another run has inserted and not yet committed.
InsertedElsewhere(r, k) ==
    \E q \in DOMAIN run \ {r} :
        \E f \in Written(q) \ DOMAIN flags : run[q].wrote[f].key = k

OpenFlag(k, r) == [key |-> k, status |-> "open", evidence |-> r]

FreshIds == FlagIds \ (DOMAIN flags \cup UNION {Written(r) : r \in DOMAIN run})

Init ==
    /\ flags = [f \in {} |-> f]
    /\ run = [r \in {} |-> r]
    /\ desk = [v \in {} |-> v]

(***************************************************************************)
(* A run: the rules draft flags from one snapshot, then each draft is      *)
(* looked up among the reviewed rows and, when it is not there, upserted.  *)
(***************************************************************************)
StartRun(r, drafts) ==
    /\ r \notin DOMAIN run
    /\ run' = Put(run, r, [todo |-> drafts, checked |-> NoKey,
                           held |-> {}, wrote |-> [f \in {} |-> f]])
    /\ UNCHANGED <<flags, desk>>

\* SELECT the reviewed rows of the key FOR UPDATE; one of them ends the draft.
LookUpSticky(r) ==
    /\ r \in DOMAIN run
    /\ run[r].checked = NoKey
    /\ \E k \in run[r].todo :
          \/ /\ StickyRows(k) = {}
             /\ run' = [run EXCEPT ![r].checked = k]
          \/ \E f \in StickyRows(k) :
                /\ ~HeldByOtherRun(r, f)
                /\ run' = [run EXCEPT ![r].todo = @ \ {k}, ![r].held = @ \cup {f}]
    /\ UNCHANGED <<flags, desk>>

\* INSERT ... ON CONFLICT (...) WHERE status = 'open' DO UPDATE: it waits for
\* whoever holds the open row or is inserting one.
UpsertOpenFlag(r) ==
    /\ r \in DOMAIN run
    /\ run[r].checked # NoKey
    /\ LET k == run[r].checked
       IN  \E f \in IF OpenRows(k) = {} THEN FreshIds ELSE OpenRows(k) :
             /\ ~HeldByOtherRun(r, f) /\ ~HeldByReviewer(f)
             /\ ~InsertedElsewhere(r, k)
             /\ run' = [run EXCEPT ![r].todo = @ \ {k}, ![r].checked = NoKey,
                                   ![r].wrote = Put(@, f, OpenFlag(k, r))]
    /\ UNCHANGED <<flags, desk>>

CommitRun(r) ==
    /\ r \in DOMAIN run
    /\ run[r].todo = {}
    /\ flags' = [f \in DOMAIN flags \cup Written(r) |->
                    IF f \in Written(r) THEN run[r].wrote[f] ELSE flags[f]]
    /\ run' = Drop(run, r)
    /\ UNCHANGED desk

\* The process dies, a statement fails or Postgres breaks a deadlock.
AbortRun(r) ==
    /\ r \in DOMAIN run
    /\ run' = Drop(run, r)
    /\ UNCHANGED <<flags, desk>>

(***************************************************************************)
(* A review: read the flag, then UPDATE ... WHERE status = 'open'.         *)
(***************************************************************************)
ReadFlag(v) ==
    /\ v \notin DOMAIN desk
    /\ \E f \in DOMAIN flags, status \in Reviewed :
          /\ flags[f].status = "open"
          /\ desk' = Put(desk, v, [flag |-> f, status |-> status,
                                   updated |-> FALSE])
    /\ UNCHANGED <<flags, run>>

HeldByOtherReviewer(v, f) ==
    \E u \in DOMAIN desk \ {v} : desk[u].updated /\ desk[u].flag = f

SetReviewedStatus(v) ==
    /\ v \in DOMAIN desk
    /\ ~desk[v].updated
    /\ \A r \in DOMAIN run : ~HeldByRun(r, desk[v].flag)
    /\ ~HeldByOtherReviewer(v, desk[v].flag)
    /\ desk' = IF flags[desk[v].flag].status = "open"
               THEN [desk EXCEPT ![v].updated = TRUE]
               ELSE Drop(desk, v)
    /\ UNCHANGED <<flags, run>>

CommitReview(v) ==
    /\ v \in DOMAIN desk
    /\ desk[v].updated
    /\ flags' = [flags EXCEPT ![desk[v].flag].status = desk[v].status]
    /\ desk' = Drop(desk, v)
    /\ UNCHANGED run

AbortReview(v) ==
    /\ v \in DOMAIN desk
    /\ desk' = Drop(desk, v)
    /\ UNCHANGED <<flags, run>>

Next ==
    \/ \E r \in Runners :
          \/ \E drafts \in SUBSET Keys : StartRun(r, drafts)
          \/ LookUpSticky(r) \/ UpsertOpenFlag(r) \/ CommitRun(r) \/ AbortRun(r)
    \/ \E v \in Reviewers :
          \/ ReadFlag(v) \/ SetReviewedStatus(v)
          \/ CommitReview(v) \/ AbortReview(v)

Spec == Init /\ [][Next]_vars
-----------------------------------------------------------------------------
TypeOK ==
    /\ DOMAIN flags \subseteq FlagIds /\ flags \in [DOMAIN flags -> Rows]
    /\ DOMAIN run \subseteq Runners
    /\ \A r \in DOMAIN run :
          /\ run[r].todo \subseteq Keys
          /\ run[r].checked \in run[r].todo \cup {NoKey}
          /\ run[r].held \subseteq DOMAIN flags
          /\ Written(r) \subseteq FlagIds
          /\ run[r].wrote \in [Written(r) -> Rows]
    /\ DOMAIN desk \subseteq Reviewers
    /\ desk \in [DOMAIN desk -> [flag : DOMAIN flags, status : Reviewed,
                                 updated : BOOLEAN]]

\* However runs and reviews interleave, a key has at most one open flag: the
\* upsert waits for the row it would collide with.
OneOpenPerKey ==
    \A k \in Keys : Cardinality(OpenRows(k)) <= 1

\* A review is the last word on its row: a run that waited for the reviewer
\* does not write the dismissed or confirmed row it was about to refresh.
ReviewedIsFinal ==
    [][\A f \in DOMAIN flags : flags[f].status \in Reviewed =>
          f \in DOMAIN flags' /\ flags'[f] = flags[f]]_vars

\* Spec 0017, sticky dismissal: "if a row exists with status = 'dismissed',
\* re-runs do not insert a new open flag".  As far as it goes: only runs that
\* looked the key up before its first review open it again, each of them once.
StickyAfterLookUp ==
    \A k \in Keys : Cardinality(FlagsOf(k)) <= 1 + Cardinality(Runners)
=============================================================================
