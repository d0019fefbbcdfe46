-------------------------- MODULE AnomalyRunProofs --------------------------
(***************************************************************************)
(* Theorems about AnomalyFlags for any keys, flags and any number of runs  *)
(* and reviewers; and about AnomalyRun: a run of the anomaly rules, SELECT *)
(* by SELECT and beside loads, does to the flags what AnomalyFlags lets a  *)
(* run do, so that all that is proved of flags for any drafts holds of the *)
(* drafts of the rules; and the rules draft what spec 0018 words, so that  *)
(* a run flags what the ledgers it saw warrant.                            *)
(***************************************************************************)
EXTENDS AnomalyRun, FiniteSetTheorems, SequenceTheorems, WellFoundedInduction, TLAPS

RunRows == [todo : SUBSET Keys, checked : Keys \cup {NoKey},
            held : SUBSET FlagIds, wrote : UNION {[S -> Rows] : S \in SUBSET FlagIds}]

\* OneOpenPerKey without cardinalities.
OpenFlagsDiffer ==
    \A f, g \in DOMAIN flags :
        /\ flags[f].status = "open" /\ flags[g].status = "open"
        /\ flags[f].key = flags[g].key
        => f = g

(***************************************************************************)
(* What the locks are for: a row that a run wrote stays open until the run *)
(* ends, it is the only one written for its key by any run, and one that   *)
(* is new has no open row beside it.                                       *)
(***************************************************************************)
WrittenStayOpen ==
    \A r \in DOMAIN run : \A f \in Written(r) :
        /\ run[r].wrote[f].status = "open"
        /\ run[r].wrote[f].key \notin run[r].todo
        /\ f \in DOMAIN flags => /\ flags[f].status = "open"
                                 /\ flags[f].key = run[r].wrote[f].key

OneWriterPerKey ==
    \A r, q \in DOMAIN run : \A f \in Written(r), g \in Written(q) :
        f = g \/ run[r].wrote[f].key = run[q].wrote[g].key => r = q /\ f = g

InsertedAlone ==
    \A r \in DOMAIN run : \A f \in Written(r) \ DOMAIN flags :
        OpenRows(run[r].wrote[f].key) = {}

\* A flag whose review is about to commit is open, and nobody else's.
ReviewedAreOpen ==
    \A v \in DOMAIN desk : desk[v].updated =>
        /\ flags[desk[v].flag].status = "open"
        /\ \A r \in DOMAIN run : desk[v].flag \notin Written(r)
        /\ \A u \in DOMAIN desk :
              desk[u].updated /\ desk[u].flag = desk[v].flag => u = v

FlagInv ==
    /\ TypeOK /\ run \in [DOMAIN run -> RunRows]
    /\ OpenFlagsDiffer
    /\ WrittenStayOpen /\ OneWriterPerKey /\ InsertedAlone
    /\ ReviewedAreOpen

LEMMA InitInv == Init => FlagInv
BY DEF Init, FlagInv, TypeOK, OpenFlagsDiffer, WrittenStayOpen, OneWriterPerKey,
       InsertedAlone, ReviewedAreOpen, Written

(***************************************************************************)
(* Steps of runs.                                                          *)
(***************************************************************************)
LEMMA StartRunInv ==
    ASSUME FlagInv, NEW r \in Runners, NEW drafts \in SUBSET Keys, StartRun(r, drafts)
    PROVE  FlagInv'
<1>1. run' = Put(run, r, [todo |-> drafts, checked |-> NoKey,
                          held |-> {}, wrote |-> [f \in {} |-> f]])
  BY DEF StartRun
<1> DEFINE row == [todo |-> drafts, checked |-> NoKey,
                   held |-> {}, wrote |-> [f \in {} |-> f]]
<1>2. row \in RunRows /\ DOMAIN row.wrote = {}
  <2>1. row.wrote \in [{} -> Rows]
    OBVIOUS
  <2>2. QED
    BY <2>1 DEF RunRows
<1>3. /\ r \notin DOMAIN run
      /\ DOMAIN run' = DOMAIN run \cup {r}
      /\ run'[r] = row
      /\ \A q \in DOMAIN run : run'[q] = run[q]
      /\ run' \in [DOMAIN run' -> RunRows]
      /\ UNCHANGED <<flags, desk>>
  BY <1>1, <1>2 DEF StartRun, Put, FlagInv
<1> HIDE DEF row
<1>4. TypeOK'
  <2>1. row.todo \subseteq Keys /\ row.checked = NoKey /\ row.held = {} /\ row.wrote \in [{} -> Rows]
    BY DEF row
  <2>2. QED
    BY <1>3, <2>1, <1>2 DEF FlagInv, TypeOK, Written
<1>5. Written(r)' = {} /\ \A q \in DOMAIN run : Written(q)' = Written(q)
  BY <1>2, <1>3 DEF Written
<1>6. WrittenStayOpen' /\ OneWriterPerKey' /\ InsertedAlone'
  BY <1>3, <1>5 DEF FlagInv, WrittenStayOpen, OneWriterPerKey, InsertedAlone,
                    OpenRows, FlagsOf
<1>7. OpenFlagsDiffer' /\ ReviewedAreOpen'
  BY <1>3, <1>5 DEF FlagInv, OpenFlagsDiffer, ReviewedAreOpen
<1>8. QED
  BY <1>3, <1>4, <1>6, <1>7 DEF FlagInv

LEMMA LookUpStickyInv ==
    ASSUME FlagInv, NEW r \in Runners, LookUpSticky(r)
    PROVE  FlagInv'
<1>1. /\ r \in DOMAIN run /\ run[r] \in RunRows
      /\ UNCHANGED <<flags, desk>>
  BY DEF LookUpSticky, FlagInv
<1>2. PICK k \in run[r].todo :
          \/ run' = [run EXCEPT ![r].checked = k]
          \/ \E f \in StickyRows(k) :
                run' = [run EXCEPT ![r].todo = @ \ {k}, ![r].held = @ \cup {f}]
  BY DEF LookUpSticky
<1>3. /\ DOMAIN run' = DOMAIN run
      /\ \A q \in DOMAIN run : q # r => run'[q] = run[q]
      /\ run'[r] \in RunRows
      /\ run'[r].wrote = run[r].wrote
      /\ run'[r].todo \subseteq run[r].todo
      /\ run'[r].checked \in run'[r].todo \cup {NoKey}
      /\ run'[r].held \subseteq DOMAIN flags
  <2>1. run[r].checked = NoKey /\ run[r].held \subseteq DOMAIN flags /\ DOMAIN flags \subseteq FlagIds
        /\ run[r].todo \subseteq Keys
    BY <1>1 DEF LookUpSticky, FlagInv, TypeOK
  <2>2. CASE run' = [run EXCEPT ![r].checked = k]
    BY <1>1, <2>1, <2>2 DEF RunRows
  <2>3. CASE \E f \in StickyRows(k) :
                run' = [run EXCEPT ![r].todo = @ \ {k}, ![r].held = @ \cup {f}]
    <3>1. StickyRows(k) \subseteq DOMAIN flags
      BY DEF StickyRows, FlagsOf
    <3>2. QED
      BY <1>1, <2>1, <2>3, <3>1 DEF RunRows
  <2>4. QED
    BY <1>2, <2>2, <2>3
<1>4. run' \in [DOMAIN run' -> RunRows]
  <2>1. run' = [q \in DOMAIN run |-> run'[q]]
    BY <1>2
  <2>2. \A q \in DOMAIN run : run'[q] \in RunRows
    BY <1>3 DEF FlagInv
  <2>3. QED
    BY <1>3, <2>1, <2>2
<1>5. \A q \in DOMAIN run : /\ run'[q].wrote = run[q].wrote
                            /\ run'[q].todo \subseteq run[q].todo
                            /\ Written(q)' = Written(q)
  BY <1>3 DEF Written
<1>6. TypeOK'
  <2>1. \A q \in DOMAIN run' :
          /\ run'[q].todo \subseteq Keys
          /\ run'[q].checked \in run'[q].todo \cup {NoKey}
          /\ run'[q].held \subseteq DOMAIN flags'
          /\ Written(q)' \subseteq FlagIds
          /\ run'[q].wrote \in [Written(q)' -> Rows]
    BY <1>1, <1>3, <1>5 DEF FlagInv, TypeOK
  <2>2. QED
    BY <1>1, <1>3, <2>1 DEF FlagInv, TypeOK
<1>7. WrittenStayOpen' /\ OneWriterPerKey' /\ InsertedAlone'
  BY <1>1, <1>3, <1>5 DEF FlagInv, WrittenStayOpen, OneWriterPerKey, InsertedAlone,
                    OpenRows, FlagsOf
<1>8. OpenFlagsDiffer' /\ ReviewedAreOpen'
  BY <1>1, <1>3, <1>5 DEF FlagInv, OpenFlagsDiffer, ReviewedAreOpen
<1>9. QED
  BY <1>4, <1>6, <1>7, <1>8 DEF FlagInv

LEMMA UpsertOpenFlagInv ==
    ASSUME FlagInv, NEW r \in Runners, UpsertOpenFlag(r)
    PROVE  FlagInv'
<1> DEFINE k == run[r].checked
<1>1. /\ r \in DOMAIN run /\ run[r] \in RunRows
      /\ k \in run[r].todo /\ k \in Keys
      /\ UNCHANGED <<flags, desk>>
  BY DEF UpsertOpenFlag, FlagInv, TypeOK
<1>2. PICK f \in IF OpenRows(k) = {} THEN FreshIds ELSE OpenRows(k) :
          /\ ~HeldByOtherRun(r, f) /\ ~HeldByReviewer(f)
          /\ ~InsertedElsewhere(r, k)
          /\ run' = [run EXCEPT ![r].todo = @ \ {k}, ![r].checked = NoKey,
                                ![r].wrote = Put(@, f, OpenFlag(k, r))]
  BY DEF UpsertOpenFlag
<1>3. /\ f \in FlagIds
      /\ f \in DOMAIN flags => f \in OpenRows(k)
      /\ f \notin DOMAIN flags => OpenRows(k) = {}
  BY <1>2 DEF FreshIds, OpenRows, FlagsOf, FlagInv, TypeOK
<1>4. OpenFlag(k, r) \in Rows /\ OpenFlag(k, r).key = k /\ OpenFlag(k, r).status = "open"
  BY <1>1 DEF OpenFlag, Rows
<1>5. /\ DOMAIN run' = DOMAIN run
      /\ \A q \in DOMAIN run : q # r => run'[q] = run[q]
      /\ run'[r].todo = run[r].todo \ {k} /\ run'[r].checked = NoKey
      /\ run'[r].held = run[r].held
      /\ run'[r].wrote = Put(run[r].wrote, f, OpenFlag(k, r))
      /\ DOMAIN run'[r] = {"todo", "checked", "held", "wrote"}
  BY <1>1, <1>2 DEF RunRows
<1>6. /\ Written(r)' = Written(r) \cup {f}
      /\ \A q \in DOMAIN run : q # r => Written(q)' = Written(q)
      /\ \A g \in Written(r) : g # f => run'[r].wrote[g] = run[r].wrote[g]
      /\ run'[r].wrote[f] = OpenFlag(k, r)
      /\ run'[r].wrote \in [Written(r)' -> Rows]
      /\ Written(r)' \subseteq FlagIds
  BY <1>1, <1>3, <1>4, <1>5 DEF Written, Put, FlagInv, TypeOK
<1>7. run' \in [DOMAIN run' -> RunRows]
  <2>1. run'[r] \in RunRows
    <3>1. run'[r].wrote \in UNION {[S -> Rows] : S \in SUBSET FlagIds}
      BY <1>6
    <3>2. run'[r] = [todo |-> run[r].todo \ {k}, checked |-> NoKey, held |-> run[r].held,
                     wrote |-> Put(run[r].wrote, f, OpenFlag(k, r))]
      BY <1>1, <1>2 DEF RunRows
    <3>3. QED
      BY <1>1, <1>5, <3>1, <3>2 DEF RunRows
  <2>2. run' = [q \in DOMAIN run |-> run'[q]]
    BY <1>2
  <2>3. QED
    BY <1>5, <2>1, <2>2 DEF FlagInv
<1>8. TypeOK'
  <2>1. \A q \in DOMAIN run' :
          /\ run'[q].todo \subseteq Keys
          /\ run'[q].checked \in run'[q].todo \cup {NoKey}
          /\ run'[q].held \subseteq DOMAIN flags'
          /\ Written(q)' \subseteq FlagIds
          /\ run'[q].wrote \in [Written(q)' -> Rows]
    BY <1>1, <1>5, <1>6 DEF FlagInv, TypeOK
  <2>2. QED
    BY <1>1, <1>5, <2>1 DEF FlagInv, TypeOK
<1> HIDE DEF k
\* No run has written a row of the key before, this one included.
<1>9. \A q \in DOMAIN run : \A g \in Written(q) : run[q].wrote[g].key # k
  <2> SUFFICES ASSUME NEW q \in DOMAIN run, NEW g \in Written(q),
                      run[q].wrote[g].key = k
               PROVE  FALSE
    OBVIOUS
  <2>1. q # r
    BY <1>1 DEF FlagInv, WrittenStayOpen
  <2>2. g \in DOMAIN flags
    BY <1>2, <2>1 DEF InsertedElsewhere
  <2>3. g \in OpenRows(k)
    BY <2>2 DEF FlagInv, WrittenStayOpen, OpenRows, FlagsOf
  <2>4. f \in OpenRows(k)
    BY <1>2, <2>3
  <2>5. f = g
    BY <2>3, <2>4 DEF FlagInv, OpenFlagsDiffer, OpenRows, FlagsOf
  <2>6. QED
    BY <1>2, <2>1, <2>5 DEF HeldByOtherRun, HeldByRun
<1>10. \A q \in DOMAIN run : q # r => f \notin Written(q)
  BY <1>2 DEF HeldByOtherRun, HeldByRun
<1>11. WrittenStayOpen'
  BY <1>1, <1>3, <1>4, <1>5, <1>6 DEF FlagInv, WrittenStayOpen, OpenRows, FlagsOf
<1>12. OneWriterPerKey'
  BY <1>1, <1>4, <1>5, <1>6, <1>9, <1>10 DEF FlagInv, OneWriterPerKey
<1>13. InsertedAlone'
  BY <1>1, <1>3, <1>4, <1>5, <1>6 DEF FlagInv, InsertedAlone, OpenRows, FlagsOf
<1>14. ReviewedAreOpen'
  BY <1>1, <1>2, <1>5, <1>6 DEF FlagInv, ReviewedAreOpen, HeldByReviewer
<1>15. OpenFlagsDiffer'
  BY <1>1 DEF FlagInv, OpenFlagsDiffer
<1>16. QED
  BY <1>7, <1>8, <1>11, <1>12, <1>13, <1>14, <1>15 DEF FlagInv

LEMMA CommitRunInv ==
    ASSUME FlagInv, NEW r \in Runners, CommitRun(r)
    PROVE  FlagInv' /\ \A f \in DOMAIN flags : flags[f].status \in Reviewed =>
                          f \in DOMAIN flags' /\ flags'[f] = flags[f]
<1>1. /\ r \in DOMAIN run /\ UNCHANGED desk
      /\ DOMAIN flags' = DOMAIN flags \cup Written(r)
      /\ \A f \in Written(r) : flags'[f] = run[r].wrote[f]
      /\ \A f \in DOMAIN flags \ Written(r) : flags'[f] = flags[f]
      /\ flags' = [f \in DOMAIN flags' |-> flags'[f]]
  BY DEF CommitRun
<1>2. /\ DOMAIN run' = DOMAIN run \ {r}
      /\ \A q \in DOMAIN run' : run'[q] = run[q] /\ Written(q)' = Written(q)
      /\ run' \in [DOMAIN run' -> RunRows]
  BY DEF CommitRun, Drop, Written, FlagInv
<1>3. \A q \in DOMAIN run' : \A f \in Written(q) : f \notin Written(r)
  BY <1>1, <1>2 DEF FlagInv, OneWriterPerKey
<1>4. \A f \in Written(r) : run[r].wrote[f] \in Rows /\ f \in FlagIds
  BY <1>1 DEF FlagInv, TypeOK
<1>5. TypeOK'
  <2>1. DOMAIN flags' \subseteq FlagIds /\ flags' \in [DOMAIN flags' -> Rows]
    BY <1>1, <1>4 DEF FlagInv, TypeOK
  <2>2. \A q \in DOMAIN run' :
          /\ run'[q].todo \subseteq Keys
          /\ run'[q].checked \in run'[q].todo \cup {NoKey}
          /\ run'[q].held \subseteq DOMAIN flags'
          /\ Written(q)' \subseteq FlagIds
          /\ run'[q].wrote \in [Written(q)' -> Rows]
    BY <1>1, <1>2 DEF FlagInv, TypeOK
  <2>3. desk' \in [DOMAIN desk' -> [flag : DOMAIN flags', status : Reviewed,
                                    updated : BOOLEAN]]
    BY <1>1 DEF FlagInv, TypeOK
  <2>4. QED
    BY <1>1, <1>2, <2>1, <2>2, <2>3 DEF FlagInv, TypeOK
<1>6. OpenFlagsDiffer'
  <2> SUFFICES ASSUME NEW f \in DOMAIN flags', NEW g \in DOMAIN flags',
                      flags'[f].status = "open", flags'[g].status = "open",
                      flags'[f].key = flags'[g].key
               PROVE  f = g
    BY DEF OpenFlagsDiffer
  <2>1. CASE f \in Written(r) /\ g \in Written(r)
    BY <1>1, <2>1 DEF FlagInv, OneWriterPerKey
  <2>2. CASE f \in Written(r) /\ g \notin Written(r)
    BY <1>1, <2>2 DEF FlagInv, OpenFlagsDiffer, WrittenStayOpen, InsertedAlone,
                      OpenRows, FlagsOf
  <2>3. CASE f \notin Written(r) /\ g \in Written(r)
    BY <1>1, <2>3 DEF FlagInv, OpenFlagsDiffer, WrittenStayOpen, InsertedAlone,
                      OpenRows, FlagsOf
  <2>4. CASE f \notin Written(r) /\ g \notin Written(r)
    BY <1>1, <2>4 DEF FlagInv, OpenFlagsDiffer
  <2>5. QED
    BY <2>1, <2>2, <2>3, <2>4
<1>7. WrittenStayOpen'
  BY <1>1, <1>2, <1>3 DEF FlagInv, WrittenStayOpen
<1>8. OneWriterPerKey'
  BY <1>2 DEF FlagInv, OneWriterPerKey
<1>9. InsertedAlone'
  <2> SUFFICES ASSUME NEW q \in DOMAIN run', NEW f \in Written(q) \ DOMAIN flags',
                      NEW g \in DOMAIN flags', flags'[g].status = "open",
                      flags'[g].key = run[q].wrote[f].key
               PROVE  FALSE
    BY <1>2 DEF InsertedAlone, OpenRows, FlagsOf
  <2>1. g \notin Written(r)
    BY <1>1, <1>2 DEF FlagInv, OneWriterPerKey
  <2>2. g \in OpenRows(run[q].wrote[f].key)
    BY <1>1, <2>1 DEF OpenRows, FlagsOf
  <2>3. QED
    BY <1>1, <1>2, <2>2 DEF FlagInv, InsertedAlone
<1>10. ReviewedAreOpen'
  <2>1. \A v \in DOMAIN desk : desk[v].flag \in DOMAIN flags
    BY DEF FlagInv, TypeOK
  <2>2. QED
    BY <1>1, <1>2, <2>1 DEF FlagInv, ReviewedAreOpen
<1>11. \A f \in DOMAIN flags : flags[f].status \in Reviewed =>
          f \in DOMAIN flags' /\ flags'[f] = flags[f]
  BY <1>1 DEF FlagInv, WrittenStayOpen, Reviewed
<1>12. QED
  BY <1>2, <1>5, <1>6, <1>7, <1>8, <1>9, <1>10, <1>11 DEF FlagInv

LEMMA AbortRunInv ==
    ASSUME FlagInv, NEW r \in Runners, AbortRun(r)
    PROVE  FlagInv'
<1>1. /\ DOMAIN run' = DOMAIN run \ {r} /\ UNCHANGED <<flags, desk>>
      /\ \A q \in DOMAIN run' : run'[q] = run[q] /\ Written(q)' = Written(q)
      /\ run' \in [DOMAIN run' -> RunRows]
  BY DEF AbortRun, Drop, Written, FlagInv
<1>2. TypeOK'
  BY <1>1 DEF FlagInv, TypeOK
<1>3. WrittenStayOpen' /\ OneWriterPerKey' /\ InsertedAlone'
  BY <1>1 DEF FlagInv, WrittenStayOpen, OneWriterPerKey, InsertedAlone, OpenRows,
              FlagsOf
<1>4. OpenFlagsDiffer' /\ ReviewedAreOpen'
  BY <1>1 DEF FlagInv, OpenFlagsDiffer, ReviewedAreOpen
<1>5. QED
  BY <1>1, <1>2, <1>3, <1>4 DEF FlagInv

(***************************************************************************)
(* Steps of reviewers.                                                     *)
(***************************************************************************)
Desks(table) == [flag : DOMAIN table, status : Reviewed, updated : BOOLEAN]

\* What only changes desks leaves the rest of the invariant alone.
LEMMA DeskInv ==
    ASSUME FlagInv, UNCHANGED <<flags, run>>, DOMAIN desk' \subseteq Reviewers,
           desk' \in [DOMAIN desk' -> Desks(flags)], ReviewedAreOpen'
    PROVE  FlagInv'
<1>1. /\ TypeOK' /\ run' \in [DOMAIN run' -> RunRows]
      /\ \A r \in DOMAIN run : Written(r)' = Written(r)
  BY DEF Desks, FlagInv, TypeOK, Written
<1>2. OpenFlagsDiffer' /\ WrittenStayOpen' /\ OneWriterPerKey' /\ InsertedAlone'
  BY <1>1 DEF FlagInv, OpenFlagsDiffer, WrittenStayOpen, OneWriterPerKey,
              InsertedAlone, OpenRows, FlagsOf
<1>3. QED
  BY <1>1, <1>2 DEF FlagInv

LEMMA ReadFlagInv ==
    ASSUME FlagInv, NEW v \in Reviewers, ReadFlag(v)
    PROVE  FlagInv'
<1>1. PICK f \in DOMAIN flags, status \in Reviewed :
          desk' = Put(desk, v, [flag |-> f, status |-> status, updated |-> FALSE])
  BY DEF ReadFlag
<1>2. [flag |-> f, status |-> status, updated |-> FALSE] \in Desks(flags)
  BY DEF Desks
<1>3. /\ DOMAIN desk' = DOMAIN desk \cup {v} /\ DOMAIN desk' \subseteq Reviewers
      /\ desk' \in [DOMAIN desk' -> Desks(flags)]
      /\ desk'[v].updated = FALSE
      /\ \A u \in DOMAIN desk : u # v => desk'[u] = desk[u]
  BY <1>1, <1>2 DEF Put, FlagInv, TypeOK, Desks
<1>4. /\ UNCHANGED <<flags, run>>
      /\ \A r \in DOMAIN run : Written(r)' = Written(r)
  BY DEF ReadFlag, Written
<1>5. ReviewedAreOpen'
  BY <1>3, <1>4 DEF FlagInv, ReviewedAreOpen
<1>6. QED
  BY <1>3, <1>4, <1>5, DeskInv

LEMMA DropDeskInv ==
    ASSUME FlagInv, NEW v \in Reviewers, desk' = Drop(desk, v), UNCHANGED <<flags, run>>
    PROVE  FlagInv'
<1>1. /\ DOMAIN desk' = DOMAIN desk \ {v} /\ DOMAIN desk' \subseteq Reviewers
      /\ desk' \in [DOMAIN desk' -> Desks(flags)]
      /\ \A u \in DOMAIN desk' : desk'[u] = desk[u]
      /\ \A r \in DOMAIN run : Written(r)' = Written(r)
  BY DEF Drop, FlagInv, TypeOK, Desks, Written
<1>2. ReviewedAreOpen'
  BY <1>1 DEF FlagInv, ReviewedAreOpen
<1>3. QED
  BY <1>1, <1>2, DeskInv

LEMMA SetReviewedStatusInv ==
    ASSUME FlagInv, NEW v \in Reviewers, SetReviewedStatus(v)
    PROVE  FlagInv'
<1>1. /\ v \in DOMAIN desk /\ UNCHANGED <<flags, run>>
      /\ \A r \in DOMAIN run : Written(r)' = Written(r)
      /\ \A r \in DOMAIN run : desk[v].flag \notin Written(r)
      /\ \A u \in DOMAIN desk \ {v} : ~(desk[u].updated /\ desk[u].flag = desk[v].flag)
  BY DEF SetReviewedStatus, Written, HeldByRun, HeldByOtherReviewer
<1>2. CASE flags[desk[v].flag].status = "open"
  <2>1. desk' = [desk EXCEPT ![v].updated = TRUE]
    BY <1>2 DEF SetReviewedStatus
  <2>2. /\ DOMAIN desk' = DOMAIN desk /\ DOMAIN desk' \subseteq Reviewers
        /\ desk' \in [DOMAIN desk' -> Desks(flags)]
        /\ desk'[v].flag = desk[v].flag
        /\ \A u \in DOMAIN desk : u # v => desk'[u] = desk[u]
    BY <1>1, <2>1 DEF FlagInv, TypeOK, Desks
  <2>3. ReviewedAreOpen'
    BY <1>1, <1>2, <2>2 DEF FlagInv, ReviewedAreOpen
  <2>4. QED
    BY <1>1, <2>2, <2>3, DeskInv
<1>3. CASE flags[desk[v].flag].status # "open"
  BY <1>1, <1>3, DropDeskInv DEF SetReviewedStatus
<1>4. QED
  BY <1>2, <1>3

LEMMA CommitReviewInv ==
    ASSUME FlagInv, NEW v \in Reviewers, CommitReview(v)
    PROVE  FlagInv' /\ \A f \in DOMAIN flags : flags[f].status \in Reviewed =>
                          f \in DOMAIN flags' /\ flags'[f] = flags[f]
<1> DEFINE f == desk[v].flag
<1>1. /\ v \in DOMAIN desk /\ desk[v].updated /\ UNCHANGED run
      /\ f \in DOMAIN flags /\ flags[f] \in Rows /\ desk[v].status \in Reviewed
      /\ flags' = [flags EXCEPT ![f].status = desk[v].status]
  BY DEF CommitReview, FlagInv, TypeOK
<1>2. /\ flags[f].status = "open"
      /\ \A r \in DOMAIN run : f \notin Written(r)
      /\ \A u \in DOMAIN desk : desk[u].updated /\ desk[u].flag = f => u = v
  BY <1>1 DEF FlagInv, ReviewedAreOpen
<1> HIDE DEF f
<1>3. /\ DOMAIN flags' = DOMAIN flags
      /\ flags' \in [DOMAIN flags' -> Rows]
      /\ flags'[f].key = flags[f].key /\ flags'[f].status \in Reviewed
      /\ \A g \in DOMAIN flags : g # f => flags'[g] = flags[g]
  BY <1>1 DEF FlagInv, TypeOK, Rows
<1>4. /\ DOMAIN desk' = DOMAIN desk \ {v}
      /\ desk' \in [DOMAIN desk' -> Desks(flags)]
      /\ \A u \in DOMAIN desk' : desk'[u] = desk[u]
      /\ \A r \in DOMAIN run : Written(r)' = Written(r)
  BY <1>1 DEF CommitReview, Drop, Written, FlagInv, TypeOK, Desks
<1>5. TypeOK' /\ run' \in [DOMAIN run' -> RunRows]
  BY <1>1, <1>3, <1>4 DEF FlagInv, TypeOK, Desks
<1>6. \A g \in DOMAIN flags' : flags'[g].status = "open" => g # f
  BY <1>3 DEF Reviewed
<1>7. OpenFlagsDiffer'
  BY <1>3, <1>6 DEF FlagInv, OpenFlagsDiffer
<1>8. WrittenStayOpen' /\ OneWriterPerKey'
  BY <1>1, <1>2, <1>3, <1>4 DEF FlagInv, WrittenStayOpen, OneWriterPerKey
<1>9. InsertedAlone'
  BY <1>1, <1>3, <1>4, <1>6 DEF FlagInv, InsertedAlone, OpenRows, FlagsOf
<1>10. ReviewedAreOpen'
  <2>1. \A u \in DOMAIN desk : desk[u].flag \in DOMAIN flags
    BY DEF FlagInv, TypeOK
  <2>2. QED
    BY <1>1, <1>2, <1>3, <1>4, <2>1 DEF FlagInv, ReviewedAreOpen
<1>11. \A g \in DOMAIN flags : flags[g].status \in Reviewed =>
          g \in DOMAIN flags' /\ flags'[g] = flags[g]
  BY <1>2, <1>3 DEF Reviewed
<1>12. QED
  BY <1>5, <1>7, <1>8, <1>9, <1>10, <1>11 DEF FlagInv

LEMMA StutterInv == FlagInv /\ UNCHANGED vars => FlagInv'
<1> SUFFICES ASSUME FlagInv, UNCHANGED vars PROVE FlagInv'
  OBVIOUS
<1>1. /\ UNCHANGED <<flags, run>> /\ DOMAIN desk' \subseteq Reviewers
      /\ desk' \in [DOMAIN desk' -> Desks(flags)]
      /\ \A r \in DOMAIN run : Written(r)' = Written(r)
  BY DEF vars, FlagInv, TypeOK, Desks, Written
<1>2. ReviewedAreOpen'
  BY <1>1 DEF vars, FlagInv, ReviewedAreOpen
<1>3. QED
  BY <1>1, <1>2, DeskInv

(***************************************************************************)
(* The theorems.                                                           *)
(***************************************************************************)
LEMMA StepInv == FlagInv /\ [Next]_vars => FlagInv'
<1> SUFFICES ASSUME FlagInv, [Next]_vars PROVE FlagInv'
  OBVIOUS
<1>1. ASSUME NEW r \in Runners,
             \/ \E drafts \in SUBSET Keys : StartRun(r, drafts)
             \/ LookUpSticky(r) \/ UpsertOpenFlag(r)
             \/ CommitRun(r) \/ AbortRun(r)
      PROVE  FlagInv'
  BY <1>1, StartRunInv, LookUpStickyInv, UpsertOpenFlagInv, CommitRunInv, AbortRunInv
<1>2. ASSUME NEW v \in Reviewers,
             ReadFlag(v) \/ SetReviewedStatus(v) \/ CommitReview(v) \/ AbortReview(v)
      PROVE  FlagInv'
  BY <1>2, ReadFlagInv, SetReviewedStatusInv, CommitReviewInv, DropDeskInv DEF AbortReview
<1>3. CASE UNCHANGED vars
  BY <1>3, StutterInv
<1>4. QED
  BY <1>1, <1>2, <1>3 DEF Next

LEMMA ReviewedStays ==
    FlagInv /\ [Next]_vars =>
        \A f \in DOMAIN flags : flags[f].status \in Reviewed =>
            f \in DOMAIN flags' /\ flags'[f] = flags[f]
<1> SUFFICES ASSUME FlagInv, [Next]_vars, UNCHANGED flags \/ flags' # flags
             PROVE  \A f \in DOMAIN flags : flags[f].status \in Reviewed =>
                        f \in DOMAIN flags' /\ flags'[f] = flags[f]
  OBVIOUS
<1>1. CASE UNCHANGED flags
  BY <1>1
<1>2. ASSUME NEW r \in Runners, CommitRun(r)
      PROVE  \A f \in DOMAIN flags : flags[f].status \in Reviewed =>
                 f \in DOMAIN flags' /\ flags'[f] = flags[f]
  BY <1>2, CommitRunInv
<1>3. ASSUME NEW v \in Reviewers, CommitReview(v)
      PROVE  \A f \in DOMAIN flags : flags[f].status \in Reviewed =>
                 f \in DOMAIN flags' /\ flags'[f] = flags[f]
  BY <1>3, CommitReviewInv
<1>4. \/ UNCHANGED flags
      \/ \E r \in Runners : CommitRun(r)
      \/ \E v \in Reviewers : CommitReview(v)
  BY DEF Next, vars, StartRun, LookUpSticky, UpsertOpenFlag, AbortRun, ReadFlag,
         SetReviewedStatus, AbortReview
<1>5. QED
  BY <1>1, <1>2, <1>3, <1>4

\* The locks do their work in every state: see WrittenStayOpen and the parts
\* after it.
THEOREM Invariant == Spec => []FlagInv
BY InitInv, StepInv, PTL DEF Spec

\* The type invariant of the flags and of the open transactions.
THEOREM TypeCorrect == Spec => []TypeOK
<1>1. FlagInv => TypeOK
  BY DEF FlagInv
<1>2. QED
  BY <1>1, Invariant, PTL

\* Whatever number of runs and reviewers work at once, no two flags of a key
\* (rule, subject) are open.
THEOREM FlagsAreUnique == Spec => []OneOpenPerKey
<1>1. ASSUME OpenFlagsDiffer, NEW k \in Keys PROVE Cardinality(OpenRows(k)) <= 1
  <2>1. CASE OpenRows(k) = {}
    BY <2>1, FS_EmptySet
  <2>2. CASE OpenRows(k) # {}
    <3>1. PICK f : f \in OpenRows(k)
      BY <2>2
    <3>2. OpenRows(k) = {f}
      BY <1>1, <3>1 DEF OpenFlagsDiffer, OpenRows, FlagsOf
    <3>3. QED
      BY <3>2, FS_Singleton
  <2>3. QED
    BY <2>1, <2>2
<1>2. FlagInv => OneOpenPerKey
  BY <1>1 DEF FlagInv, OneOpenPerKey
<1>3. QED
  BY <1>2, Invariant, PTL

\* Nobody writes a flag again that a reviewer dismissed or confirmed, a run
\* that waited for the reviewer's lock included.
THEOREM ReviewsAreFinal == Spec => ReviewedIsFinal
<1>1. FlagInv /\ [Next]_vars =>
          [\A f \in DOMAIN flags : flags[f].status \in Reviewed =>
              f \in DOMAIN flags' /\ flags'[f] = flags[f]]_vars
  BY ReviewedStays
<1>2. QED
  BY <1>1, Invariant, PTL DEF Spec, ReviewedIsFinal

(***************************************************************************)
(* How many rows a key may have.  A run that found no reviewed row of the  *)
(* key and has not upserted yet may add one, however many reviews commit   *)
(* meanwhile; as long as no row is reviewed there is one row at most.      *)
(***************************************************************************)
RowsOf(k) ==
    FlagsOf(k) \cup {f \in FlagIds : \E r \in DOMAIN run :
                                        f \in Written(r) /\ run[r].wrote[f].key = k}

Due(k) == {r \in DOMAIN run : run[r].checked = k}

Counted(k) ==
    /\ IsFiniteSet(RowsOf(k))
    /\ Cardinality(RowsOf(k)) + Cardinality(Due(k)) <= 1 + Cardinality(Runners)

RowsAreCounted == \A k \in Keys : Counted(k)

LEMMA DueAreRunners ==
    ASSUME TypeOK, NEW k
    PROVE  /\ IsFiniteSet(Due(k)) /\ Cardinality(Due(k)) \in Nat
           /\ Cardinality(Due(k)) <= Cardinality(Runners)
           /\ Cardinality(Runners) \in Nat
<1>1. Due(k) \subseteq Runners
  BY DEF Due, TypeOK
<1> QED
  BY <1>1, AnomalyFlagsAssumption, FS_Subset, FS_CardinalityType

LEMMA UnreviewedHasOneRow ==
    ASSUME FlagInv, NEW k \in Keys, StickyRows(k) = {}
    PROVE  Counted(k)
<1>1. ASSUME NEW f \in RowsOf(k), NEW g \in RowsOf(k)
      PROVE  f = g
  <2>1. \A e \in FlagsOf(k) : e \in OpenRows(k)
    BY DEF StickyRows, OpenRows, FlagsOf, Reviewed, FlagInv, TypeOK, Rows
  <2>2. ASSUME NEW e \in RowsOf(k) \ FlagsOf(k)
        PROVE  \E r \in DOMAIN run : /\ e \in Written(r) /\ run[r].wrote[e].key = k
                                     /\ OpenRows(k) = {}
    BY <2>2 DEF RowsOf, FlagsOf, FlagInv, WrittenStayOpen, InsertedAlone
  <2>3. CASE f \in FlagsOf(k) /\ g \in FlagsOf(k)
    BY <2>1, <2>3 DEF FlagInv, OpenFlagsDiffer, OpenRows, FlagsOf
  <2>4. CASE f \notin FlagsOf(k) /\ g \notin FlagsOf(k)
    BY <2>2, <2>4 DEF FlagInv, OneWriterPerKey
  <2> QED
    BY <2>1, <2>2, <2>3, <2>4
<1>2. IsFiniteSet(RowsOf(k)) /\ Cardinality(RowsOf(k)) \in {0, 1}
  <2>1. CASE RowsOf(k) = {}
    BY <2>1, FS_EmptySet
  <2>2. CASE RowsOf(k) # {}
    <3>1. PICK f \in RowsOf(k) : RowsOf(k) = {f}
      BY <1>1, <2>2
    <3> QED
      BY <3>1, FS_Singleton
  <2> QED
    BY <2>1, <2>2
<1> QED
  BY <1>2, DueAreRunners DEF Counted, FlagInv

UnreviewedIsOne ==
    \A k \in Keys : FlagInv /\ StickyRows(k) = {} => Counted(k)

LEMMA UnreviewedBefore == UnreviewedIsOne
BY UnreviewedHasOneRow DEF UnreviewedIsOne

LEMMA UnreviewedAfter == UnreviewedIsOne'
BY UnreviewedBefore, PTL

\* Steps that add no row of the key and let no run go on to add one.
LEMMA CountStays ==
    ASSUME FlagInv, NEW k \in Keys, Counted(k),
           RowsOf(k)' \subseteq RowsOf(k), Due(k)' \subseteq Due(k)
    PROVE  Counted(k)'
<1>1. /\ IsFiniteSet(RowsOf(k)') /\ Cardinality(RowsOf(k)') <= Cardinality(RowsOf(k))
      /\ Cardinality(RowsOf(k)') \in Nat /\ Cardinality(RowsOf(k)) \in Nat
  BY FS_Subset, FS_CardinalityType DEF Counted
<1>2. /\ Cardinality(Due(k)') <= Cardinality(Due(k))
      /\ Cardinality(Due(k)') \in Nat /\ Cardinality(Due(k)) \in Nat
      /\ Cardinality(Runners) \in Nat
  BY DueAreRunners, FS_Subset, FS_CardinalityType DEF FlagInv
<1> QED
  BY <1>1, <1>2 DEF Counted

LEMMA UpsertCounted ==
    ASSUME FlagInv, NEW r \in Runners, UpsertOpenFlag(r), NEW k \in Keys, Counted(k)
    PROVE  Counted(k)'
<1>1. r \in DOMAIN run /\ run[r] \in RunRows /\ UNCHANGED flags
  BY DEF UpsertOpenFlag, FlagInv
<1>2. PICK f \in FlagIds :
         run' = [run EXCEPT ![r].todo = @ \ {run[r].checked}, ![r].checked = NoKey,
                            ![r].wrote = Put(@, f, OpenFlag(run[r].checked, r))]
  BY DEF UpsertOpenFlag, FreshIds, OpenRows, FlagsOf, FlagInv, TypeOK
<1>3. /\ DOMAIN run' = DOMAIN run /\ run'[r].checked = NoKey
      /\ run'[r].wrote = Put(run[r].wrote, f, OpenFlag(run[r].checked, r))
      /\ \A q \in DOMAIN run \ {r} : run'[q] = run[q]
  BY <1>1, <1>2 DEF RunRows
<1>4. Due(k)' = Due(k) \ {r}
  BY <1>3, AnomalyFlagsAssumption DEF Due
<1>5. ASSUME NEW e \in RowsOf(k)', e \notin RowsOf(k)
      PROVE  e = f /\ run[r].checked = k
  <2>1. FlagsOf(k)' = FlagsOf(k)
    BY <1>1 DEF FlagsOf
  <2>2. PICK q \in DOMAIN run : e \in Written(q)' /\ run'[q].wrote[e].key = k
    BY <1>3, <1>5, <2>1 DEF RowsOf
  <2>3. e \in FlagIds
    BY <1>5, <2>1 DEF RowsOf
  <2>4. q = r
    BY <1>3, <1>5, <2>2, <2>3 DEF RowsOf, Written
  <2>5. e = f
    BY <1>3, <1>5, <2>2, <2>3, <2>4 DEF RowsOf, Written, Put
  <2>6. run'[r].wrote[f] = OpenFlag(run[r].checked, r)
    BY <1>3 DEF Put
  <2> QED
    BY <2>2, <2>4, <2>5, <2>6 DEF OpenFlag
<1>6. CASE run[r].checked # k
  BY <1>4, <1>5, <1>6, CountStays
<1>7. CASE run[r].checked = k
  <2>1. r \in Due(k)
    BY <1>1, <1>7 DEF Due
  <2>2. /\ Cardinality(Due(k)') = Cardinality(Due(k)) - 1
        /\ Cardinality(Due(k)) \in Nat /\ Cardinality(Due(k)') \in Nat
        /\ Cardinality(Runners) \in Nat
    BY <1>4, <2>1, DueAreRunners, FS_RemoveElement, FS_CardinalityType DEF FlagInv
  <2>3. RowsOf(k)' \subseteq RowsOf(k) \cup {f}
    BY <1>5
  <2>4. /\ IsFiniteSet(RowsOf(k) \cup {f}) /\ Cardinality(RowsOf(k)) \in Nat
        /\ Cardinality(RowsOf(k) \cup {f}) <= Cardinality(RowsOf(k)) + 1
        /\ Cardinality(RowsOf(k) \cup {f}) \in Nat
    <3>1. IsFiniteSet(RowsOf(k)) /\ Cardinality(RowsOf(k)) \in Nat
      BY FS_CardinalityType DEF Counted
    <3>2. /\ IsFiniteSet(RowsOf(k) \cup {f})
          /\ \/ Cardinality(RowsOf(k) \cup {f}) = Cardinality(RowsOf(k))
             \/ Cardinality(RowsOf(k) \cup {f}) = Cardinality(RowsOf(k)) + 1
      BY <3>1, FS_AddElement
    <3> QED
      BY <3>1, <3>2
  <2>5. /\ IsFiniteSet(RowsOf(k)') /\ Cardinality(RowsOf(k)') \in Nat
        /\ Cardinality(RowsOf(k)') <= Cardinality(RowsOf(k) \cup {f})
    BY <2>3, <2>4, FS_Subset, FS_CardinalityType
  <2> QED
    BY <2>2, <2>4, <2>5 DEF Counted
<1> QED
  BY <1>6, <1>7

LEMMA CountedNext == FlagInv /\ RowsAreCounted /\ [Next]_vars => RowsAreCounted'
<1> SUFFICES ASSUME FlagInv, RowsAreCounted, [Next]_vars, NEW k \in Keys
             PROVE  Counted(k)'
  BY DEF RowsAreCounted
<1>1. FlagInv' /\ Counted(k)
  BY StepInv DEF RowsAreCounted
<1>2. ASSUME NEW r \in Runners, NEW drafts \in SUBSET Keys, StartRun(r, drafts)
      PROVE  Counted(k)'
  <2>1. /\ UNCHANGED flags /\ DOMAIN run' = DOMAIN run \cup {r}
        /\ run'[r].checked = NoKey /\ DOMAIN run'[r].wrote = {}
        /\ \A q \in DOMAIN run : run'[q] = run[q]
    BY <1>2 DEF StartRun, Put
  <2>2. RowsOf(k)' \subseteq RowsOf(k) /\ Due(k)' \subseteq Due(k)
    BY <2>1, AnomalyFlagsAssumption DEF RowsOf, FlagsOf, Due, Written
  <2> QED
    BY <1>1, <2>2, CountStays
<1>3. ASSUME NEW r \in Runners, LookUpSticky(r)
      PROVE  Counted(k)'
  <2>1. r \in DOMAIN run /\ run[r] \in RunRows /\ UNCHANGED flags
    BY <1>3 DEF LookUpSticky, FlagInv
  <2>2. CASE StickyRows(k) = {}
    <3>1. \A e : e \in StickyRows(k)' <=> e \in StickyRows(k)
      BY <2>1 DEF StickyRows, FlagsOf
    <3>2. StickyRows(k)' = {}
      BY <2>2, <3>1
    <3> QED
      BY <1>1, <3>2, UnreviewedAfter DEF UnreviewedIsOne
  <2>3. CASE StickyRows(k) # {}
    <3>1. /\ DOMAIN run' = DOMAIN run
          /\ \A q \in DOMAIN run : run'[q].wrote = run[q].wrote
          /\ \A q \in DOMAIN run : run'[q].checked = k => run[q].checked = k
      <4>1. PICK j \in run[r].todo :
               \/ StickyRows(j) = {} /\ run' = [run EXCEPT ![r].checked = j]
               \/ \E f \in StickyRows(j) :
                     run' = [run EXCEPT ![r].todo = @ \ {j}, ![r].held = @ \cup {f}]
        BY <1>3 DEF LookUpSticky
      <4>2. CASE j # k /\ run' = [run EXCEPT ![r].checked = j]
        BY <2>1, <4>2 DEF RunRows
      <4>3. ASSUME NEW f \in StickyRows(j),
                   run' = [run EXCEPT ![r].todo = @ \ {j}, ![r].held = @ \cup {f}]
            PROVE  /\ DOMAIN run' = DOMAIN run
                   /\ \A q \in DOMAIN run : run'[q].wrote = run[q].wrote
                   /\ \A q \in DOMAIN run : run'[q].checked = run[q].checked
        BY <2>1, <4>3 DEF RunRows
      <4> QED
        BY <2>3, <4>1, <4>2, <4>3
    <3>2. RowsOf(k)' \subseteq RowsOf(k) /\ Due(k)' \subseteq Due(k)
      BY <2>1, <3>1 DEF RowsOf, FlagsOf, Due, Written
    <3> QED
      BY <1>1, <3>2, CountStays
  <2> QED
    BY <2>2, <2>3
<1>4. ASSUME NEW r \in Runners, UpsertOpenFlag(r)
      PROVE  Counted(k)'
  BY <1>1, <1>4, UpsertCounted
<1>5. ASSUME NEW r \in Runners, CommitRun(r) \/ AbortRun(r)
      PROVE  Counted(k)'
  <2>1. /\ r \in DOMAIN run /\ DOMAIN run' = DOMAIN run \ {r}
        /\ \A q \in DOMAIN run' : run'[q] = run[q]
    BY <1>5 DEF CommitRun, AbortRun, Drop
  <2>2. FlagsOf(k)' \subseteq RowsOf(k)
    <3>1. CASE UNCHANGED flags
      BY <3>1 DEF FlagsOf, RowsOf
    <3>2. CASE CommitRun(r)
      BY <2>1, <3>2 DEF CommitRun, FlagsOf, RowsOf, FlagInv, TypeOK
    <3> QED
      BY <1>5, <3>1, <3>2 DEF AbortRun
  <2>3. RowsOf(k)' \subseteq RowsOf(k) /\ Due(k)' \subseteq Due(k)
    BY <2>1, <2>2 DEF RowsOf, Due, Written
  <2> QED
    BY <1>1, <2>3, CountStays
<1>6. ASSUME NEW v \in Reviewers, CommitReview(v)
      PROVE  Counted(k)'
  <2>1. UNCHANGED run /\ DOMAIN flags' = DOMAIN flags
        /\ \A f \in DOMAIN flags : flags'[f].key = flags[f].key
    BY <1>6 DEF CommitReview, FlagInv, TypeOK, Rows
  <2>2. RowsOf(k)' \subseteq RowsOf(k) /\ Due(k)' \subseteq Due(k)
    BY <2>1 DEF RowsOf, FlagsOf, Due, Written
  <2> QED
    BY <1>1, <2>2, CountStays
<1>7. CASE UNCHANGED <<flags, run>>
  <2>1. RowsOf(k)' \subseteq RowsOf(k) /\ Due(k)' \subseteq Due(k)
    BY <1>7 DEF RowsOf, FlagsOf, Due, Written
  <2> QED
    BY <1>1, <2>1, CountStays
<1> QED
  BY <1>2, <1>3, <1>4, <1>5, <1>6, <1>7
  DEF Next, vars, ReadFlag, SetReviewedStatus, AbortReview

\* Spec 0017, sticky dismissal, as far as the look-up keeps it: a key never has
\* more rows than one and one for each process in run_anomaly_rules, however
\* often its flags are reviewed and the rules run again (_upsert_flag).
THEOREM StickyUpToLookUps == Spec => []StickyAfterLookUp
<1>1. Init => RowsAreCounted
  <2> SUFFICES ASSUME Init, NEW k \in Keys PROVE Counted(k)
    BY DEF RowsAreCounted
  <2>1. FlagInv /\ StickyRows(k) = {}
    BY InitInv DEF Init, StickyRows, FlagsOf
  <2> QED
    BY <2>1, UnreviewedHasOneRow
<1>2. ASSUME FlagInv, RowsAreCounted
      PROVE  StickyAfterLookUp
  <2> SUFFICES ASSUME NEW k \in Keys
               PROVE  Cardinality(FlagsOf(k)) <= 1 + Cardinality(Runners)
    BY DEF StickyAfterLookUp
  <2>1. /\ Counted(k) /\ Cardinality(Due(k)) \in Nat /\ Cardinality(Runners) \in Nat
    BY <1>2, DueAreRunners DEF RowsAreCounted, FlagInv
  <2>2. /\ Cardinality(FlagsOf(k)) <= Cardinality(RowsOf(k))
        /\ Cardinality(FlagsOf(k)) \in Nat /\ Cardinality(RowsOf(k)) \in Nat
    BY <2>1, FS_Subset, FS_CardinalityType DEF Counted, RowsOf
  <2> QED
    BY <2>1, <2>2 DEF Counted
<1>3. FlagInv /\ RowsAreCounted => StickyAfterLookUp
  BY <1>2
<1> QED
  BY <1>1, <1>3, CountedNext, Invariant, PTL DEF Spec

\* The ledgers there were have all tables, with known ids, and who is reading
\* began at one of them.
LedgerInv ==
    /\ \E S : versions \in Seq(S)
    /\ Len(versions) \in Nat \ {0}
    /\ \A n \in 1..Len(versions) : HasRows(versions[n]) /\ DOMAIN versions[n] = Tables
    /\ \A load \in loads : IsLoad(load)
    /\ \A r \in DOMAIN context : context[r].first \in 1..Len(versions)

LEMMA LedgerInit == RunInit => LedgerInv
<1> SUFFICES ASSUME RunInit PROVE LedgerInv
  OBVIOUS
<1>1. PICK scene \in Scenes : versions = <<scene.ledger>> /\ loads = scene.loads
  BY DEF RunInit
<1>2. versions \in Seq({scene.ledger}) /\ Len(versions) = 1 /\ versions[1] = scene.ledger
  BY <1>1
<1>3. DOMAIN context = {}
  BY DEF RunInit
<1>4. HasRows(versions[1]) /\ DOMAIN versions[1] = Tables
  BY <1>2, AnomalyRunAssumption
<1>5. \A load \in loads : IsLoad(load)
  BY <1>1, AnomalyRunAssumption
<1>6. \E S : versions \in Seq(S)
  BY <1>2
<1>7. \A n \in 1..Len(versions) : n = 1
  BY <1>2
<1> QED
  BY <1>2, <1>3, <1>4, <1>5, <1>6, <1>7 DEF LedgerInv

\* A load adds ids that are known, and keeps those that are there.
LEMMA LoadedHasRows ==
    ASSUME NEW load, HasRows(load), HasRows(Ledger), DOMAIN Ledger = Tables
    PROVE  HasRows(Loaded(load)) /\ DOMAIN Loaded(load) = Tables
<1>1. DOMAIN Loaded(load) = Tables
  BY DEF Loaded
<1>2. ASSUME NEW table \in DOMAIN load
      PROVE  /\ DOMAIN Loaded(load)[table] = DOMAIN load[table] \cup DOMAIN Ledger[table]
             /\ \A id \in DOMAIN Loaded(load)[table] :
                   Loaded(load)[table][id] = IF id \in DOMAIN load[table] THEN load[table][id]
                                             ELSE Ledger[table][id]
  BY <1>2 DEF Loaded, HasRows, Upserted
<1>3. ASSUME NEW table \in Tables \ DOMAIN load PROVE Loaded(load)[table] = Ledger[table]
  BY <1>3 DEF Loaded
<1>4. ASSUME NEW table \in Tables
      PROVE  /\ DOMAIN Loaded(load)[table] \subseteq Ids
             /\ Loaded(load)[table] \in [DOMAIN Loaded(load)[table] -> Columns[table]]
  <2>1. /\ DOMAIN Ledger[table] \subseteq Ids
        /\ Ledger[table] \in [DOMAIN Ledger[table] -> Columns[table]]
    BY DEF HasRows
  <2>2. CASE table \in DOMAIN load
    <3>1. /\ DOMAIN load[table] \subseteq Ids
          /\ load[table] \in [DOMAIN load[table] -> Columns[table]]
      BY <2>2 DEF HasRows
    <3>2. Loaded(load)[table] = Upserted(load[table], Ledger[table])
      BY <2>2 DEF Loaded
    <3> QED
      BY <2>1, <3>1, <3>2 DEF Upserted
  <2>3. CASE table \notin DOMAIN load
    BY <1>3, <2>1, <2>3
  <2> QED
    BY <2>2, <2>3
<1> QED
  BY <1>1, <1>4 DEF HasRows

LEMMA CommitLoadInv == ASSUME LedgerInv, CommitLoad PROVE LedgerInv'
<1>1. PICK load \in loads : versions' = Append(versions, Loaded(load)) /\ loads' = loads \ {load}
  BY DEF CommitLoad
<1>2. PICK S : versions \in Seq(S)
  BY DEF LedgerInv
<1>3. HasRows(Loaded(load)) /\ DOMAIN Loaded(load) = Tables
  BY LoadedHasRows DEF LedgerInv, Ledger, IsLoad
<1>4. versions \in Seq(S \cup {Loaded(load)})
  BY <1>2
<1>5. /\ versions' \in Seq(S \cup {Loaded(load)})
      /\ Len(versions') = Len(versions) + 1
      /\ \A n \in 1..Len(versions) : versions'[n] = versions[n]
      /\ versions'[Len(versions) + 1] = Loaded(load)
  BY <1>1, <1>4, AppendProperties
<1>6. \A n \in 1..Len(versions') : HasRows(versions'[n]) /\ DOMAIN versions'[n] = Tables
  BY <1>3, <1>5 DEF LedgerInv
<1>7. UNCHANGED context
  BY DEF CommitLoad
<1> QED
  BY <1>1, <1>5, <1>6, <1>7 DEF LedgerInv

LEMMA LedgerStep == LedgerInv /\ [RunNext]_runVars => LedgerInv'
<1> SUFFICES ASSUME LedgerInv, [RunNext]_runVars PROVE LedgerInv'
  OBVIOUS
<1>1. CASE CommitLoad
  BY <1>1, CommitLoadInv
<1>2. ASSUME NEW r \in Runners, BeginRun(r) PROVE LedgerInv'
  BY <1>2 DEF BeginRun, LedgerInv, ledgerVars, Put
<1>3. ASSUME NEW r \in Runners, Evaluate(r) PROVE LedgerInv'
  BY <1>3 DEF Evaluate, LedgerInv, ledgerVars
<1>4. ASSUME NEW r \in Runners, EndRun(r) PROVE LedgerInv'
  BY <1>4 DEF EndRun, LedgerInv, ledgerVars, Drop
<1>5. CASE UNCHANGED <<ledgerVars, context>>
  BY <1>5 DEF LedgerInv, ledgerVars
<1>6. CASE UNCHANGED runVars
  BY <1>6 DEF LedgerInv, runVars
<1> QED
  BY <1>1, <1>2, <1>3, <1>4, <1>5, <1>6 DEF RunNext

(***************************************************************************)
(* What the rules draft are keys of flags.                                 *)
(***************************************************************************)
LEMMA ContextHasRows ==
    ASSUME LedgerInv, NEW r \in DOMAIN context, NEW view \in Views(context[r].first)
    PROVE  /\ HasRows(LoadRuleContext(view))
           /\ DOMAIN LoadRuleContext(view) = Tables
<1>1. \A table \in Tables : view[table] \in 1..Len(versions)
  BY DEF Views, LedgerInv
<1>2. DOMAIN LoadRuleContext(view) = Tables
  BY DEF LoadRuleContext
<1>3. ASSUME NEW table \in Tables
      PROVE  /\ DOMAIN LoadRuleContext(view)[table] \subseteq Ids
             /\ LoadRuleContext(view)[table] \in
                    [DOMAIN LoadRuleContext(view)[table] -> Columns[table]]
  <2> DEFINE rows == versions[view[table]][table]
  <2>1. DOMAIN rows \subseteq Ids /\ rows \in [DOMAIN rows -> Columns[table]]
    BY <1>1 DEF LedgerInv, HasRows
  <2>2. LoadRuleContext(view)[table] = [id \in Selected(table, rows) |-> rows[id]]
    BY DEF LoadRuleContext
  <2> HIDE DEF rows
  <2>3. Selected(table, rows) \subseteq DOMAIN rows
    BY DEF Selected
  <2> QED
    BY <2>1, <2>2, <2>3
<1> QED
  BY <1>2, <1>3 DEF HasRows

LEMMA OutliersAreAmounts ==
    ASSUME NEW amounts PROVE Outliers(amounts) \subseteq DOMAIN amounts
BY DEF Outliers

LEMMA PriceOutliersAreContracts ==
    ASSUME NEW c PROVE PriceOutlier(c) \subseteq DOMAIN c.contracts
<1> SUFFICES ASSUME NEW k \in PriceOutlier(c) PROVE k \in DOMAIN c.contracts
  OBVIOUS
<1>1. PICK agency : k \in IF Cardinality(Priced(c, agency)) < OutlierMinN THEN {}
                          ELSE Outliers([n \in Priced(c, agency) |-> c.contracts[n].amount])
  BY DEF PriceOutlier
<1>2. k \in Priced(c, agency)
  BY <1>1, OutliersAreAmounts
<1> QED
  BY <1>2 DEF Priced

LEMMA DraftsAreKeys ==
    ASSUME NEW c, HasRows(c), DOMAIN c = Tables PROVE Drafts(c) \in SUBSET Keys
<1>1. SingleBidder(c) \subseteq DOMAIN c.tenders
  BY DEF SingleBidder
<1>2. ShortWindow(c) \subseteq DOMAIN c.tenders
  BY DEF ShortWindow
<1>3. ThresholdHugging(c) \subseteq DOMAIN c.awards
  BY DEF ThresholdHugging
<1>4. RepeatWinner(c) \subseteq {c.awards[a].supplier : a \in DOMAIN c.awards}
  BY DEF RepeatWinner, Suppliers
<1>5. SharedAddress(c) \subseteq DOMAIN c.parties
  BY DEF SharedAddress, Located
<1>6. PriceOutlier(c) \subseteq DOMAIN c.contracts
  BY PriceOutliersAreContracts
<1>7. BudgetPaymentMismatch(c) \subseteq DOMAIN c.lines
  BY DEF BudgetPaymentMismatch
<1>8. /\ DOMAIN c.tenders \subseteq Ids /\ DOMAIN c.awards \subseteq Ids
      /\ DOMAIN c.contracts \subseteq Ids /\ DOMAIN c.parties \subseteq Ids
      /\ DOMAIN c.lines \subseteq Ids
      /\ {c.awards[a].supplier : a \in DOMAIN c.awards} \subseteq Ids
  BY DEF HasRows, Tables, Columns
<1>9. Keys = RuleIds \X Ids
  BY AnomalyRunAssumption
<1> QED
  BY <1>1, <1>2, <1>3, <1>4, <1>5, <1>6, <1>7, <1>8, <1>9 DEF Drafts, RuleIds

(***************************************************************************)
(* The refinement.                                                         *)
(***************************************************************************)
LEMMA RunStepIsFlagStep == LedgerInv /\ [RunNext]_runVars => [Next]_vars
<1> SUFFICES ASSUME LedgerInv, [RunNext]_runVars PROVE [Next]_vars
  OBVIOUS
<1>1. CASE CommitLoad
  BY <1>1 DEF CommitLoad, vars
<1>2. ASSUME NEW r \in Runners, BeginRun(r) PROVE [Next]_vars
  BY <1>2 DEF BeginRun, vars
<1>3. ASSUME NEW r \in Runners, Evaluate(r) PROVE [Next]_vars
  <2>1. PICK view \in Views(context[r].first) : StartRun(r, Drafts(LoadRuleContext(view)))
    BY <1>3 DEF Evaluate
  <2>2. Drafts(LoadRuleContext(view)) \in SUBSET Keys
    BY <1>3, ContextHasRows, DraftsAreKeys DEF Evaluate
  <2> QED
    BY <2>1, <2>2 DEF Next
<1>4. ASSUME NEW r \in Runners, EndRun(r) PROVE [Next]_vars
  BY <1>4 DEF EndRun, Next
<1>5. ASSUME NEW r \in Runners, LookUpSticky(r) \/ UpsertOpenFlag(r) PROVE [Next]_vars
  BY <1>5 DEF Next
<1>6. ASSUME NEW v \in Reviewers,
             ReadFlag(v) \/ SetReviewedStatus(v) \/ CommitReview(v) \/ AbortReview(v)
      PROVE  [Next]_vars
  BY <1>6 DEF Next
<1>7. CASE UNCHANGED runVars
  BY <1>7 DEF runVars, vars
<1> QED
  BY <1>1, <1>2, <1>3, <1>4, <1>5, <1>6, <1>7 DEF RunNext

\* run_anomaly_rules with production_rules(), however loads commit between its
\* SELECTs, writes flags as AnomalyFlags does: whatever holds there for any drafts
\* (spec 0017) holds of the drafts of the rules of spec 0018.
THEOREM RunsAreFlagRuns == RunSpec => Spec
<1>1. RunInit => Init
  BY DEF RunInit
<1>2. RunSpec => []LedgerInv
  BY LedgerInit, LedgerStep, PTL DEF RunSpec
<1> QED
  BY <1>1, <1>2, RunStepIsFlagStep, PTL DEF RunSpec, Spec

\* A subject has one open flag of a rule, however runs, loads and reviews interleave.
THEOREM RuleFlagsAreUnique == RunSpec => []OneOpenPerKey
BY RunsAreFlagRuns, FlagsAreUnique

\* What a human decided of a flag stays as it is, whatever later runs draft.
THEOREM RuleReviewsAreFinal == RunSpec => ReviewedIsFinal
BY RunsAreFlagRuns, ReviewsAreFinal

\* So reviews of what the rules flagged are not drowned by later runs.
THEOREM RuleFlagsStayFew == RunSpec => []StickyAfterLookUp
BY RunsAreFlagRuns, StickyUpToLookUps

(***************************************************************************)
(* Numbers.                                                                *)
(***************************************************************************)
LEMMA LeastNatural ==
    ASSUME NEW S \in SUBSET Nat, S # {}
    PROVE  \E n \in S : \A m \in S : n <= m
<1> DEFINE R == OpToRel(<, Nat)
<1>1. IsWellFoundedOn(R, Nat)
  BY NatLessThanWellFounded
<1>2. \A m, n \in Nat : m < n => <<m, n>> \in R
  BY DEF OpToRel
<1> HIDE DEF R
<1>3. PICK n \in S : \A m \in S : ~(<<m, n>> \in R)
  BY <1>1, WFMin
<1>4. \A m \in S : m \in Nat /\ n \in Nat /\ ~(m < n)
  BY <1>2, <1>3
<1>5. \A m \in S : n <= m
  BY <1>4
<1> QED
  BY <1>5

LEMMA CountUp ==
    ASSUME NEW S, 0 \in S, \A n \in Nat : n \in S => n + 1 \in S
    PROVE  Nat \subseteq S
<1> SUFFICES ASSUME Nat \ S # {} PROVE FALSE
  OBVIOUS
<1>1. PICK n \in Nat \ S : \A m \in Nat \ S : n <= m
  BY LeastNatural
<1>2. n # 0 /\ n - 1 \in Nat /\ n - 1 \in S
  BY <1>1
<1> QED
  BY <1>1, <1>2

\* A part that leaves something out is smaller.
LEMMA PartIsSmaller ==
    ASSUME NEW S, IsFiniteSet(S), NEW T \in SUBSET S
    PROVE  /\ IsFiniteSet(T) /\ Cardinality(T) \in Nat /\ Cardinality(S) \in Nat
           /\ Cardinality(T) <= Cardinality(S)
           /\ S # T => Cardinality(T) < Cardinality(S)
<1>1. IsFiniteSet(T) /\ Cardinality(T) <= Cardinality(S) /\ (Cardinality(S) = Cardinality(T) => S = T)
  BY FS_Subset
<1>2. Cardinality(T) \in Nat /\ Cardinality(S) \in Nat
  BY <1>1, FS_CardinalityType
<1> QED
  BY <1>1, <1>2

Low(S, n) == {k \in S : k <= n}
High(S, n) == {k \in S : k >= n}

LEMMA LeastOfFinite ==
    ASSUME NEW S \in SUBSET Int, IsFiniteSet(S), S # {}
    PROVE  \E m \in S : \A n \in S : m <= n
<1> DEFINE Sizes == {Cardinality(Low(S, n)) : n \in S}
<1>1. \A n : Low(S, n) \in SUBSET S
  BY DEF Low
<1>2. \A n \in S : IsFiniteSet(Low(S, n)) /\ Cardinality(Low(S, n)) \in Nat
  BY <1>1, PartIsSmaller
<1>3. PICK size \in Sizes : \A other \in Sizes : size <= other
  <2>1. Sizes \in SUBSET Nat /\ Sizes # {}
    BY <1>2
  <2> HIDE DEF Sizes
  <2> QED
    BY <2>1, LeastNatural
<1>4. PICK m \in S : size = Cardinality(Low(S, m))
  OBVIOUS
<1>5. ASSUME NEW n \in S, n < m PROVE FALSE
  <2>1. m \in Int /\ n \in Int
    OBVIOUS
  <2>2. Low(S, n) \in SUBSET Low(S, m) /\ Low(S, m) # Low(S, n)
    <3>1. \A k \in S : k <= n => k <= m
      BY <1>5, <2>1
    <3>2. m <= m /\ ~(m <= n)
      BY <1>5, <2>1
    <3>3. m \in Low(S, m) /\ m \notin Low(S, n)
      BY <3>2 DEF Low
    <3> QED
      BY <3>1, <3>3 DEF Low
  <2>3. Cardinality(Low(S, n)) < Cardinality(Low(S, m))
    BY <1>2, <2>2, PartIsSmaller
  <2>4. Cardinality(Low(S, m)) <= Cardinality(Low(S, n))
    BY <1>3, <1>4
  <2>5. Cardinality(Low(S, m)) \in Nat /\ Cardinality(Low(S, n)) \in Nat
    BY <1>2
  <2> QED
    BY <2>3, <2>4, <2>5
<1>6. \A n \in S : m <= n
  BY <1>5
<1> QED
  BY <1>6

LEMMA GreatestOfFinite ==
    ASSUME NEW S \in SUBSET Int, IsFiniteSet(S), S # {}
    PROVE  \E m \in S : \A n \in S : n <= m
<1> DEFINE Sizes == {Cardinality(High(S, n)) : n \in S}
<1>1. \A n : High(S, n) \in SUBSET S
  BY DEF High
<1>2. \A n \in S : IsFiniteSet(High(S, n)) /\ Cardinality(High(S, n)) \in Nat
  BY <1>1, PartIsSmaller
<1>3. PICK size \in Sizes : \A other \in Sizes : size <= other
  <2>1. Sizes \in SUBSET Nat /\ Sizes # {}
    BY <1>2
  <2> HIDE DEF Sizes
  <2> QED
    BY <2>1, LeastNatural
<1>4. PICK m \in S : size = Cardinality(High(S, m))
  OBVIOUS
<1>5. ASSUME NEW n \in S, n > m PROVE FALSE
  <2>1. m \in Int /\ n \in Int
    OBVIOUS
  <2>2. High(S, n) \in SUBSET High(S, m) /\ High(S, m) # High(S, n)
    <3>1. \A k \in S : k >= n => k >= m
      BY <1>5, <2>1
    <3>2. m >= m /\ ~(m >= n)
      BY <1>5, <2>1
    <3>3. m \in High(S, m) /\ m \notin High(S, n)
      BY <3>2 DEF High
    <3> QED
      BY <3>1, <3>3 DEF High
  <2>3. Cardinality(High(S, n)) < Cardinality(High(S, m))
    BY <1>2, <2>2, PartIsSmaller
  <2>4. Cardinality(High(S, m)) <= Cardinality(High(S, n))
    BY <1>3, <1>4
  <2>5. Cardinality(High(S, m)) \in Nat /\ Cardinality(High(S, n)) \in Nat
    BY <1>2
  <2> QED
    BY <2>3, <2>4, <2>5
<1>6. \A n \in S : n <= m
  BY <1>5
<1> QED
  BY <1>6

LEMMA MinOfFinite ==
    ASSUME NEW S \in SUBSET Int, IsFiniteSet(S), S # {}
    PROVE  Min(S) \in S /\ \A n \in S : Min(S) <= n
BY LeastOfFinite DEF Min

LEMMA MaxOfFinite ==
    ASSUME NEW S \in SUBSET Int, IsFiniteSet(S), S # {}
    PROVE  Max(S) \in S /\ \A n \in S : n <= Max(S)
<1>1. \E m \in S : \A n \in S : m >= n
  BY GreatestOfFinite
<1>2. Max(S) \in S /\ \A n \in S : Max(S) >= n
  BY <1>1 DEF Max
<1> QED
  BY <1>2

(***************************************************************************)
(* sorted(): which value is the nth.                                       *)
(***************************************************************************)
IsFinite(f) == IsFiniteSet(DOMAIN f) /\ f \in [DOMAIN f -> Int]
Values(f) == {f[x] : x \in DOMAIN f}

LEMMA CountsOfValues ==
    ASSUME NEW f, IsFinite(f), NEW v \in Int, NEW w \in Int
    PROVE  /\ Cardinality(Under(f, v)) \in Nat /\ Cardinality(UpTo(f, v)) \in Nat
           /\ Cardinality(DOMAIN f) \in Nat
           /\ Cardinality(Under(f, v)) <= Cardinality(UpTo(f, v))
           /\ Cardinality(UpTo(f, v)) <= Cardinality(DOMAIN f)
           /\ v \in Values(f) => Cardinality(Under(f, v)) < Cardinality(UpTo(f, v))
           /\ v < w => Cardinality(UpTo(f, v)) <= Cardinality(Under(f, w))
           /\ v <= w => /\ Cardinality(UpTo(f, v)) <= Cardinality(UpTo(f, w))
                        /\ Cardinality(Under(f, v)) <= Cardinality(Under(f, w))
<1> f \in [DOMAIN f -> Int] /\ IsFiniteSet(DOMAIN f)
  BY DEF IsFinite
<1>1. /\ UpTo(f, v) \subseteq DOMAIN f /\ UpTo(f, w) \subseteq DOMAIN f
      /\ Under(f, v) \subseteq UpTo(f, v) /\ Under(f, w) \subseteq DOMAIN f
      /\ v \in Values(f) => Under(f, v) # UpTo(f, v)
      /\ v < w => UpTo(f, v) \subseteq Under(f, w)
      /\ v <= w => UpTo(f, v) \subseteq UpTo(f, w) /\ Under(f, v) \subseteq Under(f, w)
  BY DEF Under, UpTo, Values
<1>2. IsFiniteSet(UpTo(f, v)) /\ IsFiniteSet(UpTo(f, w)) /\ IsFiniteSet(Under(f, w))
  BY <1>1, PartIsSmaller
<1> QED
  BY <1>1, <1>2, PartIsSmaller

LEMMA NthExists ==
    ASSUME NEW f, IsFinite(f), NEW n \in 1..Cardinality(DOMAIN f)
    PROVE  \E v \in Values(f) : IsNth(f, n, v)
<1> DEFINE Enough == {v \in Values(f) : n <= Cardinality(UpTo(f, v))}
<1>1. IsFiniteSet(Values(f)) /\ Values(f) \subseteq Int
  <2>1. f \in Surjection(DOMAIN f, Values(f))
    BY DEF Surjection, Values, IsFinite
  <2>2. Values(f) \subseteq Int
    BY DEF Values, IsFinite
  <2> QED
    BY <2>1, <2>2, FS_Surjection DEF IsFinite
<1>2. DOMAIN f # {}
  BY FS_EmptySet DEF IsFinite
<1>3. PICK top \in Values(f) : \A v \in Values(f) : v <= top
  BY <1>1, <1>2, GreatestOfFinite DEF Values
<1>4. UpTo(f, top) = DOMAIN f
  BY <1>3 DEF UpTo, Values
<1>5. Enough # {} /\ IsFiniteSet(Enough) /\ Enough \subseteq Int
  BY <1>1, <1>3, <1>4, FS_Subset
<1>6. PICK v \in Enough : \A w \in Enough : v <= w
  BY <1>5, LeastOfFinite
<1>7. ASSUME n <= Cardinality(Under(f, v)) PROVE FALSE
  <2> DEFINE Less == {w \in Values(f) : w < v}
  <2>1. Less # {}
    <3>1. Under(f, v) # {}
      BY <1>7, FS_EmptySet
    <3> QED
      BY <3>1 DEF Under, Values
  <2>2. IsFiniteSet(Less) /\ Less \subseteq Int
    BY <1>1, FS_Subset
  <2>3. PICK w \in Less : \A u \in Less : u <= w
    BY <2>1, <2>2, GreatestOfFinite
  <2>4. UpTo(f, w) = Under(f, v)
    BY <1>1, <2>3 DEF UpTo, Under, Values, IsFinite
  <2>5. w \in Enough /\ w < v
    BY <1>7, <2>3, <2>4
  <2> QED
    BY <1>5, <1>6, <2>5
<1>8. Cardinality(Under(f, v)) \in Nat
  BY <1>1, CountsOfValues
<1> QED
  BY <1>6, <1>7, <1>8 DEF IsNth

LEMMA OrderedIs ==
    ASSUME NEW f, IsFinite(f)
    PROVE  /\ Ordered(f) \in Seq(Int) /\ Len(Ordered(f)) = Cardinality(DOMAIN f)
           /\ Cardinality(DOMAIN f) \in Nat
           /\ \A n \in 1..Cardinality(DOMAIN f) :
                 /\ Ordered(f)[n] \in Values(f) /\ Ordered(f)[n] \in Int
                 /\ IsNth(f, n, Ordered(f)[n])
<1>1. Cardinality(DOMAIN f) \in Nat
  BY FS_CardinalityType DEF IsFinite
<1>2. ASSUME NEW n \in 1..Cardinality(DOMAIN f)
      PROVE  Ordered(f)[n] \in Values(f) /\ IsNth(f, n, Ordered(f)[n])
  <2>1. Ordered(f)[n] = CHOOSE v \in Values(f) : IsNth(f, n, v)
    BY DEF Ordered, Values
  <2> QED
    BY <2>1, NthExists
<1>3. Values(f) \subseteq Int
  BY DEF Values, IsFinite
<1>4. /\ DOMAIN Ordered(f) = 1..Cardinality(DOMAIN f)
      /\ Ordered(f) = [n \in 1..Cardinality(DOMAIN f) |-> Ordered(f)[n]]
  BY DEF Ordered
<1>5. Ordered(f) \in [1..Cardinality(DOMAIN f) -> Int]
  BY <1>2, <1>3, <1>4
<1> QED
  BY <1>1, <1>2, <1>3, <1>5

\* There is one nth value.
LEMMA NthIsOne ==
    ASSUME NEW f, IsFinite(f), NEW n \in Nat, NEW v \in Int, NEW w \in Int,
           IsNth(f, n, v), IsNth(f, n, w)
    PROVE  v = w
<1>1. ASSUME NEW a \in Int, NEW b \in Int, IsNth(f, n, a), IsNth(f, n, b), a < b PROVE FALSE
  BY <1>1, CountsOfValues DEF IsNth
<1> QED
  BY <1>1

LEMMA OrderedIsAscending ==
    ASSUME NEW f, IsFinite(f),
           NEW m \in 1..Cardinality(DOMAIN f), NEW n \in 1..Cardinality(DOMAIN f), m <= n
    PROVE  Ordered(f)[m] <= Ordered(f)[n]
<1> DEFINE v == Ordered(f)[m]
           w == Ordered(f)[n]
<1>1. v \in Int /\ w \in Int /\ IsNth(f, m, v) /\ IsNth(f, n, w) /\ Cardinality(DOMAIN f) \in Nat
  BY OrderedIs
<1> HIDE DEF v, w
<1>2. w < v => Cardinality(UpTo(f, w)) <= Cardinality(Under(f, v))
  BY <1>1, CountsOfValues
<1>3. Cardinality(UpTo(f, w)) \in Nat /\ Cardinality(Under(f, v)) \in Nat
  BY <1>1, CountsOfValues
<1>4. v <= w
  BY <1>1, <1>2, <1>3 DEF IsNth
<1> QED
  BY <1>4 DEF v, w

(***************************************************************************)
(* The median.                                                             *)
(***************************************************************************)
LEMMA HalvesAreCounts ==
    ASSUME NEW f, IsFinite(f), NEW v \in Int
    PROVE  /\ Below(f, 2 * v) = Cardinality(Under(f, v))
           /\ Above(f, 2 * v) = Cardinality(DOMAIN f) - Cardinality(UpTo(f, v))
<1>1. \A x \in DOMAIN f : f[x] \in Int
  BY DEF IsFinite
<1>2. \A x \in DOMAIN f : (2 * f[x] < 2 * v <=> f[x] < v) /\ (2 * f[x] > 2 * v <=> ~(f[x] <= v))
  BY <1>1
<1>3. {k \in DOMAIN f : 2 * f[k] < 2 * v} = Under(f, v)
  BY <1>2 DEF Under
<1>4. {k \in DOMAIN f : 2 * f[k] > 2 * v} = DOMAIN f \ UpTo(f, v)
  BY <1>2 DEF UpTo
<1>5. UpTo(f, v) \cap DOMAIN f = UpTo(f, v) /\ IsFiniteSet(UpTo(f, v)) /\ IsFiniteSet(DOMAIN f)
  BY FS_Subset DEF UpTo, IsFinite
<1>6. Cardinality(DOMAIN f \ UpTo(f, v)) = Cardinality(DOMAIN f) - Cardinality(DOMAIN f \cap UpTo(f, v))
  BY <1>5, FS_Difference
<1>7. DOMAIN f \cap UpTo(f, v) = UpTo(f, v)
  BY <1>5
<1> QED
  BY <1>3, <1>4, <1>6, <1>7 DEF Below, Above

LEMMA MedianIsMiddle ==
    ASSUME NEW f, IsFinite(f), DOMAIN f # {}
    PROVE  /\ TwiceMedian(f) = Middle(f)
           /\ \E v, w \in Values(f) : Middle(f) = v + w
<1> DEFINE n == Cardinality(DOMAIN f)
           low == (n + 1) \div 2
           high == n \div 2 + 1
           u == Ordered(f)[low]
           w == Ordered(f)[high]
           half == {v \in Values(f) : /\ 2 * Below(f, 2 * v) <= n
                                      /\ 2 * Above(f, 2 * v) <= n}
<1>1. n \in Nat \ {0}
  BY FS_CardinalityType, FS_EmptySet DEF IsFinite
<1> HIDE DEF n
<1>2. /\ low \in 1..n /\ 2 * low >= n /\ 2 * low <= n + 1
      /\ high \in 1..n /\ 2 * high >= n + 1 /\ 2 * high <= n + 2
  BY <1>1
<1> HIDE DEF low, high
<1>3. /\ u \in Values(f) /\ u \in Int /\ IsNth(f, low, u)
      /\ w \in Values(f) /\ w \in Int /\ IsNth(f, high, w)
  BY <1>2, OrderedIs DEF n
<1>4. TwiceMedian(f) = u + w
  BY DEF TwiceMedian, n, low, high
<1>5. Middle(f) = Min(half) + Max(half)
  BY DEF Middle, Values, n
<1> HIDE DEF u, w
<1>6. Values(f) \subseteq Int /\ IsFiniteSet(Values(f))
  <2>1. f \in Surjection(DOMAIN f, Values(f))
    BY DEF Surjection, Values, IsFinite
  <2>2. Values(f) \subseteq Int
    BY DEF Values, IsFinite
  <2> QED
    BY <2>1, <2>2, FS_Surjection DEF IsFinite
<1>7. \A v \in Values(f) :
         v \in half <=> /\ 2 * Cardinality(Under(f, v)) <= n
                        /\ 2 * (n - Cardinality(UpTo(f, v))) <= n
  BY <1>6, HalvesAreCounts DEF n
<1>8. u \in half
  BY <1>1, <1>2, <1>3, <1>7, CountsOfValues DEF IsNth
<1>9. w \in half
  BY <1>1, <1>2, <1>3, <1>7, CountsOfValues DEF IsNth
<1>10. half \in SUBSET Int /\ IsFiniteSet(half)
  BY <1>6, FS_Subset
<1>11. ASSUME NEW v \in half PROVE u <= v /\ v <= w
  <2>1. v \in Int /\ v \in Values(f)
    BY <1>6
  <2>2. /\ 2 * Cardinality(Under(f, v)) <= n
        /\ 2 * (n - Cardinality(UpTo(f, v))) <= n
    BY <1>7, <2>1
  <2> HIDE DEF half
  <2>3. /\ Cardinality(Under(f, v)) \in Nat /\ Cardinality(UpTo(f, v)) \in Nat
        /\ Cardinality(Under(f, u)) \in Nat /\ Cardinality(UpTo(f, w)) \in Nat
        /\ v < u => Cardinality(UpTo(f, v)) <= Cardinality(Under(f, u))
        /\ w < v => Cardinality(UpTo(f, w)) <= Cardinality(Under(f, v))
    BY <1>3, <2>1, CountsOfValues
  <2>4. ~(v < u)
    BY <1>1, <1>2, <1>3, <2>2, <2>3 DEF IsNth
  <2>5. ~(w < v)
    BY <1>1, <1>2, <1>3, <2>2, <2>3 DEF IsNth
  <2> QED
    BY <1>3, <2>1, <2>4, <2>5
<1>12. Min(half) = u
  <2>1. Min(half) \in half /\ Min(half) <= u
    BY <1>8, <1>10, MinOfFinite
  <2>2. u <= Min(half) /\ Min(half) \in Int
    BY <1>10, <1>11, <2>1
  <2> HIDE DEF half
  <2> QED
    BY <1>3, <2>1, <2>2
<1>13. Max(half) = w
  <2>1. Max(half) \in half /\ w <= Max(half)
    BY <1>9, <1>10, MaxOfFinite
  <2>2. Max(half) <= w /\ Max(half) \in Int
    BY <1>10, <1>11, <2>1
  <2> HIDE DEF half
  <2> QED
    BY <1>3, <2>1, <2>2
<1> QED
  BY <1>3, <1>4, <1>5, <1>12, <1>13

(***************************************************************************)
(* price_outlier finds what is far from the median.                        *)
(***************************************************************************)
LEMMA OutliersAreFar ==
    ASSUME NEW f, IsFinite(f), DOMAIN f # {}
    PROVE  LET off == [p \in DOMAIN f |-> Abs(2 * f[p] - Middle(f))]
           IN  Outliers(f) = {k \in DOMAIN f :
                   Middle(off) > 0 /\ 2 * off[k] > OutlierMadK * Middle(off)}
<1> DEFINE off == [p \in DOMAIN f |-> Abs(2 * f[p] - Middle(f))]
<1>1. TwiceMedian(f) = Middle(f) /\ Middle(f) \in Int
  <2>1. Values(f) \subseteq Int
    BY DEF Values, IsFinite
  <2> QED
    BY <2>1, MedianIsMiddle
<1>2. DOMAIN off = DOMAIN f
  OBVIOUS
<1>3. off \in [DOMAIN f -> Nat]
  BY <1>1 DEF Abs, IsFinite
<1>4. off = [k \in DOMAIN f |-> Abs(2 * f[k] - TwiceMedian(f))]
  BY <1>1
<1> HIDE DEF off
<1>5. IsFinite(off)
  BY <1>2, <1>3 DEF IsFinite
<1>6. Values(off) \subseteq Nat
  BY <1>2, <1>3 DEF Values
<1>7. TwiceMedian(off) = Middle(off) /\ Middle(off) \in Nat
  BY <1>2, <1>5, <1>6, MedianIsMiddle
<1>8. Outliers(f) = {k \in DOMAIN f : TwiceMedian(off) # 0
                                      /\ 2 * off[k] > OutlierMadK * TwiceMedian(off)}
  BY <1>4 DEF Outliers
<1>9. TwiceMedian(off) # 0 <=> Middle(off) > 0
  BY <1>7
<1>10. Outliers(f) = {k \in DOMAIN f : Middle(off) > 0 /\ 2 * off[k] > OutlierMadK * Middle(off)}
  BY <1>7, <1>8, <1>9
<1> QED
  BY <1>10 DEF off

IsContext(c) == HasRows(c) /\ DOMAIN c = Tables

LEMMA ContextColumns ==
    ASSUME NEW c, IsContext(c)
    PROVE  /\ \A table \in Tables : DOMAIN c[table] \subseteq Ids /\ IsFiniteSet(DOMAIN c[table])
           /\ \A a \in DOMAIN c.awards : c.awards[a].supplier \in Ids /\ c.awards[a].date \in Maybe
           /\ \A k \in DOMAIN c.contracts : c.contracts[k].amount \in Maybe
           /\ \A p \in DOMAIN c.payments : c.payments[p].amount \in Int
           /\ \A n \in DOMAIN c.lines : c.lines[n].utilised \in Maybe /\ c.lines[n].allocated \in Maybe
<1>1. \A table \in Tables :
         DOMAIN c[table] \subseteq Ids /\ c[table] \in [DOMAIN c[table] -> Columns[table]]
  BY DEF IsContext, HasRows
<1>2. IsFiniteSet(Ids)
  BY AnomalyRunAssumption
<1>3. \A table \in Tables : IsFiniteSet(DOMAIN c[table])
  BY <1>1, <1>2, FS_Subset
<1>4. ASSUME NEW a \in DOMAIN c.awards
      PROVE  c.awards[a].supplier \in Ids /\ c.awards[a].date \in Maybe
  BY <1>1 DEF Columns, Tables
<1>5. ASSUME NEW k \in DOMAIN c.contracts PROVE c.contracts[k].amount \in Maybe
  BY <1>1 DEF Columns, Tables
<1>6. ASSUME NEW p \in DOMAIN c.payments PROVE c.payments[p].amount \in Int
  BY <1>1 DEF Columns, Tables
<1>7. ASSUME NEW n \in DOMAIN c.lines
      PROVE  c.lines[n].utilised \in Maybe /\ c.lines[n].allocated \in Maybe
  BY <1>1 DEF Columns, Tables
<1> QED
  BY <1>1, <1>3, <1>4, <1>5, <1>6, <1>7

Amounts(c, agency) == [k \in Priced(c, agency) |-> c.contracts[k].amount]

LEMMA AmountsAreFinite ==
    ASSUME NEW c, IsContext(c), NEW agency
    PROVE  /\ DOMAIN Amounts(c, agency) = Priced(c, agency)
           /\ IsFinite(Amounts(c, agency)) /\ Cardinality(Priced(c, agency)) \in Nat
           /\ \A k \in Priced(c, agency) : Amounts(c, agency)[k] = c.contracts[k].amount
<1>1. Priced(c, agency) \subseteq DOMAIN c.contracts /\ IsFiniteSet(DOMAIN c.contracts)
  BY ContextColumns DEF Priced, Tables
<1>2. \A k \in Priced(c, agency) : c.contracts[k].amount \in Int
  BY ContextColumns DEF Priced, Maybe
<1>3. IsFiniteSet(Priced(c, agency)) /\ Cardinality(Priced(c, agency)) \in Nat
  BY <1>1, PartIsSmaller
<1> QED
  BY <1>2, <1>3 DEF Amounts, IsFinite

LEMMA PriceOutlierIsFar ==
    ASSUME NEW c, IsContext(c) PROVE PriceOutlier(c) = FarFromMedian(c)
<1> DEFINE Off(agency) ==
               [p \in Priced(c, agency) |-> Abs(2 * Amounts(c, agency)[p] - Middle(Amounts(c, agency)))]
           Far(agency) == {k \in Priced(c, agency) :
               Middle(Off(agency)) > 0 /\ 2 * Off(agency)[k] > OutlierMadK * Middle(Off(agency))}
           Agency == {c.contracts[k].agency : k \in DOMAIN c.contracts}
           Enough(agency) == Cardinality(Priced(c, agency)) >= OutlierMinN
<1>1. ASSUME NEW agency, Enough(agency) PROVE Outliers(Amounts(c, agency)) = Far(agency)
  <2>1. Cardinality(Priced(c, agency)) \in Nat \ {0}
    BY <1>1, AmountsAreFinite, AnomalyRulesAssumption
  <2>2. Priced(c, agency) # {}
    BY <2>1, FS_EmptySet
  <2> QED
    BY <2>2, AmountsAreFinite, OutliersAreFar
<1>2. \A agency : Cardinality(Priced(c, agency)) < OutlierMinN <=> ~Enough(agency)
  BY AmountsAreFinite, AnomalyRulesAssumption
<1>3. PriceOutlier(c) = UNION {IF ~Enough(agency) THEN {} ELSE Outliers(Amounts(c, agency)) : agency \in Agency}
  BY <1>2 DEF PriceOutlier, Amounts
<1>4. FarFromMedian(c) = {k \in DOMAIN c.contracts :
                             Enough(c.contracts[k].agency) /\ k \in Far(c.contracts[k].agency)}
  BY DEF FarFromMedian, Amounts
<1> HIDE DEF Off, Enough
<1>5. \A agency : \A k \in Far(agency) : k \in DOMAIN c.contracts /\ c.contracts[k].agency = agency
  BY DEF Priced
<1> HIDE DEF Far
<1>6. \A k : k \in PriceOutlier(c) <=> \E agency \in Agency : Enough(agency) /\ k \in Far(agency)
  BY <1>1, <1>3
<1> QED
  BY <1>4, <1>5, <1>6

(***************************************************************************)
(* The sliding window of repeat_winner.                                    *)
(***************************************************************************)
IsAscending(ordered) ==
    \A m, n \in 1..Len(ordered) : m <= n => ordered[m] <= ordered[n]

Near(ordered, first, last) == ~OutOfWindow(ordered[first], ordered[last])

Start == [left |-> 1, best |-> 0]

IsWindow(ordered, window, n) ==
    window = [right \in 0..n |-> IF right = 0 THEN Start
                                 ELSE Slide(ordered, window[right - 1], right)]

LEMMA WindowExists ==
    ASSUME NEW ordered, NEW n \in Nat
    PROVE  \E window : IsWindow(ordered, window, n)
<1> DEFINE S == {k \in Nat : \E window : IsWindow(ordered, window, k)}
<1>1. 0 \in S
  <2>1. IsWindow(ordered, [right \in 0..0 |-> Start], 0)
    BY DEF IsWindow
  <2> QED
    BY <2>1
<1>2. ASSUME NEW k \in Nat, k \in S PROVE k + 1 \in S
  <2>1. PICK window : IsWindow(ordered, window, k)
    BY <1>2
  <2> DEFINE longer == [right \in 0..k + 1 |->
                 IF right <= k THEN window[right] ELSE Slide(ordered, window[k], k + 1)]
  <2>2. \A right \in 0..k : longer[right] = window[right]
    OBVIOUS
  <2>3. \A right \in 0..k : window[right] = IF right = 0 THEN Start
                                            ELSE Slide(ordered, window[right - 1], right)
    BY <2>1 DEF IsWindow
  <2>4. longer[k + 1] = Slide(ordered, window[k], k + 1)
    OBVIOUS
  <2>5. DOMAIN longer = 0..k + 1 /\ longer = [right \in 0..k + 1 |-> longer[right]]
    OBVIOUS
  <2> HIDE DEF longer
  <2>6. \A right \in 1..k : right - 1 \in 0..k
    OBVIOUS
  <2>7. \A right \in 0..k + 1 : longer[right] = IF right = 0 THEN Start
                                                ELSE Slide(ordered, longer[right - 1], right)
    <3>1. ASSUME NEW right \in 1..k PROVE longer[right] = Slide(ordered, longer[right - 1], right)
      BY <2>2, <2>3, <2>6
    <3>2. longer[0] = Start
      BY <2>2, <2>3
    <3>3. longer[k + 1] = Slide(ordered, longer[k + 1 - 1], k + 1)
      BY <2>2, <2>4
    <3>4. \A right \in 0..k + 1 : right = 0 \/ right \in 1..k \/ right = k + 1
      OBVIOUS
    <3> QED
      BY <3>1, <3>2, <3>3, <3>4
  <2>8. IsWindow(ordered, longer, k + 1)
    BY <2>5, <2>7 DEF IsWindow
  <2> QED
    BY <2>8
<1> HIDE DEF S
<1>3. Nat \subseteq S
  BY <1>1, <1>2, CountUp
<1> QED
  BY <1>3 DEF S

LEMMA ClusterIsBest ==
    ASSUME NEW ordered \in Seq(Int)
    PROVE  \E window : /\ IsWindow(ordered, window, Len(ordered))
                       /\ MaxClusterSize(ordered) = window[Len(ordered)].best
<1> DEFINE W == CHOOSE window : window = [right \in 0..Len(ordered) |->
                    IF right = 0 THEN [left |-> 1, best |-> 0]
                    ELSE Slide(ordered, window[right - 1], right)]
<1>1. \E window : window = [right \in 0..Len(ordered) |->
                    IF right = 0 THEN [left |-> 1, best |-> 0]
                    ELSE Slide(ordered, window[right - 1], right)]
  <2>1. PICK window : IsWindow(ordered, window, Len(ordered))
    <3>1. Len(ordered) \in Nat
      OBVIOUS
    <3> QED
      BY <3>1, WindowExists
  <2>2. window = [right \in 0..Len(ordered) |->
                    IF right = 0 THEN [left |-> 1, best |-> 0]
                    ELSE Slide(ordered, window[right - 1], right)]
    BY <2>1 DEF IsWindow, Start
  <2> QED
    BY <2>2
<1>2. IsWindow(ordered, W, Len(ordered))
  BY <1>1 DEF IsWindow, Start
<1>3. MaxClusterSize(ordered) = W[Len(ordered)].best
  BY DEF MaxClusterSize
<1> QED
  BY <1>2, <1>3

\* After n steps: left is where the dates near the nth begin, and best is the size
\* of the largest cluster among the first n.
SlidTo(ordered, window, n) ==
    /\ window.left \in 1..n + 1 /\ window.best \in Nat
    /\ n > 0 => window.left <= n
    /\ \A l \in 1..n : Near(ordered, l, n) <=> l >= window.left
    /\ \A first, last \in 1..n :
          first <= last /\ Near(ordered, first, last) => last - first + 1 <= window.best
    /\ window.best = 0 \/ \E first, last \in 1..n :
          /\ first <= last /\ Near(ordered, first, last)
          /\ last - first + 1 = window.best

LEMMA SlideOnce ==
    ASSUME NEW ordered \in Seq(Int), IsAscending(ordered), NEW window,
           NEW n \in Nat, n < Len(ordered), SlidTo(ordered, window, n)
    PROVE  SlidTo(ordered, Slide(ordered, window, n + 1), n + 1)
<1> DEFINE near == {l \in window.left .. n + 1 : Near(ordered, l, n + 1)}
           left == Min(near)
           best == Max({window.best, (n + 1) - left + 1})
<1>1. window.left \in 1..n + 1 /\ window.best \in Nat /\ RepeatWindowDays \in Nat
  BY AnomalyRulesAssumption DEF SlidTo
<1>2. \A l \in 1..n + 1 : ordered[l] \in Int
  OBVIOUS
<1>3. \A first, last \in 1..n + 1 :
         Near(ordered, first, last) <=> ordered[last] - ordered[first] <= RepeatWindowDays
  BY <1>1, <1>2 DEF Near, OutOfWindow
<1>4. Near(ordered, n + 1, n + 1)
  BY <1>1, <1>2, <1>3
<1>5. \A k, l \in 1..n + 1 : k <= l => ordered[k] <= ordered[l]
  BY DEF IsAscending
<1>6. near \in SUBSET Int /\ IsFiniteSet(near) /\ near # {}
  <2>1. IsFiniteSet(window.left .. n + 1)
    <3>1. window.left \in Int /\ n + 1 \in Int
      BY <1>1
    <3> QED
      BY <3>1, FS_Interval
  <2> QED
    BY <1>1, <1>4, <2>1, FS_Subset
<1>7. left \in near /\ \A l \in near : left <= l
  BY <1>6, MinOfFinite
<1>8. left \in window.left .. n + 1 /\ Near(ordered, left, n + 1)
  BY <1>7
<1>9. left \in 1..n + 1
  BY <1>1, <1>8
<1>10. best \in {window.best, (n + 1) - left + 1} /\ best >= window.best /\ best >= (n + 1) - left + 1
  <2>1. {window.best, (n + 1) - left + 1} \in SUBSET Int
    BY <1>1, <1>9
  <2>2. IsFiniteSet({window.best, (n + 1) - left + 1})
    <3>1. IsFiniteSet({} \cup {window.best})
      BY FS_EmptySet, FS_AddElement
    <3>2. IsFiniteSet(({} \cup {window.best}) \cup {(n + 1) - left + 1})
      BY <3>1, FS_AddElement
    <3>3. ({} \cup {window.best}) \cup {(n + 1) - left + 1} = {window.best, (n + 1) - left + 1}
      OBVIOUS
    <3> QED
      BY <3>2, <3>3
  <2>3. best \in {window.best, (n + 1) - left + 1} /\ \A x \in {window.best, (n + 1) - left + 1} : x <= best
    BY <2>1, <2>2, MaxOfFinite
  <2> HIDE DEF best, left
  <2> QED
    BY <1>1, <1>9, <2>1, <2>3
<1>11. Slide(ordered, window, n + 1).left = left /\ Slide(ordered, window, n + 1).best = best
  <2>1. Slide(ordered, window, n + 1) = [left |-> left, best |-> best]
    BY Zenon DEF Slide, Near
  <2> HIDE DEF left, best
  <2> QED
    BY <2>1
<1>12. ASSUME NEW l \in 1..n + 1 PROVE Near(ordered, l, n + 1) <=> l >= left
  <2>1. l >= left => Near(ordered, l, n + 1)
    <3>1. l >= left => ordered[left] <= ordered[l]
      BY <1>5, <1>9
    <3>2. ordered[n + 1] - ordered[left] <= RepeatWindowDays
      BY <1>3, <1>8, <1>9
    <3>3. ordered[l] \in Int /\ ordered[left] \in Int /\ ordered[n + 1] \in Int
      BY <1>2, <1>9
    <3>4. l >= left => ordered[n + 1] - ordered[l] <= RepeatWindowDays
      BY <1>1, <3>1, <3>2, <3>3
    <3> QED
      BY <1>3, <3>4
  <2>2. Near(ordered, l, n + 1) /\ l < window.left => FALSE
    <3> SUFFICES ASSUME Near(ordered, l, n + 1), l < window.left PROVE FALSE
      OBVIOUS
    <3>1. n > 0 /\ l \in 1..n /\ n \in 1..n + 1
      BY <1>1
    <3>2. ~Near(ordered, l, n)
      BY <1>1, <3>1 DEF SlidTo
    <3>3. ordered[n] <= ordered[n + 1] /\ ordered[n + 1] - ordered[l] <= RepeatWindowDays
      BY <1>3, <1>5, <3>1
    <3>4. ordered[n] - ordered[l] <= RepeatWindowDays
      BY <1>1, <1>2, <3>1, <3>3
    <3> QED
      BY <1>3, <3>1, <3>2, <3>4
  <2>3. Near(ordered, l, n + 1) /\ l >= window.left => l \in near
    BY <1>1
  <2> HIDE DEF near
  <2>4. Near(ordered, l, n + 1) => l >= left
    BY <1>1, <1>7, <1>9, <2>2, <2>3
  <2> QED
    BY <2>1, <2>4
<1> HIDE DEF near, left, best
<1>13. ASSUME NEW first \in 1..n + 1, NEW last \in 1..n + 1, first <= last, Near(ordered, first, last)
       PROVE  last - first + 1 <= best
  <2>1. CASE last = n + 1
    BY <1>1, <1>9, <1>10, <1>12, <1>13, <2>1
  <2>2. CASE last # n + 1
    <3>1. first \in 1..n /\ last \in 1..n
      BY <1>13, <2>2
    <3>2. last - first + 1 <= window.best
      BY <1>13, <3>1 DEF SlidTo
    <3> QED
      BY <1>1, <1>9, <1>10, <3>1, <3>2
  <2> QED
    BY <2>1, <2>2
<1>14. best = 0 \/ \E first, last \in 1..n + 1 :
          first <= last /\ Near(ordered, first, last) /\ last - first + 1 = best
  <2>1. CASE best = (n + 1) - left + 1
    BY <1>8, <1>9, <2>1
  <2>2. CASE best = window.best
    <3>1. 1..n \subseteq 1..n + 1
      OBVIOUS
    <3> QED
      BY <2>2, <3>1 DEF SlidTo
  <2> QED
    BY <1>10, <2>1, <2>2
<1>15. best \in Nat /\ left \in 1..n + 1 + 1 /\ left <= n + 1
  BY <1>1, <1>9, <1>10
<1> QED
  BY <1>11, <1>12, <1>13, <1>14, <1>15 DEF SlidTo

\* The cluster that _max_cluster_size counts is the largest whose dates are near
\* each other.
LEMMA ClusterIsWidest ==
    ASSUME NEW ordered \in Seq(Int), IsAscending(ordered)
    PROVE  /\ MaxClusterSize(ordered) \in Nat
           /\ \A first, last \in 1..Len(ordered) : first <= last /\ Near(ordered, first, last) =>
                 last - first + 1 <= MaxClusterSize(ordered)
           /\ MaxClusterSize(ordered) = 0 \/ \E first, last \in 1..Len(ordered) :
                 /\ first <= last /\ Near(ordered, first, last)
                 /\ last - first + 1 = MaxClusterSize(ordered)
<1>1. PICK window : /\ IsWindow(ordered, window, Len(ordered))
                    /\ MaxClusterSize(ordered) = window[Len(ordered)].best
  BY ClusterIsBest
<1> DEFINE S == {n \in Nat : n <= Len(ordered) => SlidTo(ordered, window[n], n)}
<1>2. 0 \in S
  <2>1. window[0] = Start
    BY <1>1 DEF IsWindow
  <2> QED
    BY <2>1 DEF SlidTo, Start
<1>3. ASSUME NEW n \in Nat, n \in S PROVE n + 1 \in S
  <2> SUFFICES ASSUME n + 1 <= Len(ordered) PROVE SlidTo(ordered, window[n + 1], n + 1)
    OBVIOUS
  <2>1. n < Len(ordered) /\ n + 1 \in 0..Len(ordered) /\ n + 1 # 0 /\ n + 1 - 1 = n
    OBVIOUS
  <2>2. window[n + 1] = Slide(ordered, window[n], n + 1)
    BY <1>1, <2>1 DEF IsWindow
  <2>3. SlidTo(ordered, window[n], n)
    BY <1>3, <2>1
  <2>4. SlidTo(ordered, Slide(ordered, window[n], n + 1), n + 1)
    BY <2>1, <2>3, SlideOnce
  <2> QED
    BY <2>2, <2>4
<1> HIDE DEF S
<1>4. Nat \subseteq S
  BY <1>2, <1>3, CountUp
<1>5. SlidTo(ordered, window[Len(ordered)], Len(ordered))
  BY <1>4 DEF S
<1> QED
  BY <1>1, <1>5 DEF SlidTo

InOneWindow(f, xs) == \A x, y \in xs : f[x] - f[y] <= RepeatWindowDays

LEMMA ClusterIsInWindow ==
    ASSUME NEW f, IsFinite(f), NEW size \in Nat \ {0}, MaxClusterSize(Ordered(f)) >= size
    PROVE  \E xs \in SUBSET DOMAIN f : Cardinality(xs) >= size /\ InOneWindow(f, xs)
<1> DEFINE ordered == Ordered(f)
           n == Cardinality(DOMAIN f)
<1>1. /\ ordered \in Seq(Int) /\ Len(ordered) = n /\ n \in Nat
      /\ \A k \in 1..n : ordered[k] \in Int /\ IsNth(f, k, ordered[k])
  BY OrderedIs
<1>2. IsAscending(ordered)
  BY <1>1, OrderedIsAscending DEF IsAscending
<1>3. MaxClusterSize(ordered) \in Nat \ {0}
  BY <1>1, <1>2, ClusterIsWidest
<1>4. PICK first \in 1..n, last \in 1..n :
         /\ first <= last /\ Near(ordered, first, last)
         /\ last - first + 1 = MaxClusterSize(ordered)
  BY <1>1, <1>2, <1>3, ClusterIsWidest
<1> DEFINE v == ordered[first]
           w == ordered[last]
           xs == UpTo(f, w) \ Under(f, v)
<1>5. v \in Int /\ w \in Int /\ IsNth(f, first, v) /\ IsNth(f, last, w) /\ v <= w
  BY <1>1, <1>2, <1>4 DEF IsAscending
<1>6. w - v <= RepeatWindowDays /\ RepeatWindowDays \in Nat
  BY <1>4, <1>5, AnomalyRulesAssumption DEF Near, OutOfWindow
<1>7. last - first + 1 >= size
  BY <1>4
<1> HIDE DEF v, w, ordered, n
<1>8. \A x \in DOMAIN f : f[x] \in Int
  BY DEF IsFinite
<1>9. /\ Under(f, v) \subseteq UpTo(f, w) /\ UpTo(f, w) \subseteq DOMAIN f
      /\ \A x \in xs : x \in DOMAIN f /\ v <= f[x] /\ f[x] <= w
  BY <1>5, <1>8 DEF Under, UpTo
<1>10. IsFiniteSet(UpTo(f, w))
  BY <1>9, FS_Subset DEF IsFinite
<1>11. Cardinality(xs) = Cardinality(UpTo(f, w)) - Cardinality(Under(f, v))
  <2>1. UpTo(f, w) \cap Under(f, v) = Under(f, v)
    BY <1>9
  <2> QED
    BY <1>10, <2>1, FS_Difference
<1>12. Cardinality(UpTo(f, w)) \in Nat /\ Cardinality(Under(f, v)) \in Nat
  BY <1>5, CountsOfValues
<1>13. Cardinality(xs) >= size
  <2>1. Cardinality(UpTo(f, w)) >= last /\ Cardinality(Under(f, v)) < first
    BY <1>5 DEF IsNth
  <2> QED
    BY <1>1, <1>4, <1>7, <1>11, <1>12, <2>1
<1>14. InOneWindow(f, xs)
  <2> SUFFICES ASSUME NEW x \in xs, NEW y \in xs PROVE f[x] - f[y] <= RepeatWindowDays
    BY DEF InOneWindow
  <2>1. f[x] \in Int /\ f[y] \in Int /\ f[x] <= w /\ v <= f[y]
    BY <1>8, <1>9
  <2> QED
    BY <1>5, <1>6, <2>1
<1> QED
  BY <1>9, <1>13, <1>14

LEMMA WindowIsInCluster ==
    ASSUME NEW f, IsFinite(f), NEW xs \in SUBSET DOMAIN f, xs # {}, InOneWindow(f, xs)
    PROVE  Cardinality(xs) <= MaxClusterSize(Ordered(f))
<1> DEFINE ordered == Ordered(f)
           n == Cardinality(DOMAIN f)
           dates == {f[x] : x \in xs}
<1>1. /\ ordered \in Seq(Int) /\ Len(ordered) = n /\ n \in Nat
      /\ \A k \in 1..n : ordered[k] \in Int /\ IsNth(f, k, ordered[k])
  BY OrderedIs
<1>2. IsAscending(ordered)
  BY <1>1, OrderedIsAscending DEF IsAscending
<1> HIDE DEF ordered
<1>3. \A x \in DOMAIN f : f[x] \in Int
  BY DEF IsFinite
<1>4. dates \in SUBSET Int /\ dates # {} /\ dates \subseteq Values(f)
  BY <1>3 DEF Values
<1>5. IsFiniteSet(dates) /\ IsFiniteSet(xs)
  <2>1. IsFiniteSet(xs)
    BY FS_Subset DEF IsFinite
  <2>2. [x \in xs |-> f[x]] \in Surjection(xs, dates)
    BY DEF Surjection
  <2> QED
    BY <2>1, <2>2, FS_Surjection
<1>6. PICK v \in dates : \A d \in dates : v <= d
  BY <1>4, <1>5, LeastOfFinite
<1>7. PICK w \in dates : \A d \in dates : d <= w
  BY <1>4, <1>5, GreatestOfFinite
<1>8. v \in Int /\ w \in Int /\ v <= w /\ v \in Values(f) /\ w \in Values(f)
  BY <1>4, <1>6
<1>9. w - v <= RepeatWindowDays
  BY DEF InOneWindow
<1>10. \A x \in xs : f[x] \in Int /\ v <= f[x] /\ f[x] <= w
  BY <1>3, <1>6, <1>7
<1> HIDE DEF dates
<1> DEFINE first == Cardinality(Under(f, v)) + 1
           last == Cardinality(UpTo(f, w))
<1>11. /\ Cardinality(Under(f, v)) \in Nat /\ Cardinality(UpTo(f, w)) \in Nat
       /\ Cardinality(UpTo(f, v)) \in Nat /\ Cardinality(Under(f, w)) \in Nat
       /\ Cardinality(Under(f, v)) < Cardinality(UpTo(f, v))
       /\ Cardinality(Under(f, w)) < Cardinality(UpTo(f, w))
       /\ Cardinality(UpTo(f, v)) <= Cardinality(UpTo(f, w))
       /\ Cardinality(UpTo(f, w)) <= n
  <2>1. /\ Cardinality(Under(f, v)) \in Nat /\ Cardinality(UpTo(f, v)) \in Nat
        /\ Cardinality(Under(f, v)) < Cardinality(UpTo(f, v))
        /\ Cardinality(UpTo(f, v)) <= Cardinality(UpTo(f, w))
    BY <1>8, CountsOfValues
  <2>2. /\ Cardinality(Under(f, w)) \in Nat /\ Cardinality(UpTo(f, w)) \in Nat
        /\ Cardinality(Under(f, w)) < Cardinality(UpTo(f, w))
        /\ Cardinality(UpTo(f, w)) <= n
    BY <1>8, CountsOfValues
  <2> QED
    BY <2>1, <2>2
<1>12. first \in 1..n /\ last \in 1..n /\ first <= last
  BY <1>1, <1>11
<1>13. IsNth(f, first, v) /\ IsNth(f, last, w)
  BY <1>11 DEF IsNth
<1> HIDE DEF first, last, n
<1>14. ordered[first] = v /\ ordered[last] = w
  <2>1. ordered[first] = v
    BY <1>1, <1>8, <1>12, <1>13, NthIsOne
  <2>2. ordered[last] = w
    BY <1>1, <1>8, <1>12, <1>13, NthIsOne
  <2> QED
    BY <2>1, <2>2
<1>15. Near(ordered, first, last)
  BY <1>8, <1>9, <1>14, AnomalyRulesAssumption DEF Near, OutOfWindow
<1>16. last - first + 1 <= MaxClusterSize(ordered) /\ MaxClusterSize(ordered) \in Nat
  BY <1>1, <1>2, <1>12, <1>15, ClusterIsWidest
<1>17. xs \subseteq UpTo(f, w) \ Under(f, v)
  BY <1>8, <1>10 DEF UpTo, Under
<1>18. Cardinality(UpTo(f, w) \ Under(f, v)) = last - (first - 1)
  <2>1. Under(f, v) \subseteq UpTo(f, w)
    BY <1>3, <1>8 DEF Under, UpTo
  <2>2. UpTo(f, w) \cap Under(f, v) = Under(f, v)
    BY <2>1
  <2>3. IsFiniteSet(UpTo(f, w))
    BY FS_Subset DEF UpTo, IsFinite
  <2>4. Cardinality(UpTo(f, w) \ Under(f, v)) = last - Cardinality(Under(f, v))
    BY <2>2, <2>3, FS_Difference DEF last
  <2>5. Cardinality(Under(f, v)) = first - 1
    BY <1>11 DEF first
  <2> QED
    BY <2>4, <2>5
<1>19. IsFiniteSet(UpTo(f, w) \ Under(f, v))
  BY FS_Subset DEF UpTo, IsFinite
<1>20. Cardinality(xs) <= last - (first - 1) /\ Cardinality(xs) \in Nat
  BY <1>17, <1>18, <1>19, PartIsSmaller
<1> QED
  BY <1>1, <1>12, <1>16, <1>20 DEF ordered

(***************************************************************************)
(* repeat_winner finds who won several times within one window.            *)
(***************************************************************************)
Dated(c, wins) == {a \in wins : c.awards[a].date # Missing}
Dates(c, wins) == [a \in Dated(c, wins) |-> c.awards[a].date]

AgainAndAgain(c, all) ==
    \E wins \in SUBSET all :
        /\ Cardinality(wins) >= RepeatMinAwards
        /\ WithinOneWindow(c, wins)
        /\ (\A a \in wins : c.awards[a].date = Missing) =>
              \A a \in all : c.awards[a].date = Missing

LEMMA ClusterIsAgain ==
    ASSUME NEW c, IsContext(c), NEW all \in SUBSET DOMAIN c.awards
    PROVE  ClusterSize(c, all) >= RepeatMinAwards <=> AgainAndAgain(c, all)
<1> DEFINE f == Dates(c, all)
<1>1. IsFiniteSet(all) /\ RepeatMinAwards \in Nat \ {0}
  BY ContextColumns, FS_Subset, AnomalyRulesAssumption DEF Tables
<1>2. \A a \in all : c.awards[a].date \in Maybe
  BY ContextColumns
<1>3. DOMAIN f = Dated(c, all) /\ \A a \in DOMAIN f : f[a] = c.awards[a].date
  BY DEF Dates
<1>4. IsFinite(f)
  <2>1. Dated(c, all) \in SUBSET all
    BY DEF Dated
  <2>2. IsFiniteSet(DOMAIN f)
    BY <1>1, <1>3, <2>1, FS_Subset
  <2>3. \A a \in Dated(c, all) : c.awards[a].date \in Int
    BY <1>2 DEF Dated, Maybe
  <2> QED
    BY <1>3, <2>2, <2>3 DEF IsFinite, Dates
<1>5. CASE Dated(c, all) = {}
  <2>1. ClusterSize(c, all) = Cardinality(all)
    BY <1>5 DEF ClusterSize, Dated
  <2>2. \A a \in all : c.awards[a].date = Missing
    BY <1>5 DEF Dated
  <2>3. ASSUME Cardinality(all) >= RepeatMinAwards PROVE AgainAndAgain(c, all)
    BY <2>2, <2>3 DEF AgainAndAgain, WithinOneWindow
  <2>4. ASSUME AgainAndAgain(c, all) PROVE Cardinality(all) >= RepeatMinAwards
    <3>1. PICK wins \in SUBSET all : Cardinality(wins) >= RepeatMinAwards
      BY <2>4 DEF AgainAndAgain
    <3> QED
      BY <1>1, <3>1, PartIsSmaller
  <2> QED
    BY <2>1, <2>3, <2>4
<1>6. CASE Dated(c, all) # {}
  <2>1. ClusterSize(c, all) = MaxClusterSize(Ordered(f))
    BY <1>6 DEF ClusterSize, Dated, Dates
  <2> HIDE DEF f
  <2>2. ASSUME MaxClusterSize(Ordered(f)) >= RepeatMinAwards PROVE AgainAndAgain(c, all)
    <3>1. PICK wins \in SUBSET DOMAIN f : Cardinality(wins) >= RepeatMinAwards /\ InOneWindow(f, wins)
      BY <1>1, <1>4, <2>2, ClusterIsInWindow
    <3>2. wins \in SUBSET all /\ \A a \in wins : f[a] = c.awards[a].date /\ c.awards[a].date # Missing
      BY <1>3 DEF Dated
    <3>3. WithinOneWindow(c, wins)
      BY <3>1, <3>2 DEF WithinOneWindow, InOneWindow
    <3>4. wins # {}
      <4>1. wins = {} => Cardinality(wins) = 0
        BY FS_EmptySet
      <4> QED
        BY <1>1, <3>1, <4>1
    <3> QED
      BY <3>1, <3>2, <3>3, <3>4 DEF AgainAndAgain
  <2>3. ASSUME AgainAndAgain(c, all) PROVE MaxClusterSize(Ordered(f)) >= RepeatMinAwards
    <3>1. PICK wins \in SUBSET all :
             /\ Cardinality(wins) >= RepeatMinAwards
             /\ WithinOneWindow(c, wins)
             /\ (\A a \in wins : c.awards[a].date = Missing) =>
                   \A a \in all : c.awards[a].date = Missing
      BY <2>3 DEF AgainAndAgain
    <3>2. ~(\A a \in wins : c.awards[a].date = Missing)
      BY <1>6, <3>1 DEF Dated
    <3>3. \A a, b \in wins : /\ Missing \notin {c.awards[a].date, c.awards[b].date}
                             /\ c.awards[a].date - c.awards[b].date <= RepeatWindowDays
      BY <3>1, <3>2 DEF WithinOneWindow
    <3>4. wins \in SUBSET DOMAIN f /\ wins # {}
      BY <1>3, <3>2, <3>3 DEF Dated
    <3>5. InOneWindow(f, wins)
      BY <1>3, <3>3, <3>4 DEF InOneWindow
    <3>6. Cardinality(wins) <= MaxClusterSize(Ordered(f))
      BY <1>4, <3>4, <3>5, WindowIsInCluster
    <3>7. MaxClusterSize(Ordered(f)) \in Nat /\ Cardinality(wins) \in Nat
      <4>1. Ordered(f) \in Seq(Int) /\ IsAscending(Ordered(f))
        BY <1>4, OrderedIs, OrderedIsAscending DEF IsAscending
      <4> QED
        BY <1>1, <4>1, ClusterIsWidest, PartIsSmaller
    <3> QED
      BY <1>1, <3>1, <3>6, <3>7
  <2> QED
    BY <2>1, <2>2, <2>3
<1> QED
  BY <1>5, <1>6

LEMMA RepeatWinnerIsAgain ==
    ASSUME NEW c, IsContext(c) PROVE RepeatWinner(c) = WinsAgainAndAgain(c)
<1>1. \A s, agency : Wins(c, s, agency) \in SUBSET DOMAIN c.awards
  BY DEF Wins
<1>2. \A s, agency : ClusterSize(c, Wins(c, s, agency)) >= RepeatMinAwards
                     <=> AgainAndAgain(c, Wins(c, s, agency))
  BY <1>1, ClusterIsAgain
<1>3. WinsAgainAndAgain(c) =
          {s \in Suppliers(c) : \E agency \in Agencies(c) : AgainAndAgain(c, Wins(c, s, agency))}
  BY DEF WinsAgainAndAgain, AgainAndAgain
<1> QED
  BY <1>2, <1>3 DEF RepeatWinner

(***************************************************************************)
(* budget_payment_mismatch finds what was paid beyond a budget.            *)
(***************************************************************************)
IsSum(g, c, S) ==
    g = [T \in SUBSET S |-> IF T = {} THEN 0
                            ELSE LET p == CHOOSE p \in T : TRUE
                                 IN  c.payments[p].amount + g[T \ {p}]]

LEMMA SumExists ==
    ASSUME NEW c, NEW S, IsFiniteSet(S), \A p \in S : c.payments[p].amount \in Int
    PROVE  \E g \in [SUBSET S -> Int] : IsSum(g, c, S)
<1> DEFINE Upto(n) == {T \in SUBSET S : Cardinality(T) <= n}
           last(T) == CHOOSE p \in T : TRUE
           Sums(g, n) == \A T \in Upto(n) :
               /\ g[T] \in Int
               /\ g[T] = IF T = {} THEN 0
                         ELSE c.payments[last(T)].amount + g[T \ {last(T)}]
           Reached == {n \in Nat : \E g : Sums(g, n)}
<1>1. \A T \in SUBSET S : IsFiniteSet(T) /\ Cardinality(T) \in Nat
  BY PartIsSmaller
<1>2. 0 \in Reached
  <2>1. \A T \in Upto(0) : T = {}
    BY <1>1, FS_EmptySet
  <2>2. Sums([T \in SUBSET S |-> 0], 0)
    BY <2>1
  <2> QED
    BY <2>2
<1>3. ASSUME NEW n \in Nat, n \in Reached PROVE n + 1 \in Reached
  <2>1. PICK g : Sums(g, n)
    BY <1>3
  <2> DEFINE h == [T \in SUBSET S |-> IF T = {} THEN 0
                                      ELSE c.payments[last(T)].amount + g[T \ {last(T)}]]
  <2>2. \A T \in Upto(n + 1) : T # {} =>
           /\ last(T) \in T /\ T \ {last(T)} \in Upto(n)
           /\ c.payments[last(T)].amount \in Int
    <3> SUFFICES ASSUME NEW T \in Upto(n + 1), T # {}
                 PROVE  /\ last(T) \in T /\ T \ {last(T)} \in Upto(n)
                        /\ c.payments[last(T)].amount \in Int
      OBVIOUS
    <3>1. last(T) \in T
      OBVIOUS
    <3>2. Cardinality(T \ {last(T)}) = Cardinality(T) - 1
      BY <1>1, <3>1, FS_RemoveElement
    <3>3. Cardinality(T \ {last(T)}) <= n
      BY <1>1, <3>2
    <3> QED
      BY <3>1, <3>3
  <2>3. \A T \in Upto(n) : h[T] = g[T]
    <3> HIDE DEF h
    <3> SUFFICES ASSUME NEW T \in Upto(n) PROVE h[T] = g[T]
      OBVIOUS
    <3>1. h[T] = IF T = {} THEN 0 ELSE c.payments[last(T)].amount + g[T \ {last(T)}]
      BY DEF h
    <3> QED
      BY <2>1, <3>1
  <2> HIDE DEF last
  <2>4. \A T \in Upto(n + 1) : h[T] = IF T = {} THEN 0
                                      ELSE c.payments[last(T)].amount + g[T \ {last(T)}]
    OBVIOUS
  <2> HIDE DEF h
  <2>5. \A T \in Upto(n + 1) : /\ h[T] \in Int
                               /\ h[T] = IF T = {} THEN 0
                                         ELSE c.payments[last(T)].amount + h[T \ {last(T)}]
    <3> SUFFICES ASSUME NEW T \in Upto(n + 1)
                 PROVE  /\ h[T] \in Int
                        /\ h[T] = IF T = {} THEN 0
                                  ELSE c.payments[last(T)].amount + h[T \ {last(T)}]
      OBVIOUS
    <3>1. CASE T = {}
      BY <2>4, <3>1
    <3>2. CASE T # {}
      <4>1. T \ {last(T)} \in Upto(n) /\ c.payments[last(T)].amount \in Int
        BY <2>2, <3>2
      <4>2. h[T \ {last(T)}] = g[T \ {last(T)}] /\ g[T \ {last(T)}] \in Int
        BY <2>1, <2>3, <4>1
      <4>3. h[T] = c.payments[last(T)].amount + g[T \ {last(T)}]
        BY <2>4, <3>2
      <4>4. h[T] = c.payments[last(T)].amount + h[T \ {last(T)}]
        BY <4>2, <4>3
      <4>5. h[T] \in Int
        BY <4>1, <4>2, <4>3
      <4> QED
        BY <3>2, <4>4, <4>5
    <3> QED
      BY <3>1, <3>2
  <2>6. Sums(h, n + 1)
    BY <2>5
  <2> HIDE DEF Sums
  <2>7. \E i : Sums(i, n + 1)
    BY <2>6
  <2> QED
    BY <2>7
<1> HIDE DEF Reached
<1>4. Cardinality(S) \in Reached
  BY <1>1, <1>2, <1>3, CountUp
<1>5. PICK g : Sums(g, Cardinality(S))
  BY <1>4 DEF Reached
<1>6. Upto(Cardinality(S)) = SUBSET S
  BY PartIsSmaller
<1> DEFINE h == [T \in SUBSET S |-> g[T]]
<1>7. h \in [SUBSET S -> Int]
  BY <1>5, <1>6
<1>8. IsSum(h, c, S)
  <2>1. \A T \in SUBSET S : T # {} => T \ {CHOOSE p \in T : TRUE} \in SUBSET S
    OBVIOUS
  <2> QED
    BY <1>5, <1>6, <2>1 DEF IsSum
<1> QED
  BY <1>7, <1>8

Payments(c, agency, year) ==
    {p \in DOMAIN c.payments :
        /\ c.payments[p].agency = agency /\ c.payments[p].year = year
        /\ c.payments[p].ngn}

LEMMA PaidIsNumber ==
    ASSUME NEW c, IsContext(c), NEW agency, NEW year PROVE Paid(c, agency, year) \in Int
<1> DEFINE S == Payments(c, agency, year)
           G == CHOOSE g : g = [T \in SUBSET S |-> IF T = {} THEN 0
                                   ELSE LET p == CHOOSE p \in T : TRUE
                                        IN  c.payments[p].amount + g[T \ {p}]]
<1>1. IsFiniteSet(S) /\ \A p \in S : c.payments[p].amount \in Int
  BY ContextColumns, FS_Subset DEF Payments, Tables
<1>2. PICK g \in [SUBSET S -> Int] : IsSum(g, c, S)
  BY <1>1, SumExists
<1>3. G = [T \in SUBSET S |-> IF T = {} THEN 0
                              ELSE LET p == CHOOSE p \in T : TRUE
                                   IN  c.payments[p].amount + G[T \ {p}]]
  BY <1>2, Zenon DEF IsSum
<1>4. Paid(c, agency, year) = G[S]
  BY DEF Paid, MapThenSumSet, MapThenFoldSet, Payments
<1> HIDE DEF G, S
<1>5. IsSum(G, c, S)
  BY <1>3 DEF IsSum
<1> DEFINE Good == {n \in Nat : \A T \in SUBSET S : Cardinality(T) <= n => G[T] \in Int}
<1>6. \A T \in SUBSET S : IsFiniteSet(T) /\ Cardinality(T) \in Nat
  BY <1>1, PartIsSmaller
<1>7. 0 \in Good
  BY <1>5, <1>6, FS_EmptySet DEF IsSum
<1>8. ASSUME NEW n \in Nat, n \in Good PROVE n + 1 \in Good
  <2> SUFFICES ASSUME NEW T \in SUBSET S, Cardinality(T) <= n + 1 PROVE G[T] \in Int
    OBVIOUS
  <2>1. CASE T = {}
    BY <1>5, <2>1 DEF IsSum
  <2>2. CASE T # {}
    <3> DEFINE p == CHOOSE p \in T : TRUE
    <3>1. p \in T
      BY <2>2
    <3>2. G[T] = c.payments[p].amount + G[T \ {p}]
      BY <1>5, <2>2 DEF IsSum
    <3> HIDE DEF p
    <3>3. Cardinality(T \ {p}) = Cardinality(T) - 1 /\ T \ {p} \in SUBSET S
      BY <1>6, <3>1, FS_RemoveElement
    <3>4. Cardinality(T \ {p}) <= n
      BY <1>6, <3>3
    <3>5. G[T \ {p}] \in Int
      BY <1>8, <3>3, <3>4
    <3> QED
      BY <1>1, <3>1, <3>2, <3>5
  <2> QED
    BY <2>1, <2>2
<1> HIDE DEF Good
<1>9. Cardinality(S) \in Good
  BY <1>6, <1>7, <1>8, CountUp
<1>10. G[S] \in Int
  BY <1>6, <1>9 DEF Good
<1> QED
  BY <1>4, <1>10

LEMMA LimitIsExact ==
    ASSUME NEW paid \in Int, NEW cap \in Int
    PROVE  paid > Limit(cap) <=> 100 * paid > cap * (100 + TolerancePercent)
<1> DEFINE x == cap * (100 + TolerancePercent)
<1>1. x \in Int
  BY AnomalyRulesAssumption
<1>2. Limit(cap) = x \div 100
  BY DEF Limit
<1> HIDE DEF x
<1>3. paid > x \div 100 <=> 100 * paid > x
  BY <1>1
<1> QED
  BY <1>2, <1>3 DEF x

LEMMA MismatchIsBeyond ==
    ASSUME NEW c, IsContext(c) PROVE BudgetPaymentMismatch(c) = PaidBeyondBudget(c)
<1> SUFFICES ASSUME NEW n \in DOMAIN c.lines
             PROVE  n \in BudgetPaymentMismatch(c) <=> n \in PaidBeyondBudget(c)
  BY DEF BudgetPaymentMismatch, PaidBeyondBudget
<1> DEFINE line == c.lines[n]
           paid == Paid(c, line.agency, line.year)
           excess(cap) == 100 * paid > cap * (100 + TolerancePercent)
<1>1. paid \in Int /\ line.utilised \in Maybe /\ line.allocated \in Maybe
  BY PaidIsNumber, ContextColumns
<1>2. n \in BudgetPaymentMismatch(c) <=>
         line.ngn /\ Cap(line) # Missing /\ paid > 0 /\ paid > Limit(Cap(line))
  BY DEF BudgetPaymentMismatch
<1>3. n \in PaidBeyondBudget(c) <=>
         /\ line.ngn /\ paid > 0
         /\ \/ line.utilised # Missing /\ excess(line.utilised)
            \/ line.utilised = Missing /\ line.allocated # Missing /\ excess(line.allocated)
  BY DEF PaidBeyondBudget
<1> HIDE DEF paid, line
<1>4. CASE line.utilised # Missing
  <2>1. Cap(line) = line.utilised /\ line.utilised \in Int
    BY <1>1, <1>4 DEF Cap, Maybe
  <2>2. paid > Limit(Cap(line)) <=> excess(line.utilised)
    BY <1>1, <2>1, LimitIsExact
  <2> HIDE DEF excess
  <2> QED
    BY <1>2, <1>3, <1>4, <2>1, <2>2
<1>5. CASE line.utilised = Missing /\ line.allocated # Missing
  <2>1. Cap(line) = line.allocated /\ line.allocated \in Int
    BY <1>1, <1>5 DEF Cap, Maybe
  <2>2. paid > Limit(Cap(line)) <=> excess(line.allocated)
    BY <1>1, <2>1, LimitIsExact
  <2> HIDE DEF excess
  <2> QED
    BY <1>2, <1>3, <1>5, <2>1, <2>2
<1>6. CASE line.utilised = Missing /\ line.allocated = Missing
  <2> HIDE DEF excess
  <2> QED
    BY <1>2, <1>3, <1>6 DEF Cap
<1> QED
  BY <1>4, <1>5, <1>6

\* production_rules() drafts, from a context with the columns of the schema, what
\* spec 0018 words: sorting and taking middles finds the median, the sliding window
\* finds every cluster, and int() of the limit loses no payment beyond it.
THEOREM RulesAreAsSpecified ==
    ASSUME NEW c, IsContext(c) PROVE Drafts(c) = Warranted(c)
BY RepeatWinnerIsAgain, PriceOutlierIsFar, MismatchIsBeyond DEF Drafts, Warranted

(***************************************************************************)
(* Where the tables of a context agree, so do the rules that read them.    *)
(***************************************************************************)
JoiningRules == {"single_bidder", "repeat_winner"}

TableOf == [short_window |-> "tenders", threshold_hugging |-> "awards",
            shared_address |-> "parties", price_outlier |-> "contracts",
            budget_payment_mismatch |-> "lines"]

LEMMA DraftsByRule ==
    ASSUME NEW c, NEW k, k \in RuleIds \X Ids
    PROVE  k \in Drafts(c) <=>
              \/ k[1] = "single_bidder" /\ k[2] \in SingleBidder(c)
              \/ k[1] = "short_window" /\ k[2] \in ShortWindow(c)
              \/ k[1] = "threshold_hugging" /\ k[2] \in ThresholdHugging(c)
              \/ k[1] = "repeat_winner" /\ k[2] \in RepeatWinner(c)
              \/ k[1] = "shared_address" /\ k[2] \in SharedAddress(c)
              \/ k[1] = "price_outlier" /\ k[2] \in PriceOutlier(c)
              \/ k[1] = "budget_payment_mismatch" /\ k[2] \in BudgetPaymentMismatch(c)
BY DEF Drafts

LEMMA RuleReadsItsTable ==
    ASSUME NEW c, NEW d, NEW k, k \in RuleIds \X Ids, k[1] \notin JoiningRules,
           c[TableOf[k[1]]] = d[TableOf[k[1]]], c.payments = d.payments
    PROVE  k \in Drafts(c) <=> k \in Drafts(d)
<1>1. CASE k[1] = "short_window"
  <2>1. c.tenders = d.tenders
    BY <1>1 DEF TableOf
  <2>2. ShortWindow(c) = ShortWindow(d)
    BY <2>1 DEF ShortWindow
  <2> QED
    BY <1>1, <2>2, DraftsByRule
<1>2. CASE k[1] = "threshold_hugging"
  <2>1. c.awards = d.awards
    BY <1>2 DEF TableOf
  <2>2. ThresholdHugging(c) = ThresholdHugging(d)
    BY <2>1 DEF ThresholdHugging
  <2> QED
    BY <1>2, <2>2, DraftsByRule
<1>3. CASE k[1] = "shared_address"
  <2>1. c.parties = d.parties
    BY <1>3 DEF TableOf
  <2>2. SharedAddress(c) = SharedAddress(d)
    BY <2>1 DEF SharedAddress, Located
  <2> QED
    BY <1>3, <2>2, DraftsByRule
<1>4. CASE k[1] = "price_outlier"
  <2>1. c.contracts = d.contracts
    BY <1>4 DEF TableOf
  <2>2. \A agency : Priced(c, agency) = Priced(d, agency)
    BY <2>1 DEF Priced
  <2>3. PriceOutlier(c) = PriceOutlier(d)
    BY <2>1, <2>2 DEF PriceOutlier
  <2> QED
    BY <1>4, <2>3, DraftsByRule
<1>5. CASE k[1] = "budget_payment_mismatch"
  <2>1. c.lines = d.lines
    BY <1>5 DEF TableOf
  <2>2. \A agency, year : Paid(c, agency, year) = Paid(d, agency, year)
    BY DEF Paid
  <2>3. BudgetPaymentMismatch(c) = BudgetPaymentMismatch(d)
    BY <2>1, <2>2 DEF BudgetPaymentMismatch
  <2> QED
    BY <1>5, <2>3, DraftsByRule
<1> QED
  BY <1>1, <1>2, <1>3, <1>4, <1>5 DEF RuleIds, JoiningRules

(***************************************************************************)
(* What a ledger warrants is what the rules draft when every SELECT sees   *)
(* it.                                                                     *)
(***************************************************************************)
ViewOf(n) == [table \in Tables |-> n]

LEMMA WarrantedIsDrafted ==
    ASSUME LedgerInv, NEW n \in 1..Len(versions)
    PROVE  WarrantedIn(n) = Drafts(LoadRuleContext(ViewOf(n)))
<1> DEFINE c == LoadRuleContext(ViewOf(n))
           d == [versions[n] EXCEPT !.parties = [p \in {q \in DOMAIN @ : ~@[q].merged} |-> @[p]]]
<1>1. DOMAIN versions[n] = Tables /\ HasRows(versions[n])
  BY DEF LedgerInv
<1>2. c = [table \in Tables |->
             [id \in Selected(table, versions[n][table]) |-> versions[n][table][id]]]
  BY DEF LoadRuleContext, ViewOf
<1>3. d = [table \in Tables |-> IF table = "parties"
             THEN [p \in {q \in DOMAIN versions[n].parties : ~versions[n].parties[q].merged}
                     |-> versions[n].parties[p]]
             ELSE versions[n][table]]
  BY <1>1 DEF Tables
<1> HIDE DEF c, d
<1>4. ASSUME NEW table \in Tables PROVE c[table] = d[table]
  <2>1. CASE table = "parties"
    <3>1. c[table] = [id \in {q \in DOMAIN versions[n].parties : ~versions[n].parties[q].merged}
                        |-> versions[n].parties[id]]
      BY <1>2, <2>1 DEF Selected
    <3> QED
      BY <1>3, <2>1, <3>1
  <2>2. CASE table # "parties"
    <3>1. c[table] = [id \in DOMAIN versions[n][table] |-> versions[n][table][id]]
      BY <1>2, <2>2 DEF Selected
    <3>2. versions[n][table] \in [DOMAIN versions[n][table] -> Columns[table]]
      BY <1>1 DEF HasRows
    <3>3. versions[n][table] = [id \in DOMAIN versions[n][table] |-> versions[n][table][id]]
      BY <3>2
    <3> QED
      BY <1>3, <2>2, <3>1, <3>3
  <2> QED
    BY <2>1, <2>2
<1>5. c = d
  <2>1. c = [table \in Tables |-> c[table]]
    BY <1>2
  <2>2. d = [table \in Tables |-> d[table]]
    BY <1>3
  <2> QED
    BY <1>4, <2>1, <2>2
<1>6. IsContext(c)
  <2>1. ASSUME NEW table \in Tables
        PROVE  DOMAIN c[table] \subseteq Ids /\ c[table] \in [DOMAIN c[table] -> Columns[table]]
    <3> DEFINE rows == versions[n][table]
    <3>1. DOMAIN rows \subseteq Ids /\ rows \in [DOMAIN rows -> Columns[table]]
      BY <1>1 DEF HasRows
    <3>2. c[table] = [id \in Selected(table, rows) |-> rows[id]]
      BY <1>2
    <3> HIDE DEF rows
    <3>3. Selected(table, rows) \subseteq DOMAIN rows
      BY DEF Selected
    <3> QED
      BY <3>1, <3>2, <3>3
  <2>2. DOMAIN c = Tables
    BY <1>2
  <2> QED
    BY <2>1, <2>2 DEF IsContext, HasRows
<1>7. WarrantedIn(n) = Warranted(d)
  BY DEF WarrantedIn, d
<1> QED
  BY <1>5, <1>6, <1>7, RulesAreAsSpecified DEF c

(***************************************************************************)
(* What a run has in hand is what the rules drafted from the ledgers that  *)
(* its SELECTs saw, less what a reviewer had decided.                      *)
(***************************************************************************)
PaymentsStay ==
    \A m, n \in 1..Len(versions) : versions[m].payments = versions[n].payments

SpansAreLedgers ==
    \A r \in DOMAIN context :
        /\ context[r] \in [first : 1..Len(versions), last : 1..Len(versions)]
        /\ context[r].first <= context[r].last

InHand(r) == run[r].todo \cup KeysWritten(r)

RunIsOf(r, view) ==
    /\ InHand(r) \subseteq Drafts(LoadRuleContext(view))
    /\ \A k \in Drafts(LoadRuleContext(view)) : k \in InHand(r) \/ StickyRows(k) # {}

RunsHaveViews ==
    \A r \in DOMAIN run :
        /\ r \in DOMAIN context
        /\ \E view \in [Tables -> context[r].first .. context[r].last] : RunIsOf(r, view)

HistoryInv == LedgerInv /\ FlagInv /\ PaymentsStay /\ SpansAreLedgers /\ RunsHaveViews

LEMMA ViewWarrants ==
    ASSUME LedgerInv, PaymentsStay, NEW first \in 1..Len(versions),
           NEW last \in first .. Len(versions), NEW view \in [Tables -> first .. last],
           NEW k \in Keys, first = last \/ k[1] \notin JoiningRules
    PROVE  \E n \in first .. last : k \in Drafts(LoadRuleContext(view)) <=> k \in WarrantedIn(n)
<1>1. k \in RuleIds \X Ids
  BY AnomalyRunAssumption
<1>2. \A n \in first .. last : n \in 1..Len(versions)
  BY DEF LedgerInv
<1>3. CASE first = last
  <2>1. \A table \in Tables : view[table] = first
    BY <1>3
  <2>2. view = ViewOf(first)
    BY <2>1 DEF ViewOf
  <2> QED
    BY <1>2, <2>2, WarrantedIsDrafted
<1>4. CASE k[1] \notin JoiningRules
  <2> DEFINE table == TableOf[k[1]]
             n == view[table]
  <2>1. table \in Tables /\ "payments" \in Tables
    <3>1. k[1] \in RuleIds \ JoiningRules
      BY <1>1, <1>4
    <3> QED
      BY <3>1 DEF TableOf, Tables, RuleIds, JoiningRules
  <2> HIDE DEF table
  <2>2. n \in first .. last /\ view["payments"] \in first .. last
    BY <2>1
  <2>3. ViewOf(n)[table] = n /\ ViewOf(n)["payments"] = n
    BY <2>1 DEF ViewOf
  <2>4. versions[view["payments"]].payments = versions[n].payments
    BY <1>2, <2>2 DEF PaymentsStay
  <2>5. LoadRuleContext(view)[table] = LoadRuleContext(ViewOf(n))[table]
    BY <2>1, <2>3 DEF LoadRuleContext
  <2>6. LoadRuleContext(view).payments = LoadRuleContext(ViewOf(n)).payments
    BY <2>1, <2>3, <2>4 DEF LoadRuleContext
  <2> HIDE DEF n
  <2>7. k \in Drafts(LoadRuleContext(view)) <=> k \in Drafts(LoadRuleContext(ViewOf(n)))
    BY <1>1, <1>4, <2>5, <2>6, RuleReadsItsTable DEF table
  <2> QED
    BY <1>2, <2>2, <2>7, WarrantedIsDrafted
<1> QED
  BY <1>3, <1>4

LEMMA HistoryInit == RunInit => HistoryInv
<1> SUFFICES ASSUME RunInit PROVE HistoryInv
  OBVIOUS
<1>1. LedgerInv /\ FlagInv
  BY LedgerInit, InitInv DEF RunInit
<1>2. DOMAIN context = {} /\ DOMAIN run = {}
  BY DEF RunInit, Init
<1>3. PaymentsStay
  <2>1. Len(versions) = 1
    BY DEF RunInit
  <2> QED
    BY <2>1 DEF PaymentsStay
<1> QED
  BY <1>1, <1>2, <1>3 DEF HistoryInv, SpansAreLedgers, RunsHaveViews

\* What a reviewer decided stays decided.
LEMMA DecidedStays ==
    ASSUME FlagInv, [Next]_vars, NEW k, StickyRows(k) # {}
    PROVE  StickyRows(k)' # {}
<1>1. PICK f \in DOMAIN flags : flags[f].key = k /\ flags[f].status \in Reviewed
  BY DEF StickyRows, FlagsOf
<1>2. f \in DOMAIN flags' /\ flags'[f] = flags[f]
  BY <1>1, ReviewedStays
<1>3. f \in StickyRows(k)'
  BY <1>1, <1>2 DEF StickyRows, FlagsOf
<1> QED
  BY <1>3

\* Ledgers that were committed stay as they are.
LEMMA LedgersStay ==
    ASSUME LedgerInv, [RunNext]_runVars
    PROVE  /\ Len(versions') \in Nat /\ Len(versions') >= Len(versions)
           /\ \A n \in 1..Len(versions) : versions'[n] = versions[n]
<1>1. CASE CommitLoad
  <2>1. PICK load \in loads : versions' = Append(versions, Loaded(load))
    BY <1>1 DEF CommitLoad
  <2>2. PICK S : versions \in Seq(S)
    BY DEF LedgerInv
  <2>3. versions \in Seq(S \cup {Loaded(load)})
    BY <2>2
  <2> QED
    BY <2>1, <2>3, AppendProperties
<1>2. CASE UNCHANGED versions
  BY <1>2 DEF LedgerInv
<1>3. CommitLoad \/ UNCHANGED versions
  BY DEF RunNext, runVars, ledgerVars, BeginRun, Evaluate, EndRun
<1> QED
  BY <1>1, <1>2, <1>3

LEMMA PaymentsStayNext ==
    ASSUME LedgerInv, PaymentsStay, [RunNext]_runVars PROVE PaymentsStay'
<1>1. CASE CommitLoad
  <2>1. PICK load \in loads : versions' = Append(versions, Loaded(load))
    BY <1>1 DEF CommitLoad
  <2>2. PICK S : versions \in Seq(S)
    BY DEF LedgerInv
  <2>3. versions \in Seq(S \cup {Loaded(load)})
    BY <2>2
  <2>4. /\ Len(versions') = Len(versions) + 1
        /\ \A n \in 1..Len(versions) : versions'[n] = versions[n]
        /\ versions'[Len(versions) + 1] = Loaded(load)
    BY <2>1, <2>3, AppendProperties
  <2>5. Loaded(load).payments = versions[Len(versions)].payments
    BY DEF Loaded, LedgerInv, IsLoad, Tables, Ledger
  <2>6. Len(versions) \in 1..Len(versions)
    BY DEF LedgerInv
  <2>7. \A n \in 1..Len(versions') : versions'[n].payments = versions[Len(versions)].payments
    BY <2>4, <2>5, <2>6 DEF PaymentsStay
  <2> QED
    BY <2>7 DEF PaymentsStay
<1>2. CASE UNCHANGED versions
  BY <1>2 DEF PaymentsStay
<1>3. CommitLoad \/ UNCHANGED versions
  BY DEF RunNext, runVars, ledgerVars, BeginRun, Evaluate, EndRun
<1> QED
  BY <1>1, <1>2, <1>3

LEMMA SpansNext ==
    ASSUME LedgerInv, SpansAreLedgers, [RunNext]_runVars PROVE SpansAreLedgers'
<1>1. Len(versions') \in Nat /\ Len(versions') >= Len(versions) /\ Len(versions) \in Nat \ {0}
  BY LedgersStay DEF LedgerInv
<1>2. ASSUME NEW r \in DOMAIN context
      PROVE  /\ context[r] \in [first : 1..Len(versions'), last : 1..Len(versions')]
             /\ context[r].first <= context[r].last
             /\ context[r].first <= Len(versions) /\ Len(versions) \in 1..Len(versions')
  <2>1. 1..Len(versions) \subseteq 1..Len(versions') /\ Len(versions) \in 1..Len(versions')
    BY <1>1
  <2>2. /\ context[r] \in [first : 1..Len(versions), last : 1..Len(versions)]
        /\ context[r].first <= context[r].last
    BY DEF SpansAreLedgers
  <2>3. context[r].first \in 1..Len(versions)
    BY <2>2
  <2> QED
    BY <1>1, <2>1, <2>2, <2>3
<1>3. ASSUME NEW r \in Runners, BeginRun(r) PROVE SpansAreLedgers'
  <2>1. context' = Put(context, r, [first |-> Len(versions), last |-> Len(versions)])
    BY <1>3 DEF BeginRun
  <2> SUFFICES ASSUME NEW q \in DOMAIN context'
               PROVE  /\ context'[q] \in [first : 1..Len(versions'), last : 1..Len(versions')]
                      /\ context'[q].first <= context'[q].last
    BY DEF SpansAreLedgers
  <2>2. CASE q = r
    <3>1. context'[q] = [first |-> Len(versions), last |-> Len(versions)]
      BY <2>1, <2>2 DEF Put
    <3> QED
      BY <1>1, <3>1
  <2>3. CASE q # r
    <3>1. q \in DOMAIN context /\ context'[q] = context[q]
      BY <2>1, <2>3 DEF Put
    <3> QED
      BY <1>2, <3>1
  <2> QED
    BY <2>2, <2>3
<1>4. ASSUME NEW r \in Runners, Evaluate(r) PROVE SpansAreLedgers'
  <2>1. context' = [context EXCEPT ![r].last = Len(versions)]
    BY <1>4 DEF Evaluate
  <2> SUFFICES ASSUME NEW q \in DOMAIN context'
               PROVE  /\ context'[q] \in [first : 1..Len(versions'), last : 1..Len(versions')]
                      /\ context'[q].first <= context'[q].last
    BY DEF SpansAreLedgers
  <2>2. q \in DOMAIN context
    BY <2>1
  <2>3. CASE q = r
    <3>1. context'[q] = [context[q] EXCEPT !.last = Len(versions)]
      BY <2>1, <2>2, <2>3
    <3> QED
      BY <1>2, <2>2, <3>1
  <2>4. CASE q # r
    <3>1. context'[q] = context[q]
      BY <2>1, <2>2, <2>4
    <3> QED
      BY <1>2, <2>2, <3>1
  <2> QED
    BY <2>3, <2>4
<1>5. ASSUME NEW r \in Runners, EndRun(r) PROVE SpansAreLedgers'
  <2>1. \A q \in DOMAIN context' : q \in DOMAIN context /\ context'[q] = context[q]
    BY <1>5 DEF EndRun, Drop
  <2> QED
    BY <1>2, <2>1 DEF SpansAreLedgers
<1>6. CASE UNCHANGED context
  BY <1>2, <1>6 DEF SpansAreLedgers
<1> QED
  BY <1>3, <1>4, <1>5, <1>6 DEF RunNext, CommitLoad, runVars

LEMMA ViewsStay ==
    ASSUME LedgerInv, SpansAreLedgers, [RunNext]_runVars, NEW r \in DOMAIN context,
           NEW view \in [Tables -> context[r].first .. context[r].last]
    PROVE  LoadRuleContext(view)' = LoadRuleContext(view)
<1>1. \A table \in Tables : view[table] \in 1..Len(versions)
  BY DEF SpansAreLedgers, LedgerInv
<1>2. \A table \in Tables : versions'[view[table]] = versions[view[table]]
  BY <1>1, LedgersStay
<1> QED
  BY <1>2 DEF LoadRuleContext

\* A run that does not move keeps its view.
LEMMA ViewIsKept ==
    ASSUME HistoryInv, [RunNext]_runVars, [Next]_vars, NEW r \in DOMAIN run,
           run'[r] = run[r], r \in DOMAIN context', context'[r] = context[r]
    PROVE  /\ r \in DOMAIN context'
           /\ \E view \in [Tables -> context'[r].first .. context'[r].last] : RunIsOf(r, view)'
<1>1. PICK view \in [Tables -> context[r].first .. context[r].last] : RunIsOf(r, view)
  BY DEF HistoryInv, RunsHaveViews
<1>2. LoadRuleContext(view)' = LoadRuleContext(view)
  BY ViewsStay DEF HistoryInv, RunsHaveViews
<1>3. InHand(r)' = InHand(r)
  BY DEF InHand, KeysWritten, Written
<1>4. \A k : StickyRows(k) # {} => StickyRows(k)' # {}
  BY DecidedStays DEF HistoryInv
<1>5. RunIsOf(r, view)'
  BY <1>1, <1>2, <1>3, <1>4 DEF RunIsOf
<1> QED
  BY <1>5

\* A run that looks up or upserts takes a key out of its drafts only when it is
\* written or decided.
LEMMA LookUpKeepsView ==
    ASSUME HistoryInv, NEW r \in Runners, LookUpSticky(r), UNCHANGED <<ledgerVars, context>>
    PROVE  \E view \in [Tables -> context'[r].first .. context'[r].last] : RunIsOf(r, view)'
<1>1. r \in DOMAIN run /\ UNCHANGED flags
  BY DEF LookUpSticky
<1>2. PICK view \in [Tables -> context[r].first .. context[r].last] : RunIsOf(r, view)
  BY <1>1 DEF HistoryInv, RunsHaveViews
<1>3. LoadRuleContext(view)' = LoadRuleContext(view)
  BY DEF LoadRuleContext, ledgerVars
<1>4. \A k : StickyRows(k)' = StickyRows(k)
  BY <1>1 DEF StickyRows, FlagsOf
<1>5. run \in [DOMAIN run -> RunRows]
  BY DEF HistoryInv, FlagInv
<1>6. PICK k \in run[r].todo :
         \/ run' = [run EXCEPT ![r].checked = k]
         \/ /\ StickyRows(k) # {}
            /\ \E f : run' = [run EXCEPT ![r].todo = @ \ {k}, ![r].held = @ \cup {f}]
  BY DEF LookUpSticky
<1>7. /\ run'[r].wrote = run[r].wrote
      /\ \/ run'[r].todo = run[r].todo
         \/ StickyRows(k) # {} /\ run'[r].todo = run[r].todo \ {k}
  <2>1. CASE run' = [run EXCEPT ![r].checked = k]
    BY <1>1, <1>5, <2>1 DEF RunRows
  <2>2. ASSUME StickyRows(k) # {}, NEW f,
               run' = [run EXCEPT ![r].todo = @ \ {k}, ![r].held = @ \cup {f}]
        PROVE  run'[r].wrote = run[r].wrote /\ run'[r].todo = run[r].todo \ {k}
    BY <1>1, <1>5, <2>2 DEF RunRows
  <2> QED
    BY <1>6, <2>1, <2>2
<1>8. KeysWritten(r)' = KeysWritten(r)
  BY <1>7 DEF KeysWritten, Written
<1>9. InHand(r)' \subseteq InHand(r) /\ \A x \in InHand(r) : x \in InHand(r)' \/ StickyRows(x) # {}
  BY <1>7, <1>8 DEF InHand
<1>10. RunIsOf(r, view)'
  BY <1>2, <1>3, <1>4, <1>9 DEF RunIsOf
<1> QED
  BY <1>10

LEMMA UpsertKeepsView ==
    ASSUME HistoryInv, NEW r \in Runners, UpsertOpenFlag(r), UNCHANGED <<ledgerVars, context>>
    PROVE  \E view \in [Tables -> context'[r].first .. context'[r].last] : RunIsOf(r, view)'
<1>1. r \in DOMAIN run /\ UNCHANGED flags /\ run[r].checked # NoKey
  BY DEF UpsertOpenFlag
<1>2. PICK view \in [Tables -> context[r].first .. context[r].last] : RunIsOf(r, view)
  BY <1>1 DEF HistoryInv, RunsHaveViews
<1>3. LoadRuleContext(view)' = LoadRuleContext(view)
  BY DEF LoadRuleContext, ledgerVars
<1>4. \A k : StickyRows(k)' = StickyRows(k)
  BY <1>1 DEF StickyRows, FlagsOf
<1>5. run \in [DOMAIN run -> RunRows]
  BY DEF HistoryInv, FlagInv
<1> DEFINE k == run[r].checked
<1>6. k \in run[r].todo
  BY <1>1 DEF HistoryInv, FlagInv, TypeOK
<1>7. PICK f \in IF OpenRows(k) = {} THEN FreshIds ELSE OpenRows(k) :
         run' = [run EXCEPT ![r].todo = @ \ {k}, ![r].checked = NoKey,
                            ![r].wrote = Put(@, f, OpenFlag(k, r))]
  BY DEF UpsertOpenFlag
<1>8. f \notin Written(r)
  <2>1. CASE OpenRows(k) = {}
    BY <1>1, <1>7, <2>1 DEF FreshIds
  <2>2. CASE OpenRows(k) # {}
    <3>1. f \in DOMAIN flags /\ flags[f].key = k
      BY <1>7, <2>2 DEF OpenRows, FlagsOf
    <3> QED
      BY <1>1, <1>6, <3>1 DEF HistoryInv, FlagInv, WrittenStayOpen
  <2> QED
    BY <2>1, <2>2
<1>9. run'[r].todo = run[r].todo \ {k} /\ run'[r].wrote = Put(run[r].wrote, f, OpenFlag(k, r))
  BY <1>1, <1>5, <1>7 DEF RunRows
<1> HIDE DEF k
<1>10. KeysWritten(r)' = KeysWritten(r) \cup {k}
  <2>1. Written(r)' = Written(r) \cup {f}
    BY <1>9 DEF Written, Put
  <2>2. run'[r].wrote[f].key = k
    BY <1>9 DEF Put, OpenFlag
  <2>3. \A g \in Written(r) : run'[r].wrote[g] = run[r].wrote[g]
    BY <1>8, <1>9 DEF Put, Written
  <2> QED
    BY <2>1, <2>2, <2>3 DEF KeysWritten
<1>11. InHand(r)' = InHand(r)
  BY <1>6, <1>9, <1>10 DEF InHand
<1>12. RunIsOf(r, view)'
  BY <1>2, <1>3, <1>4, <1>11 DEF RunIsOf
<1> QED
  BY <1>12

LEMMA EvaluateHasView ==
    ASSUME HistoryInv, NEW r \in Runners, Evaluate(r)
    PROVE  \E view \in [Tables -> context'[r].first .. context'[r].last] : RunIsOf(r, view)'
<1>1. PICK view \in Views(context[r].first) : StartRun(r, Drafts(LoadRuleContext(view)))
  BY DEF Evaluate
<1>2. context'[r].first = context[r].first /\ context'[r].last = Len(versions) /\ UNCHANGED versions
  <2>1. r \in DOMAIN context /\ context' = [context EXCEPT ![r].last = Len(versions)]
    BY DEF Evaluate
  <2>2. context[r] \in [first : 1..Len(versions), last : 1..Len(versions)]
    BY <2>1 DEF HistoryInv, SpansAreLedgers
  <2>3. context'[r] = [context[r] EXCEPT !.last = Len(versions)]
    BY <2>1
  <2> QED
    BY <2>2, <2>3 DEF Evaluate, ledgerVars
<1>3. view \in [Tables -> context'[r].first .. context'[r].last]
  BY <1>2 DEF Views
<1>4. LoadRuleContext(view)' = LoadRuleContext(view)
  BY <1>2 DEF LoadRuleContext
<1>5. run'[r] = [todo |-> Drafts(LoadRuleContext(view)), checked |-> NoKey,
                 held |-> {}, wrote |-> [f \in {} |-> f]]
  BY <1>1 DEF StartRun, Put
<1>6. InHand(r)' = Drafts(LoadRuleContext(view))
  BY <1>5 DEF InHand, KeysWritten, Written
<1>7. RunIsOf(r, view)'
  BY <1>4, <1>6 DEF RunIsOf
<1> QED
  BY <1>3, <1>7

LEMMA ViewsNext ==
    ASSUME HistoryInv, [RunNext]_runVars, [Next]_vars PROVE RunsHaveViews'
<1> DEFINE Kept(q) == run'[q] = run[q] /\ q \in DOMAIN context' /\ context'[q] = context[q]
           Goal(q) == /\ q \in DOMAIN context'
                      /\ \E view \in [Tables -> context'[q].first .. context'[q].last] :
                            RunIsOf(q, view)'
<1>1. \A q \in DOMAIN run : q \in DOMAIN context
  BY DEF HistoryInv, RunsHaveViews
<1>2. \A q \in DOMAIN run : Kept(q) => Goal(q)
  BY ViewIsKept
<1> HIDE DEF Goal
<1>3. CASE UNCHANGED <<run, context>>
  BY <1>1, <1>2, <1>3 DEF RunsHaveViews, Goal
<1>4. ASSUME NEW r \in Runners, BeginRun(r) PROVE RunsHaveViews'
  <2>1. run' = run /\ \A q \in DOMAIN run : q # r /\ Kept(q)
    BY <1>1, <1>4 DEF BeginRun, Put
  <2> QED
    BY <1>2, <2>1 DEF RunsHaveViews, Goal
<1>5. ASSUME NEW r \in Runners, Evaluate(r) PROVE RunsHaveViews'
  <2>1. \A q \in DOMAIN run' \ {r} : q \in DOMAIN run /\ Kept(q)
    BY <1>1, <1>5 DEF Evaluate, StartRun, Put
  <2>2. r \in DOMAIN context'
    BY <1>5 DEF Evaluate
  <2>3. Goal(r)
    BY <1>5, <2>2, EvaluateHasView DEF Goal
  <2> QED
    BY <1>2, <2>1, <2>3 DEF RunsHaveViews, Goal
<1>6. ASSUME NEW r \in Runners, EndRun(r) PROVE RunsHaveViews'
  <2>1. \A q \in DOMAIN run' : q \in DOMAIN run /\ Kept(q)
    BY <1>1, <1>6 DEF EndRun, CommitRun, AbortRun, Drop
  <2> QED
    BY <1>2, <2>1 DEF RunsHaveViews, Goal
<1>7. ASSUME NEW r \in Runners, LookUpSticky(r) \/ UpsertOpenFlag(r),
             UNCHANGED <<ledgerVars, context>>
      PROVE  RunsHaveViews'
  <2>1. DOMAIN run' = DOMAIN run /\ r \in DOMAIN run
    BY <1>7 DEF LookUpSticky, UpsertOpenFlag
  <2>2. \A q \in DOMAIN run' \ {r} : Kept(q)
    BY <1>1, <1>7 DEF LookUpSticky, UpsertOpenFlag
  <2>3. Goal(r)
    BY <1>1, <1>7, <2>1, LookUpKeepsView, UpsertKeepsView DEF Goal
  <2> QED
    BY <1>2, <2>1, <2>2, <2>3 DEF RunsHaveViews, Goal
<1>8. ASSUME NEW v \in Reviewers,
             ReadFlag(v) \/ SetReviewedStatus(v) \/ CommitReview(v) \/ AbortReview(v)
      PROVE  UNCHANGED run
  BY <1>8 DEF ReadFlag, SetReviewedStatus, CommitReview, AbortReview
<1>9. CommitLoad => UNCHANGED <<run, context>>
  BY DEF CommitLoad
<1>10. UNCHANGED runVars => UNCHANGED <<run, context>>
  BY DEF runVars
<1> QED
  BY <1>3, <1>4, <1>5, <1>6, <1>7, <1>8, <1>9, <1>10 DEF RunNext

LEMMA HistoryStep == HistoryInv /\ [RunNext]_runVars => HistoryInv'
<1> SUFFICES ASSUME HistoryInv, [RunNext]_runVars PROVE HistoryInv'
  OBVIOUS
<1>1. LedgerInv /\ FlagInv /\ PaymentsStay /\ SpansAreLedgers
  BY DEF HistoryInv
<1>2. [Next]_vars
  BY <1>1, RunStepIsFlagStep
<1> QED
  BY <1>1, <1>2, LedgerStep, StepInv, PaymentsStayNext, SpansNext, ViewsNext DEF HistoryInv

\* A run of the rules flags what the ledgers that its SELECTs saw warrant, and
\* nothing else, whatever loads, runs and reviews commit beside it.
THEOREM RunsFlagWhatIsWarranted == RunSpec => RunFlagsWhatIsWarranted
<1> DEFINE Flagged(r) ==
        LET seen == context[r].first .. context[r].last
        IN  /\ \A k \in Judged({k \in Keys : \A n \in seen : k \in WarrantedIn(n)}, r) :
                  k \in KeysWritten(r) \/ StickyRows(k) # {}
            /\ \A k \in Judged(KeysWritten(r), r) : \E n \in seen : k \in WarrantedIn(n)
<1>1. ASSUME HistoryInv, NEW r \in Runners, r \in DOMAIN run, CommitRun(r)
      PROVE  Flagged(r)
  <2> DEFINE first == context[r].first
             last == context[r].last
  <2>1. r \in DOMAIN context /\ run[r].todo = {}
    BY <1>1 DEF HistoryInv, RunsHaveViews, CommitRun
  <2>2. first \in 1..Len(versions) /\ last \in first .. Len(versions)
    BY <1>1, <2>1 DEF HistoryInv, SpansAreLedgers
  <2>3. PICK view \in [Tables -> first .. last] : RunIsOf(r, view)
    BY <1>1 DEF HistoryInv, RunsHaveViews
  <2>4. InHand(r) = KeysWritten(r)
    BY <2>1 DEF InHand
  <2>5. KeysWritten(r) \subseteq Keys
    BY <1>1 DEF KeysWritten, Written, HistoryInv, FlagInv, TypeOK, Rows
  <2>6. ASSUME NEW k \in Keys, first = last \/ k[1] \notin JoiningRules
        PROVE  \E n \in first .. last : k \in Drafts(LoadRuleContext(view)) <=> k \in WarrantedIn(n)
    BY <1>1, <2>2, <2>6, ViewWarrants DEF HistoryInv
  <2> HIDE DEF first, last
  <2>7. ASSUME NEW k \in Judged({k \in Keys : \A n \in first .. last : k \in WarrantedIn(n)}, r)
        PROVE  k \in KeysWritten(r) \/ StickyRows(k) # {}
    <3>1. k \in Keys /\ \A n \in first .. last : k \in WarrantedIn(n)
      BY <2>7 DEF Judged
    <3>2. first = last \/ k[1] \notin JoiningRules
      BY <2>7 DEF Judged, JoiningRules, first, last
    <3>3. k \in Drafts(LoadRuleContext(view))
      BY <2>6, <3>1, <3>2
    <3> QED
      BY <2>3, <2>4, <3>3 DEF RunIsOf
  <2>8. ASSUME NEW k \in Judged(KeysWritten(r), r)
        PROVE  \E n \in first .. last : k \in WarrantedIn(n)
    <3>1. k \in KeysWritten(r) /\ k \in Keys
      BY <2>5, <2>8 DEF Judged
    <3>2. first = last \/ k[1] \notin JoiningRules
      BY <2>8 DEF Judged, JoiningRules, first, last
    <3>3. k \in Drafts(LoadRuleContext(view))
      BY <2>3, <2>4, <3>1 DEF RunIsOf
    <3> QED
      BY <2>6, <3>1, <3>2, <3>3
  <2> QED
    BY <2>7, <2>8 DEF first, last
<1>2. HistoryInv => [\A r \in Runners : r \in DOMAIN run /\ CommitRun(r) => Flagged(r)]_runVars
  BY <1>1
<1>3. RunSpec => []HistoryInv
  BY HistoryInit, HistoryStep, PTL DEF RunSpec
<1>4. HistoryInv => [\A r \in Runners :
          r \in DOMAIN run /\ CommitRun(r) =>
            LET seen == context[r].first .. context[r].last
            IN  /\ \A k \in Judged({k \in Keys : \A n \in seen : k \in WarrantedIn(n)}, r) :
                      k \in KeysWritten(r) \/ StickyRows(k) # {}
                /\ \A k \in Judged(KeysWritten(r), r) :
                      \E n \in seen : k \in WarrantedIn(n)]_runVars
  BY <1>2
<1> QED
  BY <1>3, <1>4, PTL DEF RunFlagsWhatIsWarranted
=============================================================================
