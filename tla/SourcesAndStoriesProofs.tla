----------------------- MODULE SourcesAndStoriesProofs -----------------------
(***************************************************************************)
(* Theorems about the two desks where people decide: ReviewDesk, for any   *)
(* subjects, narratives and slugs, and any number of reviewers and         *)
(* verifiers, and SourceRegistry, for any urls, catalog, corrections and   *)
(* answers, and any number of operators, seed runs and monitors.           *)
(***************************************************************************)
EXTENDS ReviewDesk, SourceRegistry, FiniteSetTheorems, WellFoundedInduction, TLAPS

\* Ids are 1, 2, ... in the order of creation.
IdsInOrder == \E n \in Nat : DOMAIN reviews = 1..n

\* A pending row has no reviewer, an approved one a human.
ReviewersFit ==
    \A id \in DOMAIN reviews :
        /\ reviews[id].decision = "pending" => reviews[id].reviewer = "none"
        /\ reviews[id].decision = "approve_publish" => reviews[id].reviewer = "human"

(***************************************************************************)
(* A review is enqueued when none of its subject is pending, so that only  *)
(* records of failed verifications are newer than a pending review.        *)
(***************************************************************************)
PendingIsNewest ==
    \A i, j \in DOMAIN reviews :
        /\ reviews[i].subject = reviews[j].subject
        /\ reviews[i].decision = "pending" /\ reviews[j].reviewer # "system"
        => j <= i

(***************************************************************************)
(* What a reviewer knows: it may decide as it is about to, no older review *)
(* of the subject is pending any more, and those that humans decided began *)
(* earlier.                                                                *)
(***************************************************************************)
DesksAreInOrder ==
    \A v \in DOMAIN desk :
        /\ MayDecide(desk[v].decision, desk[v].kind)
        /\ \A j \in DOMAIN reviews :
              reviews[j].subject = reviews[desk[v].review].subject =>
                 /\ reviews[j].decision = "pending" => desk[v].review <= j
                 /\ reviews[j].reviewer = "human" /\ j < desk[v].review
                       => reviews[j].at < desk[v].at

DeskInv ==
    /\ TypeOK /\ IdsInOrder /\ ReviewersFit /\ PendingIsNewest /\ DesksAreInOrder
    /\ PublicStoryWasApproved /\ NewestApprovalIsPublic /\ HumanDecisionsInOrder

LEMMA InitInv == Init => DeskInv
<1> SUFFICES ASSUME Init PROVE DeskInv
  OBVIOUS
<1>1. DOMAIN reviews = {} /\ DOMAIN stories = {} /\ DOMAIN desk = {} /\ DOMAIN failing = {}
  BY DEF Init
<1>2. TypeOK
  BY <1>1 DEF Init, TypeOK
<1>3. IdsInOrder
  <2>1. DOMAIN reviews = 1..0
    BY <1>1
  <2>2. QED
    BY <2>1 DEF IdsInOrder
<1>4. QED
  BY <1>1, <1>2, <1>3 DEF DeskInv, ReviewersFit, PendingIsNewest, DesksAreInOrder,
         PublicStoryWasApproved, NewestApprovalIsPublic, HumanDecisionsInOrder

(***************************************************************************)
(* New rows: enqueued reviews and records of failed verifications.         *)
(***************************************************************************)
LEMMA NewIdIsLast ==
    ASSUME DeskInv
    PROVE  /\ NewId \in Nat /\ DOMAIN reviews = 1..(NewId - 1)
           /\ DOMAIN reviews \cup {NewId} = 1..NewId
<1>1. PICK n \in Nat : DOMAIN reviews = 1..n
  BY DEF DeskInv, IdsInOrder
<1>2. Cardinality(1..n) = n
  BY <1>1, FS_Interval
<1>3. QED
  BY <1>1, <1>2 DEF NewId

NewRow(row) ==
    \/ /\ row.decision = "pending" /\ row.reviewer = "none"
       /\ PendingOf(row.subject) = {}
    \/ row.decision = "needs_more_evidence" /\ row.reviewer = "system"

LEMMA AppendInv ==
    ASSUME DeskInv, NEW row \in Rows, NewRow(row),
           reviews' = Put(reviews, NewId, row), UNCHANGED <<stories, desk>>,
           DOMAIN failing' \subseteq Verifiers,
           failing' \in [DOMAIN failing' -> [subject : Subjects, at : Nat]]
    PROVE  DeskInv'
<1> DEFINE new == NewId
<1>1. /\ new \in Nat /\ DOMAIN reviews' = DOMAIN reviews \cup {new}
      /\ DOMAIN reviews' = 1..new
      /\ \A id \in DOMAIN reviews : id \in Nat /\ id < new /\ reviews'[id] = reviews[id]
      /\ reviews'[new] = row
      /\ reviews' \in [DOMAIN reviews' -> Rows]
  BY NewIdIsLast DEF Put, DeskInv, TypeOK
<1> HIDE DEF new
<1>2. TypeOK'
  <2>1. stories' \in [DOMAIN stories' -> [narrative : Narratives, review : DOMAIN reviews']]
    BY <1>1 DEF DeskInv, TypeOK
  <2>2. desk' \in [DOMAIN desk' -> [review : DOMAIN reviews', decision : Decisions,
                                    kind : Kinds, at : Nat]]
    BY <1>1 DEF DeskInv, TypeOK
  <2>3. QED
    BY <1>1, <2>1, <2>2 DEF DeskInv, TypeOK
<1>3. IdsInOrder'
  BY <1>1 DEF IdsInOrder
<1>4. ReviewersFit'
  BY <1>1 DEF DeskInv, ReviewersFit, NewRow
<1>5. PendingIsNewest'
  <2> SUFFICES ASSUME NEW i \in DOMAIN reviews', NEW j \in DOMAIN reviews',
                      reviews'[i].subject = reviews'[j].subject,
                      reviews'[i].decision = "pending", reviews'[j].reviewer # "system"
               PROVE  j <= i
    BY DEF PendingIsNewest
  <2>1. CASE i = new
    BY <1>1, <2>1
  <2>2. CASE i # new /\ j = new
    <3>1. i \in PendingOf(row.subject)
      BY <1>1, <2>2 DEF PendingOf, Pending
    <3>2. row.reviewer # "system"
      BY <1>1, <2>2
    <3>3. QED
      BY <3>1, <3>2 DEF NewRow
  <2>3. CASE i # new /\ j # new
    BY <1>1, <2>3 DEF DeskInv, PendingIsNewest
  <2>4. QED
    BY <2>1, <2>2, <2>3
<1>6. \A v \in DOMAIN desk : desk[v].review \in DOMAIN reviews
  BY DEF DeskInv, TypeOK
<1>7. DesksAreInOrder'
  <2> SUFFICES ASSUME NEW v \in DOMAIN desk, NEW j \in DOMAIN reviews',
                      reviews'[j].subject = reviews'[desk[v].review].subject
               PROVE  /\ MayDecide(desk[v].decision, desk[v].kind)
                      /\ reviews'[j].decision = "pending" => desk[v].review <= j
                      /\ reviews'[j].reviewer = "human" /\ j < desk[v].review
                            => reviews'[j].at < desk[v].at
    BY DEF DeskInv, DesksAreInOrder
  <2>1. CASE j = new
    BY <1>1, <1>6, <2>1 DEF DeskInv, DesksAreInOrder
  <2>2. CASE j # new
    BY <1>1, <1>6, <2>2 DEF DeskInv, DesksAreInOrder
  <2>3. QED
    BY <2>1, <2>2
<1>8. PublicStoryWasApproved'
  <2>1. \A s \in DOMAIN stories : stories[s].review \in DOMAIN reviews
    BY DEF DeskInv, TypeOK
  <2>2. QED
    BY <1>1, <2>1 DEF DeskInv, PublicStoryWasApproved
<1>9. NewestApprovalIsPublic'
  BY <1>1 DEF DeskInv, NewestApprovalIsPublic, NewRow
<1>10. HumanDecisionsInOrder'
  BY <1>1 DEF DeskInv, HumanDecisionsInOrder, NewRow
<1>11. QED
  BY <1>2, <1>3, <1>4, <1>5, <1>7, <1>8, <1>9, <1>10 DEF DeskInv

LEMMA EnqueueInv ==
    ASSUME DeskInv, NEW s \in Subjects, NEW n \in Narratives \cup {NoNarrative},
           EnqueueReview(s, n)
    PROVE  DeskInv'
<1>1. NewReview(s, n) \in Rows /\ NewRow(NewReview(s, n))
  BY DEF EnqueueReview, NewReview, Rows, NewRow
<1>2. QED
  BY <1>1, AppendInv DEF EnqueueReview, DeskInv, TypeOK

LEMMA RecordFailureInv ==
    ASSUME DeskInv, NEW p \in Verifiers, RecordFailure(p)
    PROVE  DeskInv'
<1> DEFINE row == [subject |-> failing[p].subject, narrative |-> NoNarrative,
                   decision |-> "needs_more_evidence",
                   reviewer |-> "system", at |-> failing[p].at]
<1>1. row \in Rows /\ NewRow(row)
  BY DEF RecordFailure, DeskInv, TypeOK, Rows, Kinds, NewRow
<1>2. /\ DOMAIN failing' \subseteq Verifiers
      /\ failing' \in [DOMAIN failing' -> [subject : Subjects, at : Nat]]
  BY DEF RecordFailure, Drop, DeskInv, TypeOK
<1>3. reviews' = Put(reviews, NewId, row) /\ UNCHANGED <<stories, desk>>
  BY DEF RecordFailure
<1> HIDE DEF row
<1>4. QED
  BY <1>1, <1>2, <1>3, AppendInv

LEMMA VerificationFailsInv ==
    ASSUME DeskInv, NEW p \in Verifiers, NEW s \in Subjects, VerificationFails(p, s)
    PROVE  DeskInv'
<1>1. PICK t \in 1..MaxTime : failing' = Put(failing, p, [subject |-> s, at |-> t])
  BY DEF VerificationFails
<1>2. t \in Nat
  BY ReviewDeskAssumption
<1>3. /\ DOMAIN failing' \subseteq Verifiers
      /\ failing' \in [DOMAIN failing' -> [subject : Subjects, at : Nat]]
  BY <1>1, <1>2 DEF Put, DeskInv, TypeOK
<1>4. TypeOK' /\ IdsInOrder'
  BY <1>3 DEF VerificationFails, DeskInv, TypeOK, IdsInOrder
<1>5. UNCHANGED <<reviews, stories, desk>>
  BY DEF VerificationFails
<1>6. QED
  BY <1>4, <1>5 DEF DeskInv, ReviewersFit, PendingIsNewest, DesksAreInOrder,
       PublicStoryWasApproved, NewestApprovalIsPublic, HumanDecisionsInOrder

(***************************************************************************)
(* decide_review.                                                          *)
(***************************************************************************)
LEMMA ReadReviewInv ==
    ASSUME DeskInv, NEW v \in Reviewers, ReadReview(v)
    PROVE  DeskInv'
<1>1. PICK id \in DOMAIN reviews, decision \in Decisions, kind \in Kinds,
           t \in 1..MaxTime :
          /\ MayDecide(decision, kind) /\ Pending(id) /\ Now(t)
          /\ desk' = Put(desk, v, [review |-> id, decision |-> decision,
                                   kind |-> kind, at |-> t])
  BY DEF ReadReview
<1> DEFINE row == [review |-> id, decision |-> decision, kind |-> kind, at |-> t]
<1>2. row \in [review : DOMAIN reviews, decision : Decisions, kind : Kinds, at : Nat]
  BY ReviewDeskAssumption
<1>3. /\ UNCHANGED <<reviews, stories, failing>>
      /\ DOMAIN desk' = DOMAIN desk \cup {v} /\ DOMAIN desk' \subseteq Reviewers
      /\ desk' \in [DOMAIN desk' -> [review : DOMAIN reviews, decision : Decisions,
                                     kind : Kinds, at : Nat]]
      /\ desk'[v] = row
      /\ \A u \in DOMAIN desk : u # v => desk'[u] = desk[u]
  BY <1>1, <1>2 DEF ReadReview, Put, DeskInv, TypeOK
<1>4. TypeOK' /\ IdsInOrder'
  BY <1>3 DEF DeskInv, TypeOK, IdsInOrder
<1>5. \A j \in DOMAIN reviews : reviews[j].at < t
  BY <1>1 DEF Now, Times
<1>6. \A j \in DOMAIN reviews :
          reviews[j].subject = reviews[id].subject /\ reviews[j].decision = "pending"
          => id <= j
  BY <1>1 DEF Pending, DeskInv, ReviewersFit, PendingIsNewest
<1>7. DesksAreInOrder'
  <2> SUFFICES ASSUME NEW u \in DOMAIN desk'
               PROVE  /\ MayDecide(desk'[u].decision, desk'[u].kind)
                      /\ \A j \in DOMAIN reviews :
                            reviews[j].subject = reviews[desk'[u].review].subject =>
                               /\ reviews[j].decision = "pending" => desk'[u].review <= j
                               /\ reviews[j].reviewer = "human" /\ j < desk'[u].review
                                     => reviews[j].at < desk'[u].at
    BY <1>3 DEF DesksAreInOrder, MayDecide
  <2>1. CASE u = v
    BY <1>1, <1>3, <1>5, <1>6, <2>1
  <2>2. CASE u # v
    BY <1>3, <2>2 DEF DeskInv, DesksAreInOrder
  <2>3. QED
    BY <2>1, <2>2
<1>8. QED
  BY <1>3, <1>4, <1>7 DEF DeskInv, ReviewersFit, PendingIsNewest,
       PublicStoryWasApproved, NewestApprovalIsPublic, HumanDecisionsInOrder

LEMMA DropDeskType ==
    ASSUME DeskInv, NEW v \in Reviewers, desk' = Drop(desk, v)
    PROVE  /\ DOMAIN desk' = DOMAIN desk \ {v} /\ DOMAIN desk' \subseteq Reviewers
           /\ desk' \in [DOMAIN desk' -> [review : DOMAIN reviews, decision : Decisions,
                                          kind : Kinds, at : Nat]]
           /\ \A u \in DOMAIN desk' : desk'[u] = desk[u]
BY DEF Drop, DeskInv, TypeOK

LEMMA DecideRaisesInv ==
    ASSUME DeskInv, NEW v \in Reviewers, DecideRaises(v)
    PROVE  DeskInv'
<1>1. UNCHANGED <<reviews, stories, failing>>
  BY DEF DecideRaises
<1>2. TypeOK' /\ IdsInOrder'
  BY <1>1, DropDeskType DEF DecideRaises, DeskInv, TypeOK, IdsInOrder
<1>3. DesksAreInOrder'
  <2>1. DOMAIN desk' \subseteq DOMAIN desk /\ \A u \in DOMAIN desk' : desk'[u] = desk[u]
    BY DropDeskType DEF DecideRaises
  <2> QED
    BY <1>1, <2>1 DEF DeskInv, DesksAreInOrder, MayDecide
<1>4. QED
  BY <1>1, <1>2, <1>3 DEF DeskInv, ReviewersFit, PendingIsNewest,
       PublicStoryWasApproved, NewestApprovalIsPublic, HumanDecisionsInOrder

LEMMA DecideReviewInv ==
    ASSUME DeskInv, NEW v \in Reviewers, DecideReview(v)
    PROVE  DeskInv'
<1> DEFINE id == desk[v].review
           text == reviews[id].narrative
<1>1. /\ v \in DOMAIN desk /\ UNCHANGED failing /\ desk' = Drop(desk, v)
      /\ id \in DOMAIN reviews /\ reviews[id] \in Rows
      /\ reviews[id].decision = "pending"
      /\ desk[v].decision \in Decisions /\ desk[v].kind \in Kinds /\ desk[v].at \in Nat
      /\ MayDecide(desk[v].decision, desk[v].kind)
  BY DEF DecideReview, StillPending, Pending, DeskInv, TypeOK, DesksAreInOrder
<1>2. /\ desk[v].decision \in {"approve_publish", "reject", "needs_more_evidence"}
      /\ desk[v].decision = "approve_publish" => desk[v].kind = "human"
      /\ reviews[id].reviewer = "none"
  BY <1>1, ReviewDeskAssumption DEF MayDecide, DeskInv, ReviewersFit
<1>3. reviews' = [reviews EXCEPT ![id] = Decided(v)]
  BY DEF DecideReview
<1>4. /\ Decided(v) \in Rows /\ Decided(v).subject = reviews[id].subject
      /\ Decided(v).narrative = text /\ Decided(v).decision = desk[v].decision
      /\ Decided(v).reviewer = desk[v].kind /\ Decided(v).at = desk[v].at
  BY <1>1, <1>2 DEF Decided, Rows
<1>5. /\ DOMAIN reviews' = DOMAIN reviews /\ reviews' \in [DOMAIN reviews' -> Rows]
      /\ reviews'[id] = Decided(v)
      /\ \A j \in DOMAIN reviews : j # id => reviews'[j] = reviews[j]
      /\ \A j \in DOMAIN reviews : /\ reviews'[j].subject = reviews[j].subject
                                   /\ reviews'[j].narrative = reviews[j].narrative
  BY <1>1, <1>3, <1>4 DEF DeskInv, TypeOK
<1>6. stories' = IF Publishes(v) THEN Published(v) ELSE stories
  BY DEF DecideReview
<1>7. Publishes(v) <=> desk[v].decision = "approve_publish" /\ text # NoNarrative
  BY DEF Publishes
<1>8. \A j \in DOMAIN reviews : reviews'[j].decision = "pending" =>
          j # id /\ reviews[j].decision = "pending"
  BY <1>2, <1>4, <1>5
<1>9. DOMAIN reviews \subseteq Nat
  BY DEF DeskInv, IdsInOrder
<1> HIDE DEF id, text
\* The public rows.
<1>10. /\ \A s \in DOMAIN stories : s # reviews[id].subject \/ ~Publishes(v) =>
              s \in DOMAIN stories' /\ stories'[s] = stories[s]
       /\ DOMAIN stories' = IF Publishes(v) THEN DOMAIN stories \cup {reviews[id].subject}
                            ELSE DOMAIN stories
       /\ Publishes(v) => stories'[reviews[id].subject] = [narrative |-> text, review |-> id]
       /\ stories' = [s \in DOMAIN stories' |-> stories'[s]]
  BY <1>6 DEF Published, PublicRow, Put, id, text, DeskInv, TypeOK
<1>11. reviews[id].subject \in Subjects /\ text \in Narratives \cup {NoNarrative}
  BY <1>1 DEF Rows, text
<1>12. TypeOK'
  <2>1. DOMAIN stories' \subseteq Subjects
    BY <1>10, <1>11 DEF DeskInv, TypeOK
  <2>2. ASSUME NEW s \in DOMAIN stories'
        PROVE  stories'[s] \in [narrative : Narratives, review : DOMAIN reviews']
    <3>1. CASE s = reviews[id].subject /\ Publishes(v)
      BY <1>1, <1>5, <1>7, <1>10, <1>11, <3>1
    <3>2. CASE ~(s = reviews[id].subject /\ Publishes(v))
      BY <1>5, <1>10, <3>2 DEF DeskInv, TypeOK
    <3>3. QED
      BY <3>1, <3>2
  <2>3. stories' \in [DOMAIN stories' -> [narrative : Narratives, review : DOMAIN reviews']]
    BY <1>10, <2>2
  <2>4. QED
    BY <1>1, <1>5, <2>1, <2>3, DropDeskType DEF DeskInv, TypeOK
<1>13. IdsInOrder'
  BY <1>5 DEF DeskInv, IdsInOrder
<1>14. ReviewersFit'
  BY <1>2, <1>4, <1>5 DEF DeskInv, ReviewersFit
<1>15. PendingIsNewest'
  <2> SUFFICES ASSUME NEW i \in DOMAIN reviews, NEW j \in DOMAIN reviews,
                      reviews[i].subject = reviews[j].subject,
                      reviews'[i].decision = "pending", reviews'[j].reviewer # "system"
               PROVE  j <= i
    BY <1>5 DEF PendingIsNewest
  <2>1. reviews[i].decision = "pending" /\ reviews[j].reviewer # "system"
    BY <1>2, <1>5, <1>8
  <2>2. QED
    BY <2>1 DEF DeskInv, PendingIsNewest
<1>16. DesksAreInOrder'
  <2> SUFFICES ASSUME NEW u \in DOMAIN desk', NEW j \in DOMAIN reviews,
                      reviews[j].subject = reviews[desk[u].review].subject
               PROVE  /\ MayDecide(desk[u].decision, desk[u].kind)
                      /\ reviews'[j].decision = "pending" => desk[u].review <= j
                      /\ reviews'[j].reviewer = "human" /\ j < desk[u].review
                            => reviews'[j].at < desk[u].at
    <3>1. \A u \in DOMAIN desk' : /\ u \in DOMAIN desk /\ desk'[u] = desk[u]
                                  /\ desk[u].review \in DOMAIN reviews
      BY <1>1, DropDeskType DEF DeskInv, TypeOK
    <3>2. QED
      BY <1>5, <3>1 DEF DesksAreInOrder, MayDecide
  <2>1. u \in DOMAIN desk /\ desk[u].review \in DOMAIN reviews
    BY <1>1, DropDeskType DEF DeskInv, TypeOK
  <2>2. CASE j = id
    BY <1>1, <1>8, <1>9, <2>1, <2>2 DEF DeskInv, DesksAreInOrder
  <2>3. CASE j # id
    BY <1>5, <2>1, <2>3 DEF DeskInv, DesksAreInOrder
  <2>4. QED
    BY <2>2, <2>3
<1>17. PublicStoryWasApproved'
  <2> SUFFICES ASSUME NEW s \in DOMAIN stories'
               PROVE  /\ reviews'[stories'[s].review].subject = s
                      /\ reviews'[stories'[s].review].decision = "approve_publish"
                      /\ reviews'[stories'[s].review].reviewer = "human"
                      /\ reviews'[stories'[s].review].narrative = stories'[s].narrative
    BY DEF PublicStoryWasApproved
  <2>1. CASE s = reviews[id].subject /\ Publishes(v)
    BY <1>2, <1>4, <1>5, <1>7, <1>10, <2>1
  <2>2. CASE ~(s = reviews[id].subject /\ Publishes(v))
    <3>1. s \in DOMAIN stories /\ stories'[s] = stories[s]
      BY <1>10, <2>2
    <3>2. stories[s].review \in DOMAIN reviews /\ stories[s].review # id
      BY <1>1, <3>1 DEF DeskInv, TypeOK, PublicStoryWasApproved
    <3>3. QED
      BY <1>5, <3>1, <3>2 DEF DeskInv, PublicStoryWasApproved
  <2>3. QED
    BY <2>1, <2>2
<1>18. NewestApprovalIsPublic'
  <2> SUFFICES ASSUME NEW j \in DOMAIN reviews,
                      reviews'[j].decision = "approve_publish",
                      reviews[j].narrative # NoNarrative
               PROVE  /\ reviews[j].subject \in DOMAIN stories'
                      /\ j <= stories'[reviews[j].subject].review
    BY <1>5 DEF NewestApprovalIsPublic
  <2>1. CASE j = id
    BY <1>4, <1>5, <1>7, <1>9, <1>10, <2>1 DEF text
  <2>2. CASE j # id
    <3>1. /\ reviews[j].decision = "approve_publish" /\ reviews[j].reviewer = "human"
          /\ reviews[j].subject \in DOMAIN stories
          /\ j <= stories[reviews[j].subject].review
      BY <1>5, <2>2 DEF DeskInv, NewestApprovalIsPublic, ReviewersFit
    <3>2. CASE reviews[j].subject = reviews[id].subject /\ Publishes(v)
      <4>1. j <= id
        BY <1>1, <3>1, <3>2 DEF DeskInv, PendingIsNewest
      <4>2. QED
        BY <1>10, <3>2, <4>1
    <3>3. CASE ~(reviews[j].subject = reviews[id].subject /\ Publishes(v))
      BY <1>10, <3>1, <3>3
    <3>4. QED
      BY <3>2, <3>3
  <2>3. QED
    BY <2>1, <2>2
<1>19. HumanDecisionsInOrder'
  <2> SUFFICES ASSUME NEW i \in DOMAIN reviews, NEW j \in DOMAIN reviews,
                      reviews'[i].reviewer = "human", reviews'[j].reviewer = "human",
                      reviews[i].subject = reviews[j].subject, i < j
               PROVE  reviews'[i].at < reviews'[j].at
    BY <1>5 DEF HumanDecisionsInOrder
  <2>1. CASE i = id
    BY <1>1, <1>5, <1>9, <2>1 DEF DeskInv, PendingIsNewest
  <2>2. CASE j = id /\ i # id
    BY <1>1, <1>4, <1>5, <2>2 DEF DeskInv, DesksAreInOrder, id
  <2>3. CASE i # id /\ j # id
    BY <1>5, <2>3 DEF DeskInv, HumanDecisionsInOrder
  <2>4. QED
    BY <2>1, <2>2, <2>3
<1>20. QED
  BY <1>12, <1>13, <1>14, <1>15, <1>16, <1>17, <1>18, <1>19 DEF DeskInv

(***************************************************************************)
(* The theorems.                                                           *)
(***************************************************************************)
LEMMA StutterInv == ASSUME DeskInv, UNCHANGED vars PROVE DeskInv'
BY DEF vars, DeskInv, TypeOK, IdsInOrder, ReviewersFit, PendingIsNewest,
       DesksAreInOrder, MayDecide, PublicStoryWasApproved, NewestApprovalIsPublic,
       HumanDecisionsInOrder

LEMMA StepInv == DeskInv /\ [Next]_vars => DeskInv'
<1> SUFFICES ASSUME DeskInv, [Next]_vars PROVE DeskInv'
  OBVIOUS
<1>1. ASSUME NEW s \in Subjects, NEW n \in Narratives \cup {NoNarrative},
             EnqueueReview(s, n)
      PROVE  DeskInv'
  BY <1>1, EnqueueInv
<1>2. ASSUME NEW p \in Verifiers,
             (\E s \in Subjects : VerificationFails(p, s)) \/ RecordFailure(p)
      PROVE  DeskInv'
  BY <1>2, VerificationFailsInv, RecordFailureInv
<1>3. ASSUME NEW v \in Reviewers, ReadReview(v) \/ DecideReview(v) \/ DecideRaises(v)
      PROVE  DeskInv'
  BY <1>3, ReadReviewInv, DecideReviewInv, DecideRaisesInv
<1>4. CASE UNCHANGED vars
  BY <1>4, StutterInv
<1>5. QED
  BY <1>1, <1>2, <1>3, <1>4 DEF Next

DecidedStays ==
    \A id \in DOMAIN reviews : ~Pending(id) =>
        id \in DOMAIN reviews' /\ reviews'[id] = reviews[id]

LEMMA StepKeepsDecided == DeskInv /\ [Next]_vars => DecidedStays
<1> SUFFICES ASSUME DeskInv, [Next]_vars PROVE DecidedStays
  OBVIOUS
<1>1. ASSUME NEW row, reviews' = Put(reviews, NewId, row) PROVE DecidedStays
  BY <1>1, NewIdIsLast DEF DecidedStays, Put
<1>2. ASSUME NEW v \in Reviewers, DecideReview(v) PROVE DecidedStays
  <2>1. Pending(desk[v].review) /\ reviews' = [reviews EXCEPT ![desk[v].review] = Decided(v)]
    BY <1>2 DEF DecideReview, StillPending
  <2>2. QED
    BY <2>1 DEF DecidedStays
<1>3. CASE UNCHANGED reviews
  BY <1>3 DEF DecidedStays
<1>4. \/ UNCHANGED reviews
      \/ \E s \in Subjects, n \in Narratives \cup {NoNarrative} : EnqueueReview(s, n)
      \/ \E p \in Verifiers : RecordFailure(p)
      \/ \E v \in Reviewers : DecideReview(v)
  BY DEF Next, vars, VerificationFails, ReadReview, DecideRaises
<1>5. QED
  BY <1>1, <1>2, <1>3, <1>4 DEF EnqueueReview, RecordFailure

\* The inductive invariant holds: what reviewers read stays true enough until
\* they write (DesksAreInOrder), since a subject has one pending review.
THEOREM Invariant == Spec => []DeskInv
BY InitInv, StepInv, PTL DEF Spec

\* The types of rows and transactions.
THEOREM TypeCorrect == Spec => []TypeOK
<1>1. DeskInv => TypeOK
  BY DEF DeskInv
<1>2. QED
  BY <1>1, Invariant, PTL

\* Every public story is the text of a review that a human approved.
THEOREM StoriesAreApproved == Spec => []PublicStoryWasApproved
<1>1. DeskInv => PublicStoryWasApproved
  BY DEF DeskInv
<1>2. QED
  BY <1>1, Invariant, PTL

\* A story never goes back to an older approved text.
THEOREM StoriesNeverGoBack == Spec => []NewestApprovalIsPublic
<1>1. DeskInv => NewestApprovalIsPublic
  BY DEF DeskInv
<1>2. QED
  BY <1>1, Invariant, PTL

\* Of two reviews of a subject that humans decided, the older one carries the
\* earlier decided_at, although it is the start of a transaction.
THEOREM DecisionsAreDated == Spec => []HumanDecisionsInOrder
<1>1. DeskInv => HumanDecisionsInOrder
  BY DEF DeskInv
<1>2. QED
  BY <1>1, Invariant, PTL

\* A decided review is never written again, by whatever reviewers do at once.
THEOREM DecisionsAreFinal == Spec => [][DecidedStays]_vars
<1>1. DeskInv /\ [Next]_vars => [DecidedStays]_vars
  BY StepKeepsDecided
<1>2. QED
  BY <1>1, Invariant, PTL DEF Spec

(***************************************************************************)
(* The rows are a publication log: PendingIsNewest makes an approval that  *)
(* commits the newest of its subject.                                      *)
(***************************************************************************)
LEMMA EntriesFollow ==
    /\ DOMAIN LogEntries = DOMAIN reviews
    /\ \A id \in DOMAIN reviews :
          LogEntries[id] = [story |-> reviews[id].subject,
                            text |-> reviews[id].narrative,
                            verdict |-> Verdict(reviews[id])]
BY DEF LogEntries

LEMMA InitIsLogInit == Init => Log!LogInit
BY DEF Init, Log!LogInit, LogEntries, ShownTexts

LEMMA AppendHandsIn ==
    ASSUME DeskInv, NEW row \in Rows, NewRow(row),
           reviews' = Put(reviews, NewId, row), UNCHANGED stories
    PROVE  Log!HandIn
<1> DEFINE new == NewId
<1>1. /\ DOMAIN reviews' = DOMAIN reviews \cup {new} /\ new \in DOMAIN reviews'
      /\ \A id \in DOMAIN reviews : id < new /\ reviews'[id] = reviews[id]
      /\ reviews'[new] = row
  BY NewIdIsLast DEF Put
<1> HIDE DEF new
<1>2. /\ DOMAIN LogEntries' = DOMAIN reviews'
      /\ LogEntries'[new] = [story |-> row.subject, text |-> row.narrative,
                             verdict |-> Verdict(row)]
      /\ \A id \in DOMAIN reviews : LogEntries'[id] = LogEntries[id]
  BY <1>1 DEF LogEntries
<1>3. Verdict(row) \in {"open", "closed"}
  BY DEF NewRow, Verdict
<1>4. /\ LogEntries'[new] \in Log!Entries
      /\ LogEntries'[new].verdict # "published"
  BY <1>2, <1>3 DEF Rows, Log!Entries
<1>5. ShownTexts' = ShownTexts
  BY DEF ShownTexts
<1>6. QED
  BY <1>1, <1>2, <1>4, <1>5, EntriesFollow DEF Log!HandIn

LEMMA DecideIsJudgement ==
    ASSUME DeskInv, NEW v \in Reviewers, DecideReview(v)
    PROVE  \E id \in DOMAIN LogEntries : Log!Publish(id) \/ Log!Close(id)
<1> DEFINE id == desk[v].review
           row == reviews[id]
<1>1. /\ v \in DOMAIN desk /\ id \in DOMAIN reviews /\ row \in Rows
      /\ row.decision = "pending" /\ desk[v].kind \in Kinds
      /\ desk[v].decision \in {"approve_publish", "reject", "needs_more_evidence"}
      /\ MayDecide(desk[v].decision, desk[v].kind)
  BY ReviewDeskAssumption DEF DecideReview, StillPending, Pending, DeskInv, TypeOK,
     DesksAreInOrder
<1>2. /\ Decided(v).subject = row.subject /\ Decided(v).narrative = row.narrative
      /\ Decided(v).decision = desk[v].decision /\ Decided(v).reviewer = desk[v].kind
  BY <1>1 DEF Decided, Rows
<1>3. /\ reviews' = [reviews EXCEPT ![id] = Decided(v)]
      /\ stories' = IF Publishes(v) THEN Published(v) ELSE stories
      /\ Publishes(v) <=> desk[v].decision = "approve_publish"
                          /\ row.narrative # NoNarrative
  BY DEF DecideReview, Publishes
<1>4. /\ Verdict(row) = "open"
      /\ Verdict(Decided(v)) = IF Publishes(v) THEN "published" ELSE "closed"
  BY <1>1, <1>2, <1>3 DEF Verdict, MayDecide
<1>5. LogEntries' = [LogEntries EXCEPT ![id].verdict = Verdict(Decided(v))]
  <2>1. DOMAIN reviews' = DOMAIN reviews
    BY <1>3
  <2>2. LogEntries' = [j \in DOMAIN reviews |->
                         [story |-> reviews'[j].subject, text |-> reviews'[j].narrative,
                          verdict |-> Verdict(reviews'[j])]]
    BY <2>1 DEF LogEntries
  <2>3. reviews'[id] = Decided(v) /\ \A j \in DOMAIN reviews : j # id => reviews'[j] = reviews[j]
    BY <1>1, <1>3
  <2> HIDE DEF id
  <2>4. QED
    BY <1>1, <1>2, <2>2, <2>3, ZenonT(60) DEF LogEntries
<1>6. /\ id \in DOMAIN LogEntries /\ LogEntries[id].story = row.subject
      /\ LogEntries[id].text = row.narrative /\ LogEntries[id].verdict = "open"
      /\ row.subject \in Subjects
  BY <1>1, <1>4, EntriesFollow DEF Rows
<1>7. CASE Publishes(v)
  <2>1. LogEntries[id].text # NoNarrative
    BY <1>3, <1>6, <1>7
  <2>2. Log!IsNewest(id)
    <3> SUFFICES ASSUME NEW j \in DOMAIN reviews, reviews[j].subject = row.subject,
                        Verdict(reviews[j]) = "published"
                 PROVE  j < id
      BY <1>6, EntriesFollow DEF Log!IsNewest
    <3>1. reviews[j].reviewer # "system" /\ j # id
      BY <1>1 DEF Verdict
    <3>2. j <= id
      BY <1>1, <3>1 DEF DeskInv, PendingIsNewest
    <3>3. QED
      BY <1>1, <3>1, <3>2 DEF DeskInv, IdsInOrder
  <2>3. ShownTexts' = [ShownTexts EXCEPT ![row.subject] = row.narrative]
    <3>1. /\ DOMAIN stories' = DOMAIN stories \cup {row.subject}
          /\ stories'[row.subject].narrative = row.narrative
          /\ \A s \in DOMAIN stories : s # row.subject => stories'[s] = stories[s]
      BY <1>3, <1>7 DEF Published, PublicRow, Put
    <3> HIDE DEF row
    <3>2. QED
      BY <3>1, <1>6 DEF ShownTexts
  <2> HIDE DEF id, row
  <2>4. QED
    BY <1>4, <1>5, <1>6, <1>7, <2>1, <2>2, <2>3 DEF Log!Publish
<1>8. CASE ~Publishes(v)
  <2>1. ShownTexts' = ShownTexts
    BY <1>3, <1>8 DEF ShownTexts
  <2> HIDE DEF id, row
  <2>2. QED
    BY <1>4, <1>5, <1>6, <1>8, <2>1 DEF Log!Close
<1>9. QED
  BY <1>7, <1>8

LEMMA StepIsLogStep == DeskInv /\ [Next]_vars => [Log!LogNext]_(Log!logVars)
<1> SUFFICES ASSUME DeskInv, [Next]_vars PROVE [Log!LogNext]_(Log!logVars)
  OBVIOUS
<1>1. ASSUME NEW s \in Subjects, NEW n \in Narratives \cup {NoNarrative},
             EnqueueReview(s, n)
      PROVE  Log!HandIn
  <2>1. NewReview(s, n) \in Rows /\ NewRow(NewReview(s, n))
    BY <1>1 DEF EnqueueReview, NewReview, Rows, NewRow
  <2>2. QED
    BY <1>1, <2>1, AppendHandsIn DEF EnqueueReview
<1>2. ASSUME NEW p \in Verifiers, RecordFailure(p) PROVE Log!HandIn
  <2> DEFINE row == [subject |-> failing[p].subject, narrative |-> NoNarrative,
                     decision |-> "needs_more_evidence",
                     reviewer |-> "system", at |-> failing[p].at]
  <2>1. row \in Rows /\ NewRow(row)
    BY <1>2 DEF RecordFailure, DeskInv, TypeOK, Rows, Kinds, NewRow
  <2>2. reviews' = Put(reviews, NewId, row) /\ UNCHANGED stories
    BY <1>2 DEF RecordFailure
  <2> HIDE DEF row
  <2>3. QED
    BY <2>1, <2>2, AppendHandsIn
<1>3. ASSUME NEW v \in Reviewers, DecideReview(v) PROVE Log!LogNext
  BY <1>3, DecideIsJudgement DEF Log!LogNext
<1>4. CASE UNCHANGED <<reviews, stories>>
  BY <1>4 DEF Log!logVars, LogEntries, ShownTexts
<1>5. \/ UNCHANGED <<reviews, stories>>
      \/ \E s \in Subjects, n \in Narratives \cup {NoNarrative} : EnqueueReview(s, n)
      \/ \E p \in Verifiers : RecordFailure(p)
      \/ \E v \in Reviewers : DecideReview(v)
  BY DEF Next, vars, VerificationFails, ReadReview, DecideRaises
<1>6. QED
  BY <1>1, <1>2, <1>3, <1>4, <1>5 DEF Log!LogNext

\* The gate implements the publication log: whatever reviewers, authors and
\* verifiers do at once, what the public reads changes only when a human judges,
\* and to the text that was judged.
THEOREM GateIsPublicationLog == Spec => ImplementsPublicationLog
<1>1. QED
  BY InitIsLogInit, StepIsLogStep, Invariant, PTL
     DEF Spec, ImplementsPublicationLog, Log!LogSpec
-----------------------------------------------------------------------------
(***************************************************************************)
(* The registry of sources.                                                *)
(*                                                                         *)
(* RegistryInv adds to the type what it rests on: in a list of calls only  *)
(* the first may insert, the others are of rows that are there; an id that *)
(* is about to be inserted is nobody else's; and no url is held by two     *)
(* transactions or stands twice in what one of them sees, so that a commit *)
(* cannot bring two rows to one url.                                       *)
(*                                                                         *)
(* SeedInv says how far a seed run has got that nobody disturbed: through  *)
(* the items before its k-th, and in the k-th its calls reach all that is  *)
(* still wrong.  No later item undoes an earlier one, since no correction  *)
(* leads to an obsolete url, no entry has one, and two entries have two.   *)
(***************************************************************************)
LEMMA LeastNatural ==
    ASSUME NEW S \in SUBSET Nat, S # {}
    PROVE  \E n \in S : \A m \in S : n <= m
<1> DEFINE R == OpToRel(<, Nat)
<1>1. IsWellFoundedOn(R, Nat)
  BY NatLessThanWellFounded
<1>2. \A m, n \in Nat : m < n => <<m, n>> \in R
  BY DEF OpToRel
<1> HIDE DEF R
<1>3. PICK n \in S : \A m \in S : ~(<<m, n>> \in R)
  BY <1>1, WFMin
<1>4. \A m \in S : m \in Nat /\ n \in Nat /\ ~(m < n)
  BY <1>2, <1>3
<1>5. \A m \in S : n <= m
  BY <1>4
<1> QED
  BY <1>5

\* The list of a finite set has each of its members.
LEMMA ListOfSet ==
    ASSUME NEW S, IsFiniteSet(S)
    PROVE  /\ SetToSeq(S) \in Seq(S) /\ Len(SetToSeq(S)) = Cardinality(S)
           /\ \A x \in S : \E n \in DOMAIN SetToSeq(S) : SetToSeq(S)[n] = x
           /\ SetToSeq(S) = <<>> => S = {}
<1>1. PICK k \in Nat : k = Cardinality(S)
  BY FS_CardinalityType
<1>2. ExistsBijection(1..k, S)
  BY <1>1, FS_CardinalityType
<1>3. PICK f : f \in Bijection(1..k, S)
  BY <1>2 DEF ExistsBijection
<1>4. f \in [1..k -> S] /\ IsInjective(f)
  BY <1>3 DEF Bijection, Injection, IsInjective
<1>5. PICK list : list = SetToSeq(S)
  OBVIOUS
<1>6. list \in [1..k -> S] /\ IsInjective(list)
  BY <1>1, <1>4, <1>5 DEF SetToSeq
<1>7. list \in Injection(1..k, S)
  BY <1>6 DEF Injection
<1>8. IsFiniteSet(1..k) /\ Cardinality(1..k) = k
  BY FS_Interval
<1>9. list \in Surjection(1..k, S)
  BY <1>1, <1>7, <1>8, FS_Injection
<1>10. \A x \in S : \E n \in 1..k : list[n] = x
  BY <1>9 DEF Surjection
<1>11. list \in Seq(S) /\ Len(list) = k /\ DOMAIN list = 1..k
  BY <1>6
<1>12. list = <<>> => S = {}
  BY <1>1, <1>11, FS_EmptySet
<1> QED
  BY <1>1, <1>5, <1>10, <1>11, <1>12

Descending(S) == \E list \in SetToSeqs(S) : \A m, n \in DOMAIN list : m < n => list[m] > list[n]

LEMMA LeastLast ==
    ASSUME NEW S \in SUBSET Nat, IsFiniteSet(S), NEW m \in S, \A x \in S : m <= x,
           Descending(S \ {m})
    PROVE  Descending(S)
<1>1. PICK k \in Nat : k = Cardinality(S \ {m})
  BY FS_RemoveElement, FS_CardinalityType
<1>2. Cardinality(S) = k + 1
  <2>1. Cardinality(S) \in Nat
    BY FS_CardinalityType
  <2>2. Cardinality(S \ {m}) = Cardinality(S) - 1
    BY FS_RemoveElement
  <2> QED
    BY <1>1, <2>1, <2>2
<1>3. PICK rest \in SetToSeqs(S \ {m}) : \A i, j \in DOMAIN rest : i < j => rest[i] > rest[j]
  BY DEF Descending
<1>4. rest \in [1..k -> S \ {m}] /\ \A i, j \in 1..k : i # j => rest[i] # rest[j]
  BY <1>1, <1>3 DEF SetToSeqs
<1>5. PICK list : list = [i \in 1..(k + 1) |-> IF i = k + 1 THEN m ELSE rest[i]]
  OBVIOUS
<1>6. \A i \in 1..(k + 1) : i # k + 1 => i \in 1..k
  OBVIOUS
<1>7. list \in [1..(k + 1) -> S]
  BY <1>4, <1>5, <1>6
<1>8. list[k + 1] = m /\ \A i \in 1..k : list[i] = rest[i] /\ list[i] # m /\ list[i] \in S
  BY <1>4, <1>5
<1>9. \A i, j \in 1..(k + 1) : i # j => list[i] # list[j]
  BY <1>4, <1>6, <1>8
<1>10. ASSUME NEW i \in 1..(k + 1), NEW j \in 1..(k + 1), i < j
       PROVE  list[i] > list[j]
  <2>1. i \in 1..k
    BY <1>10
  <2>2. CASE j = k + 1
    <3>1. list[i] \in Nat /\ m \in Nat /\ m <= list[i] /\ list[i] # m
      BY <1>8, <2>1
    <3> QED
      BY <1>8, <2>2, <3>1
  <2>3. CASE j # k + 1
    BY <1>3, <1>4, <1>6, <1>8, <1>10, <2>1, <2>3
  <2> QED
    BY <2>2, <2>3
<1>11. list \in SetToSeqs(S)
  BY <1>2, <1>7, <1>9 DEF SetToSeqs
<1>12. DOMAIN list = 1..(k + 1)
  BY <1>7
<1> QED
  BY <1>10, <1>11, <1>12 DEF Descending

LEMMA IdsCanBeOrdered ==
    ASSUME NEW S \in SUBSET Nat, IsFiniteSet(S)
    PROVE  Descending(S)
<1> DEFINE Bad == {n \in Nat : \E T \in SUBSET Nat :
                       IsFiniteSet(T) /\ Cardinality(T) = n /\ ~Descending(T)}
<1>1. SUFFICES ASSUME ~Descending(S) PROVE FALSE
  OBVIOUS
<1>2. Bad # {} /\ Bad \in SUBSET Nat
  BY <1>1, FS_CardinalityType
<1>3. PICK n \in Bad : \A k \in Bad : n <= k
  BY <1>2, LeastNatural
<1>4. PICK T \in SUBSET Nat : IsFiniteSet(T) /\ Cardinality(T) = n /\ ~Descending(T)
  BY <1>3
<1>5. CASE T = {}
  <2>1. PICK list : list = [i \in 1..0 |-> i]
    OBVIOUS
  <2>2. Cardinality(T) = 0 /\ list \in [1..0 -> T] /\ \A i \in 1..0 : FALSE
    BY <1>5, <2>1, FS_EmptySet
  <2>3. list \in SetToSeqs(T) /\ DOMAIN list = {}
    BY <2>2 DEF SetToSeqs
  <2> QED
    BY <1>4, <2>3 DEF Descending
<1>6. CASE T # {}
  <2>1. PICK m \in T : \A x \in T : m <= x
    BY <1>6, LeastNatural
  <2>2. PICK U : U = T \ {m}
    OBVIOUS
  <2>3. IsFiniteSet(U) /\ Cardinality(U) = n - 1 /\ Cardinality(U) \in Nat
    BY <1>4, <2>2, FS_RemoveElement, FS_CardinalityType
  <2>4. n - 1 \notin Bad
    BY <1>2, <1>3
  <2>5. U \in SUBSET Nat
    BY <2>2
  <2>6. Descending(U)
    BY <2>3, <2>4, <2>5
  <2> QED
    BY <1>4, <2>1, <2>2, <2>6, LeastLast
<1> QED
  BY <1>5, <1>6

LEMMA NewestFirstLists ==
    ASSUME NEW S \in SUBSET Nat, IsFiniteSet(S)
    PROVE  NewestFirst(S) \in Seq(S)
<1>1. NewestFirst(S) \in SetToSeqs(S)
  BY IdsCanBeOrdered DEF Descending, NewestFirst
<1>2. Cardinality(S) \in Nat
  BY FS_CardinalityType
<1> QED
  BY <1>1, <1>2 DEF SetToSeqs

Columns == {"url", "role", "method", "status", "health", "print"}
Values == Urls \cup Roles \cup Methods \cup Statuses \cup HealthStatuses \cup Prints

\* What a statement may set: some columns of a row.
Fits(set) ==
    /\ "url" \in DOMAIN set => set.url \in Urls
    /\ "role" \in DOMAIN set => set.role \in Roles
    /\ "method" \in DOMAIN set => set.method \in Methods
    /\ "status" \in DOMAIN set => set.status \in Statuses
    /\ "health" \in DOMAIN set => set.health \in HealthStatuses
    /\ "print" \in DOMAIN set => set.print \in Prints

Edits == {set \in UNION {[some -> Values] : some \in SUBSET Columns} : Fits(set)}

CallRecords == [id : Nat, from : SUBSET Statuses, idle : SUBSET Statuses, set : Edits]

ItemRecords ==
    {MoveItems[n] : n \in DOMAIN Obsolete} \cup {MethodsItem[1]}
    \cup {EntryItems[n] : n \in DOMAIN Catalog}
    \cup {[op |-> "status", what |-> Catalog[n]] : n \in DOMAIN Catalog}
    \cup {[op |-> "probe", what |-> w] : w \in [id : DOMAIN rows, url : Urls, print : Prints]}

RowTable(t) ==
    DOMAIN t \subseteq Nat /\ IsFiniteSet(DOMAIN t) /\ t \in [DOMAIN t -> SourceRows]

\* uq_sources_url_format, as one transaction sees it.
UniqueUrls(t) == \A i, j \in DOMAIN t : t[i].url = t[j].url => i = j

TxTypes(p) ==
    /\ tx[p] = [items |-> tx[p].items, calls |-> tx[p].calls, checked |-> tx[p].checked,
                own |-> tx[p].own, alone |-> tx[p].alone]
    /\ tx[p].items \in Seq(ItemRecords) /\ tx[p].calls \in Seq(CallRecords)
    /\ tx[p].checked \in BOOLEAN /\ tx[p].alone \in BOOLEAN
    /\ RowTable(tx[p].own)

Adds(p) == Calls(p) /\ Inserts(Current(p))

\* Only the first call of a list inserts; the others are of rows that are there
\* or of the one it inserts.
ListFits(list, ids) ==
    \A n \in DOMAIN list :
        IF Inserts(list[n]) THEN n = 1 /\ list[n].set \in SourceRows
        ELSE list[n].id \in ids \/ (Inserts(list[1]) /\ list[n].id = list[1].id)

NewIdsAreNew ==
    \A p \in DOMAIN tx : Adds(p) =>
        /\ Current(p).id \notin DOMAIN rows
        /\ \A q \in DOMAIN tx :
              /\ Current(p).id \notin DOMAIN tx[q].own
              /\ q # p /\ Adds(q) => Current(q).id # Current(p).id

RegistryInv ==
    /\ RowTable(rows) /\ UniqueUrls(rows)
    /\ DOMAIN tx \subseteq Processes /\ IsFiniteSet(DOMAIN tx)
    /\ \A p \in DOMAIN tx : TxTypes(p) /\ ListFits(tx[p].calls, DOMAIN Seen(p)) /\ UniqueUrls(Seen(p))
    /\ \A p, q \in DOMAIN tx : p # q =>
          DOMAIN tx[p].own \cap DOMAIN tx[q].own = {} /\ UrlsHeld(p) \cap UrlsHeld(q) = {}
    /\ NewIdsAreNew
    /\ calls \in 0..MaxCalls /\ deaths \in 0..MaxDeaths

-----------------------------------------------------------------------------
LEMMA Finiteness ==
    /\ \A S, T : IsFiniteSet(S) /\ IsFiniteSet(T) => IsFiniteSet(S \cup T)
    /\ \A S, T : IsFiniteSet(S) /\ T \subseteq S => IsFiniteSet(T)
    /\ \A f : IsFiniteSet(DOMAIN f) => IsFiniteSet({f[x] : x \in DOMAIN f})
<1>1. ASSUME NEW f, IsFiniteSet(DOMAIN f) PROVE IsFiniteSet({f[x] : x \in DOMAIN f})
  <2>1. PICK T, g : T = {f[x] : x \in DOMAIN f} /\ g = [x \in DOMAIN f |-> f[x]]
    OBVIOUS
  <2>2. g \in Surjection(DOMAIN f, T)
    BY <2>1 DEF Surjection
  <2> QED
    BY <1>1, <2>1, <2>2, FS_Surjection
<1> QED
  BY <1>1, FS_Union, FS_Subset

LEMMA TablesMerge ==
    ASSUME NEW t, NEW u, RowTable(t), RowTable(u)
    PROVE  RowTable(Over(t, u))
<1>1. DOMAIN Over(t, u) = DOMAIN t \cup DOMAIN u
  BY DEF Over
<1>2. \A i \in DOMAIN Over(t, u) : Over(t, u)[i] \in SourceRows
  BY DEF RowTable, Over
<1>3. Over(t, u) \in [DOMAIN Over(t, u) -> SourceRows]
  BY <1>1, <1>2 DEF Over
<1> QED
  BY <1>1, <1>3, Finiteness DEF RowTable

LEMMA RowsHaveColumns ==
    ASSUME NEW row \in SourceRows
    PROVE  /\ DOMAIN row = Columns /\ row \in [Columns -> Values] /\ row \in Edits
           /\ row.url \in Urls /\ row.role \in Roles /\ row.method \in Methods
           /\ row.status \in Statuses /\ row.health \in HealthStatuses /\ row.print \in Prints
<1>1. /\ DOMAIN row = Columns
      /\ row.url \in Urls /\ row.role \in Roles /\ row.method \in Methods
      /\ row.status \in Statuses /\ row.health \in HealthStatuses /\ row.print \in Prints
  BY DEF SourceRows, Columns
<1>2. row = [c \in Columns |-> row[c]]
  BY <1>1 DEF SourceRows
<1>3. \A c \in Columns : row[c] \in Values
  BY <1>1 DEF Columns, Values
<1>4. row \in [Columns -> Values]
  BY <1>2, <1>3
<1>5. Fits(row)
  BY <1>1 DEF Fits
<1> QED
  BY <1>1, <1>4, <1>5 DEF Edits

LEMMA EditsAreTyped ==
    ASSUME NEW set
    PROVE  set \in Edits <=> /\ DOMAIN set \subseteq Columns /\ set = [c \in DOMAIN set |-> set[c]]
                             /\ Fits(set)
<1>1. ASSUME set \in Edits
      PROVE  DOMAIN set \subseteq Columns /\ set = [c \in DOMAIN set |-> set[c]] /\ Fits(set)
  BY <1>1 DEF Edits
<1>2. ASSUME DOMAIN set \subseteq Columns, set = [c \in DOMAIN set |-> set[c]], Fits(set)
      PROVE  set \in Edits
  <2>1. \A c \in DOMAIN set : set[c] \in Values
    BY <1>2 DEF Fits, Columns, Values
  <2>2. set \in [DOMAIN set -> Values]
    BY <1>2, <2>1
  <2> QED
    BY <1>2, <2>2 DEF Edits
<1> QED
  BY <1>1, <1>2

LEMMA SetColumns ==
    ASSUME NEW row \in SourceRows, NEW set \in Edits
    PROVE  /\ Over(set, row) \in SourceRows
           /\ \A c \in Columns : Over(set, row)[c] = IF c \in DOMAIN set THEN set[c] ELSE row[c]
<1>1. PICK new : new = Over(set, row)
  OBVIOUS
<1>2. DOMAIN set \subseteq Columns /\ Fits(set)
  BY EditsAreTyped
<1>3. DOMAIN new = Columns
  BY <1>1, <1>2, RowsHaveColumns DEF Over
<1>4. /\ new.url \in Urls /\ new.role \in Roles /\ new.method \in Methods
      /\ new.status \in Statuses /\ new.health \in HealthStatuses /\ new.print \in Prints
  BY <1>1, <1>2, RowsHaveColumns DEF Over, Columns, Fits
<1>5. new = [c \in Columns |-> new[c]]
  BY <1>1, <1>3 DEF Over
<1>6. new \in SourceRows
  BY <1>4, <1>5 DEF SourceRows, Columns
<1> QED
  BY <1>1, <1>3, <1>6, RowsHaveColumns DEF Over

LEMMA EditsOfCalls ==
    /\ \A u \in Urls : [url |-> u] \in Edits
    /\ \A u \in Urls, m \in Methods : Over([url |-> u], [method |-> m]) \in Edits
    /\ \A u \in Urls : Over([url |-> u], Empty) = [url |-> u]
    /\ \A r \in Roles : [role |-> r] \in Edits
    /\ \A s \in Statuses : [status |-> s] \in Edits
    /\ [method |-> "playwright"] \in Edits
    /\ \A h \in HealthStatuses : [health |-> h] \in Edits
    /\ \A h \in HealthStatuses, f \in Prints : Over([health |-> h], [print |-> f]) \in Edits
<1>1. ASSUME NEW u \in Urls PROVE [url |-> u] \in Edits
  BY EditsAreTyped DEF Columns, Fits
<1>2. ASSUME NEW u \in Urls, NEW m \in Methods PROVE Over([url |-> u], [method |-> m]) \in Edits
  <2>1. PICK set : set = Over([url |-> u], [method |-> m])
    OBVIOUS
  <2>2. DOMAIN set = {"url", "method"} /\ set.url = u /\ set.method = m
    BY <2>1 DEF Over
  <2>3. set = [c \in DOMAIN set |-> set[c]]
    BY <2>1, <2>2 DEF Over
  <2> QED
    BY <2>1, <2>2, <2>3, EditsAreTyped DEF Columns, Fits
<1>3. ASSUME NEW u \in Urls PROVE Over([url |-> u], Empty) = [url |-> u]
  <2>1. PICK set : set = Over([url |-> u], Empty)
    OBVIOUS
  <2>2. DOMAIN set = {"url"} /\ set["url"] = u
    BY <2>1 DEF Over, Empty
  <2>3. set = [c \in {"url"} |-> set[c]]
    BY <2>1, <2>2 DEF Over
  <2>4. [url |-> u] = [c \in {"url"} |-> u]
    OBVIOUS
  <2> QED
    BY <2>1, <2>2, <2>3, <2>4
<1>4. ASSUME NEW r \in Roles PROVE [role |-> r] \in Edits
  BY EditsAreTyped DEF Columns, Fits
<1>5. ASSUME NEW s \in Statuses PROVE [status |-> s] \in Edits
  BY EditsAreTyped DEF Columns, Fits
<1>6. [method |-> "playwright"] \in Edits
  BY EditsAreTyped DEF Columns, Fits, Methods
<1>7. ASSUME NEW h \in HealthStatuses PROVE [health |-> h] \in Edits
  BY EditsAreTyped DEF Columns, Fits
<1>8. ASSUME NEW h \in HealthStatuses, NEW f \in Prints
      PROVE  Over([health |-> h], [print |-> f]) \in Edits
  <2>1. PICK set : set = Over([health |-> h], [print |-> f])
    OBVIOUS
  <2>2. DOMAIN set = {"health", "print"} /\ set.health = h /\ set.print = f
    BY <2>1 DEF Over
  <2>3. set = [c \in DOMAIN set |-> set[c]]
    BY <2>1, <2>2 DEF Over
  <2> QED
    BY <2>1, <2>2, <2>3, EditsAreTyped DEF Columns, Fits
<1> QED
  BY <1>1, <1>2, <1>3, <1>4, <1>5, <1>6, <1>7, <1>8

LEMMA CallsAreTyped ==
    ASSUME NEW id \in Nat
    PROVE  /\ \A set \in Edits : UpdateSource(id, set) \in CallRecords /\ ~Inserts(UpdateSource(id, set))
           /\ ApproveSource(id) \in CallRecords /\ ~Inserts(ApproveSource(id))
           /\ DemoteToProposed(id) \in CallRecords /\ ~Inserts(DemoteToProposed(id))
           /\ RetireSource(id) \in CallRecords /\ ~Inserts(RetireSource(id))
           /\ \A u \in Urls, r \in Roles, m \in Methods :
                 /\ CreateSource(id, u, r, m) \in CallRecords /\ Inserts(CreateSource(id, u, r, m))
                 /\ CreateSource(id, u, r, m).set \in SourceRows
<1>1. ASSUME NEW u \in Urls, NEW r \in Roles, NEW m \in Methods
      PROVE  [url |-> u, role |-> r, method |-> m, status |-> "proposed", health |-> "unknown",
              print |-> NoPrint] \in SourceRows
  BY DEF SourceRows, Statuses, HealthStatuses, Prints
<1>2. \A s \in Statuses : [status |-> s] \in Edits
  BY EditsOfCalls
<1> QED
  BY <1>1, <1>2, RowsHaveColumns
     DEF UpdateSource, ApproveSource, DemoteToProposed, RetireSource, CreateSource, Call, Inserts,
         CallRecords, Statuses
-----------------------------------------------------------------------------
(***************************************************************************)
(* The calls that an item of a command leads to.                           *)
(***************************************************************************)
CorrectionRecords == [url : Urls, to : Urls \cup {NoUrl}, method : Methods \cup {NoMethod}]
EntryRecords == [url : Urls, role : Roles, method : Methods, proposed : BOOLEAN]

LEMMA ConstantsAreTyped ==
    /\ \A n \in DOMAIN Obsolete : Obsolete[n] \in CorrectionRecords
    /\ \A n \in DOMAIN Catalog : Catalog[n] \in EntryRecords
<1>1. Obsolete \in Seq(CorrectionRecords) /\ Catalog \in Seq(EntryRecords)
  BY SourceRegistryAssumption DEF CorrectionRecords, EntryRecords
<1> QED
  BY <1>1

LEMMA SmallUnions ==
    ASSUME NEW f, IsFiniteSet(DOMAIN f), \A x \in DOMAIN f : IsFiniteSet(f[x])
    PROVE  IsFiniteSet(UNION {f[x] : x \in DOMAIN f})
<1>1. PICK S : S = {f[x] : x \in DOMAIN f}
  OBVIOUS
<1>2. IsFiniteSet(S) /\ \A T \in S : IsFiniteSet(T)
  BY <1>1, Finiteness
<1> QED
  BY <1>1, <1>2, FS_UNION

LEMMA AtIsFinite ==
    ASSUME NEW t, RowTable(t), NEW url
    PROVE  At(t, url) \subseteq DOMAIN t /\ IsFiniteSet(At(t, url)) /\ At(t, url) \subseteq Nat
BY Finiteness DEF RowTable, At

\* A correction moves or retires the row at the obsolete url, and no other.
MovesTo(c, o) ==
    o.to # NoUrl /\ \E set \in Edits :
        c = UpdateSource(c.id, set) /\ "url" \in DOMAIN set /\ set.url = o.to
        /\ DOMAIN set \subseteq {"url", "method"}

LEMMA MoveCallsFit ==
    ASSUME NEW t, RowTable(t), NEW o \in CorrectionRecords
    PROVE  /\ IsFiniteSet(MoveCalls(t, o)) /\ MoveCalls(t, o) \subseteq CallRecords
           /\ \A c \in MoveCalls(t, o) :
                 /\ c.id \in At(t, o.url) /\ ~Inserts(c)
                 /\ c = RetireSource(c.id) \/ MovesTo(c, o)
           /\ \A id \in At(t, o.url) :
                 t[id].status # "retired" => \E c \in MoveCalls(t, o) : c.id = id
<1> DEFINE Stays(id) == o.to = NoUrl \/ At(t, o.to) \ {id} # {}
           set == Over([url |-> o.to], IF o.method = NoMethod THEN Empty ELSE [method |-> o.method])
           F == [id \in At(t, o.url) |->
                   IF Stays(id) THEN IF t[id].status = "retired" THEN {} ELSE {RetireSource(id)}
                   ELSE {UpdateSource(id, set)}]
<1>1. MoveCalls(t, o) = UNION {F[id] : id \in At(t, o.url)}
  BY DEF MoveCalls
<1>2. o.to # NoUrl =>
        set \in Edits /\ "url" \in DOMAIN set /\ set.url = o.to /\ DOMAIN set \subseteq {"url", "method"}
  <2>1. ASSUME o.to # NoUrl PROVE o.to \in Urls
    BY <2>1 DEF CorrectionRecords
  <2>2. CASE o.method = NoMethod
    BY <2>1, <2>2, EditsOfCalls
  <2>3. CASE o.method # NoMethod
    <3>1. o.method \in Methods
      BY <2>3 DEF CorrectionRecords
    <3>2. set = Over([url |-> o.to], [method |-> o.method])
      BY <2>3
    <3>3. DOMAIN set = {"url", "method"} /\ set.url = o.to
      BY <3>2 DEF Over
    <3> QED
      BY <2>1, <3>1, <3>2, <3>3, EditsOfCalls
  <2> QED
    BY <2>2, <2>3
<1> HIDE DEF set
<1>3. \A id \in At(t, o.url) : id \in Nat /\ id \in DOMAIN t
  BY AtIsFinite
<1>4. ASSUME NEW id \in At(t, o.url), NEW c \in F[id]
      PROVE  /\ c \in CallRecords /\ c.id = id /\ ~Inserts(c)
             /\ c = RetireSource(id) \/ MovesTo(c, o)
  <2>1. CASE Stays(id)
    <3>1. c = RetireSource(id)
      BY <1>4, <2>1
    <3>2. c.id = id
      BY <3>1 DEF RetireSource, Call
    <3> QED
      BY <1>3, <3>1, <3>2, CallsAreTyped
  <2>2. CASE ~Stays(id)
    <3>1. c = UpdateSource(id, set) /\ o.to # NoUrl
      BY <1>4, <2>2
    <3>2. c.id = id
      BY <3>1 DEF UpdateSource, Call
    <3>3. c \in CallRecords /\ ~Inserts(c)
      BY <1>2, <1>3, <3>1, CallsAreTyped
    <3> QED
      BY <1>2, <3>1, <3>2, <3>3 DEF MovesTo
  <2> QED
    BY <2>1, <2>2
<1>5. \A id \in DOMAIN F : IsFiniteSet(F[id])
  BY FS_EmptySet, FS_Singleton
<1>6. DOMAIN F = At(t, o.url) /\ IsFiniteSet(DOMAIN F)
  BY AtIsFinite
<1>8. ASSUME NEW id \in At(t, o.url), t[id].status # "retired"
      PROVE  \E c \in F[id] : c.id = id
  BY <1>8 DEF RetireSource, UpdateSource, Call
<1> HIDE DEF F
<1>7. IsFiniteSet(MoveCalls(t, o))
  BY <1>1, <1>5, <1>6, SmallUnions
<1> QED
  BY <1>1, <1>4, <1>7, <1>8

LEMMA MethodCallsFit ==
    ASSUME NEW t, RowTable(t)
    PROVE  /\ IsFiniteSet(MethodCalls(t)) /\ MethodCalls(t) \subseteq CallRecords
           /\ \A c \in MethodCalls(t) :
                 /\ c.id \in DOMAIN t /\ ~Inserts(c)
                 /\ c = UpdateSource(c.id, [method |-> "playwright"])
           /\ \A id \in DOMAIN t : t[id].url \in PlaywrightUrls /\ t[id].method # "playwright" =>
                 \E c \in MethodCalls(t) : c.id = id
<1>1. PICK S : S = {id \in DOMAIN t : t[id].url \in PlaywrightUrls /\ t[id].method # "playwright"}
  OBVIOUS
<1>2. S \subseteq Nat /\ IsFiniteSet(S) /\ S \subseteq DOMAIN t
  BY <1>1, Finiteness DEF RowTable
<1>3. PICK f : f = [id \in S |-> UpdateSource(id, [method |-> "playwright"])]
  OBVIOUS
<1>4. MethodCalls(t) = {f[id] : id \in DOMAIN f}
  BY <1>1, <1>3 DEF MethodCalls
<1>5. \A id \in S : f[id] \in CallRecords /\ ~Inserts(f[id]) /\ f[id].id = id
  <2>1. \A id \in S : f[id].id = id
    BY <1>3 DEF UpdateSource, Call
  <2> QED
    BY <1>2, <1>3, <2>1, CallsAreTyped, EditsOfCalls
<1>6. DOMAIN f = S
  BY <1>3
<1>7. IsFiniteSet(MethodCalls(t))
  BY <1>2, <1>4, <1>6, Finiteness
<1>8. ASSUME NEW c \in MethodCalls(t)
      PROVE  /\ c \in CallRecords /\ c.id \in DOMAIN t /\ ~Inserts(c)
             /\ c = UpdateSource(c.id, [method |-> "playwright"])
  <2>1. PICK id \in S : c = f[id]
    BY <1>4, <1>6
  <2> QED
    BY <1>2, <1>3, <1>5, <2>1
<1>9. \A id \in S : f[id] \in MethodCalls(t) /\ f[id].id = id
  BY <1>4, <1>5, <1>6
<1> QED
  BY <1>1, <1>7, <1>8, <1>9

StatusCall(id, e) == IF AutoApproved(e) THEN ApproveSource(id) ELSE DemoteToProposed(id)

LEMMA StatusCallsFit ==
    ASSUME NEW t, RowTable(t), NEW e \in EntryRecords
    PROVE  /\ IsFiniteSet(StatusCalls(t, e)) /\ StatusCalls(t, e) \subseteq CallRecords
           /\ \A c \in StatusCalls(t, e) :
                 c.id \in At(t, e.url) /\ ~Inserts(c) /\ c = StatusCall(c.id, e)
           /\ \A id \in At(t, e.url) :
                 t[id].status # "retired" /\ (t[id].status = "approved") # AutoApproved(e) =>
                    \E c \in StatusCalls(t, e) : c.id = id
<1> DEFINE F == [id \in At(t, e.url) |->
                   IF AutoApproved(e)
                   THEN IF t[id].status = "proposed" THEN {ApproveSource(id)} ELSE {}
                   ELSE IF t[id].status = "approved" THEN {DemoteToProposed(id)} ELSE {}]
<1>1. StatusCalls(t, e) = UNION {F[id] : id \in At(t, e.url)}
  BY DEF StatusCalls
<1>2. \A id \in At(t, e.url) : id \in Nat /\ id \in DOMAIN t
  BY AtIsFinite
<1>3. \A id : ApproveSource(id).id = id /\ DemoteToProposed(id).id = id
  BY DEF ApproveSource, DemoteToProposed, Call
<1>4. ASSUME NEW id \in At(t, e.url), NEW c \in F[id]
      PROVE  c \in CallRecords /\ c.id = id /\ ~Inserts(c) /\ c = StatusCall(id, e)
  <2>1. c = StatusCall(id, e)
    BY <1>4 DEF StatusCall
  <2>2. c = ApproveSource(id) \/ c = DemoteToProposed(id)
    BY <2>1 DEF StatusCall
  <2> QED
    BY <1>2, <1>3, <2>1, <2>2, CallsAreTyped
<1>5. \A id \in DOMAIN F : IsFiniteSet(F[id])
  BY FS_EmptySet, FS_Singleton
<1>6. DOMAIN F = At(t, e.url) /\ IsFiniteSet(DOMAIN F)
  BY AtIsFinite
<1>8. ASSUME NEW id \in At(t, e.url), t[id].status # "retired",
             (t[id].status = "approved") # AutoApproved(e)
      PROVE  \E c \in F[id] : c.id = id
  <2>1. t[id].status \in Statuses
    BY <1>2, RowsHaveColumns DEF RowTable
  <2>2. AutoApproved(e) \in BOOLEAN
    BY DEF AutoApproved, EntryRecords
  <2>3. t[id].status \in {"proposed", "approved"}
    BY <1>8, <2>1 DEF Statuses
  <2>4. CASE AutoApproved(e)
    <3>1. F[id] = {ApproveSource(id)}
      BY <1>8, <2>3, <2>4
    <3> QED
      BY <1>3, <3>1
  <2>5. CASE ~AutoApproved(e)
    <3>1. t[id].status = "approved"
      BY <1>8, <2>2, <2>5, Zenon
    <3>2. F[id] = {DemoteToProposed(id)}
      BY <2>5, <3>1
    <3> QED
      BY <1>3, <3>2
  <2> QED
    BY <2>4, <2>5
<1> HIDE DEF F
<1>7. IsFiniteSet(StatusCalls(t, e))
  BY <1>1, <1>5, <1>6, SmallUnions
<1> QED
  BY <1>1, <1>4, <1>7, <1>8

RoleCalls(t, e) == {UpdateSource(id, [role |-> e.role]) : id \in WrongRole(t, e)}

LEMMA RoleCallsFit ==
    ASSUME NEW t, RowTable(t), NEW e \in EntryRecords
    PROVE  /\ IsFiniteSet(RoleCalls(t, e)) /\ RoleCalls(t, e) \subseteq CallRecords
           /\ \A c \in RoleCalls(t, e) :
                 c.id \in At(t, e.url) /\ ~Inserts(c) /\ c = UpdateSource(c.id, [role |-> e.role])
           /\ \A id \in WrongRole(t, e) : \E c \in RoleCalls(t, e) : c.id = id
<1>1. PICK S : S = WrongRole(t, e)
  OBVIOUS
<1>2. S \subseteq Nat /\ IsFiniteSet(S) /\ S \subseteq At(t, e.url)
  <2>1. S \subseteq At(t, e.url)
    BY <1>1 DEF WrongRole
  <2> QED
    BY <2>1, AtIsFinite, Finiteness
<1>3. PICK f : f = [id \in S |-> UpdateSource(id, [role |-> e.role])]
  OBVIOUS
<1>4. RoleCalls(t, e) = {f[id] : id \in DOMAIN f}
  BY <1>1, <1>3 DEF RoleCalls
<1>5. \A id \in S : f[id] \in CallRecords /\ ~Inserts(f[id]) /\ f[id].id = id
  <2>1. \A id \in S : f[id].id = id
    BY <1>3 DEF UpdateSource, Call
  <2>2. [role |-> e.role] \in Edits
    BY EditsOfCalls DEF EntryRecords
  <2> QED
    BY <1>2, <1>3, <2>1, <2>2, CallsAreTyped
<1>6. DOMAIN f = S
  BY <1>3
<1>7. IsFiniteSet(RoleCalls(t, e))
  BY <1>2, <1>4, <1>6, Finiteness
<1> QED
  BY <1>1, <1>2, <1>3, <1>4, <1>5, <1>6, <1>7
LEMMA NextIdIsNew ==
    ASSUME RegistryInv
    PROVE  NextId \in Nat /\ NextId \notin UsedIds
<1>1. IsFiniteSet(DOMAIN rows) /\ IsFiniteSet(DOMAIN tx)
  BY DEF RegistryInv, RowTable
<1>2. PICK f : f = [p \in DOMAIN tx |-> DOMAIN tx[p].own]
  OBVIOUS
<1>3. PICK A : A = UNION {f[p] : p \in DOMAIN f}
  OBVIOUS
<1>4. IsFiniteSet(A)
  <2>1. DOMAIN f = DOMAIN tx /\ \A p \in DOMAIN f : IsFiniteSet(f[p])
    BY <1>2 DEF RegistryInv, TxTypes, RowTable
  <2> QED
    BY <1>1, <1>3, <2>1, SmallUnions
<1>5. PICK g : g = [p \in {q \in DOMAIN tx : tx[q].calls # <<>>} |-> tx[p].calls[1].id]
  OBVIOUS
<1>6. PICK B : B = {g[p] : p \in DOMAIN g}
  OBVIOUS
<1>7. IsFiniteSet(B)
  <2>1. IsFiniteSet(DOMAIN g)
    BY <1>1, <1>5, Finiteness
  <2> QED
    BY <1>6, <2>1, Finiteness
<1>8. IsFiniteSet(UsedIds)
  <2>1. UsedIds = (DOMAIN rows \cup A) \cup B
    <3>1. A = UNION {DOMAIN tx[p].own : p \in DOMAIN tx}
      BY <1>2, <1>3
    <3>2. B = {tx[p].calls[1].id : p \in {q \in DOMAIN tx : tx[q].calls # <<>>}}
      BY <1>5, <1>6
    <3> QED
      BY <3>1, <3>2, Zenon DEF UsedIds
  <2>2. IsFiniteSet(DOMAIN rows \cup A)
    BY <1>1, <1>4, Finiteness
  <2> QED
    BY <1>7, <2>1, <2>2, Finiteness
<1>9. PICK k \in Nat : k = Cardinality(UsedIds)
  BY <1>8, FS_CardinalityType
<1>10. \E n \in 1..k + 1 : n \notin UsedIds
  <2>1. SUFFICES ASSUME 1..k + 1 \subseteq UsedIds PROVE FALSE
    OBVIOUS
  <2>2. Cardinality(1..k + 1) = k + 1
    BY FS_Interval
  <2>3. Cardinality(1..k + 1) <= k
    BY <1>8, <1>9, <2>1, FS_Subset
  <2> QED
    BY <2>2, <2>3
<1>11. NextId = CHOOSE n \in 1..k + 1 : n \notin UsedIds
  BY <1>9 DEF NextId
<1> QED
  BY <1>10, <1>11

AddCalls(cs, e) ==
    /\ cs # <<>> /\ cs[1] = CreateSource(NextId, e.url, e.role, e.method)
    /\ IF AutoApproved(e) THEN Len(cs) = 2 /\ cs[2] = ApproveSource(NextId) ELSE Len(cs) = 1

LEMMA EntryCallsFit ==
    ASSUME NEW t, RowTable(t), NEW e \in EntryRecords, NextId \in Nat
    PROVE  /\ EntryCalls(t, e) \in Seq(CallRecords)
           /\ At(t, e.url) = {} => AddCalls(EntryCalls(t, e), e)
           /\ At(t, e.url) # {} /\ WrongRole(t, e) # {} =>
                 EntryCalls(t, e) = SetToSeq(RoleCalls(t, e))
           /\ At(t, e.url) # {} /\ WrongRole(t, e) = {} =>
                 EntryCalls(t, e) = SetToSeq(StatusCalls(t, e))
<1>1. CASE At(t, e.url) = {}
  <2>1. PICK c, d : /\ c = CreateSource(NextId, e.url, e.role, e.method)
                    /\ d = ApproveSource(NextId)
    OBVIOUS
  <2>2. c \in CallRecords /\ d \in CallRecords
    BY <2>1, CallsAreTyped DEF EntryRecords
  <2>3. EntryCalls(t, e) = <<c>> \o (IF AutoApproved(e) THEN <<d>> ELSE <<>>)
    BY <1>1, <2>1 DEF EntryCalls
  <2>4. CASE AutoApproved(e)
    <3>1. PICK l, r : l = <<c>> /\ r = <<d>>
      OBVIOUS
    <3>2. l \in Seq(CallRecords) /\ r \in Seq(CallRecords) /\ Len(l) = 1 /\ Len(r) = 1
      BY <2>2, <3>1
    <3>4. /\ l \o r \in Seq(CallRecords) /\ Len(l \o r) = 2
          /\ (l \o r)[1] = c /\ (l \o r)[2] = d
      BY <3>1, <3>2
    <3>3. EntryCalls(t, e) = l \o r
      BY <2>3, <2>4, <3>1
    <3> QED
      BY <1>1, <2>1, <2>4, <3>3, <3>4 DEF AddCalls
  <2>5. CASE ~AutoApproved(e)
    <3>1. EntryCalls(t, e) = <<c>>
      BY <2>3, <2>5
    <3> QED
      BY <1>1, <2>1, <2>2, <2>5, <3>1 DEF AddCalls
  <2> QED
    BY <2>4, <2>5
<1>2. CASE At(t, e.url) # {} /\ WrongRole(t, e) # {}
  <2>1. EntryCalls(t, e) = SetToSeq(RoleCalls(t, e))
    BY <1>2 DEF EntryCalls, RoleCalls
  <2>2. EntryCalls(t, e) \in Seq(RoleCalls(t, e)) /\ RoleCalls(t, e) \subseteq CallRecords
    BY <2>1, RoleCallsFit, ListOfSet
  <2> QED
    BY <1>2, <2>1, <2>2
<1>3. CASE At(t, e.url) # {} /\ WrongRole(t, e) = {}
  <2>1. EntryCalls(t, e) = SetToSeq(StatusCalls(t, e))
    BY <1>3 DEF EntryCalls
  <2>2. EntryCalls(t, e) \in Seq(StatusCalls(t, e)) /\ StatusCalls(t, e) \subseteq CallRecords
    BY <2>1, StatusCallsFit, ListOfSet
  <2> QED
    BY <1>3, <2>1, <2>2
<1> QED
  BY <1>1, <1>2, <1>3

LEMMA HealthCallsFit ==
    ASSUME NEW s, s.id \in Nat, NEW u \in Urls, NEW a \in Answers[u]
    PROVE  /\ HealthCalls(s, a) \in Seq(CallRecords) /\ Len(HealthCalls(s, a)) = 1
           /\ HealthCalls(s, a)[1].id = s.id /\ ~Inserts(HealthCalls(s, a)[1])
<1>1. PICK h : h = DeriveHealthStatus(a, s.print)
  OBVIOUS
<1>2. h \in HealthStatuses
  BY <1>1 DEF DeriveHealthStatus, HealthStatuses
<1>3. a.print \in Prints
  BY DEF Prints
<1>4. PICK set : set = IF s.print = NoPrint /\ a.print # NoPrint
                       THEN Over([health |-> h], [print |-> a.print]) ELSE [health |-> h]
  OBVIOUS
<1>5. set \in Edits
  BY <1>2, <1>3, <1>4, EditsOfCalls
<1>6. HealthCalls(s, a) = <<UpdateSource(s.id, set)>>
  BY <1>1, <1>4 DEF HealthCalls
<1>7. UpdateSource(s.id, set) \in CallRecords /\ ~Inserts(UpdateSource(s.id, set))
  BY <1>5, CallsAreTyped
<1>8. UpdateSource(s.id, set).id = s.id
  BY DEF UpdateSource, Call
<1> QED
  BY <1>6, <1>7, <1>8

NewCalls(list, ids) ==
    /\ list \in Seq(CallRecords) /\ ListFits(list, ids)
    /\ list # <<>> /\ Inserts(list[1]) => list[1].id = NextId

LEMMA ListsOfSetsAreNewCalls ==
    ASSUME NEW S, IsFiniteSet(S), S \subseteq CallRecords, NEW ids,
           \A c \in S : c.id \in ids /\ ~Inserts(c)
    PROVE  NewCalls(SetToSeq(S), ids)
<1>1. PICK list : list = SetToSeq(S)
  OBVIOUS
<1>2. list \in Seq(S)
  BY <1>1, ListOfSet
<1>3. \A n \in DOMAIN list : list[n] \in S
  BY <1>2
<1>4. list \in Seq(CallRecords) /\ (list # <<>> => 1 \in DOMAIN list)
  BY <1>2
<1> QED
  BY <1>1, <1>3, <1>4 DEF NewCalls, ListFits

LEMMA LookedUp ==
    ASSUME RegistryInv, NEW p \in DOMAIN tx, NEW item \in ItemRecords,
           NEW list \in CallsFor(p, item)
    PROVE  NewCalls(list, DOMAIN Seen(p))
<1> DEFINE t == Seen(p)
<1>1. RowTable(t)
  BY TablesMerge DEF RegistryInv, TxTypes, Seen
<1>2. NextId \in Nat
  BY NextIdIsNew
<1>3. CASE item.op = "move"
  <2>1. item.what \in CorrectionRecords
    BY <1>3, ConstantsAreTyped DEF ItemRecords, MoveItems, MethodsItem, EntryItems
  <2>2. list = SetToSeq(MoveCalls(t, item.what))
    BY <1>3 DEF CallsFor
  <2> QED
    BY <1>1, <2>1, <2>2, MoveCallsFit, AtIsFinite, ListsOfSetsAreNewCalls
<1>4. CASE item.op = "methods"
  <2>1. list = SetToSeq(MethodCalls(t))
    BY <1>4 DEF CallsFor
  <2> QED
    BY <1>1, <2>1, MethodCallsFit, ListsOfSetsAreNewCalls
<1>5. CASE item.op = "status"
  <2>1. item.what \in EntryRecords
    BY <1>5, ConstantsAreTyped DEF ItemRecords, MoveItems, MethodsItem, EntryItems
  <2>2. list = SetToSeq(StatusCalls(t, item.what))
    BY <1>5 DEF CallsFor
  <2> QED
    BY <1>1, <2>1, <2>2, StatusCallsFit, AtIsFinite, ListsOfSetsAreNewCalls
<1>6. CASE item.op = "entry"
  <2>1. PICK e \in EntryRecords : e = item.what
    BY <1>6, ConstantsAreTyped DEF ItemRecords, MoveItems, MethodsItem, EntryItems
  <2>2. list = EntryCalls(t, e)
    BY <1>6, <2>1 DEF CallsFor
  <2>3. CASE At(t, e.url) = {}
    <3>1. list \in Seq(CallRecords) /\ AddCalls(list, e)
      BY <1>1, <1>2, <2>2, <2>3, EntryCallsFit
    <3>2. /\ Inserts(list[1]) /\ list[1].set \in SourceRows /\ list[1].id = NextId
      <4>1. CreateSource(NextId, e.url, e.role, e.method).id = NextId
        BY DEF CreateSource, Call
      <4> QED
        BY <1>2, <3>1, <4>1, CallsAreTyped DEF AddCalls, EntryRecords
    <3>3. ~Inserts(ApproveSource(NextId)) /\ ApproveSource(NextId).id = NextId
      BY <1>2, CallsAreTyped DEF ApproveSource, Call
    <3>4. \A n \in DOMAIN list : n # 1 => n = 2 /\ list[n] = ApproveSource(NextId)
      BY <3>1 DEF AddCalls
    <3> QED
      BY <3>1, <3>2, <3>3, <3>4 DEF NewCalls, ListFits
  <2>4. CASE At(t, e.url) # {} /\ WrongRole(t, e) # {}
    <3>1. list = SetToSeq(RoleCalls(t, e))
      BY <1>1, <1>2, <2>2, <2>4, EntryCallsFit
    <3> QED
      BY <1>1, <3>1, RoleCallsFit, AtIsFinite, ListsOfSetsAreNewCalls
  <2>5. CASE At(t, e.url) # {} /\ WrongRole(t, e) = {}
    <3>1. list = SetToSeq(StatusCalls(t, e))
      BY <1>1, <1>2, <2>2, <2>5, EntryCallsFit
    <3> QED
      BY <1>1, <3>1, StatusCallsFit, AtIsFinite, ListsOfSetsAreNewCalls
  <2> QED
    BY <2>3, <2>4, <2>5
<1>7. CASE item.op = "probe"
  <2>1. item.what \in [id : DOMAIN rows, url : Urls, print : Prints]
    BY <1>7 DEF ItemRecords, MoveItems, MethodsItem, EntryItems
  <2>2. item.what.id \in Nat /\ item.what.id \in DOMAIN t /\ item.what.url \in Urls
    BY <2>1 DEF RegistryInv, RowTable, Seen, Over
  <2>3. PICK a \in Answers[item.what.url] : list = HealthCalls(item.what, a)
    BY <1>7 DEF CallsFor
  <2>4. list \in Seq(CallRecords) /\ Len(list) = 1 /\ list[1].id \in DOMAIN t /\ ~Inserts(list[1])
    BY <2>2, <2>3, HealthCallsFit
  <2> QED
    BY <2>4 DEF NewCalls, ListFits
<1> QED
  BY <1>3, <1>4, <1>5, <1>6, <1>7 DEF ItemRecords, MoveItems, MethodsItem, EntryItems
-----------------------------------------------------------------------------
(***************************************************************************)
(* Steps of a transaction before its end: nothing changes for the others.  *)
(***************************************************************************)
LEMMA OneChanges ==
    ASSUME RegistryInv, rows' = rows, NEW p \in Processes,
           DOMAIN tx' = DOMAIN tx \cup {p}, \A q \in DOMAIN tx \ {p} : tx'[q] = tx[q],
           calls' \in 0..MaxCalls, deaths' \in 0..MaxDeaths,
           TxTypes(p)', ListFits(tx[p].calls, DOMAIN Seen(p))', UniqueUrls(Seen(p))',
           \A q \in DOMAIN tx \ {p} :
              /\ DOMAIN tx'[p].own \cap DOMAIN tx[q].own = {}
              /\ UrlsHeld(p)' \cap UrlsHeld(q) = {}
              /\ Adds(q) => Current(q).id \notin DOMAIN tx'[p].own,
           Adds(p)' =>
              /\ Current(p)'.id \notin DOMAIN rows \cup DOMAIN tx'[p].own
              /\ \A q \in DOMAIN tx \ {p} :
                    /\ Current(p)'.id \notin DOMAIN tx[q].own
                    /\ Adds(q) => Current(q).id # Current(p)'.id
    PROVE  RegistryInv'
<1>1. \A q \in DOMAIN tx \ {p} :
         /\ Seen(q)' = Seen(q) /\ UrlsHeld(q)' = UrlsHeld(q)
         /\ (Adds(q) <=> Adds(q)') /\ Current(q)' = Current(q)
  BY DEF Seen, UrlsHeld, Adds, Calls, Current
<1>2. (RowTable(rows) /\ UniqueUrls(rows))'
  BY DEF RegistryInv, RowTable, UniqueUrls
<1>3. (DOMAIN tx \subseteq Processes /\ IsFiniteSet(DOMAIN tx))'
  BY FS_AddElement DEF RegistryInv, Processes
<1>4. ASSUME NEW q \in DOMAIN tx \ {p}
      PROVE  (TxTypes(q) /\ ListFits(tx[q].calls, DOMAIN Seen(q)) /\ UniqueUrls(Seen(q)))'
  <2>1. TxTypes(q) /\ ListFits(tx[q].calls, DOMAIN Seen(q)) /\ UniqueUrls(Seen(q))
    BY DEF RegistryInv
  <2>2. ItemRecords' = ItemRecords
    BY DEF ItemRecords
  <2>3. TxTypes(q)'
    BY <2>1, <2>2 DEF TxTypes, RowTable
  <2>4. ListFits(tx[q].calls, DOMAIN Seen(q))'
    BY <1>1, <2>1 DEF ListFits
  <2>5. UniqueUrls(Seen(q))'
    BY <1>1, <2>1 DEF UniqueUrls
  <2> QED
    BY <2>3, <2>4, <2>5
<1>5. \A q \in DOMAIN tx' :
         (TxTypes(q) /\ ListFits(tx[q].calls, DOMAIN Seen(q)) /\ UniqueUrls(Seen(q)))'
  BY <1>4
<1>6. ASSUME NEW q \in DOMAIN tx', NEW r \in DOMAIN tx', q # r
      PROVE  (DOMAIN tx[q].own \cap DOMAIN tx[r].own = {} /\ UrlsHeld(q) \cap UrlsHeld(r) = {})'
  <2>1. CASE q = p
    BY <1>1, <1>6, <2>1
  <2>2. CASE r = p
    BY <1>1, <1>6, <2>2
  <2>3. CASE q # p /\ r # p
    BY <1>1, <1>6, <2>3 DEF RegistryInv
  <2> QED
    BY <2>1, <2>2, <2>3
<1>7. NewIdsAreNew'
  <2>1. SUFFICES ASSUME NEW q \in DOMAIN tx', Adds(q)', NEW r \in DOMAIN tx'
        PROVE  /\ Current(q)'.id \notin DOMAIN rows
               /\ Current(q)'.id \notin DOMAIN tx'[r].own
               /\ r # q /\ Adds(r)' => Current(r)'.id # Current(q)'.id
    BY DEF NewIdsAreNew
  <2>2. CASE q = p
    BY <1>1, <2>1, <2>2
  <2>3. CASE q # p /\ r = p
    BY <1>1, <2>1, <2>3 DEF RegistryInv, NewIdsAreNew
  <2>4. CASE q # p /\ r # p
    BY <1>1, <2>1, <2>4 DEF RegistryInv, NewIdsAreNew
  <2> QED
    BY <2>2, <2>3, <2>4
<1> QED
  BY <1>2, <1>3, <1>5, <1>6, <1>7 DEF RegistryInv

LEMMA BeginInv ==
    ASSUME RegistryInv, NEW p \in Processes, NEW items \in Seq(ItemRecords),
           NEW first, NewCalls(first, DOMAIN rows), Begin(p, items, first),
           calls' \in 0..MaxCalls
    PROVE  RegistryInv'
<1>1. PICK t : t = [items |-> items, calls |-> first, checked |-> FALSE,
                    own |-> Empty, alone |-> TRUE]
  OBVIOUS
<1>2. /\ rows' = rows /\ deaths' = deaths /\ p \notin DOMAIN tx
      /\ DOMAIN tx' = DOMAIN tx \cup {p} /\ tx'[p] = t
      /\ \A q \in DOMAIN tx \ {p} : tx'[q] = tx[q]
  BY <1>1 DEF Begin, With, Over
<1>3. DOMAIN Empty = {} /\ RowTable(Empty)
  BY FS_EmptySet DEF Empty, RowTable
<1>4. DOMAIN Seen(p)' = DOMAIN rows /\ \A id \in DOMAIN rows : Seen(p)'[id] = rows[id]
  BY <1>1, <1>2, <1>3 DEF Seen, Over
<1>5. UrlsHeld(p)' = {}
  BY <1>1, <1>2, <1>3 DEF UrlsHeld
<1>6. /\ first \in Seq(CallRecords) /\ ListFits(first, DOMAIN rows)
      /\ first # <<>> /\ Inserts(first[1]) => first[1].id = NextId
  BY DEF NewCalls
<1>7. (TxTypes(p) /\ ListFits(tx[p].calls, DOMAIN Seen(p)) /\ UniqueUrls(Seen(p)))'
  <2>1. ItemRecords' = ItemRecords
    BY <1>2 DEF ItemRecords
  <2>2. TxTypes(p)'
    BY <1>1, <1>2, <1>3, <1>6, <2>1 DEF TxTypes, RowTable
  <2>3. ListFits(tx[p].calls, DOMAIN Seen(p))'
    BY <1>1, <1>2, <1>4, <1>6 DEF ListFits
  <2>4. UniqueUrls(Seen(p))'
    BY <1>4 DEF RegistryInv, UniqueUrls
  <2> QED
    BY <2>2, <2>3, <2>4
<1>8. Adds(p)' => Current(p)'.id = NextId
  BY <1>1, <1>2, <1>6 DEF Adds, Calls, Current
<1>9. \A q \in DOMAIN tx : NextId \notin DOMAIN tx[q].own /\ (Adds(q) => Current(q).id # NextId)
  BY NextIdIsNew DEF UsedIds, Adds, Calls, Current
<1>10. NextId \notin DOMAIN rows
  BY NextIdIsNew DEF UsedIds
<1>11. deaths' \in 0..MaxDeaths
  BY <1>2 DEF RegistryInv
<1> QED
  BY <1>1, <1>2, <1>3, <1>5, <1>7, <1>8, <1>9, <1>10, <1>11, OneChanges

LEMMA OperateInv ==
    ASSUME RegistryInv, NEW p \in Operators, Operate(p)
    PROVE  RegistryInv'
<1>1. calls' \in 0..MaxCalls
  BY SourceRegistryAssumption DEF Operate, Counted, RegistryInv
<1>2. PICK call \in OperatorCalls : Begin(p, <<>>, <<call>>)
  BY DEF Operate
<1>3. /\ call \in CallRecords
      /\ \/ ~Inserts(call) /\ call.id \in DOMAIN rows
         \/ Inserts(call) /\ call.id = NextId /\ call.set \in SourceRows
  <2>1. CASE \E id \in DOMAIN rows :
                call \in {ApproveSource(id), DemoteToProposed(id), RetireSource(id)}
    <3>1. PICK id \in DOMAIN rows :
                call \in {ApproveSource(id), DemoteToProposed(id), RetireSource(id)}
      BY <2>1
    <3>2. id \in Nat
      BY DEF RegistryInv, RowTable
    <3>3. call.id = id
      BY <3>1 DEF ApproveSource, DemoteToProposed, RetireSource, Call
    <3> QED
      BY <3>1, <3>2, <3>3, CallsAreTyped
  <2>2. CASE \E id \in DOMAIN rows, url \in Urls : call = UpdateSource(id, [url |-> url])
    <3>1. PICK id \in DOMAIN rows, url \in Urls : call = UpdateSource(id, [url |-> url])
      BY <2>2
    <3>2. id \in Nat /\ [url |-> url] \in Edits
      BY EditsOfCalls DEF RegistryInv, RowTable
    <3>3. call.id = id
      BY <3>1 DEF UpdateSource, Call
    <3> QED
      BY <3>1, <3>2, <3>3, CallsAreTyped
  <2>3. CASE \E url \in Urls, role \in ProposedRoles : call = CreateSource(NextId, url, role, "http")
    <3>1. PICK url \in Urls, role \in ProposedRoles : call = CreateSource(NextId, url, role, "http")
      BY <2>3
    <3>2. NextId \in Nat /\ role \in Roles /\ "http" \in Methods
      BY NextIdIsNew, SourceRegistryAssumption DEF Methods
    <3>3. call.id = NextId
      BY <3>1 DEF CreateSource, Call
    <3> QED
      BY <3>1, <3>2, <3>3, CallsAreTyped
  <2> QED
    BY <1>2, <2>1, <2>2, <2>3 DEF OperatorCalls
<1>4. PICK first : first = <<call>>
  OBVIOUS
<1>5. first \in Seq(CallRecords) /\ Len(first) = 1 /\ first[1] = call
  BY <1>3, <1>4
<1>6. NewCalls(first, DOMAIN rows)
  BY <1>3, <1>5 DEF NewCalls, ListFits
<1>7. <<>> \in Seq(ItemRecords) /\ p \in Processes
  BY DEF Processes
<1> QED
  BY <1>1, <1>2, <1>4, <1>6, <1>7, BeginInv

LEMMA Concatenation ==
    ASSUME NEW S, NEW s \in Seq(S), NEW t \in Seq(S)
    PROVE  /\ s \o t \in Seq(S) /\ Len(s \o t) = Len(s) + Len(t)
           /\ \A n \in 1..Len(s) : (s \o t)[n] = s[n]
           /\ \A n \in 1..Len(t) : (s \o t)[Len(s) + n] = t[n]
<1>1. PICK a, b \in Nat : a = Len(s) /\ b = Len(t)
  OBVIOUS
<1>2. s \o t \in Seq(S) /\ Len(s \o t) = a + b
  BY <1>1
<1>3. \A n \in 1..a + b : (s \o t)[n] = IF n <= a THEN s[n] ELSE t[n - a]
  BY <1>1
<1>4. ASSUME NEW n \in 1..b PROVE (s \o t)[a + n] = t[n]
  <2>1. a + n \in 1..a + b /\ ~(a + n <= a) /\ (a + n) - a = n
    BY <1>1
  <2> QED
    BY <1>3, <2>1
<1> QED
  BY <1>1, <1>2, <1>3, <1>4

LEMMA SeedItemsInOrder ==
    /\ SeedItems \in Seq(ItemRecords)
    /\ Len(SeedItems) = Len(Obsolete) + 1 + Len(Catalog)
    /\ Len(Obsolete) \in Nat /\ Len(Catalog) \in Nat
    /\ \A n \in 1..Len(Obsolete) : SeedItems[n] = [op |-> "move", what |-> Obsolete[n]]
    /\ SeedItems[Len(Obsolete) + 1] = [op |-> "methods"]
    /\ \A n \in 1..Len(Catalog) :
          SeedItems[Len(Obsolete) + 1 + n] = [op |-> "entry", what |-> Catalog[n]]
<1>1. PICK a, b \in Nat : a = Len(Obsolete) /\ b = Len(Catalog)
  BY SourceRegistryAssumption
<1>2. DOMAIN Obsolete = 1..a /\ DOMAIN Catalog = 1..b
  BY <1>1, SourceRegistryAssumption
<1>3. PICK M, E, T : M = MoveItems /\ E = EntryItems /\ T = MethodsItem
  OBVIOUS
<1>4. M \in Seq(ItemRecords) /\ Len(M) = a /\ \A n \in 1..a : M[n] = [op |-> "move", what |-> Obsolete[n]]
  <2>1. M = [n \in 1..a |-> [op |-> "move", what |-> Obsolete[n]]]
    BY <1>2, <1>3 DEF MoveItems
  <2>2. \A n \in 1..a : M[n] \in ItemRecords
    BY <1>2, <1>3 DEF ItemRecords
  <2> QED
    BY <1>1, <2>1, <2>2
<1>5. E \in Seq(ItemRecords) /\ Len(E) = b /\ \A n \in 1..b : E[n] = [op |-> "entry", what |-> Catalog[n]]
  <2>1. E = [n \in 1..b |-> [op |-> "entry", what |-> Catalog[n]]]
    BY <1>2, <1>3 DEF EntryItems
  <2>2. \A n \in 1..b : E[n] \in ItemRecords
    BY <1>2, <1>3 DEF ItemRecords
  <2> QED
    BY <1>1, <2>1, <2>2
<1>6. T \in Seq(ItemRecords) /\ Len(T) = 1 /\ T[1] = [op |-> "methods"]
  <2>1. MethodsItem[1] \in ItemRecords
    BY DEF ItemRecords
  <2>2. MethodsItem[1] = [op |-> "methods"]
    BY DEF MethodsItem
  <2>3. T = <<MethodsItem[1]>>
    BY <1>3, <2>2 DEF MethodsItem
  <2> QED
    BY <2>1, <2>2, <2>3
<1>7. PICK H : H = M \o T
  OBVIOUS
<1>8. /\ H \in Seq(ItemRecords) /\ Len(H) = a + 1
      /\ \A n \in 1..a : H[n] = [op |-> "move", what |-> Obsolete[n]]
      /\ H[a + 1] = [op |-> "methods"]
  BY <1>1, <1>4, <1>6, <1>7, Concatenation
<1>9. PICK S : S = H \o E
  OBVIOUS
<1>10. /\ S \in Seq(ItemRecords) /\ Len(S) = a + 1 + b
       /\ \A n \in 1..a + 1 : S[n] = H[n]
       /\ \A n \in 1..b : S[a + 1 + n] = E[n]
  <2>1. PICK h \in Nat : h = a + 1 /\ h = Len(H)
    BY <1>8
  <2>2. /\ H \o E \in Seq(ItemRecords) /\ Len(H \o E) = Len(H) + Len(E)
        /\ \A n \in 1..Len(H) : (H \o E)[n] = H[n]
        /\ \A n \in 1..Len(E) : (H \o E)[Len(H) + n] = E[n]
    <3>1. H \in Seq(ItemRecords) /\ E \in Seq(ItemRecords)
      BY <1>5, <1>8
    <3> QED
      BY <3>1, Concatenation
  <2>3. /\ S \in Seq(ItemRecords) /\ Len(S) = h + b
        /\ \A n \in 1..h : S[n] = H[n]
        /\ \A n \in 1..b : S[h + n] = E[n]
    BY <1>5, <1>9, <2>1, <2>2
  <2> QED
    BY <2>1, <2>3
<1>11. SeedItems = S
  BY <1>3, <1>7, <1>9 DEF SeedItems
<1> QED
  BY <1>1, <1>5, <1>8, <1>10, <1>11

LEMMA ApplySeedInv ==
    ASSUME RegistryInv, NEW p \in Seeders, ApplySeedCatalog(p)
    PROVE  RegistryInv'
<1>1. calls' \in 0..MaxCalls /\ Begin(p, SeedItems, <<>>)
  BY SourceRegistryAssumption DEF ApplySeedCatalog, Counted, RegistryInv
<1>2. NewCalls(<<>>, DOMAIN rows)
  BY DEF NewCalls, ListFits
<1>3. p \in Processes
  BY DEF Processes
<1> QED
  BY <1>1, <1>2, <1>3, SeedItemsInOrder, BeginInv

LEMMA MonitorInv ==
    ASSUME RegistryInv, NEW p \in Monitors, RunHealthMonitor(p)
    PROVE  RegistryInv'
<1>1. PICK ids : ids = NewestFirst(ApprovedIds)
  OBVIOUS
<1>2. ApprovedIds \subseteq DOMAIN rows /\ ApprovedIds \subseteq Nat /\ IsFiniteSet(ApprovedIds)
  BY Finiteness DEF ApprovedIds, RegistryInv, RowTable
<1>3. ids \in Seq(ApprovedIds)
  BY <1>1, <1>2, NewestFirstLists
<1>4. PICK items : items = [n \in DOMAIN ids |-> Probe(ids[n])]
  OBVIOUS
<1>5. \A id \in ApprovedIds : Probe(id) \in ItemRecords
  <2>1. ASSUME NEW id \in ApprovedIds PROVE Probe(id) \in ItemRecords
    <3>1. id \in DOMAIN rows /\ rows[id] \in SourceRows
      BY <1>2 DEF RegistryInv, RowTable
    <3>2. rows[id].url \in Urls /\ rows[id].print \in Prints
      BY <3>1, RowsHaveColumns
    <3> QED
      BY <3>1, <3>2 DEF Probe, ItemRecords
  <2> QED
    BY <2>1
<1>6. items \in Seq(ItemRecords)
  BY <1>3, <1>4, <1>5
<1>7. Begin(p, items, <<>>) /\ calls' = calls
  BY <1>1, <1>4 DEF RunHealthMonitor
<1>8. NewCalls(<<>>, DOMAIN rows)
  BY DEF NewCalls, ListFits
<1>9. p \in Processes /\ calls' \in 0..MaxCalls
  BY <1>7 DEF Processes, RegistryInv
<1> QED
  BY <1>6, <1>7, <1>8, <1>9, BeginInv
LEMMA TailFits ==
    ASSUME NEW list \in Seq(CallRecords), list # <<>>, NEW ids, ListFits(list, ids),
           NEW more, ids \subseteq more, Inserts(list[1]) => list[1].id \in more
    PROVE  /\ Tail(list) \in Seq(CallRecords) /\ ListFits(Tail(list), more)
           /\ \A n \in DOMAIN Tail(list) : ~Inserts(Tail(list)[n])
           /\ Head(list) = list[1] /\ Head(list) \in CallRecords /\ Len(Tail(list)) = Len(list) - 1
           /\ \A n \in 1..Len(list) - 1 : Tail(list)[n] = list[n + 1]
<1>1. PICK k \in Nat : k = Len(list) /\ k > 0 /\ DOMAIN list = 1..k
  OBVIOUS
<1>2. PICK rest : /\ rest = Tail(list) /\ rest \in Seq(CallRecords)
                  /\ Len(rest) = k - 1 /\ DOMAIN rest = 1..k - 1
                  /\ \A n \in 1..k - 1 : rest[n] = list[n + 1]
  <2>1. /\ Tail(list) \in Seq(CallRecords) /\ Len(Tail(list)) = k - 1
        /\ \A n \in 1..k - 1 : Tail(list)[n] = list[n + 1]
    BY <1>1
  <2>2. DOMAIN Tail(list) = 1..k - 1
    BY <2>1
  <2> QED
    BY <2>1, <2>2
<1>3. ASSUME NEW n \in 1..k - 1 PROVE ~Inserts(rest[n]) /\ rest[n].id \in more
  <2>1. n + 1 \in DOMAIN list /\ n + 1 # 1
    BY <1>1, <1>3
  <2>2. ~Inserts(list[n + 1]) /\ list[n + 1].id \in more
    BY <2>1 DEF ListFits
  <2> QED
    BY <1>2, <2>2
<1>4. ListFits(rest, more)
  BY <1>2, <1>3 DEF ListFits
<1>5. Head(list) = list[1] /\ Head(list) \in CallRecords
  BY <1>1
<1> QED
  BY <1>1, <1>2, <1>3, <1>4, <1>5

LEMMA LookInv ==
    ASSUME RegistryInv, NEW p \in Processes, Look(p)
    PROVE  RegistryInv'
<1>1. p \in DOMAIN tx /\ tx[p].calls = <<>> /\ tx[p].items # <<>> /\ TxTypes(p)
  BY DEF Look, RegistryInv
<1>2. PICK item : item = Head(tx[p].items)
  OBVIOUS
<1>3. item \in ItemRecords /\ Tail(tx[p].items) \in Seq(ItemRecords)
  BY <1>1, <1>2 DEF TxTypes
<1>4. PICK list \in CallsFor(p, item) :
         tx' = [tx EXCEPT ![p].items = ItemsAfter(p, item) \o Tail(@), ![p].calls = list]
  BY <1>2 DEF Look
<1>5. NewCalls(list, DOMAIN Seen(p))
  BY <1>1, <1>3, LookedUp
<1>6. ItemsAfter(p, item) \in Seq(ItemRecords)
  <2>1. CASE item.op = "entry"
    <3>1. [op |-> "status", what |-> item.what] \in ItemRecords
      BY <1>3, <2>1 DEF ItemRecords, MoveItems, MethodsItem, EntryItems
    <3> QED
      BY <3>1 DEF ItemsAfter
  <2>2. CASE item.op # "entry"
    BY <2>2 DEF ItemsAfter
  <2> QED
    BY <2>1, <2>2
<1>7. PICK items : /\ items = ItemsAfter(p, item) \o Tail(tx[p].items)
                   /\ items \in Seq(ItemRecords)
  <2>1. ItemsAfter(p, item) \o Tail(tx[p].items) \in Seq(ItemRecords)
    BY <1>3, <1>6, Concatenation
  <2> QED
    BY <2>1
<1>8. /\ rows' = rows /\ calls' = calls /\ deaths' = deaths
      /\ DOMAIN tx' = DOMAIN tx /\ \A q \in DOMAIN tx \ {p} : tx'[q] = tx[q]
      /\ tx'[p] = [tx[p] EXCEPT !.items = items, !.calls = list]
  BY <1>1, <1>4, <1>7 DEF Look
<1>9. /\ tx'[p].items = items /\ tx'[p].calls = list /\ tx'[p].own = tx[p].own
      /\ tx'[p].checked = tx[p].checked /\ tx'[p].alone = tx[p].alone
      /\ tx'[p] = [items |-> items, calls |-> list, checked |-> tx[p].checked,
                   own |-> tx[p].own, alone |-> tx[p].alone]
  BY <1>1, <1>8 DEF TxTypes
<1>10. Seen(p)' = Seen(p) /\ UrlsHeld(p)' = UrlsHeld(p)
  BY <1>8, <1>9 DEF Seen, UrlsHeld
<1>11. (TxTypes(p) /\ ListFits(tx[p].calls, DOMAIN Seen(p)) /\ UniqueUrls(Seen(p)))'
  <2>1. ItemRecords' = ItemRecords
    BY <1>8 DEF ItemRecords
  <2>2. TxTypes(p)'
    BY <1>1, <1>5, <1>7, <1>9, <2>1 DEF TxTypes, RowTable, NewCalls
  <2>3. ListFits(tx[p].calls, DOMAIN Seen(p))'
    BY <1>5, <1>9, <1>10 DEF NewCalls, ListFits
  <2>4. UniqueUrls(Seen(p))'
    BY <1>1, <1>10 DEF RegistryInv, UniqueUrls
  <2> QED
    BY <2>2, <2>3, <2>4
<1>12. \A q \in DOMAIN tx \ {p} :
          /\ DOMAIN tx'[p].own \cap DOMAIN tx[q].own = {}
          /\ UrlsHeld(p)' \cap UrlsHeld(q) = {}
          /\ Adds(q) => Current(q).id \notin DOMAIN tx'[p].own
  BY <1>1, <1>9, <1>10 DEF RegistryInv, NewIdsAreNew
<1>13. Adds(p)' => Current(p)'.id = NextId
  BY <1>5, <1>9 DEF Adds, Calls, Current, NewCalls
<1>14. \A q \in DOMAIN tx : NextId \notin DOMAIN tx[q].own /\ (Adds(q) => Current(q).id # NextId)
  BY NextIdIsNew DEF UsedIds, Adds, Calls, Current
<1>15. NextId \notin DOMAIN rows
  BY NextIdIsNew DEF UsedIds
<1>16. calls' \in 0..MaxCalls /\ deaths' \in 0..MaxDeaths
  BY <1>8 DEF RegistryInv
<1>17. Adds(p)' =>
          /\ Current(p)'.id \notin DOMAIN rows \cup DOMAIN tx'[p].own
          /\ \A q \in DOMAIN tx \ {p} :
                /\ Current(p)'.id \notin DOMAIN tx[q].own
                /\ Adds(q) => Current(q).id # Current(p)'.id
  BY <1>1, <1>9, <1>13, <1>14, <1>15
<1>18. DOMAIN tx' = DOMAIN tx \cup {p} /\ rows' = rows /\ \A q \in DOMAIN tx \ {p} : tx'[q] = tx[q]
  BY <1>1, <1>8
<1> QED
  BY <1>11, <1>12, <1>16, <1>17, <1>18, OneChanges

LEMMA CheckInv ==
    ASSUME RegistryInv, NEW p \in Processes, Check(p)
    PROVE  RegistryInv'
<1>1. p \in DOMAIN tx /\ tx[p].calls # <<>> /\ ~Inserts(Current(p)) /\ TxTypes(p)
  BY DEF Check, Calls, RegistryInv
<1>2. Current(p) = tx[p].calls[1]
  BY <1>1 DEF Current, TxTypes
<1>3. PICK list, checked :
         /\ tx' = [tx EXCEPT ![p] = [@ EXCEPT !.calls = list, !.checked = checked]]
         /\ checked \in BOOLEAN
         /\ list = tx[p].calls \/ list = Tail(tx[p].calls)
  <2>1. CASE tx' = [tx EXCEPT ![p].checked = TRUE]
    <3>1. tx' = [tx EXCEPT ![p] = [@ EXCEPT !.calls = tx[p].calls, !.checked = TRUE]]
      BY <1>1, <2>1 DEF TxTypes
    <3> QED
      BY <3>1
  <2>2. CASE tx' = [tx EXCEPT ![p].calls = Tail(@)]
    <3>1. tx' = [tx EXCEPT ![p] = [@ EXCEPT !.calls = Tail(tx[p].calls), !.checked = tx[p].checked]]
      BY <1>1, <2>2 DEF TxTypes
    <3>2. tx[p].checked \in BOOLEAN
      BY <1>1 DEF TxTypes
    <3> QED
      BY <3>1, <3>2
  <2> QED
    BY <2>1, <2>2 DEF Check
<1>4. /\ rows' = rows /\ calls' = calls /\ deaths' = deaths
      /\ DOMAIN tx' = DOMAIN tx /\ \A q \in DOMAIN tx \ {p} : tx'[q] = tx[q]
      /\ tx'[p] = [items |-> tx[p].items, calls |-> list, checked |-> checked,
                   own |-> tx[p].own, alone |-> tx[p].alone]
  BY <1>1, <1>3 DEF Check, TxTypes
<1>5. /\ list \in Seq(CallRecords) /\ ListFits(list, DOMAIN Seen(p))
      /\ list # <<>> => ~Inserts(list[1])
  <2>1. tx[p].calls \in Seq(CallRecords) /\ ListFits(tx[p].calls, DOMAIN Seen(p))
    BY <1>1 DEF RegistryInv, TxTypes
  <2>2. CASE list = tx[p].calls
    BY <1>1, <1>2, <2>1, <2>2
  <2>3. CASE list = Tail(tx[p].calls)
    <3>1. /\ list \in Seq(CallRecords) /\ ListFits(list, DOMAIN Seen(p))
          /\ \A n \in DOMAIN list : ~Inserts(list[n])
      BY <1>1, <1>2, <2>1, <2>3, TailFits
    <3> QED
      BY <3>1
  <2> QED
    BY <1>3, <2>2, <2>3
<1>6. Seen(p)' = Seen(p) /\ UrlsHeld(p)' = UrlsHeld(p)
  BY <1>4 DEF Seen, UrlsHeld
<1>7. (TxTypes(p) /\ ListFits(tx[p].calls, DOMAIN Seen(p)) /\ UniqueUrls(Seen(p)))'
  <2>1. ItemRecords' = ItemRecords
    BY <1>4 DEF ItemRecords
  <2>2. TxTypes(p)'
    BY <1>1, <1>3, <1>4, <1>5, <2>1 DEF TxTypes, RowTable
  <2>3. ListFits(tx[p].calls, DOMAIN Seen(p))'
    BY <1>4, <1>5, <1>6 DEF ListFits
  <2>4. UniqueUrls(Seen(p))'
    BY <1>1, <1>6 DEF RegistryInv, UniqueUrls
  <2> QED
    BY <2>2, <2>3, <2>4
<1>8. \A q \in DOMAIN tx \ {p} :
          /\ DOMAIN tx'[p].own \cap DOMAIN tx[q].own = {}
          /\ UrlsHeld(p)' \cap UrlsHeld(q) = {}
          /\ Adds(q) => Current(q).id \notin DOMAIN tx'[p].own
  BY <1>1, <1>4, <1>6 DEF RegistryInv, NewIdsAreNew
<1>9. ~Adds(p)'
  BY <1>4, <1>5 DEF Adds, Calls, Current
<1>10. calls' \in 0..MaxCalls /\ deaths' \in 0..MaxDeaths
  BY <1>4 DEF RegistryInv
<1> QED
  BY <1>1, <1>4, <1>7, <1>8, <1>9, <1>10, OneChanges

LEMMA WriteChanges ==
    ASSUME RegistryInv, NEW p \in DOMAIN tx, Write(p)
    PROVE  LET c == Current(p) IN
           /\ c \in CallRecords /\ c = tx[p].calls[1] /\ tx[p].calls # <<>>
           /\ rows' = rows /\ calls' = calls /\ deaths' = deaths
           /\ DOMAIN tx' = DOMAIN tx /\ \A q \in DOMAIN tx \ {p} : tx'[q] = tx[q]
           /\ DOMAIN tx'[p].own = DOMAIN tx[p].own \cup {c.id}
           /\ DOMAIN Seen(p)' = DOMAIN Seen(p) \cup {c.id}
           /\ \A i \in DOMAIN tx[p].own : i # c.id => tx'[p].own[i] = tx[p].own[i]
           /\ \A i \in DOMAIN Seen(p) : i # c.id => Seen(p)'[i] = Seen(p)[i]
           /\ tx'[p].own[c.id] = Seen(p)'[c.id] /\ Seen(p)'[c.id] \in SourceRows
           /\ Inserts(c) => c.id \notin DOMAIN Seen(p) /\ Seen(p)'[c.id] = c.set
           /\ ~Inserts(c) => /\ c.id \in DOMAIN Seen(p) /\ Seen(p)[c.id] \in SourceRows
                             /\ Seen(p)'[c.id] = Over(c.set, Seen(p)[c.id])
           /\ tx'[p] = [items |-> tx[p].items, calls |-> Tail(tx[p].calls), checked |-> FALSE,
                        own |-> tx'[p].own, alone |-> tx[p].alone]
           /\ RowTable(tx'[p].own)
<1> DEFINE c == Current(p)
<1>1. TxTypes(p) /\ tx[p].calls # <<>> /\ ListFits(tx[p].calls, DOMAIN Seen(p))
  BY DEF Write, Ready, Calls, RegistryInv
<1>2. c \in CallRecords /\ c = tx[p].calls[1] /\ 1 \in DOMAIN tx[p].calls
  BY <1>1 DEF TxTypes, Current
<1>3. PICK row : /\ row = IF Inserts(c) THEN c.set ELSE Over(c.set, Seen(p)[c.id])
                 /\ tx' = [tx EXCEPT ![p].own = With(@, c.id, row), ![p].calls = Tail(@),
                                     ![p].checked = FALSE]
  BY DEF Write
<1>4. /\ rows' = rows /\ calls' = calls /\ deaths' = deaths
      /\ DOMAIN tx' = DOMAIN tx /\ \A q \in DOMAIN tx \ {p} : tx'[q] = tx[q]
      /\ tx'[p].own = With(tx[p].own, c.id, row)
      /\ tx'[p] = [items |-> tx[p].items, calls |-> Tail(tx[p].calls), checked |-> FALSE,
                   own |-> With(tx[p].own, c.id, row), alone |-> tx[p].alone]
  <2> HIDE DEF c
  <2>1. tx' = [tx EXCEPT ![p] = [@ EXCEPT !.own = With(tx[p].own, c.id, row),
                                          !.calls = Tail(tx[p].calls), !.checked = FALSE]]
    BY <1>3
  <2>2. rows' = rows /\ calls' = calls /\ deaths' = deaths
    BY DEF Write
  <2>3. DOMAIN tx' = DOMAIN tx /\ \A q \in DOMAIN tx \ {p} : tx'[q] = tx[q]
    BY <2>1
  <2> QED
    BY <1>1, <2>1, <2>2, <2>3 DEF TxTypes
<1>5. RowTable(Seen(p))
  BY <1>1, TablesMerge DEF RegistryInv, TxTypes, Seen
<1>6. Inserts(c) => c.id \notin DOMAIN Seen(p) /\ row = c.set /\ row \in SourceRows
  <2>1. ASSUME Inserts(c) PROVE c.id \notin DOMAIN rows /\ c.id \notin DOMAIN tx[p].own
    BY <1>1, <2>1 DEF RegistryInv, NewIdsAreNew, Adds, Calls
  <2>2. ASSUME Inserts(c) PROVE c.set \in SourceRows
    BY <1>1, <1>2, <2>2 DEF ListFits
  <2> QED
    BY <1>3, <2>1, <2>2 DEF Seen, Over
<1>7. ~Inserts(c) => /\ c.id \in DOMAIN Seen(p) /\ Seen(p)[c.id] \in SourceRows
                     /\ row = Over(c.set, Seen(p)[c.id]) /\ row \in SourceRows
  <2>1. SUFFICES ASSUME ~Inserts(c)
                 PROVE  /\ c.id \in DOMAIN Seen(p) /\ Seen(p)[c.id] \in SourceRows
                        /\ row = Over(c.set, Seen(p)[c.id]) /\ row \in SourceRows
    OBVIOUS
  <2>2. c.id \in DOMAIN Seen(p)
    BY <1>1, <1>2, <2>1 DEF ListFits
  <2>3. Seen(p)[c.id] \in SourceRows
    BY <1>5, <2>2 DEF RowTable
  <2>4. c.set \in Edits
    BY <1>2 DEF CallRecords
  <2> QED
    BY <1>3, <2>1, <2>2, <2>3, <2>4, SetColumns
<1>8. /\ DOMAIN tx'[p].own = DOMAIN tx[p].own \cup {c.id} /\ tx'[p].own[c.id] = row
      /\ \A i \in DOMAIN tx[p].own : i # c.id => tx'[p].own[i] = tx[p].own[i]
      /\ tx'[p].own = [i \in DOMAIN tx'[p].own |-> tx'[p].own[i]]
  <2> HIDE DEF c
  <2> QED
    BY <1>4 DEF With, Over
<1>9. /\ DOMAIN Seen(p)' = DOMAIN Seen(p) \cup {c.id} /\ Seen(p)'[c.id] = row
      /\ \A i \in DOMAIN Seen(p) : i # c.id => Seen(p)'[i] = Seen(p)[i]
  <2>1. Seen(p)' = Over(tx'[p].own, rows)
    BY <1>4 DEF Seen
  <2> HIDE DEF c
  <2> QED
    BY <1>8, <2>1 DEF Seen, Over
<1>10. RowTable(tx'[p].own)
  <2>1. \A i \in DOMAIN tx'[p].own : tx'[p].own[i] \in SourceRows
    BY <1>1, <1>6, <1>7, <1>8 DEF TxTypes, RowTable
  <2>2. tx'[p].own \in [DOMAIN tx'[p].own -> SourceRows]
    BY <1>8, <2>1
  <2>3. c.id \in Nat
    BY <1>2 DEF CallRecords
  <2>4. IsFiniteSet(DOMAIN tx'[p].own) /\ DOMAIN tx'[p].own \subseteq Nat
    <3> HIDE DEF c
    <3>1. IsFiniteSet(DOMAIN tx[p].own) /\ DOMAIN tx[p].own \subseteq Nat
      BY <1>1 DEF TxTypes, RowTable
    <3> QED
      BY <1>8, <2>3, <3>1, FS_AddElement
  <2> QED
    BY <2>2, <2>4 DEF RowTable
<1> QED
  BY <1>1, <1>2, <1>4, <1>6, <1>7, <1>8, <1>9, <1>10

LEMMA WriteInv ==
    ASSUME RegistryInv, NEW p \in DOMAIN tx, Write(p)
    PROVE  RegistryInv'
<1> DEFINE c == Current(p)
<1>1. /\ c \in CallRecords /\ c = tx[p].calls[1] /\ tx[p].calls # <<>>
      /\ rows' = rows /\ calls' = calls /\ deaths' = deaths
      /\ DOMAIN tx' = DOMAIN tx /\ \A q \in DOMAIN tx \ {p} : tx'[q] = tx[q]
      /\ DOMAIN tx'[p].own = DOMAIN tx[p].own \cup {c.id}
      /\ DOMAIN Seen(p)' = DOMAIN Seen(p) \cup {c.id}
      /\ \A i \in DOMAIN tx[p].own : i # c.id => tx'[p].own[i] = tx[p].own[i]
      /\ \A i \in DOMAIN Seen(p) : i # c.id => Seen(p)'[i] = Seen(p)[i]
      /\ tx'[p].own[c.id] = Seen(p)'[c.id] /\ Seen(p)'[c.id] \in SourceRows
      /\ Inserts(c) => c.id \notin DOMAIN Seen(p) /\ Seen(p)'[c.id] = c.set
      /\ ~Inserts(c) => /\ c.id \in DOMAIN Seen(p) /\ Seen(p)[c.id] \in SourceRows
                        /\ Seen(p)'[c.id] = Over(c.set, Seen(p)[c.id])
      /\ tx'[p] = [items |-> tx[p].items, calls |-> Tail(tx[p].calls), checked |-> FALSE,
                   own |-> tx'[p].own, alone |-> tx[p].alone]
      /\ RowTable(tx'[p].own)
  BY WriteChanges
<1>2. TxTypes(p) /\ ListFits(tx[p].calls, DOMAIN Seen(p)) /\ UniqueUrls(Seen(p)) /\ UniqueUrls(rows)
  BY DEF RegistryInv
<1>3. \A q \in DOMAIN tx \ {p} : c.id \notin DOMAIN tx[q].own /\ NewUrl(p) \cap UrlsHeld(q) = {}
  BY DEF Write, WaitsFor, Others
<1>4. /\ Tail(tx[p].calls) \in Seq(CallRecords)
      /\ ListFits(Tail(tx[p].calls), DOMAIN Seen(p)')
      /\ \A n \in DOMAIN Tail(tx[p].calls) : ~Inserts(Tail(tx[p].calls)[n])
  BY <1>1, <1>2, TailFits DEF TxTypes
<1> DEFINE u == Seen(p)'[c.id].url
\* The url of the row is new and free, or the one it had.
<1>5. \/ u \in NewUrl(p)
      \/ c.id \in DOMAIN Seen(p) /\ u = Seen(p)[c.id].url
  <2>1. CASE Inserts(c)
    <3>1. c.set \in SourceRows /\ u = c.set.url
      BY <1>1, <2>1
    <3> QED
      BY <3>1, RowsHaveColumns DEF NewUrl, Columns
  <2>2. CASE ~Inserts(c)
    <3>1. c.set \in Edits
      BY <1>1 DEF CallRecords
    <3>2. u = IF "url" \in DOMAIN c.set THEN c.set.url ELSE Seen(p)[c.id].url
      BY <1>1, <2>2, <3>1, SetColumns DEF Columns
    <3> QED
      BY <1>1, <2>2, <3>2 DEF NewUrl
  <2> QED
    BY <2>1, <2>2
<1> HIDE DEF u
<1>6. \A i \in DOMAIN Seen(p) : i # c.id => Seen(p)[i].url # u
  <2>1. CASE u \in NewUrl(p)
    BY <2>1 DEF Write, UrlTaken, At
  <2>2. CASE c.id \in DOMAIN Seen(p) /\ u = Seen(p)[c.id].url
    BY <1>2, <2>2 DEF UniqueUrls
  <2> QED
    BY <1>5, <2>1, <2>2
<1>7. UniqueUrls(Seen(p)')
  <2>1. \A i \in DOMAIN Seen(p)' : i # c.id => i \in DOMAIN Seen(p) /\ Seen(p)'[i] = Seen(p)[i]
    BY <1>1
  <2>2. \A i \in DOMAIN Seen(p)' : i # c.id => Seen(p)'[i].url # Seen(p)'[c.id].url
    BY <1>6, <2>1 DEF u
  <2>3. ASSUME NEW i \in DOMAIN Seen(p)', NEW j \in DOMAIN Seen(p)', Seen(p)'[i].url = Seen(p)'[j].url
        PROVE  i = j
    <3>1. CASE i = c.id \/ j = c.id
      BY <2>2, <2>3, <3>1
    <3>2. CASE i # c.id /\ j # c.id
      BY <1>2, <2>1, <2>3, <3>2 DEF UniqueUrls
    <3> QED
      BY <3>1, <3>2
  <2> QED
    BY <2>3 DEF UniqueUrls
\* Nobody else holds it.
<1>8. ASSUME NEW q \in DOMAIN tx \ {p} PROVE u \notin UrlsHeld(q)
  <2>1. CASE u \in NewUrl(p)
    BY <1>3, <2>1
  <2>2. CASE c.id \in DOMAIN tx[p].own /\ u = Seen(p)[c.id].url
    <3>1. u \in UrlsHeld(p)
      BY <2>2 DEF UrlsHeld, Seen, Over
    <3> QED
      BY <3>1 DEF RegistryInv
  <2>3. CASE c.id \notin DOMAIN tx[p].own /\ c.id \in DOMAIN Seen(p) /\ u = Seen(p)[c.id].url
    <3>1. c.id \in DOMAIN rows /\ u = rows[c.id].url /\ c.id \notin DOMAIN tx[q].own
      BY <1>3, <2>3 DEF Seen, Over
    <3>2. c.id \in DOMAIN Seen(q) /\ Seen(q)[c.id].url = u
      BY <3>1 DEF Seen, Over
    <3>3. UniqueUrls(Seen(q)) /\ UniqueUrls(rows)
      BY DEF RegistryInv
    <3>4. \A i \in DOMAIN tx[q].own :
             /\ i \in DOMAIN Seen(q) /\ Seen(q)[i] = tx[q].own[i] /\ i # c.id
      BY <3>1 DEF Seen, Over
    <3>5. \A i \in DOMAIN tx[q].own : tx[q].own[i].url # u
      BY <3>2, <3>3, <3>4 DEF UniqueUrls
    <3>6. \A i \in DOMAIN tx[q].own \cap DOMAIN rows : rows[i].url # u
      BY <3>1, <3>3, <3>4 DEF UniqueUrls
    <3> QED
      BY <3>5, <3>6 DEF UrlsHeld
  <2> QED
    BY <1>5, <2>1, <2>2, <2>3
<1>9. UrlsHeld(p)' \subseteq UrlsHeld(p) \cup {u}
                         \cup {rows[i].url : i \in {c.id} \cap DOMAIN rows}
  BY <1>1 DEF UrlsHeld, u
<1>10. ASSUME NEW q \in DOMAIN tx \ {p}, c.id \in DOMAIN rows PROVE rows[c.id].url \notin UrlsHeld(q)
  <2>1. c.id \notin DOMAIN tx[q].own /\ UniqueUrls(Seen(q)) /\ UniqueUrls(rows)
    BY <1>3 DEF RegistryInv
  <2>2. c.id \in DOMAIN Seen(q) /\ Seen(q)[c.id] = rows[c.id]
    BY <1>10, <2>1 DEF Seen, Over
  <2>3. \A i \in DOMAIN tx[q].own :
           /\ i \in DOMAIN Seen(q) /\ Seen(q)[i] = tx[q].own[i] /\ i # c.id
    BY <2>1 DEF Seen, Over
  <2>4. \A i \in DOMAIN tx[q].own : tx[q].own[i].url # rows[c.id].url
    BY <2>1, <2>2, <2>3 DEF UniqueUrls
  <2>5. \A i \in DOMAIN tx[q].own \cap DOMAIN rows : rows[i].url # rows[c.id].url
    BY <1>10, <2>1, <2>3 DEF UniqueUrls
  <2> QED
    BY <2>4, <2>5 DEF UrlsHeld
<1>11. \A q \in DOMAIN tx \ {p} : UrlsHeld(p)' \cap UrlsHeld(q) = {}
  BY <1>8, <1>9, <1>10 DEF RegistryInv
<1>12. \A q \in DOMAIN tx \ {p} :
          /\ DOMAIN tx'[p].own \cap DOMAIN tx[q].own = {}
          /\ Adds(q) => Current(q).id \notin DOMAIN tx'[p].own
  <2>1. ASSUME NEW q \in DOMAIN tx \ {p}, Adds(q) PROVE Current(q).id # c.id
    <3>1. CASE Inserts(c)
      <4>1. Adds(p)
        BY <1>1, <3>1 DEF Adds, Calls
      <4> QED
        BY <2>1, <4>1 DEF RegistryInv, NewIdsAreNew
    <3>2. CASE ~Inserts(c)
      <4>1. c.id \in DOMAIN rows \cup DOMAIN tx[p].own
        BY <1>1, <3>2 DEF Seen, Over
      <4> QED
        BY <2>1, <4>1 DEF RegistryInv, NewIdsAreNew
    <3> QED
      BY <3>1, <3>2
  <2> QED
    BY <1>1, <1>3, <2>1 DEF RegistryInv, NewIdsAreNew
<1>13. /\ tx'[p].calls = Tail(tx[p].calls) /\ tx'[p].items = tx[p].items
       /\ tx'[p].checked = FALSE /\ tx'[p].alone = tx[p].alone
       /\ tx'[p] = [items |-> tx'[p].items, calls |-> tx'[p].calls, checked |-> tx'[p].checked,
                    own |-> tx'[p].own, alone |-> tx'[p].alone]
       /\ RowTable(tx'[p].own)
  BY <1>1
<1>14. ~Adds(p)'
  <2>1. SUFFICES ASSUME tx'[p].calls # <<>> PROVE ~Inserts(Head(tx'[p].calls))
    BY DEF Adds, Calls, Current
  <2>2. 1 \in DOMAIN tx'[p].calls /\ Head(tx'[p].calls) = tx'[p].calls[1]
    BY <1>4, <1>13, <2>1
  <2> QED
    BY <1>4, <1>13, <2>2
<1>15. (TxTypes(p) /\ ListFits(tx[p].calls, DOMAIN Seen(p)) /\ UniqueUrls(Seen(p)))'
  <2>1. ItemRecords' = ItemRecords
    BY <1>1 DEF ItemRecords
  <2>2. TxTypes(p)'
    BY <1>2, <1>4, <1>13, <2>1 DEF TxTypes, RowTable
  <2>3. ListFits(tx[p].calls, DOMAIN Seen(p))'
    BY <1>4, <1>13 DEF ListFits
  <2> QED
    BY <1>7, <2>2, <2>3 DEF UniqueUrls
<1>16. calls' \in 0..MaxCalls /\ deaths' \in 0..MaxDeaths /\ p \in Processes
  BY <1>1 DEF RegistryInv
<1> QED
  BY <1>1, <1>11, <1>12, <1>14, <1>15, <1>16, OneChanges
-----------------------------------------------------------------------------
(***************************************************************************)
(* The end of a transaction.                                               *)
(***************************************************************************)
LEMMA RollBackInv ==
    ASSUME RegistryInv, NEW p \in DOMAIN tx, RollBack(p), deaths' \in 0..MaxDeaths
    PROVE  RegistryInv'
<1>1. /\ rows' = rows /\ calls' = calls
      /\ DOMAIN tx' = DOMAIN tx \ {p} /\ \A q \in DOMAIN tx' : tx'[q] = tx[q]
  BY DEF RollBack, Without
<1>2. \A q \in DOMAIN tx' :
         /\ Seen(q)' = Seen(q) /\ UrlsHeld(q)' = UrlsHeld(q)
         /\ (Adds(q) <=> Adds(q)') /\ Current(q)' = Current(q)
  BY <1>1 DEF Seen, UrlsHeld, Adds, Calls, Current
<1>3. (RowTable(rows) /\ UniqueUrls(rows))'
  BY <1>1 DEF RegistryInv, RowTable, UniqueUrls
<1>4. (DOMAIN tx \subseteq Processes /\ IsFiniteSet(DOMAIN tx))'
  BY <1>1, Finiteness DEF RegistryInv, Processes
<1>5. ASSUME NEW q \in DOMAIN tx'
      PROVE  (TxTypes(q) /\ ListFits(tx[q].calls, DOMAIN Seen(q)) /\ UniqueUrls(Seen(q)))'
  <2>1. TxTypes(q) /\ ListFits(tx[q].calls, DOMAIN Seen(q)) /\ UniqueUrls(Seen(q))
    BY <1>1 DEF RegistryInv
  <2>2. ItemRecords' = ItemRecords
    BY <1>1 DEF ItemRecords
  <2>3. TxTypes(q)'
    BY <1>1, <2>1, <2>2 DEF TxTypes, RowTable
  <2>4. ListFits(tx[q].calls, DOMAIN Seen(q))'
    BY <1>1, <1>2, <2>1 DEF ListFits
  <2>5. UniqueUrls(Seen(q))'
    BY <1>2, <2>1 DEF UniqueUrls
  <2> QED
    BY <2>3, <2>4, <2>5
<1>6. \A q, r \in DOMAIN tx' : q # r =>
         (DOMAIN tx[q].own \cap DOMAIN tx[r].own = {} /\ UrlsHeld(q) \cap UrlsHeld(r) = {})'
  BY <1>1, <1>2 DEF RegistryInv
<1>7. NewIdsAreNew'
  BY <1>1, <1>2 DEF RegistryInv, NewIdsAreNew
<1>8. calls' \in 0..MaxCalls
  BY <1>1 DEF RegistryInv
<1> QED
  BY <1>3, <1>4, <1>5, <1>6, <1>7, <1>8 DEF RegistryInv

LEMMA CommitInv ==
    ASSUME RegistryInv, NEW p \in DOMAIN tx, Commit(p)
    PROVE  RegistryInv'
<1>1. /\ rows' = Seen(p) /\ calls' = calls /\ deaths' = deaths
      /\ DOMAIN tx' = DOMAIN tx \ {p}
      /\ \A q \in DOMAIN tx' : tx'[q] = [tx[q] EXCEPT !.alone = @ /\ DOMAIN tx[p].own = {}]
  BY DEF Commit, Seen, Others
<1>2. DOMAIN rows' = DOMAIN rows \cup DOMAIN tx[p].own
  BY <1>1 DEF Seen, Over
<1>3. ASSUME NEW q \in DOMAIN tx'
      PROVE  /\ q \in DOMAIN tx /\ q # p /\ TxTypes(q)
             /\ tx'[q].own = tx[q].own /\ tx'[q].calls = tx[q].calls
             /\ tx'[q].items = tx[q].items /\ tx'[q].checked = tx[q].checked
             /\ tx'[q] = [items |-> tx'[q].items, calls |-> tx'[q].calls, checked |-> tx'[q].checked,
                          own |-> tx'[q].own, alone |-> tx'[q].alone]
             /\ tx'[q].alone \in BOOLEAN
  <2>1. q \in DOMAIN tx /\ q # p /\ TxTypes(q)
    BY <1>1 DEF RegistryInv
  <2> QED
    BY <1>1, <2>1 DEF TxTypes
<1>4. (RowTable(rows) /\ UniqueUrls(rows))'
  <2>1. RowTable(Seen(p)) /\ UniqueUrls(Seen(p))
    BY TablesMerge DEF RegistryInv, TxTypes, Seen
  <2> QED
    BY <1>1, <2>1 DEF RowTable, UniqueUrls
<1>5. (DOMAIN tx \subseteq Processes /\ IsFiniteSet(DOMAIN tx))'
  BY <1>1, Finiteness DEF RegistryInv, Processes
<1>6. \A q \in DOMAIN tx' : DOMAIN tx[q].own \cap DOMAIN tx[p].own = {}
  BY <1>3 DEF RegistryInv
<1>7. /\ \A i \in DOMAIN tx[p].own : rows'[i] = tx[p].own[i]
      /\ \A i \in DOMAIN rows : i \notin DOMAIN tx[p].own => rows'[i] = rows[i]
  BY <1>1 DEF Seen, Over
<1>8. \A q \in DOMAIN tx' : DOMAIN Seen(q)' = DOMAIN Seen(q) \cup DOMAIN tx[p].own
  <2>1. SUFFICES ASSUME NEW q \in DOMAIN tx'
                 PROVE  DOMAIN Seen(q)' = DOMAIN Seen(q) \cup DOMAIN tx[p].own
    OBVIOUS
  <2>2. Seen(q)' = Over(tx[q].own, rows')
    BY <1>3 DEF Seen
  <2> QED
    BY <1>2, <2>2 DEF Seen, Over
<1>9. \A q \in DOMAIN tx' : \A i \in DOMAIN Seen(q)' :
         Seen(q)'[i] = IF i \in DOMAIN tx[p].own THEN tx[p].own[i] ELSE Seen(q)[i]
  <2>1. SUFFICES ASSUME NEW q \in DOMAIN tx', NEW i \in DOMAIN Seen(q)'
                 PROVE  Seen(q)'[i] = IF i \in DOMAIN tx[p].own THEN tx[p].own[i] ELSE Seen(q)[i]
    OBVIOUS
  <2>2. Seen(q)' = Over(tx[q].own, rows')
    BY <1>3 DEF Seen
  <2> QED
    BY <1>2, <1>6, <1>7, <2>2 DEF Seen, Over
<1>10. \A q \in DOMAIN tx' : UrlsHeld(q)' = UrlsHeld(q)
  <2>1. SUFFICES ASSUME NEW q \in DOMAIN tx' PROVE UrlsHeld(q)' = UrlsHeld(q)
    OBVIOUS
  <2>2. /\ DOMAIN tx[q].own \cap DOMAIN rows' = DOMAIN tx[q].own \cap DOMAIN rows
        /\ \A i \in DOMAIN tx[q].own \cap DOMAIN rows : rows'[i] = rows[i]
    BY <1>2, <1>6, <1>7
  <2> QED
    BY <1>3, <2>2 DEF UrlsHeld
<1>11. \A q \in DOMAIN tx' : (Adds(q) <=> Adds(q)') /\ Current(q)' = Current(q)
  BY <1>1, <1>3 DEF Adds, Calls, Current
<1>12. ASSUME NEW q \in DOMAIN tx' PROVE UniqueUrls(Seen(q))'
  <2>1. UniqueUrls(Seen(q)) /\ UniqueUrls(Seen(p)) /\ UrlsHeld(p) \cap UrlsHeld(q) = {}
    BY <1>3, <1>12 DEF RegistryInv
  <2>2. ASSUME NEW i \in DOMAIN tx[p].own, NEW j \in DOMAIN Seen(q), j \notin DOMAIN tx[p].own
        PROVE  tx[p].own[i].url # Seen(q)[j].url
    <3>1. CASE j \in DOMAIN tx[q].own
      <4>1. Seen(q)[j].url \in UrlsHeld(q) /\ tx[p].own[i].url \in UrlsHeld(p)
        BY <3>1 DEF UrlsHeld, Seen, Over
      <4> QED
        BY <2>1, <4>1
    <3>2. CASE j \notin DOMAIN tx[q].own
      <4>1. j \in DOMAIN rows /\ Seen(q)[j] = rows[j]
        BY <2>2, <3>2 DEF Seen, Over
      <4>2. /\ j \in DOMAIN Seen(p) /\ Seen(p)[j] = rows[j]
            /\ i \in DOMAIN Seen(p) /\ Seen(p)[i] = tx[p].own[i] /\ i # j
        BY <2>2, <4>1 DEF Seen, Over
      <4> QED
        BY <2>1, <4>1, <4>2 DEF UniqueUrls
    <3> QED
      BY <3>1, <3>2
  <2>3. \A i \in DOMAIN tx[p].own : i \in DOMAIN Seen(p) /\ Seen(p)[i] = tx[p].own[i]
    BY DEF Seen, Over
  <2>4. PICK S : S = Seen(q)'
    OBVIOUS
  <2>5. /\ DOMAIN S = DOMAIN Seen(q) \cup DOMAIN tx[p].own
        /\ \A i \in DOMAIN S :
              S[i] = IF i \in DOMAIN tx[p].own THEN tx[p].own[i] ELSE Seen(q)[i]
    BY <1>8, <1>9, <1>12, <2>4
  <2>6. ASSUME NEW i \in DOMAIN S, NEW j \in DOMAIN S, S[i].url = S[j].url PROVE i = j
    <3>1. CASE i \in DOMAIN tx[p].own /\ j \in DOMAIN tx[p].own
      BY <2>1, <2>3, <2>5, <2>6, <3>1 DEF UniqueUrls
    <3>2. CASE i \notin DOMAIN tx[p].own /\ j \notin DOMAIN tx[p].own
      BY <2>1, <2>5, <2>6, <3>2 DEF UniqueUrls
    <3>3. CASE i \in DOMAIN tx[p].own /\ j \notin DOMAIN tx[p].own
      BY <2>2, <2>5, <2>6, <3>3
    <3>4. CASE i \notin DOMAIN tx[p].own /\ j \in DOMAIN tx[p].own
      BY <2>2, <2>5, <2>6, <3>4
    <3> QED
      BY <3>1, <3>2, <3>3, <3>4
  <2> QED
    BY <2>4, <2>6 DEF UniqueUrls
<1>13. ASSUME NEW q \in DOMAIN tx' PROVE (TxTypes(q) /\ ListFits(tx[q].calls, DOMAIN Seen(q)))'
  <2>1. TxTypes(q) /\ ListFits(tx[q].calls, DOMAIN Seen(q))
    BY <1>3, <1>13 DEF RegistryInv
  <2>2. ItemRecords \subseteq ItemRecords'
    BY <1>2 DEF ItemRecords
  <2>3. tx[q].items \in Seq(ItemRecords')
    <3>1. tx[q].items \in Seq(ItemRecords)
      BY <2>1 DEF TxTypes
    <3> QED
      BY <2>2, <3>1
  <2>4. TxTypes(q)'
    BY <1>3, <1>13, <2>1, <2>3 DEF TxTypes, RowTable
  <2>5. DOMAIN Seen(q) \subseteq DOMAIN Seen(q)' /\ tx'[q].calls = tx[q].calls
    BY <1>3, <1>8, <1>13
  <2>6. ListFits(tx[q].calls, DOMAIN Seen(q))'
    BY <2>1, <2>5 DEF ListFits
  <2> QED
    BY <2>4, <2>6
<1>14. \A q, r \in DOMAIN tx' : q # r =>
         (DOMAIN tx[q].own \cap DOMAIN tx[r].own = {} /\ UrlsHeld(q) \cap UrlsHeld(r) = {})'
  <2>1. \A q \in DOMAIN tx' : q \in DOMAIN tx /\ tx'[q].own = tx[q].own
    BY <1>3
  <2> QED
    BY <1>10, <2>1 DEF RegistryInv
<1>15. NewIdsAreNew'
  <2>1. \A q \in DOMAIN tx' : q \in DOMAIN tx /\ tx'[q].own = tx[q].own
    BY <1>3
  <2>2. \A q \in DOMAIN tx : Adds(q) =>
           /\ Current(q).id \notin DOMAIN rows'
           /\ \A r \in DOMAIN tx :
                 Current(q).id \notin DOMAIN tx[r].own /\ (r # q /\ Adds(r) => Current(r).id # Current(q).id)
    BY <1>2 DEF RegistryInv, NewIdsAreNew
  <2> QED
    BY <1>11, <2>1, <2>2 DEF NewIdsAreNew
<1>16. calls' \in 0..MaxCalls /\ deaths' \in 0..MaxDeaths
  BY <1>1 DEF RegistryInv
<1> QED
  BY <1>4, <1>5, <1>12, <1>13, <1>14, <1>15, <1>16 DEF RegistryInv

-----------------------------------------------------------------------------
LEMMA RegistryInitInv == RegistryInit => RegistryInv
<1> SUFFICES ASSUME RegistryInit PROVE RegistryInv
  OBVIOUS
<1>1. DOMAIN tx = {} /\ IsFiniteSet(DOMAIN tx)
  BY FS_EmptySet DEF RegistryInit, Empty
<1>2. RowTable(rows) /\ OneRowPerUrl(rows)
  BY SourceRegistryAssumption DEF RegistryInit, RowTable
<1>3. ASSUME NEW i \in DOMAIN rows, NEW j \in DOMAIN rows, rows[i].url = rows[j].url, i # j
      PROVE  FALSE
  <2>1. rows[i].url \in Urls
    BY <1>2, RowsHaveColumns DEF RowTable
  <2>2. {i, j} \subseteq At(rows, rows[i].url)
    BY <1>3 DEF At
  <2>3. IsFiniteSet(At(rows, rows[i].url))
    BY <1>2, Finiteness DEF RowTable, At
  <2>4. Cardinality({i, j}) <= Cardinality(At(rows, rows[i].url))
    BY <2>2, <2>3, FS_Subset
  <2>5. Cardinality({i, j}) = 2
    <3>1. IsFiniteSet({i}) /\ Cardinality({i}) = 1
      BY FS_Singleton
    <3>2. {i, j} = {i} \cup {j}
      OBVIOUS
    <3> QED
      BY <1>3, <3>1, <3>2, FS_AddElement
  <2>6. Cardinality(At(rows, rows[i].url)) \in Nat
    BY <2>3, FS_CardinalityType
  <2> QED
    BY <1>2, <2>1, <2>4, <2>5, <2>6 DEF OneRowPerUrl
<1> QED
  BY <1>1, <1>2, <1>3, SourceRegistryAssumption
     DEF RegistryInit, RegistryInv, NewIdsAreNew, UniqueUrls

LEMMA RegistryNextInv == RegistryInv /\ [RegistryNext]_registryVars => RegistryInv'
<1> SUFFICES ASSUME RegistryInv, [RegistryNext]_registryVars PROVE RegistryInv'
  OBVIOUS
<1>1. CASE UNCHANGED registryVars
  <2>1. rows' = rows /\ tx' = tx /\ calls' = calls /\ deaths' = deaths
    BY <1>1 DEF registryVars
  <2>2. ItemRecords' = ItemRecords
    BY <2>1 DEF ItemRecords
  <2>3. \A p : Seen(p)' = Seen(p) /\ UrlsHeld(p)' = UrlsHeld(p)
               /\ (Adds(p) <=> Adds(p)') /\ Current(p)' = Current(p)
    BY <2>1 DEF Seen, UrlsHeld, Adds, Calls, Current
  <2>4. NewIdsAreNew'
    BY <2>1, <2>3 DEF RegistryInv, NewIdsAreNew
  <2>5. \A p \in DOMAIN tx' :
           (TxTypes(p) /\ ListFits(tx[p].calls, DOMAIN Seen(p)) /\ UniqueUrls(Seen(p)))'
    BY <2>1, <2>2, <2>3 DEF RegistryInv, TxTypes, ListFits, UniqueUrls, RowTable
  <2> QED
    BY <2>1, <2>3, <2>4, <2>5 DEF RegistryInv, RowTable, UniqueUrls, Processes
<1>2. ASSUME NEW p \in Operators, Operate(p) PROVE RegistryInv'
  BY <1>2, OperateInv
<1>3. ASSUME NEW p \in Seeders, ApplySeedCatalog(p) PROVE RegistryInv'
  BY <1>3, ApplySeedInv
<1>4. ASSUME NEW p \in Monitors, RunHealthMonitor(p) PROVE RegistryInv'
  BY <1>4, MonitorInv
<1>5. ASSUME NEW p \in Processes, Look(p) PROVE RegistryInv'
  BY <1>5, LookInv
<1>6. ASSUME NEW p \in Processes, Check(p) PROVE RegistryInv'
  BY <1>6, CheckInv
<1>7. ASSUME NEW p \in Processes, Write(p) PROVE RegistryInv'
  <2>1. p \in DOMAIN tx
    BY <1>7 DEF Write, Ready, Calls
  <2> QED
    BY <1>7, <2>1, WriteInv
<1>8. ASSUME NEW p \in Processes, Commit(p) PROVE RegistryInv'
  <2>1. p \in DOMAIN tx
    BY <1>8 DEF Commit
  <2> QED
    BY <1>8, <2>1, CommitInv
<1>9. ASSUME NEW p \in Processes, Raises(p) PROVE RegistryInv'
  <2>1. p \in DOMAIN tx /\ RollBack(p) /\ deaths' \in 0..MaxDeaths
    BY <1>9 DEF Raises, RegistryInv
  <2> QED
    BY <2>1, RollBackInv
<1>10. ASSUME NEW p \in Processes, DeadlockBroken(p) PROVE RegistryInv'
  <2>1. p \in DOMAIN tx /\ RollBack(p) /\ deaths' \in 0..MaxDeaths
    BY <1>10 DEF DeadlockBroken, RegistryInv
  <2> QED
    BY <2>1, RollBackInv
<1>11. ASSUME NEW p \in Processes, Dies(p) PROVE RegistryInv'
  <2>1. p \in DOMAIN tx /\ RollBack(p) /\ deaths' \in 0..MaxDeaths
    BY <1>11, SourceRegistryAssumption DEF Dies, RegistryInv
  <2> QED
    BY <2>1, RollBackInv
<1> QED
  BY <1>1, <1>2, <1>3, <1>4, <1>5, <1>6, <1>7, <1>8, <1>9, <1>10, <1>11 DEF RegistryNext, Step

LEMMA RegistryInvImpliesType == RegistryInv => RegistryTypeOK
<1> SUFFICES ASSUME RegistryInv PROVE RegistryTypeOK
  OBVIOUS
<1>1. ASSUME NEW url \in Urls PROVE Cardinality(At(rows, url)) <= 1
  <2>1. CASE At(rows, url) = {}
    BY <2>1, FS_EmptySet
  <2>2. CASE At(rows, url) # {}
    <3>1. PICK id : id \in At(rows, url)
      BY <2>2
    <3>2. At(rows, url) = {id}
      BY <3>1 DEF At, RegistryInv, UniqueUrls
    <3>3. Cardinality({id}) = 1
      BY FS_Singleton
    <3> QED
      BY <3>2, <3>3
  <2> QED
    BY <2>1, <2>2
<1>2. ASSUME NEW p \in DOMAIN tx, Calls(p), ~Inserts(Current(p))
      PROVE  Current(p).id \in DOMAIN Seen(p)
  <2>1. TxTypes(p) /\ ListFits(tx[p].calls, DOMAIN Seen(p)) /\ tx[p].calls # <<>>
    BY <1>2 DEF RegistryInv, Calls
  <2>2. 1 \in DOMAIN tx[p].calls /\ Current(p) = tx[p].calls[1]
    BY <2>1 DEF TxTypes, Current
  <2> QED
    BY <1>2, <2>1, <2>2 DEF ListFits
<1> QED
  BY <1>1, <1>2 DEF RegistryInv, RegistryTypeOK, RowTable, OneRowPerUrl

\* In every reachable state of the registry the strengthened invariant holds:
\* ids are inserted once, and no two open transactions hold the same url.
THEOREM RegistryKeepsItsInvariant == RegistrySpec => []RegistryInv
BY RegistryInitInv, RegistryNextInv, PTL DEF RegistrySpec

\* Rows keep their type and uq_sources_url_format, no row is written by two
\* transactions at once, and every call finds the row it is about.
THEOREM RegistryTypeCorrect == RegistrySpec => []RegistryTypeOK
BY RegistryKeepsItsInvariant, RegistryInvImpliesType, PTL

-----------------------------------------------------------------------------
SeedLength == Len(SeedItems)

\* What a seed run has left behind once it is through with an item.
Done(x, t) ==
    CASE x.op = "move" -> At(t, x.what.url) \cap LiveRows(t) = {}
      [] x.op = "methods" -> \A id \in LiveRows(t) :
                                t[id].url \in PlaywrightUrls => t[id].method = "playwright"
      [] x.op = "entry" -> \E id \in At(t, x.what.url) : id \in LiveRows(t) =>
                              /\ t[id].role = x.what.role
                              /\ (t[id].status = "approved") = AutoApproved(x.what)

\* The calls that an item leads to.
Retires(c) == c = RetireSource(c.id)
GivesPlaywright(c) == c = UpdateSource(c.id, [method |-> "playwright"])
Adding(c, e) == c = CreateSource(c.id, e.url, e.role, e.method)
GivesRole(c, e) == c = UpdateSource(c.id, [role |-> e.role])
GivesStatus(c, e) == c = StatusCall(c.id, e)

Serves(c, x, t) ==
    CASE x.op = "move" -> Retires(c) \/ MovesTo(c, x.what)
      [] x.op = "methods" -> GivesPlaywright(c)
      [] x.op = "entry" -> \/ Adding(c, x.what)
                           \/ /\ c.id \in At(t, x.what.url)
                              /\ GivesRole(c, x.what) \/ GivesStatus(c, x.what)

\* u is the table t after the call c.
Written(t, c, u) ==
    /\ c \in CallRecords /\ RowTable(t) /\ RowTable(u) /\ UniqueUrls(u)
    /\ DOMAIN u = DOMAIN t \cup {c.id}
    /\ \A i \in DOMAIN t : i # c.id => u[i] = t[i]
    /\ Inserts(c) => c.id \notin DOMAIN t /\ u[c.id] = c.set
    /\ ~Inserts(c) => /\ c.id \in DOMAIN t /\ t[c.id].status \in c.from
                      /\ u[c.id] = Over(c.set, t[c.id])

LEMMA WhatCallsDo ==
    ASSUME NEW t, NEW c, NEW u, Written(t, c, u), NEW i, i = c.id
    PROVE  /\ Retires(c) => ~Inserts(c) /\ u[i].status = "retired" /\ u[i].url = t[i].url
           /\ \A o : MovesTo(c, o) =>
                 ~Inserts(c) /\ u[i].url = o.to /\ u[i].status = t[i].status
           /\ GivesPlaywright(c) =>
                 /\ ~Inserts(c) /\ u[i].method = "playwright"
                 /\ u[i].url = t[i].url /\ u[i].status = t[i].status
           /\ \A e \in EntryRecords : Adding(c, e) =>
                 /\ Inserts(c) /\ u[i].url = e.url /\ u[i].role = e.role /\ u[i].method = e.method
                 /\ u[i].status = "proposed"
           /\ \A e \in EntryRecords : GivesRole(c, e) =>
                 /\ ~Inserts(c) /\ u[i].role = e.role /\ u[i].url = t[i].url
                 /\ u[i].method = t[i].method /\ u[i].status = t[i].status
           /\ \A e \in EntryRecords : GivesStatus(c, e) =>
                 /\ ~Inserts(c) /\ t[i].status \in {"proposed", "approved"}
                 /\ (u[i].status = "approved") = AutoApproved(e)
                 /\ u[i].role = t[i].role /\ u[i].url = t[i].url /\ u[i].method = t[i].method
<1>1. ~Inserts(c) => \A x \in Columns : u[i][x] = IF x \in DOMAIN c.set THEN c.set[x] ELSE t[i][x]
  <2>1. SUFFICES ASSUME ~Inserts(c)
                 PROVE  \A x \in Columns : u[i][x] = IF x \in DOMAIN c.set THEN c.set[x] ELSE t[i][x]
    OBVIOUS
  <2>2. t[i] \in SourceRows /\ c.set \in Edits /\ u[i] = Over(c.set, t[i])
    BY <2>1 DEF Written, RowTable, CallRecords
  <2> QED
    BY <2>2, SetColumns
<1>2. i \in Nat
  BY DEF Written, CallRecords
<1>3. Retires(c) => ~Inserts(c) /\ u[i].status = "retired" /\ u[i].url = t[i].url
  BY <1>1 DEF Retires, RetireSource, Call, Inserts, Columns
<1>4. ASSUME NEW o, MovesTo(c, o)
      PROVE  ~Inserts(c) /\ u[i].url = o.to /\ u[i].status = t[i].status
  <2>1. PICK set \in Edits : /\ c = UpdateSource(c.id, set) /\ "url" \in DOMAIN set
                             /\ set.url = o.to /\ DOMAIN set \subseteq {"url", "method"}
    BY <1>4 DEF MovesTo
  <2>2. ~Inserts(c) /\ c.set = set
    BY <2>1 DEF UpdateSource, Call, Inserts
  <2> QED
    BY <1>1, <2>1, <2>2 DEF Columns
<1>5. GivesPlaywright(c) =>
         /\ ~Inserts(c) /\ u[i].method = "playwright"
         /\ u[i].url = t[i].url /\ u[i].status = t[i].status
  <2>1. SUFFICES ASSUME GivesPlaywright(c)
                 PROVE  /\ ~Inserts(c) /\ u[i].method = "playwright"
                        /\ u[i].url = t[i].url /\ u[i].status = t[i].status
    OBVIOUS
  <2>2. ~Inserts(c) /\ c.set = [method |-> "playwright"]
    BY <2>1 DEF GivesPlaywright, UpdateSource, Call, Inserts
  <2> QED
    BY <1>1, <2>2 DEF Columns
<1>6. ASSUME NEW e \in EntryRecords, Adding(c, e)
      PROVE  /\ Inserts(c) /\ u[i].url = e.url /\ u[i].role = e.role /\ u[i].method = e.method
             /\ u[i].status = "proposed"
  <2>1. Inserts(c) /\ c.set = [url |-> e.url, role |-> e.role, method |-> e.method,
                               status |-> "proposed", health |-> "unknown", print |-> NoPrint]
    BY <1>6 DEF Adding, CreateSource, Call, Inserts
  <2>2. u[i] = c.set
    BY <2>1 DEF Written
  <2> QED
    BY <2>1, <2>2
<1>7. ASSUME NEW e \in EntryRecords, GivesRole(c, e)
      PROVE  /\ ~Inserts(c) /\ u[i].role = e.role /\ u[i].url = t[i].url
             /\ u[i].method = t[i].method /\ u[i].status = t[i].status
  <2>1. ~Inserts(c) /\ c.set = [role |-> e.role]
    BY <1>7 DEF GivesRole, UpdateSource, Call, Inserts
  <2> QED
    BY <1>1, <2>1 DEF Columns
<1>8. ASSUME NEW e \in EntryRecords, GivesStatus(c, e)
      PROVE  /\ ~Inserts(c) /\ t[i].status \in {"proposed", "approved"}
             /\ (u[i].status = "approved") = AutoApproved(e)
             /\ u[i].role = t[i].role /\ u[i].url = t[i].url /\ u[i].method = t[i].method
  <2>1. CASE AutoApproved(e)
    <3>1. ~Inserts(c) /\ c.from = {"proposed"} /\ c.set = [status |-> "approved"]
      BY <1>8, <2>1 DEF GivesStatus, StatusCall, ApproveSource, Call, Inserts
    <3>2. /\ t[i].status \in {"proposed", "approved"}
          /\ u[i].role = t[i].role /\ u[i].url = t[i].url /\ u[i].method = t[i].method
          /\ u[i].status = c.set.status
      BY <1>1, <3>1 DEF Columns, Written
    <3>3. (u[i].status = "approved") = AutoApproved(e)
      BY <2>1, <3>1, <3>2 DEF AutoApproved
    <3> QED
      BY <3>1, <3>2, <3>3
  <2>2. CASE ~AutoApproved(e)
    <3>1. ~Inserts(c) /\ c.from = {"approved"} /\ c.set = [status |-> "proposed"]
      BY <1>8, <2>2 DEF GivesStatus, StatusCall, DemoteToProposed, Call, Inserts
    <3>2. /\ t[i].status \in {"proposed", "approved"}
          /\ u[i].role = t[i].role /\ u[i].url = t[i].url /\ u[i].method = t[i].method
          /\ u[i].status = c.set.status
      BY <1>1, <3>1 DEF Columns, Written
    <3>3. (u[i].status = "approved") = AutoApproved(e)
      BY <2>2, <3>1, <3>2 DEF AutoApproved
    <3> QED
      BY <3>1, <3>2, <3>3
  <2> QED
    BY <2>1, <2>2
<1> QED
  BY <1>3, <1>4, <1>5, <1>6, <1>7, <1>8

\* Nothing comes to life again, and urls change only as the item says.
LEMMA EffectsOfServing ==
    ASSUME NEW t, NEW c, NEW u, Written(t, c, u), NEW x, Serves(c, x, t),
           x.op \in {"move", "methods", "entry"}, x.op = "entry" => x.what \in EntryRecords
    PROVE  /\ \A i \in LiveRows(u) : i \in DOMAIN t => i \in LiveRows(t)
           /\ \A i \in DOMAIN t : \/ u[i].url = t[i].url
                                  \/ x.op = "move" /\ MovesTo(c, x.what) /\ u[i].url = x.what.to
           /\ \A i \in DOMAIN u : i \notin DOMAIN t =>
                 /\ x.op = "entry" /\ i = c.id
                 /\ u[i].url = x.what.url /\ u[i].method = x.what.method
           /\ \A i \in DOMAIN t : x.op = "entry" => u[i].method = t[i].method
           /\ x.op = "entry" /\ c.id \in DOMAIN t => t[c.id].url = x.what.url
<1>1. CASE x.op = "move" /\ Retires(c)
  <2>1. ~Inserts(c) /\ u[c.id].status = "retired" /\ u[c.id].url = t[c.id].url
    BY <1>1, WhatCallsDo
  <2> QED
    BY <1>1, <2>1 DEF Written, LiveRows
<1>2. CASE x.op = "move" /\ MovesTo(c, x.what)
  BY <1>2, WhatCallsDo DEF Written, LiveRows
<1>3. CASE x.op = "methods" /\ GivesPlaywright(c)
  BY <1>3, WhatCallsDo DEF Written, LiveRows
<1>4. CASE x.op = "entry" /\ Adding(c, x.what)
  <2>1. Inserts(c) /\ u[c.id].url = x.what.url /\ u[c.id].method = x.what.method
    BY <1>4, WhatCallsDo
  <2> QED
    BY <1>4, <2>1 DEF Written, LiveRows
<1>5. CASE x.op = "entry" /\ c.id \in At(t, x.what.url) /\ GivesRole(c, x.what)
  BY <1>5, WhatCallsDo DEF Written, LiveRows, At
<1>6. CASE x.op = "entry" /\ c.id \in At(t, x.what.url) /\ GivesStatus(c, x.what)
  BY <1>6, WhatCallsDo DEF Written, LiveRows, At
<1> QED
  BY <1>1, <1>2, <1>3, <1>4, <1>5, <1>6 DEF Serves

LEMMA KindsOfItems ==
    ASSUME NEW k \in 1..SeedLength
    PROVE  \/ \E n \in DOMAIN Obsolete :
                  k = n /\ SeedItems[k] = [op |-> "move", what |-> Obsolete[n]]
           \/ k = Len(Obsolete) + 1 /\ SeedItems[k] = [op |-> "methods"]
           \/ \E n \in DOMAIN Catalog :
                  k = Len(Obsolete) + 1 + n /\ SeedItems[k] = [op |-> "entry", what |-> Catalog[n]]
<1>1. PICK a, b \in Nat : /\ a = Len(Obsolete) /\ b = Len(Catalog)
                          /\ DOMAIN Obsolete = 1..a /\ DOMAIN Catalog = 1..b
                          /\ SeedLength = a + 1 + b
  <2>1. PICK a, b \in Nat : a = Len(Obsolete) /\ b = Len(Catalog)
    BY SeedItemsInOrder
  <2>2. DOMAIN Obsolete = 1..a /\ DOMAIN Catalog = 1..b
    BY <2>1, SourceRegistryAssumption
  <2>3. SeedLength = a + 1 + b
    BY <2>1, SeedItemsInOrder DEF SeedLength
  <2> QED
    BY <2>1, <2>2, <2>3
<1>2. CASE k \in 1..a
  BY <1>1, <1>2, SeedItemsInOrder
<1>3. CASE k = a + 1
  BY <1>1, <1>3, SeedItemsInOrder
<1>4. CASE k > a + 1
  <2>1. PICK n \in 1..b : k = a + 1 + n
    <3>1. k - (a + 1) \in 1..b /\ k = a + 1 + (k - (a + 1))
      BY <1>1, <1>4
    <3> QED
      BY <3>1
  <2> QED
    BY <1>1, <2>1, SeedItemsInOrder
<1> QED
  BY <1>1, <1>2, <1>3, <1>4

LEMMA DoneStays ==
    ASSUME NEW t, NEW c, NEW u, Written(t, c, u),
           NEW k \in 1..SeedLength, NEW j \in 1..k - 1, Serves(c, SeedItems[k], t),
           Done(SeedItems[j], t)
    PROVE  Done(SeedItems[j], u)
<1> DEFINE x == SeedItems[k]
           y == SeedItems[j]
<1>1. j \in 1..SeedLength /\ j < k /\ SeedLength \in Nat
  BY SeedItemsInOrder DEF SeedLength
<1>2. x.op \in {"move", "methods", "entry"} /\ (x.op = "entry" => x.what \in EntryRecords)
  <2>1. CASE \E n \in DOMAIN Obsolete :
                  k = n /\ SeedItems[k] = [op |-> "move", what |-> Obsolete[n]]
    BY <2>1
  <2>2. CASE k = Len(Obsolete) + 1 /\ SeedItems[k] = [op |-> "methods"]
    BY <2>2
  <2>3. CASE \E n \in DOMAIN Catalog :
                  k = Len(Obsolete) + 1 + n /\ SeedItems[k] = [op |-> "entry", what |-> Catalog[n]]
    BY <2>3, ConstantsAreTyped
  <2> QED
    BY <2>1, <2>2, <2>3, KindsOfItems
<1>3. /\ \A i \in LiveRows(u) : i \in DOMAIN t => i \in LiveRows(t)
      /\ \A i \in DOMAIN t : \/ u[i].url = t[i].url
                             \/ x.op = "move" /\ MovesTo(c, x.what) /\ u[i].url = x.what.to
      /\ \A i \in DOMAIN u : i \notin DOMAIN t =>
            /\ x.op = "entry" /\ i = c.id
            /\ u[i].url = x.what.url /\ u[i].method = x.what.method
      /\ \A i \in DOMAIN t : x.op = "entry" => u[i].method = t[i].method
      /\ x.op = "entry" /\ c.id \in DOMAIN t => t[c.id].url = x.what.url
  BY <1>2, EffectsOfServing
<1>4. /\ x.op = "move" => \E m \in DOMAIN Obsolete : k = m /\ x.what = Obsolete[m]
      /\ x.op = "entry" => \E m \in DOMAIN Catalog : k = Len(Obsolete) + 1 + m /\ x.what = Catalog[m]
      /\ x.op = "move" => k <= Len(Obsolete)
      /\ x.op = "methods" => k = Len(Obsolete) + 1
  <2>1. \A n \in DOMAIN Obsolete : n <= Len(Obsolete)
    <3>1. PICK a \in Nat : a = Len(Obsolete)
      BY SeedItemsInOrder
    <3>2. DOMAIN Obsolete = 1..a
      BY <3>1, SourceRegistryAssumption
    <3> QED
      BY <3>1, <3>2
  <2>2. CASE \E n \in DOMAIN Obsolete :
                  k = n /\ SeedItems[k] = [op |-> "move", what |-> Obsolete[n]]
    BY <2>1, <2>2
  <2>3. CASE k = Len(Obsolete) + 1 /\ SeedItems[k] = [op |-> "methods"]
    BY <2>3
  <2>4. CASE \E n \in DOMAIN Catalog :
                  k = Len(Obsolete) + 1 + n /\ SeedItems[k] = [op |-> "entry", what |-> Catalog[n]]
    BY <2>4
  <2> QED
    BY <2>2, <2>3, <2>4, KindsOfItems
<1> HIDE DEF x
<1>5. CASE \E n \in DOMAIN Obsolete : y = [op |-> "move", what |-> Obsolete[n]]
  <2>1. PICK n \in DOMAIN Obsolete : y = [op |-> "move", what |-> Obsolete[n]]
    BY <1>5
  <2>2. At(t, Obsolete[n].url) \cap LiveRows(t) = {}
    BY <2>1 DEF Done
  <2>3. ASSUME NEW i \in At(u, Obsolete[n].url), i \in LiveRows(u) PROVE FALSE
    <3>1. CASE i \notin DOMAIN t
      <4>1. \E m \in DOMAIN Catalog : Obsolete[n].url = Catalog[m].url
        BY <1>3, <1>4, <2>3, <3>1 DEF At
      <4> QED
        BY <4>1, SourceRegistryAssumption
    <3>2. CASE i \in DOMAIN t /\ u[i].url = t[i].url
      BY <1>3, <2>2, <2>3, <3>2 DEF At
    <3>3. CASE i \in DOMAIN t /\ x.op = "move" /\ u[i].url = x.what.to
      <4>1. \E m \in DOMAIN Obsolete : Obsolete[n].url = Obsolete[m].to
        BY <1>4, <2>3, <3>3 DEF At
      <4> QED
        BY <4>1, SourceRegistryAssumption
    <3> QED
      BY <1>3, <3>1, <3>2, <3>3
  <2> QED
    BY <2>1, <2>3 DEF Done
<1>6. CASE y = [op |-> "methods"] /\ j = Len(Obsolete) + 1
  <2>1. x.op = "entry"
    <3>1. Len(Obsolete) \in Nat
      BY SeedItemsInOrder
    <3> QED
      BY <1>1, <1>2, <1>4, <1>6, <3>1
  <2>2. ASSUME NEW i \in LiveRows(u), u[i].url \in PlaywrightUrls PROVE u[i].method = "playwright"
    <3>1. CASE i \in DOMAIN t
      BY <1>3, <1>6, <2>1, <2>2, <3>1 DEF Done
    <3>2. CASE i \notin DOMAIN t
      <4>1. \E m \in DOMAIN Catalog : u[i].url = Catalog[m].url /\ u[i].method = Catalog[m].method
        BY <1>3, <1>4, <2>1, <3>2 DEF LiveRows
      <4> QED
        BY <2>2, <4>1, SourceRegistryAssumption
    <3> QED
      BY <3>1, <3>2
  <2> QED
    BY <1>6, <2>2 DEF Done
<1>7. CASE \E n \in DOMAIN Catalog :
              j = Len(Obsolete) + 1 + n /\ y = [op |-> "entry", what |-> Catalog[n]]
  <2>1. PICK n \in DOMAIN Catalog :
              j = Len(Obsolete) + 1 + n /\ y = [op |-> "entry", what |-> Catalog[n]]
    BY <1>7
  <2>2. PICK id \in At(t, Catalog[n].url) : id \in LiveRows(t) =>
                              /\ t[id].role = Catalog[n].role
                              /\ (t[id].status = "approved") = AutoApproved(Catalog[n])
    BY <2>1 DEF Done
  <2>3. x.op = "entry"
    <3>1. Len(Obsolete) \in Nat /\ n \in Nat /\ n > 0
      BY SeedItemsInOrder, SourceRegistryAssumption
    <3> QED
      BY <1>1, <1>2, <1>4, <2>1, <3>1
  <2>4. id # c.id
    <3>1. PICK m \in DOMAIN Catalog : k = Len(Obsolete) + 1 + m /\ x.what = Catalog[m]
      BY <1>4, <2>3
    <3>2. m # n
      BY <1>1, <2>1, <3>1
    <3>3. Catalog[m].url # Catalog[n].url
      BY <3>2, SourceRegistryAssumption
    <3> QED
      BY <1>3, <2>2, <2>3, <3>1, <3>3 DEF At
  <2>5. id \in DOMAIN u /\ u[id] = t[id] /\ id \in DOMAIN t
    BY <2>2, <2>4 DEF Written, At
  <2> QED
    BY <2>1, <2>2, <2>5 DEF Done, At, LiveRows
<1> QED
  BY <1>1, <1>5, <1>6, <1>7, KindsOfItems

\* Where a seed run is in the middle of an item: what its calls are, and that
\* they reach what is still wrong.  again: the entry will be read once more.
Moving(o, t, list) ==
    /\ \A n \in DOMAIN list : Retires(list[n]) \/ MovesTo(list[n], o)
    /\ \A id \in At(t, o.url) \cap LiveRows(t) : \E n \in DOMAIN list : list[n].id = id

GivingMethods(t, list) ==
    /\ \A n \in DOMAIN list : GivesPlaywright(list[n])
    /\ \A id \in LiveRows(t) :
          t[id].url \in PlaywrightUrls /\ t[id].method # "playwright" =>
             \E n \in DOMAIN list : list[n].id = id

AddingEntry(e, list) ==
    /\ list # <<>> /\ Adding(list[1], e)
    /\ IF AutoApproved(e) THEN Len(list) = 2 /\ list[2] = ApproveSource(list[1].id)
       ELSE Len(list) = 1

CorrectingEntry(e, t, list, again) ==
    \E id \in At(t, e.url) :
       /\ \A n \in DOMAIN list :
             list[n].id = id /\ (GivesRole(list[n], e) \/ GivesStatus(list[n], e))
       /\ id \in LiveRows(t) =>
             /\ t[id].role = e.role \/ \E n \in DOMAIN list : GivesRole(list[n], e)
             /\ \/ (t[id].status = "approved") = AutoApproved(e) \/ again
                \/ \E n \in DOMAIN list : GivesStatus(list[n], e)

Underway(x, t, list, again) ==
    CASE x.op = "move" -> Moving(x.what, t, list) /\ ~again
      [] x.op = "methods" -> GivingMethods(t, list) /\ ~again
      [] x.op = "entry" -> \/ AddingEntry(x.what, list) /\ ~again
                           \/ CorrectingEntry(x.what, t, list, again)

SeedItem(x) ==
    \/ x.op = "move" /\ \E n \in DOMAIN Obsolete : x.what = Obsolete[n]
    \/ x.op = "methods"
    \/ x.op = "entry" /\ x.what \in EntryRecords

LEMMA UnderwayServes ==
    ASSUME NEW x, SeedItem(x), NEW t, NEW list \in Seq(CallRecords), list # <<>>, NEW again,
           Underway(x, t, list, again)
    PROVE  Serves(list[1], x, t)
<1>1. 1 \in DOMAIN list
  OBVIOUS
<1>2. CASE x.op = "move"
  BY <1>1, <1>2 DEF Underway, Moving, Serves
<1>3. CASE x.op = "methods"
  BY <1>1, <1>3 DEF Underway, GivingMethods, Serves
<1>4. CASE x.op = "entry"
  BY <1>1, <1>4 DEF Underway, AddingEntry, CorrectingEntry, Serves
<1> QED
  BY <1>2, <1>3, <1>4 DEF SeedItem

RestOf(list, rest) ==
    /\ rest \in Seq(CallRecords) /\ Len(rest) = Len(list) - 1
    /\ \A n \in DOMAIN list : n # 1 => n - 1 \in DOMAIN rest /\ rest[n - 1] = list[n]
    /\ \A n \in DOMAIN rest : n + 1 \in DOMAIN list /\ rest[n] = list[n + 1]

LEMMA TailIsRest ==
    ASSUME NEW list \in Seq(CallRecords), list # <<>>
    PROVE  RestOf(list, Tail(list))
<1>1. PICK k \in Nat : k = Len(list) /\ k > 0 /\ DOMAIN list = 1..k
  OBVIOUS
<1>2. PICK rest : rest = Tail(list)
  OBVIOUS
<1>3. rest \in Seq(CallRecords) /\ Len(rest) = k - 1 /\ DOMAIN rest = 1..k - 1
  BY <1>1, <1>2
<1>4. \A n \in 1..k - 1 : rest[n] = list[n + 1]
  BY <1>1, <1>2
<1>5. ASSUME NEW n \in 1..k, n # 1 PROVE n - 1 \in 1..k - 1 /\ rest[n - 1] = list[n]
  <2>1. n - 1 \in 1..k - 1 /\ (n - 1) + 1 = n
    BY <1>1, <1>5
  <2> QED
    BY <1>4, <2>1
<1>6. \A n \in 1..k - 1 : n + 1 \in 1..k
  BY <1>1
<1> QED
  BY <1>1, <1>2, <1>3, <1>4, <1>5, <1>6 DEF RestOf

LEMMA UnderwayWrite ==
    ASSUME NEW x, SeedItem(x), NEW t, NEW list \in Seq(CallRecords), list # <<>>,
           NEW again \in BOOLEAN, Underway(x, t, list, again),
           NEW u, Written(t, list[1], u), NEW rest, RestOf(list, rest)
    PROVE  Underway(x, u, rest, again)
<1>1. PICK c : c = list[1] /\ 1 \in DOMAIN list
  OBVIOUS
<1>2. Written(t, c, u) /\ Serves(c, x, t) /\ c \in CallRecords
  BY <1>1, UnderwayServes
<1>3. CASE x.op = "move"
  <2>1. PICK o : o = x.what /\ \E n \in DOMAIN Obsolete : o = Obsolete[n]
    BY <1>3 DEF SeedItem
  <2>2. Moving(o, t, list) /\ ~again
    BY <1>3, <2>1 DEF Underway
  <2>3. Retires(c) \/ MovesTo(c, o)
    BY <1>1, <2>2 DEF Moving
  <2>4. MovesTo(c, o) => o.to # o.url
    <3>1. PICK n \in DOMAIN Obsolete : o = Obsolete[n]
      BY <2>1
    <3>2. Obsolete[n].to # Obsolete[n].url
      BY SourceRegistryAssumption
    <3> QED
      BY <3>1, <3>2
  <2>5. ASSUME NEW id \in At(u, o.url) \cap LiveRows(u)
        PROVE  id \in At(t, o.url) \cap LiveRows(t) /\ id # c.id
    <3>1. CASE Retires(c)
      <4>1. ~Inserts(c) /\ u[c.id].status = "retired"
        BY <1>2, <3>1, WhatCallsDo
      <4> QED
        BY <1>2, <2>5, <4>1 DEF Written, At, LiveRows
    <3>2. CASE MovesTo(c, o)
      <4>1. ~Inserts(c) /\ u[c.id].url = o.to
        BY <1>2, <3>2, WhatCallsDo
      <4> QED
        BY <1>2, <2>4, <2>5, <3>2, <4>1 DEF Written, At, LiveRows
    <3> QED
      BY <2>3, <3>1, <3>2
  <2>6. \A n \in DOMAIN rest : Retires(rest[n]) \/ MovesTo(rest[n], o)
    BY <2>2 DEF Moving, RestOf
  <2>7. ASSUME NEW id \in At(u, o.url) \cap LiveRows(u)
        PROVE  \E n \in DOMAIN rest : rest[n].id = id
    <3>1. PICK n \in DOMAIN list : list[n].id = id
      BY <2>2, <2>5 DEF Moving
    <3> QED
      BY <1>1, <2>5, <3>1 DEF RestOf
  <2> QED
    BY <1>3, <2>1, <2>2, <2>6, <2>7 DEF Underway, Moving
<1>4. CASE x.op = "methods"
  <2>1. GivingMethods(t, list) /\ ~again
    BY <1>4 DEF Underway
  <2>2. GivesPlaywright(c)
    BY <1>1, <2>1 DEF GivingMethods
  <2>3. ~Inserts(c) /\ u[c.id].method = "playwright"
    BY <1>2, <2>2, WhatCallsDo
  <2>4. \A n \in DOMAIN rest : GivesPlaywright(rest[n])
    BY <2>1 DEF GivingMethods, RestOf
  <2>5. ASSUME NEW id \in LiveRows(u), u[id].url \in PlaywrightUrls, u[id].method # "playwright"
        PROVE  \E n \in DOMAIN rest : rest[n].id = id
    <3>1. id # c.id /\ id \in DOMAIN t /\ u[id] = t[id]
      BY <1>2, <2>3, <2>5 DEF Written, LiveRows
    <3>2. PICK n \in DOMAIN list : list[n].id = id
      BY <2>1, <2>5, <3>1 DEF GivingMethods, LiveRows
    <3> QED
      BY <1>1, <3>1, <3>2 DEF RestOf
  <2> QED
    BY <1>4, <2>1, <2>4, <2>5 DEF Underway, GivingMethods
<1>5. CASE x.op = "entry" /\ AddingEntry(x.what, list) /\ ~again
  <2>1. PICK e \in EntryRecords : e = x.what
    BY <1>5 DEF SeedItem
  <2>2. /\ Inserts(c) /\ u[c.id].url = e.url /\ u[c.id].role = e.role
        /\ u[c.id].status = "proposed" /\ c.id \in DOMAIN u
    <3>1. Adding(c, e)
      BY <1>1, <1>5, <2>1 DEF AddingEntry
    <3> QED
      BY <1>2, <3>1, WhatCallsDo DEF Written
  <2>3. CASE AutoApproved(e)
    <3>1. Len(list) = 2 /\ list[2] = ApproveSource(c.id)
      BY <1>1, <1>5, <2>1, <2>3 DEF AddingEntry
    <3>2. DOMAIN rest = {1} /\ rest[1] = ApproveSource(c.id)
      <4>1. Len(rest) = 1 /\ rest \in Seq(CallRecords) /\ 2 \in DOMAIN list
        BY <3>1 DEF RestOf
      <4>2. rest[1] = list[1 + 1] /\ DOMAIN rest = 1..1
        BY <4>1 DEF RestOf
      <4> QED
        BY <3>1, <4>2
    <3>3. rest[1].id = c.id /\ GivesStatus(rest[1], e)
      BY <2>3, <3>2 DEF GivesStatus, StatusCall, ApproveSource, Call
    <3>4. CorrectingEntry(e, u, rest, again)
      BY <2>2, <3>2, <3>3 DEF CorrectingEntry, At
    <3> QED
      BY <1>5, <2>1, <3>4 DEF Underway
  <2>4. CASE ~AutoApproved(e)
    <3>1. Len(list) = 1
      BY <1>5, <2>1, <2>4 DEF AddingEntry
    <3>2. DOMAIN rest = {}
      BY <3>1 DEF RestOf
    <3>3. (u[c.id].status = "approved") = AutoApproved(e)
      BY <2>2, <2>4 DEF AutoApproved
    <3>4. CorrectingEntry(e, u, rest, again)
      BY <2>2, <3>2, <3>3 DEF CorrectingEntry, At
    <3> QED
      BY <1>5, <2>1, <3>4 DEF Underway
  <2> QED
    BY <2>3, <2>4
<1>6. CASE x.op = "entry" /\ CorrectingEntry(x.what, t, list, again)
  <2>1. PICK e \in EntryRecords : e = x.what
    BY <1>6 DEF SeedItem
  <2>2. PICK id \in At(t, e.url) :
       /\ \A n \in DOMAIN list :
             list[n].id = id /\ (GivesRole(list[n], e) \/ GivesStatus(list[n], e))
       /\ id \in LiveRows(t) =>
             /\ t[id].role = e.role \/ \E n \in DOMAIN list : GivesRole(list[n], e)
             /\ \/ (t[id].status = "approved") = AutoApproved(e) \/ again
                \/ \E n \in DOMAIN list : GivesStatus(list[n], e)
    BY <1>6, <2>1 DEF CorrectingEntry
  <2>3. c.id = id /\ (GivesRole(c, e) \/ GivesStatus(c, e))
    BY <1>1, <2>2
  <2>4. /\ GivesRole(c, e) => /\ u[id].role = e.role /\ u[id].url = t[id].url
                              /\ u[id].status = t[id].status
        /\ GivesStatus(c, e) => /\ t[id].status \in {"proposed", "approved"}
                                /\ (u[id].status = "approved") = AutoApproved(e)
                                /\ u[id].role = t[id].role /\ u[id].url = t[id].url
    BY <1>2, <2>3, WhatCallsDo
  <2>5. id \in At(u, e.url) /\ (id \in LiveRows(u) => id \in LiveRows(t))
    BY <1>2, <2>2, <2>3, <2>4 DEF Written, At, LiveRows
  <2>6. \A n \in DOMAIN rest :
             rest[n].id = id /\ (GivesRole(rest[n], e) \/ GivesStatus(rest[n], e))
    BY <2>2 DEF RestOf
  <2>7. id \in LiveRows(t) => u[id].role = e.role \/ \E n \in DOMAIN rest : GivesRole(rest[n], e)
    <3>1. CASE GivesRole(c, e)
      BY <2>4, <3>1
    <3>2. CASE ~GivesRole(c, e)
      <4>1. \A n \in DOMAIN list : GivesRole(list[n], e) => n # 1
        BY <1>1, <3>2
      <4> QED
        BY <2>2, <2>3, <2>4, <3>2, <4>1 DEF RestOf
    <3> QED
      BY <3>1, <3>2
  <2>8. id \in LiveRows(t) => \/ (u[id].status = "approved") = AutoApproved(e) \/ again
                              \/ \E n \in DOMAIN rest : GivesStatus(rest[n], e)
    <3>1. CASE GivesStatus(c, e)
      BY <2>4, <3>1
    <3>2. CASE ~GivesStatus(c, e)
      <4>1. \A n \in DOMAIN list : GivesStatus(list[n], e) => n # 1
        BY <1>1, <3>2
      <4>2. u[id].status = t[id].status
        BY <2>3, <2>4, <3>2
      <4> QED
        BY <2>2, <4>1, <4>2 DEF RestOf
    <3> QED
      BY <3>1, <3>2
  <2>9. CorrectingEntry(e, u, rest, again)
    BY <2>5, <2>6, <2>7, <2>8 DEF CorrectingEntry
  <2> QED
    BY <1>6, <2>1, <2>9 DEF Underway
<1> QED
  BY <1>3, <1>4, <1>5, <1>6 DEF Underway, SeedItem

\* A demotion of what is proposed already does nothing.
LEMMA UnderwayIdle ==
    ASSUME NEW x, SeedItem(x), NEW t, NEW list \in Seq(CallRecords), list # <<>>,
           NEW again \in BOOLEAN, Underway(x, t, list, again),
           t[list[1].id].status \in list[1].idle, NEW rest, RestOf(list, rest)
    PROVE  Underway(x, t, rest, again)
<1>1. PICK c : c = list[1] /\ 1 \in DOMAIN list /\ c.idle # {}
  OBVIOUS
<1>2. /\ ~Retires(c) /\ ~GivesPlaywright(c) /\ \A e : ~Adding(c, e) /\ ~GivesRole(c, e)
      /\ \A o : ~MovesTo(c, o)
  BY <1>1 DEF Retires, RetireSource, GivesPlaywright, GivesRole, UpdateSource, Adding, CreateSource,
              MovesTo, Call
<1>3. x.op = "entry" /\ CorrectingEntry(x.what, t, list, again)
  BY <1>1, <1>2 DEF Underway, Moving, GivingMethods, AddingEntry, SeedItem
<1>4. PICK e \in EntryRecords : e = x.what
  BY <1>3 DEF SeedItem
<1>5. PICK id \in At(t, e.url) :
       /\ \A n \in DOMAIN list :
             list[n].id = id /\ (GivesRole(list[n], e) \/ GivesStatus(list[n], e))
       /\ id \in LiveRows(t) =>
             /\ t[id].role = e.role \/ \E n \in DOMAIN list : GivesRole(list[n], e)
             /\ \/ (t[id].status = "approved") = AutoApproved(e) \/ again
                \/ \E n \in DOMAIN list : GivesStatus(list[n], e)
  BY <1>3, <1>4 DEF CorrectingEntry
<1>6. GivesStatus(c, e) /\ c.id = id
  BY <1>1, <1>2, <1>5
<1>7. ~AutoApproved(e) /\ t[id].status = "proposed"
  <2>1. AutoApproved(e) => c.idle = {}
    BY <1>6 DEF GivesStatus, StatusCall, ApproveSource, Call
  <2>2. ~AutoApproved(e) => c.idle = {"proposed"}
    BY <1>6 DEF GivesStatus, StatusCall, DemoteToProposed, Call
  <2> QED
    BY <1>1, <1>6, <2>1, <2>2
<1>8. (t[id].status = "approved") = AutoApproved(e)
  BY <1>7 DEF AutoApproved
<1>9. \A n \in DOMAIN rest :
             rest[n].id = id /\ (GivesRole(rest[n], e) \/ GivesStatus(rest[n], e))
  BY <1>5 DEF RestOf
<1>10. \A n \in DOMAIN list : GivesRole(list[n], e) => n # 1
  BY <1>1, <1>2
<1>11. id \in LiveRows(t) => t[id].role = e.role \/ \E n \in DOMAIN rest : GivesRole(rest[n], e)
  BY <1>5, <1>10 DEF RestOf
<1>12. CorrectingEntry(e, t, rest, again)
  BY <1>8, <1>9, <1>11 DEF CorrectingEntry
<1> QED
  BY <1>3, <1>4, <1>12 DEF Underway

LEMMA UnderwayDone ==
    ASSUME NEW x, SeedItem(x), NEW t, Underway(x, t, <<>>, FALSE)
    PROVE  Done(x, t)
<1>1. DOMAIN <<>> = {}
  OBVIOUS
<1>2. CASE x.op = "move"
  BY <1>1, <1>2 DEF Underway, Moving, Done
<1>3. CASE x.op = "methods"
  BY <1>1, <1>3 DEF Underway, GivingMethods, Done
<1>4. CASE x.op = "entry"
  BY <1>1, <1>4 DEF Underway, AddingEntry, CorrectingEntry, Done
<1> QED
  BY <1>2, <1>3, <1>4 DEF SeedItem

LEMMA OneRowAtUrl ==
    ASSUME NEW t, UniqueUrls(t), NEW url, NEW i \in At(t, url), NEW j \in At(t, url)
    PROVE  i = j
BY DEF UniqueUrls, At

LEMMA ItemUnderway ==
    ASSUME RegistryInv, NEW p \in DOMAIN tx, NEW x \in ItemRecords, SeedItem(x),
           NEW list \in CallsFor(p, x), NEW again \in BOOLEAN,
           again <=> x.op = "entry" /\ WrongRole(Seen(p), x.what) # {}
    PROVE  Underway(x, Seen(p), list, again)
<1>1. PICK t : t = Seen(p)
  OBVIOUS
<1>2. RowTable(t) /\ UniqueUrls(t)
  BY <1>1, TablesMerge DEF RegistryInv, TxTypes, Seen
<1>3. NextId \in Nat
  BY NextIdIsNew
<1>4. CASE x.op = "move"
  <2>1. PICK o \in CorrectionRecords : o = x.what
    BY <1>4, ConstantsAreTyped DEF SeedItem
  <2>2. list = SetToSeq(MoveCalls(t, o))
    BY <1>1, <1>4, <2>1 DEF CallsFor
  <2>3. PICK S : S = MoveCalls(t, o)
    OBVIOUS
  <2>4. /\ IsFiniteSet(S) /\ \A c \in S : Retires(c) \/ MovesTo(c, o)
        /\ \A id \in At(t, o.url) : t[id].status # "retired" => \E c \in S : c.id = id
    BY <1>2, <2>3, MoveCallsFit DEF Retires
  <2>5. list \in Seq(S) /\ \A c \in S : \E n \in DOMAIN list : list[n] = c
    BY <2>2, <2>3, <2>4, ListOfSet
  <2>6. \A n \in DOMAIN list : list[n] \in S
    BY <2>5
  <2>7. Moving(o, t, list)
    BY <2>4, <2>5, <2>6 DEF Moving, LiveRows
  <2> QED
    BY <1>1, <1>4, <2>1, <2>7 DEF Underway
<1>5. CASE x.op = "methods"
  <2>1. list = SetToSeq(MethodCalls(t))
    BY <1>1, <1>5 DEF CallsFor
  <2>2. PICK S : S = MethodCalls(t)
    OBVIOUS
  <2>3. /\ IsFiniteSet(S) /\ \A c \in S : GivesPlaywright(c)
        /\ \A id \in DOMAIN t : t[id].url \in PlaywrightUrls /\ t[id].method # "playwright" =>
              \E c \in S : c.id = id
    BY <1>2, <2>2, MethodCallsFit DEF GivesPlaywright
  <2>4. list \in Seq(S) /\ \A c \in S : \E n \in DOMAIN list : list[n] = c
    BY <2>1, <2>2, <2>3, ListOfSet
  <2>5. \A n \in DOMAIN list : list[n] \in S
    BY <2>4
  <2>6. GivingMethods(t, list)
    BY <2>3, <2>4, <2>5 DEF GivingMethods, LiveRows
  <2> QED
    BY <1>1, <1>5, <2>6 DEF Underway
<1>6. CASE x.op = "entry"
  <2>1. PICK e \in EntryRecords : e = x.what
    BY <1>6 DEF SeedItem
  <2>2. list = EntryCalls(t, e)
    BY <1>1, <1>6, <2>1 DEF CallsFor
  <2>3. again <=> WrongRole(t, e) # {}
    BY <1>1, <1>6, <2>1
  <2>4. CASE At(t, e.url) = {}
    <3>1. AddCalls(list, e) /\ ~again
      BY <1>2, <1>3, <2>2, <2>3, <2>4, EntryCallsFit DEF WrongRole
    <3>2. CreateSource(NextId, e.url, e.role, e.method).id = NextId
      BY DEF CreateSource, Call
    <3>3. AddingEntry(e, list)
      BY <3>1, <3>2 DEF AddCalls, AddingEntry, Adding
    <3> QED
      BY <1>1, <1>6, <2>1, <3>1, <3>3 DEF Underway
  <2>5. CASE At(t, e.url) # {} /\ WrongRole(t, e) # {}
    <3>1. PICK S : S = RoleCalls(t, e)
      OBVIOUS
    <3>2. list = SetToSeq(S)
      BY <1>2, <1>3, <2>2, <2>5, <3>1, EntryCallsFit
    <3>3. /\ IsFiniteSet(S) /\ \A c \in S : c.id \in At(t, e.url) /\ GivesRole(c, e)
          /\ \A id \in WrongRole(t, e) : \E c \in S : c.id = id
      BY <1>2, <3>1, RoleCallsFit DEF GivesRole
    <3>4. list \in Seq(S) /\ \A c \in S : \E n \in DOMAIN list : list[n] = c
      BY <3>2, <3>3, ListOfSet
    <3>5. \A n \in DOMAIN list : list[n] \in S
      BY <3>4
    <3>6. PICK id \in At(t, e.url) : id \in WrongRole(t, e)
      BY <2>5 DEF WrongRole
    <3>7. \A n \in DOMAIN list : list[n].id = id /\ GivesRole(list[n], e)
      BY <1>2, <3>3, <3>5, OneRowAtUrl
    <3>8. \E n \in DOMAIN list : GivesRole(list[n], e)
      BY <3>3, <3>4, <3>6
    <3>9. CorrectingEntry(e, t, list, again)
      BY <2>3, <2>5, <3>7, <3>8 DEF CorrectingEntry
    <3> QED
      BY <1>1, <1>6, <2>1, <3>9 DEF Underway
  <2>6. CASE At(t, e.url) # {} /\ WrongRole(t, e) = {}
    <3>1. PICK S : S = StatusCalls(t, e)
      OBVIOUS
    <3>2. list = SetToSeq(S)
      BY <1>2, <1>3, <2>2, <2>6, <3>1, EntryCallsFit
    <3>3. /\ IsFiniteSet(S) /\ \A c \in S : c.id \in At(t, e.url) /\ GivesStatus(c, e)
          /\ \A id \in At(t, e.url) :
                t[id].status # "retired" /\ (t[id].status = "approved") # AutoApproved(e) =>
                    \E c \in S : c.id = id
      BY <1>2, <3>1, StatusCallsFit DEF GivesStatus
    <3>4. list \in Seq(S) /\ \A c \in S : \E n \in DOMAIN list : list[n] = c
      BY <3>2, <3>3, ListOfSet
    <3>5. \A n \in DOMAIN list : list[n] \in S
      BY <3>4
    <3>6. PICK id \in At(t, e.url) : t[id].role = e.role
      BY <2>6 DEF WrongRole
    <3>7. \A n \in DOMAIN list : list[n].id = id /\ GivesStatus(list[n], e)
      BY <1>2, <3>3, <3>5, OneRowAtUrl
    <3>8. id \in LiveRows(t) => \/ (t[id].status = "approved") = AutoApproved(e)
                                \/ \E n \in DOMAIN list : GivesStatus(list[n], e)
      BY <3>3, <3>4 DEF LiveRows
    <3>9. CorrectingEntry(e, t, list, again)
      BY <3>6, <3>7, <3>8 DEF CorrectingEntry
    <3> QED
      BY <1>1, <1>6, <2>1, <2>3, <2>6, <3>9 DEF Underway
  <2> QED
    BY <2>4, <2>5, <2>6
<1> QED
  BY <1>4, <1>5, <1>6 DEF SeedItem

LEMMA StatusUnderway ==
    ASSUME NEW t, RowTable(t), UniqueUrls(t), NEW e \in EntryRecords,
           CorrectingEntry(e, t, <<>>, TRUE)
    PROVE  CorrectingEntry(e, t, SetToSeq(StatusCalls(t, e)), FALSE)
<1>1. PICK list, S : list = SetToSeq(S) /\ S = StatusCalls(t, e)
  OBVIOUS
<1>2. /\ IsFiniteSet(S) /\ \A c \in S : c.id \in At(t, e.url) /\ GivesStatus(c, e)
      /\ \A id \in At(t, e.url) :
            t[id].status # "retired" /\ (t[id].status = "approved") # AutoApproved(e) =>
                \E c \in S : c.id = id
  BY <1>1, StatusCallsFit DEF GivesStatus
<1>3. list \in Seq(S) /\ \A c \in S : \E n \in DOMAIN list : list[n] = c
  BY <1>1, <1>2, ListOfSet
<1>4. \A n \in DOMAIN list : list[n] \in S
  BY <1>3
<1>5. PICK id \in At(t, e.url) : id \in LiveRows(t) => t[id].role = e.role
  <2>1. DOMAIN <<>> = {}
    OBVIOUS
  <2> QED
    BY <2>1 DEF CorrectingEntry
<1>6. \A n \in DOMAIN list : list[n].id = id /\ GivesStatus(list[n], e)
  BY <1>2, <1>4, OneRowAtUrl
<1>7. id \in LiveRows(t) => \/ (t[id].status = "approved") = AutoApproved(e)
                            \/ \E n \in DOMAIN list : GivesStatus(list[n], e)
  BY <1>2, <1>3 DEF LiveRows
<1>8. CorrectingEntry(e, t, list, FALSE)
  BY <1>5, <1>6, <1>7 DEF CorrectingEntry
<1> QED
  BY <1>1, <1>8
-----------------------------------------------------------------------------
\* A seed run up to its item k: what is left, what is done, what is under way.
ItemsLeft(items, k, again) ==
    LET m == IF again THEN 1 ELSE 0
    IN  /\ Len(items) = SeedLength - k + m
        /\ again => items[1] = [op |-> "status", what |-> SeedItems[k].what]
        /\ \A n \in DOMAIN items : n > m => items[n] = SeedItems[k + n - m]

UpTo(k, again, list, t) ==
    /\ \A j \in 1..k - 1 : Done(SeedItems[j], t)
    /\ IF k = 0 THEN list = <<>> /\ ~again ELSE Underway(SeedItems[k], t, list, again)

GoesOn(items, list, checked, t) ==
    /\ checked => list # <<>> /\ ~Inserts(list[1]) /\ t[list[1].id].status \in list[1].from
    /\ \E k \in 0..SeedLength, again \in BOOLEAN :
          ItemsLeft(items, k, again) /\ UpTo(k, again, list, t)

SeedInv ==
    \A p \in Seeders \cap DOMAIN tx :
        tx[p].alone => GoesOn(tx[p].items, tx[p].calls, tx[p].checked, Seen(p))

LEMMA SeedItemsAreSeedItems ==
    /\ SeedLength \in Nat /\ SeedLength > 0
    /\ \A k \in 1..SeedLength : SeedItem(SeedItems[k]) /\ SeedItems[k] \in ItemRecords
<1>1. SeedLength \in Nat /\ SeedLength > 0 /\ DOMAIN SeedItems = 1..SeedLength
  BY SeedItemsInOrder DEF SeedLength
<1>2. ASSUME NEW k \in 1..SeedLength PROVE SeedItem(SeedItems[k]) /\ SeedItems[k] \in ItemRecords
  <2>1. SeedItems[k] \in ItemRecords
    BY <1>1, SeedItemsInOrder
  <2>2. CASE \E n \in DOMAIN Obsolete :
                  k = n /\ SeedItems[k] = [op |-> "move", what |-> Obsolete[n]]
    BY <2>1, <2>2 DEF SeedItem
  <2>3. CASE k = Len(Obsolete) + 1 /\ SeedItems[k] = [op |-> "methods"]
    BY <2>1, <2>3 DEF SeedItem
  <2>4. CASE \E n \in DOMAIN Catalog :
                  k = Len(Obsolete) + 1 + n /\ SeedItems[k] = [op |-> "entry", what |-> Catalog[n]]
    BY <2>1, <2>4, ConstantsAreTyped DEF SeedItem
  <2> QED
    BY <2>2, <2>3, <2>4, KindsOfItems
<1> QED
  BY <1>1, <1>2

LEMMA SeedBegins ==
    ASSUME NEW t
    PROVE  GoesOn(SeedItems, <<>>, FALSE, t)
<1>1. ItemsLeft(SeedItems, 0, FALSE)
  <2>1. DOMAIN SeedItems = 1..SeedLength /\ SeedLength \in Nat
    BY SeedItemsInOrder DEF SeedLength
  <2>2. \A n \in DOMAIN SeedItems : 0 + n - 0 = n
    BY <2>1
  <2> QED
    BY <2>1, <2>2 DEF ItemsLeft, SeedLength
<1>2. UpTo(0, FALSE, <<>>, t)
  BY DEF UpTo
<1>3. 0 \in 0..SeedLength /\ FALSE \in BOOLEAN
  BY SeedItemsAreSeedItems
<1>4. \E k \in 0..SeedLength, again \in BOOLEAN :
          ItemsLeft(SeedItems, k, again) /\ UpTo(k, again, <<>>, t)
  BY <1>1, <1>2, <1>3
<1> QED
  BY <1>4 DEF GoesOn

\* A step of another one.
LEMMA SeedStays ==
    ASSUME SeedInv, NEW p \in Seeders \cap DOMAIN tx,
           tx'[p].items = tx[p].items, tx'[p].calls = tx[p].calls, tx'[p].checked = tx[p].checked,
           tx'[p].alone => tx[p].alone /\ Seen(p)' = Seen(p), tx'[p].alone
    PROVE  GoesOn(tx'[p].items, tx'[p].calls, tx'[p].checked, Seen(p)')
BY DEF SeedInv

LEMMA SeedLooks ==
    ASSUME RegistryInv, NEW p \in Seeders \cap DOMAIN tx, Look(p),
           GoesOn(tx[p].items, tx[p].calls, tx[p].checked, Seen(p))
    PROVE  GoesOn(tx'[p].items, tx'[p].calls, tx'[p].checked, Seen(p)')
<1>1. PICK t : t = Seen(p)
  OBVIOUS
<1>2. RowTable(t) /\ UniqueUrls(t) /\ TxTypes(p)
  BY <1>1, TablesMerge DEF RegistryInv, TxTypes, Seen
<1>3. tx[p].calls = <<>> /\ tx[p].items # <<>>
  BY DEF Look
<1>4. PICK items : items = tx[p].items /\ items \in Seq(ItemRecords) /\ items # <<>>
  BY <1>2, <1>3 DEF TxTypes
<1>5. PICK item : item = Head(items) /\ item = items[1] /\ item \in ItemRecords
  BY <1>4
<1>6. PICK list \in CallsFor(p, item) :
         tx' = [tx EXCEPT ![p].items = ItemsAfter(p, item) \o Tail(@), ![p].calls = list]
  BY <1>4, <1>5 DEF Look
<1>7. /\ tx'[p].items = ItemsAfter(p, item) \o Tail(items) /\ tx'[p].calls = list
      /\ tx'[p].checked = tx[p].checked /\ tx'[p].own = tx[p].own /\ rows' = rows
  <2>1. tx' = [tx EXCEPT ![p] = [@ EXCEPT !.items = ItemsAfter(p, item) \o Tail(items), !.calls = list]]
    BY <1>4, <1>6
  <2> QED
    BY <1>2, <2>1 DEF TxTypes, Look
<1>8. Seen(p)' = t
  BY <1>1, <1>7 DEF Seen
<1>9. PICK k \in 0..SeedLength, again \in BOOLEAN :
          ItemsLeft(items, k, again) /\ UpTo(k, again, <<>>, t)
  BY <1>1, <1>3, <1>4 DEF GoesOn
<1>10. ~tx[p].checked
  BY <1>3 DEF GoesOn
<1>11. PICK rest, l : /\ l \in Nat /\ rest = Tail(items) /\ rest \in Seq(ItemRecords)
                      /\ Len(items) = l + 1 /\ Len(rest) = l
                      /\ DOMAIN items = 1..l + 1 /\ DOMAIN rest = 1..l
                      /\ \A n \in 1..l : rest[n] = items[n + 1] /\ n + 1 \in DOMAIN items
  <2>1. PICK j \in Nat : j = Len(items) /\ j > 0 /\ DOMAIN items = 1..j
    BY <1>4
  <2>2. PICK l \in Nat : j = l + 1
    <3>1. j - 1 \in Nat /\ j = (j - 1) + 1
      BY <2>1
    <3> QED
      BY <3>1
  <2>3. PICK rest : rest = Tail(items)
    OBVIOUS
  <2>4. rest \in Seq(ItemRecords) /\ Len(rest) = l /\ \A n \in 1..l : rest[n] = items[n + 1]
    BY <1>4, <2>1, <2>2, <2>3
  <2>5. DOMAIN rest = 1..l
    BY <2>4
  <2>6. \A n \in 1..l : n + 1 \in 1..l + 1
    BY <2>2
  <2> QED
    BY <2>1, <2>2, <2>3, <2>4, <2>5, <2>6
<1>12. SeedLength \in Nat
  BY SeedItemsAreSeedItems
<1>13. CASE again
  <2>1. k # 0 /\ k \in 1..SeedLength /\ Underway(SeedItems[k], t, <<>>, again)
    <3>1. k # 0
      BY <1>9, <1>13 DEF UpTo
    <3>2. Underway(SeedItems[k], t, <<>>, again)
      BY <1>9, <3>1 DEF UpTo
    <3>3. k \in 1..SeedLength
      BY <1>12, <3>1
    <3> QED
      BY <3>1, <3>2, <3>3
  <2>2. SeedItem(SeedItems[k])
    BY <2>1, SeedItemsAreSeedItems
  <2>3. SeedItems[k].op = "entry"
    <3>1. SeedItems[k].op = "move" => ~again
      BY <2>1 DEF Underway
    <3>2. SeedItems[k].op = "methods" => ~again
      BY <2>1 DEF Underway
    <3> QED
      BY <1>13, <2>2, <3>1, <3>2 DEF SeedItem
  <2>4. PICK e \in EntryRecords : e = SeedItems[k].what
    BY <2>2, <2>3 DEF SeedItem
  <2>5. CorrectingEntry(e, t, <<>>, TRUE)
    <3>1. CorrectingEntry(e, t, <<>>, again)
      BY <1>13, <2>1, <2>3, <2>4 DEF Underway, AddingEntry
    <3> QED
      BY <3>1 DEF CorrectingEntry
  <2>6. item = [op |-> "status", what |-> e]
    BY <1>5, <1>9, <1>13, <2>4 DEF ItemsLeft
  <2>7. list = SetToSeq(StatusCalls(t, e))
    BY <1>1, <1>6, <2>6 DEF CallsFor
  <2>8. Underway(SeedItems[k], t, list, FALSE)
    BY <1>2, <2>3, <2>4, <2>5, <2>7, StatusUnderway DEF Underway
  <2>9. ItemsLeft(rest, k, FALSE)
    <3>1. l = SeedLength - k
      BY <1>9, <1>11, <1>12, <1>13 DEF ItemsLeft
    <3>2. ASSUME NEW n \in 1..l PROVE rest[n] = SeedItems[k + n - 0]
      <4>1. n + 1 \in DOMAIN items /\ n + 1 > 1 /\ k + (n + 1) - 1 = k + n - 0
        BY <1>11
      <4> QED
        BY <1>9, <1>11, <1>13, <4>1 DEF ItemsLeft
    <3> QED
      BY <1>11, <3>1, <3>2 DEF ItemsLeft
  <2>10. tx'[p].items = rest
    <3>1. ItemsAfter(p, item) = <<>>
      BY <2>6 DEF ItemsAfter
    <3> QED
      BY <1>7, <1>11, <3>1
  <2>11. UpTo(k, FALSE, list, t)
    BY <1>9, <2>1, <2>8 DEF UpTo
  <2> QED
    BY <1>7, <1>8, <1>9, <1>10, <2>9, <2>10, <2>11 DEF GoesOn
<1>14. CASE ~again
  <2>1. l + 1 = SeedLength - k /\ \A n \in DOMAIN items : items[n] = SeedItems[k + n - 0]
    BY <1>9, <1>11, <1>12, <1>14 DEF ItemsLeft
  <2>2. k + 1 \in 1..SeedLength /\ item = SeedItems[k + 1]
    <3>1. k + 1 \in 1..SeedLength /\ 1 \in DOMAIN items /\ k + 1 - 0 = k + 1
      BY <1>11, <1>12, <2>1
    <3> QED
      BY <1>5, <2>1, <3>1
  <2>3. SeedItem(item)
    BY <2>2, SeedItemsAreSeedItems
  <2>4. PICK more \in BOOLEAN : more <=> item.op = "entry" /\ WrongRole(t, item.what) # {}
    OBVIOUS
  <2>5. Underway(item, t, list, more)
    BY <1>1, <1>5, <1>6, <2>3, <2>4, ItemUnderway
  <2>6. \A j \in 1..k : Done(SeedItems[j], t)
    <3>1. ASSUME k # 0 PROVE Done(SeedItems[k], t)
      <4>1. SeedItem(SeedItems[k])
        BY <1>12, <3>1, SeedItemsAreSeedItems
      <4>2. Underway(SeedItems[k], t, <<>>, FALSE)
        BY <1>9, <1>14, <3>1 DEF UpTo
      <4> QED
        BY <4>1, <4>2, UnderwayDone
    <3>2. \A j \in 1..k - 1 : Done(SeedItems[j], t)
      BY <1>9 DEF UpTo
    <3> QED
      BY <1>12, <3>1, <3>2
  <2>7. UpTo(k + 1, more, list, t)
    <3>1. k + 1 # 0 /\ k + 1 - 1 = k
      BY <1>12
    <3> QED
      BY <2>2, <2>5, <2>6, <3>1 DEF UpTo
  <2>8. ItemsLeft(tx'[p].items, k + 1, more)
    <3>1. CASE ~more
      <4>1. tx'[p].items = rest
        <5>1. ItemsAfter(p, item) = <<>>
          BY <1>1, <2>4, <3>1 DEF ItemsAfter
        <5> QED
          BY <1>7, <1>11, <5>1
      <4>2. l = SeedLength - (k + 1) + 0
        BY <1>11, <1>12, <2>1
      <4>3. ASSUME NEW n \in 1..l PROVE rest[n] = SeedItems[k + 1 + n - 0]
        <5>1. n + 1 \in DOMAIN items /\ k + (n + 1) - 0 = k + 1 + n - 0
          BY <1>11
        <5> QED
          BY <1>11, <2>1, <5>1
      <4> QED
        BY <1>11, <3>1, <4>1, <4>2, <4>3 DEF ItemsLeft
    <3>2. CASE more
      <4>1. PICK s : s = [op |-> "status", what |-> item.what]
        OBVIOUS
      <4>2. s \in ItemRecords
        BY <1>5, <2>4, <3>2, <4>1 DEF ItemRecords, MoveItems, MethodsItem, EntryItems
      <4>3. PICK first : first = <<s>>
        OBVIOUS
      <4>4. first \in Seq(ItemRecords) /\ Len(first) = 1 /\ first[1] = s
        BY <4>2, <4>3
      <4>5. tx'[p].items = first \o rest
        BY <1>1, <1>7, <1>11, <2>4, <3>2, <4>1, <4>3 DEF ItemsAfter
      <4>6. /\ first \o rest \in Seq(ItemRecords) /\ Len(first \o rest) = 1 + l
            /\ (first \o rest)[1] = s
            /\ \A n \in 1..l : (first \o rest)[1 + n] = rest[n]
        <5>1. /\ first \o rest \in Seq(ItemRecords) /\ Len(first \o rest) = Len(first) + Len(rest)
              /\ \A n \in 1..Len(first) : (first \o rest)[n] = first[n]
              /\ \A n \in 1..Len(rest) : (first \o rest)[Len(first) + n] = rest[n]
          <6>1. first \in Seq(ItemRecords) /\ rest \in Seq(ItemRecords)
            BY <1>11, <4>4
          <6> QED
            BY <6>1, Concatenation
        <5> QED
          BY <1>11, <4>4, <5>1
      <4>7. 1 + l = SeedLength - (k + 1) + 1
        BY <1>11, <1>12, <2>1
      <4>8. ASSUME NEW n \in 1..1 + l, n > 1
            PROVE  (first \o rest)[n] = SeedItems[k + 1 + n - 1]
        <5>1. n - 1 \in 1..l /\ 1 + (n - 1) = n
          BY <1>11, <4>8
        <5>2. (first \o rest)[n] = rest[n - 1]
          BY <4>6, <5>1
        <5>3. rest[n - 1] = items[n] /\ n \in DOMAIN items
          BY <1>11, <5>1
        <5>4. k + n - 0 = k + 1 + n - 1
          BY <1>12
        <5> QED
          BY <2>1, <5>2, <5>3, <5>4
      <4>9. DOMAIN (first \o rest) = 1..1 + l
        BY <1>11, <4>6
      <4> QED
        BY <2>2, <3>2, <4>1, <4>5, <4>6, <4>7, <4>8, <4>9 DEF ItemsLeft
    <3> QED
      BY <3>1, <3>2
  <2>9. k + 1 \in 0..SeedLength
    BY <1>12, <2>2
  <2> QED
    BY <1>7, <1>8, <1>10, <2>7, <2>8, <2>9 DEF GoesOn
<1> QED
  BY <1>13, <1>14

LEMMA SeedChecks ==
    ASSUME RegistryInv, NEW p \in Seeders \cap DOMAIN tx, Check(p),
           GoesOn(tx[p].items, tx[p].calls, tx[p].checked, Seen(p))
    PROVE  GoesOn(tx'[p].items, tx'[p].calls, tx'[p].checked, Seen(p)')
<1>1. PICK t, list : t = Seen(p) /\ list = tx[p].calls
  OBVIOUS
<1>2. /\ TxTypes(p) /\ list \in Seq(CallRecords) /\ list # <<>> /\ 1 \in DOMAIN list
      /\ Current(p) = list[1] /\ ~Inserts(list[1]) /\ ~tx[p].checked /\ StatusSeen(p) = t[list[1].id].status
  BY <1>1 DEF Check, Calls, Current, StatusSeen, RegistryInv, TxTypes
<1>3. PICK k \in 0..SeedLength, again \in BOOLEAN :
          ItemsLeft(tx[p].items, k, again) /\ UpTo(k, again, list, t)
  BY <1>1 DEF GoesOn
<1>4. CASE t[list[1].id].status \in list[1].from /\ tx' = [tx EXCEPT ![p].checked = TRUE]
  <2>1. /\ tx'[p].items = tx[p].items /\ tx'[p].calls = list /\ tx'[p].own = tx[p].own
        /\ rows' = rows
    BY <1>1, <1>2, <1>4 DEF Check, TxTypes
  <2>2. Seen(p)' = t
    BY <1>1, <2>1 DEF Seen
  <2> QED
    BY <1>2, <1>3, <1>4, <2>1, <2>2 DEF GoesOn
<1>5. CASE t[list[1].id].status \in list[1].idle /\ tx' = [tx EXCEPT ![p].calls = Tail(@)]
  <2>1. /\ tx'[p].items = tx[p].items /\ tx'[p].calls = Tail(list) /\ tx'[p].own = tx[p].own
        /\ tx'[p].checked = tx[p].checked /\ rows' = rows
    BY <1>1, <1>2, <1>5 DEF Check, TxTypes
  <2>2. Seen(p)' = t
    BY <1>1, <2>1 DEF Seen
  <2>3. k # 0 /\ k \in 1..SeedLength /\ Underway(SeedItems[k], t, list, again)
    BY <1>2, <1>3, SeedItemsAreSeedItems DEF UpTo
  <2>4. SeedItem(SeedItems[k])
    BY <2>3, SeedItemsAreSeedItems
  <2>5. Underway(SeedItems[k], t, Tail(list), again)
    BY <1>2, <1>5, <2>3, <2>4, TailIsRest, UnderwayIdle
  <2>6. UpTo(k, again, Tail(list), t)
    BY <1>3, <2>3, <2>5 DEF UpTo
  <2> QED
    BY <1>2, <1>3, <2>1, <2>2, <2>6 DEF GoesOn
<1> QED
  BY <1>2, <1>4, <1>5 DEF Check

LEMMA SeedWrites ==
    ASSUME RegistryInv, NEW p \in Seeders \cap DOMAIN tx, Write(p), RegistryInv',
           GoesOn(tx[p].items, tx[p].calls, tx[p].checked, Seen(p))
    PROVE  GoesOn(tx'[p].items, tx'[p].calls, tx'[p].checked, Seen(p)')
<1>1. PICK t, u, c, list : t = Seen(p) /\ u = Seen(p)' /\ c = Current(p) /\ list = tx[p].calls
  OBVIOUS
<1>2. /\ c \in CallRecords /\ c = list[1] /\ list # <<>>
      /\ DOMAIN tx' = DOMAIN tx
      /\ DOMAIN u = DOMAIN t \cup {c.id}
      /\ \A i \in DOMAIN t : i # c.id => u[i] = t[i]
      /\ Inserts(c) => c.id \notin DOMAIN t /\ u[c.id] = c.set
      /\ ~Inserts(c) => c.id \in DOMAIN t /\ u[c.id] = Over(c.set, t[c.id])
      /\ tx'[p] = [items |-> tx[p].items, calls |-> Tail(list), checked |-> FALSE,
                   own |-> tx'[p].own, alone |-> tx[p].alone]
  BY <1>1, WriteChanges
<1>3. /\ tx'[p].items = tx[p].items /\ tx'[p].calls = Tail(list) /\ tx'[p].checked = FALSE
  BY <1>2
<1>4. list \in Seq(CallRecords) /\ RowTable(t)
  BY <1>1, TablesMerge DEF RegistryInv, TxTypes, Seen
<1>5. RowTable(u) /\ UniqueUrls(u)
  <2>1. (RowTable(rows) /\ TxTypes(p) /\ UniqueUrls(Seen(p)))'
    BY <1>2 DEF RegistryInv
  <2>2. RowTable(rows') /\ RowTable(tx'[p].own) /\ UniqueUrls(u)
    BY <1>1, <2>1 DEF TxTypes, RowTable, UniqueUrls
  <2>3. u = Over(tx'[p].own, rows')
    BY <1>1 DEF Seen
  <2> QED
    BY <2>2, <2>3, TablesMerge
<1>6. ~Inserts(c) => t[c.id].status \in c.from
  BY <1>1, <1>2 DEF Write, Ready, GoesOn
<1>7. Written(t, c, u)
  BY <1>2, <1>4, <1>5, <1>6 DEF Written
<1>8. PICK k \in 0..SeedLength, again \in BOOLEAN :
          ItemsLeft(tx[p].items, k, again) /\ UpTo(k, again, list, t)
  BY <1>1 DEF GoesOn
<1>9. k # 0 /\ k \in 1..SeedLength /\ Underway(SeedItems[k], t, list, again)
  BY <1>2, <1>8, SeedItemsAreSeedItems DEF UpTo
<1>10. SeedItem(SeedItems[k])
  BY <1>9, SeedItemsAreSeedItems
<1>11. Serves(c, SeedItems[k], t)
  BY <1>2, <1>4, <1>9, <1>10, UnderwayServes
<1>12. Underway(SeedItems[k], u, Tail(list), again)
  BY <1>2, <1>4, <1>7, <1>9, <1>10, TailIsRest, UnderwayWrite
<1>13. \A j \in 1..k - 1 : Done(SeedItems[j], u)
  BY <1>7, <1>8, <1>9, <1>11, DoneStays DEF UpTo
<1>14. UpTo(k, again, Tail(list), u)
  BY <1>9, <1>12, <1>13 DEF UpTo
<1> QED
  BY <1>1, <1>3, <1>8, <1>14 DEF GoesOn

LEMMA SeedInitInv == RegistryInit => SeedInv
BY DEF RegistryInit, Empty, SeedInv

\* What one process does leaves the seed runs of the others as they are.
LEMMA OthersGoOn ==
    ASSUME RegistryInv, SeedInv, NEW q,
           rows' = rows, DOMAIN tx' \subseteq DOMAIN tx \cup {q},
           \A p \in DOMAIN tx' \ {q} : tx'[p] = tx[p],
           NEW p \in Seeders \cap DOMAIN tx', p # q, tx'[p].alone
    PROVE  GoesOn(tx'[p].items, tx'[p].calls, tx'[p].checked, Seen(p)')
<1>1. p \in Seeders \cap DOMAIN tx /\ tx'[p] = tx[p]
  OBVIOUS
<1>2. Seen(p)' = Seen(p)
  BY <1>1 DEF Seen
<1> QED
  BY <1>1, <1>2, SeedStays

LEMMA SeedNextInv == RegistryInv /\ RegistryInv' /\ SeedInv /\ [RegistryNext]_registryVars => SeedInv'
<1> SUFFICES ASSUME RegistryInv, RegistryInv', SeedInv, [RegistryNext]_registryVars,
                    NEW p \in Seeders \cap DOMAIN tx', tx'[p].alone
             PROVE  GoesOn(tx'[p].items, tx'[p].calls, tx'[p].checked, Seen(p)')
  BY DEF SeedInv
<1>1. CASE UNCHANGED registryVars
  BY <1>1, OthersGoOn, SeedStays DEF registryVars, Seen
<1>2. ASSUME NEW q, NEW items, NEW first, Begin(q, items, first), q = p => items = SeedItems /\ first = <<>>
      PROVE  GoesOn(tx'[p].items, tx'[p].calls, tx'[p].checked, Seen(p)')
  <2>1. PICK v : v = [items |-> items, calls |-> first, checked |-> FALSE, own |-> Empty, alone |-> TRUE]
    OBVIOUS
  <2>2. /\ rows' = rows /\ DOMAIN tx' = DOMAIN tx \cup {q} /\ tx'[q] = v /\ q \notin DOMAIN tx
        /\ \A r \in DOMAIN tx : tx'[r] = tx[r]
    BY <1>2, <2>1 DEF Begin, With, Over
  <2>3. CASE p = q
    <3>1. tx'[p].items = SeedItems /\ tx'[p].calls = <<>> /\ tx'[p].checked = FALSE
      BY <1>2, <2>1, <2>2, <2>3
    <3> QED
      BY <3>1, SeedBegins
  <2>4. CASE p # q
    BY <2>2, <2>4, OthersGoOn
  <2> QED
    BY <2>3, <2>4
<1>3. ASSUME NEW q \in Operators, Operate(q)
      PROVE  GoesOn(tx'[p].items, tx'[p].calls, tx'[p].checked, Seen(p)')
  <2>1. q # p /\ \E first : Begin(q, <<>>, first)
    BY <1>3, SourceRegistryAssumption DEF Operate
  <2> QED
    BY <1>2, <2>1
<1>4. ASSUME NEW q \in Seeders, ApplySeedCatalog(q)
      PROVE  GoesOn(tx'[p].items, tx'[p].calls, tx'[p].checked, Seen(p)')
  BY <1>2, <1>4 DEF ApplySeedCatalog
<1>5. ASSUME NEW q \in Monitors, RunHealthMonitor(q)
      PROVE  GoesOn(tx'[p].items, tx'[p].calls, tx'[p].checked, Seen(p)')
  <2>1. q # p /\ \E items : Begin(q, items, <<>>)
    BY <1>5, SourceRegistryAssumption DEF RunHealthMonitor
  <2> QED
    BY <1>2, <2>1
<1>6. ASSUME NEW q \in Processes, Look(q) \/ Check(q) \/ Write(q)
      PROVE  GoesOn(tx'[p].items, tx'[p].calls, tx'[p].checked, Seen(p)')
  <2>1. q \in DOMAIN tx /\ TxTypes(q)
    BY <1>6 DEF Look, Check, Write, Ready, Calls, RegistryInv
  <2>2. rows' = rows /\ DOMAIN tx' = DOMAIN tx /\ \A r \in DOMAIN tx \ {q} : tx'[r] = tx[r]
    BY <1>6 DEF Look, Check, Write
  <2>3. CASE p # q
    BY <2>2, <2>3, OthersGoOn
  <2>4. CASE p = q
    <3>1. p \in Seeders \cap DOMAIN tx /\ tx[p].alone = tx'[p].alone
      <4>1. p \in Seeders \cap DOMAIN tx
        BY <2>1, <2>4
      <4>2. Look(p) => tx'[p].alone = tx[p].alone
        <5>1. ASSUME Look(p)
              PROVE  \E items, list : tx' = [tx EXCEPT ![p] = [@ EXCEPT !.items = items, !.calls = list]]
          BY <5>1 DEF Look
        <5> QED
          BY <2>1, <2>4, <5>1 DEF TxTypes
      <4>3. Check(p) => tx'[p].alone = tx[p].alone
        BY <2>1, <2>4 DEF Check, TxTypes
      <4>4. Write(p) => tx'[p].alone = tx[p].alone
        <5>1. ASSUME Write(p)
              PROVE  \E own, list :
                        tx' = [tx EXCEPT ![p] = [@ EXCEPT !.own = own, !.calls = list, !.checked = FALSE]]
          <6>1. \E id, row : tx' = [tx EXCEPT ![p].own = With(@, id, row), ![p].calls = Tail(@),
                                             ![p].checked = FALSE]
            BY <5>1 DEF Write
          <6>2. PICK id, row : tx' = [tx EXCEPT ![p].own = With(@, id, row), ![p].calls = Tail(@),
                                                ![p].checked = FALSE]
            BY <6>1
          <6>3. tx' = [tx EXCEPT ![p] = [@ EXCEPT !.own = With(tx[p].own, id, row),
                                                  !.calls = Tail(tx[p].calls), !.checked = FALSE]]
            BY <6>2
          <6> QED
            BY <6>3
        <5> QED
          BY <2>1, <2>4, <5>1 DEF TxTypes
      <4> QED
        BY <1>6, <2>4, <4>1, <4>2, <4>3, <4>4
    <3>2. GoesOn(tx[p].items, tx[p].calls, tx[p].checked, Seen(p))
      BY <3>1 DEF SeedInv
    <3> QED
      BY <1>6, <2>4, <3>1, <3>2, SeedLooks, SeedChecks, SeedWrites
  <2> QED
    BY <2>3, <2>4
<1>7. ASSUME NEW q, RollBack(q)
      PROVE  GoesOn(tx'[p].items, tx'[p].calls, tx'[p].checked, Seen(p)')
  <2>1. rows' = rows /\ DOMAIN tx' = DOMAIN tx \ {q} /\ \A r \in DOMAIN tx' : tx'[r] = tx[r]
    BY <1>7 DEF RollBack, Without
  <2> QED
    BY <2>1, OthersGoOn
<1>8. ASSUME NEW q, Commit(q)
      PROVE  GoesOn(tx'[p].items, tx'[p].calls, tx'[p].checked, Seen(p)')
  <2>1. /\ q \in DOMAIN tx /\ rows' = Over(tx[q].own, rows) /\ DOMAIN tx' = DOMAIN tx \ {q}
        /\ tx'[p] = [tx[p] EXCEPT !.alone = @ /\ DOMAIN tx[q].own = {}]
        /\ p \in Seeders \cap DOMAIN tx /\ TxTypes(p)
    BY <1>8 DEF Commit, Others, RegistryInv
  <2>2. /\ tx'[p].items = tx[p].items /\ tx'[p].calls = tx[p].calls /\ tx'[p].checked = tx[p].checked
        /\ tx'[p].own = tx[p].own /\ tx[p].alone /\ DOMAIN tx[q].own = {}
    BY <2>1 DEF TxTypes
  <2>3. rows' = rows
    BY <2>1, <2>2 DEF Over, RegistryInv, RowTable
  <2>4. Seen(p)' = Seen(p)
    BY <2>2, <2>3 DEF Seen
  <2> QED
    BY <2>1, <2>2, <2>4, SeedStays
<1>9. ASSUME NEW q \in Processes, Raises(q) \/ DeadlockBroken(q) \/ Dies(q)
      PROVE  GoesOn(tx'[p].items, tx'[p].calls, tx'[p].checked, Seen(p)')
  BY <1>7, <1>9 DEF Raises, DeadlockBroken, Dies
<1> QED
  BY <1>1, <1>3, <1>4, <1>5, <1>6, <1>8, <1>9 DEF RegistryNext, Step

LEMMA AllDoneIsSettled ==
    ASSUME NEW t, \A j \in 1..SeedLength : Done(SeedItems[j], t)
    PROVE  Settled(t)
<1>1. PICK a, b \in Nat : /\ a = Len(Obsolete) /\ b = Len(Catalog)
                          /\ DOMAIN Obsolete = 1..a /\ DOMAIN Catalog = 1..b
                          /\ SeedLength = a + 1 + b
  <2>1. PICK a, b \in Nat : a = Len(Obsolete) /\ b = Len(Catalog)
    BY SeedItemsInOrder
  <2>2. DOMAIN Obsolete = 1..a /\ DOMAIN Catalog = 1..b
    BY <2>1, SourceRegistryAssumption
  <2>3. SeedLength = a + 1 + b
    BY <2>1, SeedItemsInOrder DEF SeedLength
  <2> QED
    BY <2>1, <2>2, <2>3
<1>2. ASSUME NEW n \in 1..b
      PROVE  LET e == Catalog[n]
             IN  \E id \in At(t, e.url) : id \in LiveRows(t) =>
                    t[id].role = e.role /\ (t[id].status = "approved") = AutoApproved(e)
  <2>1. a + 1 + n \in 1..SeedLength
    BY <1>1
  <2>2. SeedItems[a + 1 + n] = [op |-> "entry", what |-> Catalog[n]]
    BY <1>1, SeedItemsInOrder
  <2>3. PICK x : x = SeedItems[a + 1 + n]
    OBVIOUS
  <2>4. x.op = "entry" /\ x.what = Catalog[n] /\ Done(x, t)
    BY <2>1, <2>2, <2>3
  <2> QED
    BY <2>4 DEF Done
<1>3. ASSUME NEW n \in 1..a PROVE At(t, Obsolete[n].url) \cap LiveRows(t) = {}
  <2>1. n \in 1..SeedLength
    BY <1>1
  <2>2. SeedItems[n] = [op |-> "move", what |-> Obsolete[n]]
    BY <1>1, SeedItemsInOrder
  <2>3. PICK x : x = SeedItems[n]
    OBVIOUS
  <2>4. x.op = "move" /\ x.what = Obsolete[n] /\ Done(x, t)
    BY <2>1, <2>2, <2>3
  <2> QED
    BY <2>4 DEF Done
<1>4. \A id \in LiveRows(t) : t[id].url \in PlaywrightUrls => t[id].method = "playwright"
  <2>1. a + 1 \in 1..SeedLength
    BY <1>1
  <2>2. PICK x : x = SeedItems[a + 1]
    OBVIOUS
  <2>3. x.op = "methods" /\ Done(x, t)
    BY <1>1, <2>1, <2>2, SeedItemsInOrder
  <2> QED
    BY <2>3 DEF Done
<1> QED
  BY <1>1, <1>2, <1>3, <1>4 DEF Settled

LEMMA LastCommitSettles ==
    ASSUME RegistryInv, SeedInv, NEW p \in Seeders, Commit(p), tx[p].alone
    PROVE  Settled(rows')
<1>1. /\ p \in Seeders \cap DOMAIN tx /\ tx[p].calls = <<>> /\ tx[p].items = <<>>
      /\ rows' = Seen(p)
  BY DEF Commit, Seen
<1>2. GoesOn(<<>>, <<>>, tx[p].checked, Seen(p))
  BY <1>1 DEF SeedInv
<1>3. PICK k \in 0..SeedLength, again \in BOOLEAN :
          ItemsLeft(<<>>, k, again) /\ UpTo(k, again, <<>>, Seen(p))
  BY <1>2 DEF GoesOn
<1>4. SeedLength \in Nat /\ SeedLength > 0
  BY SeedItemsAreSeedItems
<1>5. k = SeedLength /\ ~again
  <2>1. Len(<<>>) = 0
    OBVIOUS
  <2> QED
    BY <1>3, <1>4, <2>1 DEF ItemsLeft
<1>6. \A j \in 1..k - 1 : Done(SeedItems[j], Seen(p))
  BY <1>3 DEF UpTo
<1>7. Done(SeedItems[k], Seen(p))
  <2>1. again = FALSE
    BY <1>5
  <2>2. UpTo(k, FALSE, <<>>, Seen(p))
    BY <1>3, <2>1
  <2>3. Underway(SeedItems[k], Seen(p), <<>>, FALSE)
    <3>1. k # 0
      BY <1>4, <1>5
    <3> QED
      BY <2>2, <3>1 DEF UpTo
  <2>4. SeedItem(SeedItems[k])
    BY <1>4, <1>5, SeedItemsAreSeedItems
  <2> QED
    BY <2>3, <2>4, UnderwayDone
<1>8. \A j \in 1..SeedLength : Done(SeedItems[j], Seen(p))
  BY <1>4, <1>5, <1>6, <1>7
<1> QED
  BY <1>1, <1>8, AllDoneIsSettled

\* A seed run that nobody disturbed leaves every entry of the catalog with its
\* role and the status its role asks for, nothing live at an obsolete url, and
\* Playwright where it is needed, whatever the registry held before.
THEOREM SeedRunsSettle == RegistrySpec => SeedSettles
<1>1. RegistryInit => RegistryInv /\ SeedInv
  BY RegistryInitInv, SeedInitInv
<1>2. RegistryInv /\ SeedInv /\ [RegistryNext]_registryVars => (RegistryInv /\ SeedInv)'
  <2>1. RegistryInv /\ [RegistryNext]_registryVars => RegistryInv'
    BY RegistryNextInv
  <2>2. RegistryInv /\ RegistryInv' /\ SeedInv /\ [RegistryNext]_registryVars => SeedInv'
    BY SeedNextInv
  <2> QED
    BY <2>1, <2>2
<1>3. RegistryInv /\ SeedInv /\ [RegistryNext]_registryVars =>
         [\A p \in Seeders : Commit(p) /\ tx[p].alone => Settled(rows')]_registryVars
  BY LastCommitSettles
<1> QED
  BY <1>1, <1>2, <1>3, PTL DEF RegistrySpec, SeedSettles
=============================================================================
