----------------------------- MODULE ReviewDesk -----------------------------
(***************************************************************************)
(* The publication gate: review_decisions (engine/src/naijaledger/review)  *)
(* and the public stories its approvals write (.../stories).  Each call is *)
(* one transaction.  reviews and stories are the committed rows; desk and  *)
(* failing are the open transactions.  Postgres' now() is the START of a   *)
(* transaction: decided_at orders decisions by when they began.            *)
(***************************************************************************)
EXTENDS Integers, FiniteSets

CONSTANTS
    Subjects,     \* stories (subject_id of reviews with subject_type 'story')
    Narratives,   \* versions of the text an author can submit
    Slug,         \* slug of each narrative
    NoNarrative,  \* a review of an agent's draft: no meta.narrative
    Reviewers,    \* callers of decide_review
    Verifiers,    \* callers of enqueue_story_for_review
    Decisions,    \* decisions the callers of decide_review ask for
    MaxReviews,   \* bound on the rows of review_decisions
    MaxTime       \* bound on the clock

ASSUME ReviewDeskAssumption ==
    /\ DOMAIN Slug = Narratives
    /\ NoNarrative \notin Narratives
    /\ Decisions \subseteq {"approve_publish", "reject", "needs_more_evidence"}
    /\ MaxReviews \in Nat /\ MaxTime \in Nat

VARIABLES
    reviews,   \* id -> committed row; ids are in the order of creation
    stories,   \* subject -> public row
    desk,      \* reviewer -> open transaction of decide_review
    failing    \* verifier -> open transaction recording a failed verification

vars == <<reviews, stories, desk, failing>>

Kinds == {"human", "system", "agent"}
Rows == [subject : Subjects, narrative : Narratives \cup {NoNarrative},
         decision : {"pending", "approve_publish", "reject",
                     "needs_more_evidence"},
         reviewer : Kinds \cup {"none"}, at : Nat]

Put(f, x, v) == [y \in DOMAIN f \cup {x} |-> IF y = x THEN v ELSE f[y]]
Drop(f, x) == [y \in DOMAIN f \ {x} |-> f[y]]

Pending(id) == id \in DOMAIN reviews /\ reviews[id].decision = "pending"

\* Fault: the pending review of the subject is not looked for.
PendingNotSought(s) == {}

PendingOf(s) == {id \in DOMAIN reviews : Pending(id) /\ reviews[id].subject = s}
NewId == Cardinality(DOMAIN reviews) + 1

\* now(): later than the start of every transaction so far.
Times == {0} \cup {reviews[id].at : id \in DOMAIN reviews}
             \cup {desk[v].at : v \in DOMAIN desk}
             \cup {failing[p].at : p \in DOMAIN failing}
Now(t) == t - 1 \in Times /\ \A u \in Times : u < t

Init ==
    /\ reviews = [id \in {} |-> id]
    /\ stories = [s \in {} |-> s]
    /\ desk = [v \in {} |-> v]
    /\ failing = [p \in {} |-> p]

NewReview(s, n) ==
    [subject |-> s, narrative |-> n, decision |-> "pending",
     reviewer |-> "none", at |-> 0]

\* A pending row of the subject is returned as it is, the new text dropped;
\* that changes nothing, so only the insert is an action.
EnqueueReview(s, n) ==
    /\ NewId <= MaxReviews
    /\ PendingOf(s) = {}
    /\ reviews' = Put(reviews, NewId, NewReview(s, n))
    /\ UNCHANGED <<stories, desk, failing>>

(***************************************************************************)
(* A verification that failed is recorded as decided, unless the subject   *)
(* has such a record.  Two of them may both find none.                     *)
(***************************************************************************)
VerificationFails(p, s) ==
    /\ p \notin DOMAIN failing
    /\ \A id \in DOMAIN reviews :
          ~(reviews[id].subject = s /\ reviews[id].decision = "needs_more_evidence")
    /\ \E t \in 1..MaxTime :
          Now(t) /\ failing' = Put(failing, p, [subject |-> s, at |-> t])
    /\ UNCHANGED <<reviews, stories, desk>>

RecordFailure(p) ==
    /\ p \in DOMAIN failing
    /\ NewId <= MaxReviews
    /\ reviews' = Put(reviews, NewId,
                      [subject |-> failing[p].subject, narrative |-> NoNarrative,
                       decision |-> "needs_more_evidence",
                       reviewer |-> "system", at |-> failing[p].at])
    /\ failing' = Drop(failing, p)
    /\ UNCHANGED <<stories, desk>>

(***************************************************************************)
(* decide_review.                                                          *)
(***************************************************************************)
\* Fault: approvals are checked like the other decisions.
MayDecideLikeOthers(decision, kind) == kind # "agent"

MayDecide(decision, kind) ==
    IF decision = "approve_publish" THEN kind = "human" ELSE kind # "agent"

ReadReview(v) ==
    /\ v \notin DOMAIN desk
    /\ \E id \in DOMAIN reviews, decision \in Decisions, kind \in Kinds, t \in 1..MaxTime :
          /\ MayDecide(decision, kind)
          /\ Pending(id)
          /\ Now(t)
          /\ desk' = Put(desk, v, [review |-> id, decision |-> decision,
                                   kind |-> kind, at |-> t])
    /\ UNCHANGED <<reviews, stories, failing>>

\* Fault: UPDATE without AND decision = 'pending'.
NotChecked(v) == TRUE

StillPending(v) == Pending(desk[v].review)

\* Fault: decided_at is not set.
DecidedUndated(v) ==
    [reviews[desk[v].review] EXCEPT !.decision = desk[v].decision,
                                    !.reviewer = desk[v].kind]

Decided(v) ==
    [reviews[desk[v].review] EXCEPT !.decision = desk[v].decision,
                                    !.reviewer = desk[v].kind,
                                    !.at = desk[v].at]

\* An approval with a narrative writes the public row of its subject.
Publishes(v) ==
    /\ desk[v].decision = "approve_publish"
    /\ reviews[desk[v].review].narrative # NoNarrative

\* uq_stories_slug: the slug belongs to another story.
SlugTaken(v) ==
    \E s \in DOMAIN stories \ {reviews[desk[v].review].subject} :
        Slug[stories[s].narrative] = Slug[reviews[desk[v].review].narrative]

PublicRow(v) ==
    [narrative |-> reviews[desk[v].review].narrative, review |-> desk[v].review]

\* Fault: ON CONFLICT (id) DO NOTHING.
PublishedOnce(v) ==
    IF reviews[desk[v].review].subject \in DOMAIN stories THEN stories
    ELSE Put(stories, reviews[desk[v].review].subject, PublicRow(v))

\* INSERT ... ON CONFLICT (id) DO UPDATE.
Published(v) == Put(stories, reviews[desk[v].review].subject, PublicRow(v))

DecideReview(v) ==
    /\ v \in DOMAIN desk
    /\ StillPending(v)
    /\ ~(Publishes(v) /\ SlugTaken(v))
    /\ reviews' = [reviews EXCEPT ![desk[v].review] = Decided(v)]
    /\ stories' = IF Publishes(v) THEN Published(v) ELSE stories
    /\ desk' = Drop(desk, v)
    /\ UNCHANGED failing

\* Someone else decided first, or the slug is taken: the call raises and its
\* transaction is rolled back.  (A caller that dies before it decided holds no
\* lock and has written nothing: it is one that never goes on.)
DecideRaises(v) ==
    /\ v \in DOMAIN desk
    /\ ~StillPending(v) \/ (Publishes(v) /\ SlugTaken(v))
    /\ desk' = Drop(desk, v)
    /\ UNCHANGED <<reviews, stories, failing>>

Next ==
    \/ \E s \in Subjects, n \in Narratives \cup {NoNarrative} :
          EnqueueReview(s, n)
    \/ \E p \in Verifiers :
          (\E s \in Subjects : VerificationFails(p, s)) \/ RecordFailure(p)
    \/ \E v \in Reviewers : ReadReview(v) \/ DecideReview(v) \/ DecideRaises(v)

Spec == Init /\ [][Next]_vars
-----------------------------------------------------------------------------
TypeOK ==
    /\ reviews \in [DOMAIN reviews -> Rows]
    /\ DOMAIN stories \subseteq Subjects
    /\ stories \in [DOMAIN stories ->
                       [narrative : Narratives, review : DOMAIN reviews]]
    /\ DOMAIN desk \subseteq Reviewers
    /\ desk \in [DOMAIN desk -> [review : DOMAIN reviews,
                                 decision : Decisions, kind : Kinds, at : Nat]]
    /\ DOMAIN failing \subseteq Verifiers
    /\ failing \in [DOMAIN failing -> [subject : Subjects, at : Nat]]

\* What the public reads is, word for word, what a human approved: the text
\* of the review the story names, and never an agent's draft.
PublicStoryWasApproved ==
    \A s \in DOMAIN stories :
        LET row == reviews[stories[s].review]
        IN  /\ row.subject = s
            /\ row.decision = "approve_publish"
            /\ row.reviewer = "human"
            /\ row.narrative = stories[s].narrative

\* A story never goes back: of all approved texts of a subject, the public
\* one is that of the newest review, in whatever order reviewers commit.
NewestApprovalIsPublic ==
    \A id \in DOMAIN reviews :
        reviews[id].decision = "approve_publish"
            /\ reviews[id].narrative # NoNarrative
        => /\ reviews[id].subject \in DOMAIN stories
           /\ id <= stories[reviews[id].subject].review

\* decided_at is the start of a transaction, and yet for reviews decided by
\* decide_review it agrees with the order of the reviews.
HumanDecisionsInOrder ==
    \A i, j \in DOMAIN reviews :
        /\ reviews[i].reviewer = "human" /\ reviews[j].reviewer = "human"
        /\ reviews[i].subject = reviews[j].subject
        /\ i < j
        => reviews[i].at < reviews[j].at

\* The log the gate keeps: a review counts as published only if a human approved
\* a text.  An agent's draft has none and is closed by its approval.
Verdict(row) ==
    IF row.decision = "pending" THEN "open"
    ELSE IF /\ row.decision = "approve_publish" /\ row.reviewer = "human"
            /\ row.narrative # NoNarrative
         THEN "published" ELSE "closed"

LogEntries ==
    [id \in DOMAIN reviews |-> [story |-> reviews[id].subject,
                               text |-> reviews[id].narrative,
                               verdict |-> Verdict(reviews[id])]]

ShownTexts ==
    [s \in Subjects |-> IF s \in DOMAIN stories THEN stories[s].narrative ELSE NoNarrative]

Log == INSTANCE PublicationLog WITH
    Story <- Subjects, Text <- Narratives, None <- NoNarrative,
    entries <- LogEntries, public <- ShownTexts

\* However reviewers, authors and failed verifications interleave, the rows of
\* reviews and stories are a publication log: a text becomes public by the
\* judgement of a human on a review nobody has judged, at the moment it is
\* judged, and never in the place of a newer one; what was judged stays so.
ImplementsPublicationLog == Log!LogSpec
=============================================================================
