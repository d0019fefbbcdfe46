SPECIFICATION Spec
CONSTANTS
    n1 = n1
    n2 = n2
    Subjects = {s1, s2}
    Narratives = {n1, n2}
    Slug <- MCSlug
    NoNarrative = NoNarrative
    Reviewers = {v1, v2}
    Verifiers = {p1}
    Decisions = {"approve_publish", "reject"}
    MaxReviews = 4
    MaxTime = 4
INVARIANTS HumanDecisionsInOrder
PROPERTIES ImplementsPublicationLog
SYMMETRY DeskSymmetry
CHECK_DEADLOCK FALSE
