---------------------------- MODULE MCReviewDesk ----------------------------
(* Small instances of ReviewDesk: n1 and n2 are two versions of a story     *)
(* with the same slug, as a revision has; two subjects may claim it.        *)
EXTENDS ReviewDesk, TLC

CONSTANTS n1, n2

MCSlug == (n1 :> "a") @@ (n2 :> "a")
DeskSymmetry ==
    Permutations(Subjects) \cup Permutations(Reviewers)
        \cup Permutations(Narratives)
=============================================================================
