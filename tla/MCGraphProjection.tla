------------------------- MODULE MCGraphProjection --------------------------
(* Small instances of GraphProjection and of PartyMerge below it. *)
EXTENDS GraphProjection, TLC

PartySymmetry ==
    Permutations(Parties) \cup Permutations(ProposalIds) \cup Permutations(Awards)
        \cup Permutations(Rebuilds) \cup Permutations(Confirmers)
=============================================================================
