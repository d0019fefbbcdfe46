---------------------------- MODULE MCPartyMerge ----------------------------
(* The parties without the graph: one confirmer beside a load, and two. *)
EXTENDS PartyMerge, TLC

PartySymmetry == Permutations(Parties) \cup Permutations(ProposalIds)
=============================================================================
