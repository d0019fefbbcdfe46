---------------------------- MODULE MCPublicApi -----------------------------
(* Three addresses on the event loop, or one partner in a pool of two threads. *)
EXTENDS PublicApi, TLC

Symmetry == Permutations(Clients) \cup Permutations(Threads) \cup Permutations(Writers)
=============================================================================
