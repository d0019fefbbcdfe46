----------------------------- MODULE MCWebPages -----------------------------
(* Small instances of WebPages. *)
EXTENDS WebPages
=============================================================================
