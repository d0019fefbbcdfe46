----------------------------- MODULE MCJobQueue -----------------------------
(* Small instances of JobQueue: the plain source s1 and, in the run over both, *)
(* s2, a catalog that is also fetched by hand and managed by operators.       *)
EXTENDS JobQueue, TLC

CONSTANTS s1, s2, d1, w1, w2, e1

MCCadence == (s1 :> 1) @@ (s2 :> 2)
MCContent == (s1 :> {d1}) @@ (s2 :> {d1})
MCPlainCadence == s1 :> 2
MCPlainContent == s1 :> {d1}
MCBackoff == <<1, 2>>
=============================================================================
