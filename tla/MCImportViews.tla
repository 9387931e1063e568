--------------------------- MODULE MCImportViews ---------------------------
(* Instance of ImportViews for TLC.                                        *)
EXTENDS ImportViews, TLC

CONSTANTS t1, t2, s1, s2, q1, q2, r1, r2

MCDistance == (s1 :> 1) @@ (s2 :> 2)
MCHome == (q1 :> r1) @@ (q2 :> r2)
MCAsked == {(q1 :> t1) @@ (q2 :> t1), (q1 :> t1) @@ (q2 :> t2)}
=============================================================================
