--------------------------- MODULE MCSecretQuery ---------------------------
(* Instances of SecretQuery for TLC.                                       *)
EXTENDS SecretQuery

CONSTANTS q1, q2, s1, s2, p1, d1, d2
=============================================================================
