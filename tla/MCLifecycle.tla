---------------------------- MODULE MCLifecycle ----------------------------
(* Instances of Lifecycle for TLC.                                         *)
EXTENDS Lifecycle, TLC

CONSTANTS b1, b2, b3, a1, s1, e1, closedPool, d1

MCChunkCall == d1 :> <<b2, b3>>
=============================================================================
