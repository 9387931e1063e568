---------------------------- MODULE MCTableFormat ----------------------------
(* Instances of TableFormat for TLC.                                       *)
EXTENDS TableFormat

MCNullPoint == {<<1, 1>>, <<2, 2>>}
=============================================================================
