---------------------------- MODULE MCLastValues ----------------------------
(* Instances of LastValues for TLC: two exports of different owners, a     *)
(* device's service, a raw and a computed column.                          *)
EXTENDS LastValues, TLC

CONSTANTS u1, u2, export1, export2, device1, raw1, math1

MCOwnerOf == (export1 :> u1) @@ (export2 :> u2) @@ (device1 :> NoUser)
=============================================================================
