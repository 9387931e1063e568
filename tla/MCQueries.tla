----------------------------- MODULE MCQueries -----------------------------
(* Instances of Queries for TLC: two exports of different owners, a        *)
(* device's service and a location.                                        *)
EXTENDS Queries, TLC

CONSTANTS u1, u2, export1, export2, device1, location1

MCOwnerOf == (export1 :> u1) @@ (export2 :> u2) @@ (device1 :> NoUser) @@ (location1 :> NoUser)
=============================================================================
