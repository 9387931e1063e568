--------------------------- MODULE OneTimeSecret ---------------------------
(***************************************************************************)
(* What a download secret promises: it stands for one query of one user,   *)
(* that query is handed out for it once at most, and a secret that was     *)
(* used or has lapsed stays worthless.                                     *)
(***************************************************************************)
EXTENDS Sequences

CONSTANTS Secret, Query, Nothing

VARIABLES good,    \* secret -> what it is good for: "unused", a query, or Nothing
          served   \* secret -> the queries handed out for it

Init ==
    /\ good = [s \in Secret |-> "unused"]
    /\ served = [s \in Secret |-> <<>>]

Issue(s, q) ==
    /\ good[s] = "unused"
    /\ good' = [good EXCEPT ![s] = q]
    /\ UNCHANGED served

Redeem(s) ==
    /\ good[s] \in Query
    /\ served' = [served EXCEPT ![s] = Append(@, good[s])]
    /\ good' = [good EXCEPT ![s] = Nothing]

(* Secrets lapse alone or together, some before they are good for a query. *)
Lapse(ss) ==
    /\ good' = [s \in Secret |-> IF s \in ss THEN Nothing ELSE good[s]]
    /\ UNCHANGED served

Next ==
    \/ \E s \in Secret, q \in Query : Issue(s, q)
    \/ \E s \in Secret : Redeem(s)
    \/ \E ss \in SUBSET Secret : Lapse(ss)

OneSpec == Init /\ [][Next]_<<good, served>>
=============================================================================
