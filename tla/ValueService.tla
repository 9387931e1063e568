---------------------------- MODULE ValueService ----------------------------
(***************************************************************************)
(* What a client of POST /last-values and GET /raw-value is promised: at   *)
(* most one answer per request, either an error status and no values or,   *)
(* in the order of the request, a value of every requested column,         *)
(* computed columns from the database; none if the process ends meanwhile. *)
(***************************************************************************)
EXTENDS QueryData

CONSTANTS MaxElements, Column, MathColumn

VARIABLES req,      \* the columns of the request in progress, each with its source
          status,   \* NoRequest, Pending, or the HTTP status of the answer
          answer    \* the values the client is shown

svars == <<req, status, answer>>

Asked == UNION {[1 .. n -> [source : Source, column : Column]] : n \in 0 .. MaxElements}
Answers(e, value) ==
    /\ value.column = e.column
    /\ value.rows \in IF e.column \in MathColumn THEN {DbRows(e.source)} ELSE RowsFor(e.source)

SInit == req = <<>> /\ status = NoRequest /\ answer = <<>>

SReceive ==
    /\ status # Pending
    /\ req' \in Asked
    /\ status' = Pending
    /\ answer' = <<>>

SFail ==
    /\ status = Pending
    /\ status' \in FailureStatus
    /\ UNCHANGED <<req, answer>>

SAnswer ==
    /\ status = Pending
    /\ status' = 200
    /\ DOMAIN answer' = DOMAIN req
    /\ \A i \in DOMAIN req : Answers(req[i], answer'[i])
    /\ UNCHANGED req

(* The process that works on the request ends: it is never answered.       *)
SLost ==
    /\ status = Pending
    /\ status' = NoRequest
    /\ UNCHANGED <<req, answer>>

SNext == SReceive \/ SFail \/ SAnswer \/ SLost

SSpec == SInit /\ [][SNext]_svars
=============================================================================
