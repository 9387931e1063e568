---------------------------- MODULE QueryService ----------------------------
(***************************************************************************)
(* What a client of POST /queries is promised: at most one answer per      *)
(* request, either an error status or, in the order of the request, the    *)
(* rows of every requested source; none if the process ends meanwhile.     *)
(***************************************************************************)
EXTENDS QueryData

CONSTANT MaxElements

VARIABLES req,      \* the sources of the request in progress
          status,   \* NoRequest, Pending, or the HTTP status of the answer
          response

svars == <<req, status, response>>

SInit == req = <<>> /\ status = NoRequest /\ response = <<>>

SReceive ==
    /\ status # Pending
    /\ req' \in Requests(MaxElements)
    /\ status' = Pending
    /\ response' = <<>>

SFail ==
    /\ status = Pending
    /\ status' \in FailureStatus
    /\ UNCHANGED <<req, response>>

SAnswer ==
    /\ status = Pending
    /\ status' = 200
    /\ DOMAIN response' = DOMAIN req
    /\ \A i \in DOMAIN req : response'[i] \in RowsFor(req[i])
    /\ UNCHANGED req

(* The process that works on the request ends: it is never answered.       *)
SLost ==
    /\ status = Pending
    /\ status' = NoRequest
    /\ UNCHANGED <<req, response>>

SNext == SReceive \/ SFail \/ SAnswer \/ SLost

SSpec == SInit /\ [][SNext]_svars
=============================================================================
