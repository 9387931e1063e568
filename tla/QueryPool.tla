----------------------------- MODULE QueryPool -----------------------------
(***************************************************************************)
(* The callers of the database pool (pkg/timescale/db.go, wrapper.go,      *)
(* data-availabilty.go, usage.go, last_message.go).  ExecuteQueries runs a *)
(* goroutine per query; GetDataAvailability keeps a result set open while  *)
(* it starts a goroutine per row of it, twice; the others run one query.   *)
(* All of them take connections from one pool without a timeout, and the   *)
(* goroutines of a call write one error variable without a lock.  The pool *)
(* is closed while they are at work (module Lifecycle): who then wants a   *)
(* connection gets an error.                                               *)
(***************************************************************************)
EXTENDS Naturals, FiniteSets

CONSTANTS Batch,           \* calls of ExecuteQueries
          Availability,    \* calls of GetDataAvailability
          Single,          \* calls of GetDeviceUsage, GetExportUsage, GetLastMessage
          MaxQueries,      \* bound: goroutines of one call
          MaxConnections,  \* connections of the pool (5)
          Failure,         \* errors of different Go types
          Closed,          \* ErrClosedPool
          Outcome          \* bound: what goroutines deliver, "all" rows or "some"

ASSUME PoolAssumption ==
    /\ Batch \cap Availability = {} /\ Single \cap (Batch \cup Availability) = {}
    /\ MaxQueries \in Nat \ {0} /\ MaxConnections \in Nat \ {0}
    /\ Closed \notin Failure /\ "nil" \notin Failure \cup {Closed}
    /\ Outcome \subseteq {"all", "some"}

VARIABLES used,    \* connections in use
          closed,  \* the pool is closed
          cpc,     \* where each call stands
          wpc,     \* where each of its goroutines stands
          res,     \* what each goroutine delivered
          fail,    \* the error of a goroutine that failed
          errType, errData,   \* the two words of the shared error of a call
          err      \* what the call returned as its error

poolVars == <<used, closed, cpc, wpc, res, fail, errType, errData, err>>

Call == Batch \cup Availability \cup Single
Worker == 1 .. MaxQueries
NoFailure == "nil"
Error == Failure \cup {Closed, NoFailure}
Torn == "torn"    \* the type of one error with the data of another

PoolTypeOK ==
    /\ used \in 0 .. MaxConnections /\ closed \in BOOLEAN
    /\ cpc \in [Call -> {"idle", "want1", "rows1", "want2", "rows2", "wait", "returned"}]
    /\ wpc \in [Call -> [Worker -> {"unused", "want", "rows", "errType", "errData", "done"}]]
    /\ res \in [Call -> [Worker -> {"nil", "all", "some"}]]
    /\ fail \in [Call -> [Worker -> Error]]
    /\ errType \in [Call -> Error]
    /\ errData \in [Call -> Error]
    /\ err \in [Call -> Error \cup {Torn}]

PoolInit ==
    /\ used = 0 /\ closed = FALSE
    /\ cpc = [c \in Call |-> "idle"]
    /\ wpc = [c \in Call |-> [w \in Worker |-> "unused"]]
    /\ res = [c \in Call |-> [w \in Worker |-> "nil"]]
    /\ fail = [c \in Call |-> [w \in Worker |-> NoFailure]]
    /\ errType = [c \in Call |-> NoFailure] /\ errData = [c \in Call |-> NoFailure]
    /\ err = [c \in Call |-> NoFailure]

-----------------------------------------------------------------------------
CallAt(c, state) == cpc[c] = state
CallGoto(c, state) == cpc' = [cpc EXCEPT ![c] = state]
At(c, w, state) == wpc[c][w] = state
Goto(c, w, state) == wpc' = [wpc EXCEPT ![c][w] = state]
Acquire == ~ closed /\ used < MaxConnections /\ used' = used + 1
Release == used' = used - 1

(* ExecuteQueries(queries): a goroutine for each.                          *)
ExecuteQueries(c, n) ==
    /\ CallAt(c, "idle") /\ CallGoto(c, "wait")
    /\ wpc' = [wpc EXCEPT ![c] = [w \in Worker |-> IF w <= n THEN "want" ELSE "unused"]]
    /\ UNCHANGED <<used, closed, res, fail, errType, errData, err>>

GetDataAvailability(c) ==
    /\ CallAt(c, "idle") /\ CallGoto(c, "want1")
    /\ UNCHANGED <<used, closed, wpc, res, fail, errType, errData, err>>

(* One query of the handler's own, whose rows it reads to the end.         *)
GetUsage(c) ==
    /\ CallAt(c, "idle") /\ CallGoto(c, "want2")
    /\ UNCHANGED <<used, closed, wpc, res, fail, errType, errData, err>>

(* Its own queries, for the aggregates and then for the tables.            *)
OpenRows(c) ==
    /\ \/ CallAt(c, "want1") /\ CallGoto(c, "rows1")
       \/ CallAt(c, "want2") /\ CallGoto(c, "rows2")
    /\ Acquire
    /\ UNCHANGED <<closed, wpc, res, fail, errType, errData, err>>

(* pool.Query fails, or Scan, which closes the rows: return, with the      *)
(* goroutines of earlier rows still at work.  (GetUsage would also return, *)
(* and leave its rows open, if an id of a row were not one it asked for.)  *)
CallFails(c) ==
    /\ \/ cpc[c] \in {"want1", "want2"} /\ used < MaxConnections /\ UNCHANGED used
       \/ cpc[c] \in {"rows1", "rows2"} /\ Release
    /\ CallGoto(c, "returned")
    /\ \E f \in Failure : err' = [err EXCEPT ![c] = f]
    /\ UNCHANGED <<closed, wpc, res, fail, errType, errData>>

CallClosed(c) ==
    /\ cpc[c] \in {"want1", "want2"} /\ closed
    /\ CallGoto(c, "returned")
    /\ err' = [err EXCEPT ![c] = Closed]
    /\ UNCHANGED <<used, closed, wpc, res, fail, errType, errData>>

(* for rows.Next() { ... go func() ... }                                   *)
NextRow(c) ==
    /\ c \in Availability /\ cpc[c] \in {"rows1", "rows2"}
    /\ \E w \in Worker :
        /\ At(c, w, "unused") /\ Goto(c, w, "want")
        /\ \A v \in Worker : v < w => ~ At(c, v, "unused")
    /\ UNCHANGED <<used, closed, cpc, res, fail, errType, errData, err>>

(* Mutant of CloseRows: waits for the goroutines before it closes.         *)
CloseRowsAfterWorkers(c) ==
    /\ \/ CallAt(c, "rows1") /\ CallGoto(c, "want2")
       \/ CallAt(c, "rows2") /\ CallGoto(c, "wait")
    /\ \A w \in Worker : wpc[c][w] \in {"unused", "done"}
    /\ Release
    /\ UNCHANGED <<closed, wpc, res, fail, errType, errData, err>>

(* The last row, which closes the rows and gives the connection back.      *)
CloseRows(c) ==
    /\ \/ CallAt(c, "rows1") /\ CallGoto(c, "want2")
       \/ CallAt(c, "rows2") /\ CallGoto(c, "wait")
    /\ Release
    /\ UNCHANGED <<closed, wpc, res, fail, errType, errData, err>>

-----------------------------------------------------------------------------
(* ExecuteQuery, parseDataAvailability: a goroutine's query.               *)
Query(c, w) ==
    /\ At(c, w, "want") /\ Goto(c, w, "rows")
    /\ Acquire
    /\ UNCHANGED <<closed, cpc, res, fail, errType, errData, err>>

(* pool.Query of a closed pool.  A goroutine that waits for a connection   *)
(* when the pool is closed is assumed to get the error, too.               *)
QueryClosed(c, w) ==
    /\ At(c, w, "want") /\ closed
    /\ Goto(c, w, "errType")
    /\ fail' = [fail EXCEPT ![c][w] = Closed]
    /\ UNCHANGED <<used, closed, cpc, res, errType, errData, err>>

(* rows.Next() is false: after the last row, or when the statement or the  *)
(* connection failed on the way, which rows.Err() would tell.              *)
RowsEnd(c, w) ==
    /\ At(c, w, "rows") /\ Goto(c, w, "done")
    /\ Release
    /\ \E r \in Outcome : res' = [res EXCEPT ![c][w] = r]
    /\ UNCHANGED <<closed, cpc, fail, errType, errData, err>>

(* parseDataAvailability cannot read the view's name or definition.        *)
ParseFails(c, w) ==
    /\ c \in Availability
    /\ At(c, w, "want") /\ Goto(c, w, "errType")
    /\ \E f \in Failure : fail' = [fail EXCEPT ![c][w] = f]
    /\ UNCHANGED <<used, closed, cpc, res, errType, errData, err>>

(* Mutant of QueryFails: the connection is kept.                           *)
QueryFailsOpen(c, w) ==
    /\ At(c, w, "rows") /\ Goto(c, w, "errType")
    /\ \E f \in Failure : fail' = [fail EXCEPT ![c][w] = f]
    /\ UNCHANGED <<used, closed, cpc, res, errType, errData, err>>

(* The query cannot be prepared or a value cannot be read; the connection  *)
(* goes back.                                                              *)
QueryFails(c, w) ==
    /\ At(c, w, "rows") /\ Goto(c, w, "errType")
    /\ Release
    /\ \E f \in Failure : fail' = [fail EXCEPT ![c][w] = f]
    /\ UNCHANGED <<closed, cpc, res, errType, errData, err>>

(* Mutant of SetErrType: every goroutine assigns its error, nil too, as in *)
(* err = errS.                                                             *)
SetErrTypeAlways(c, w) ==
    /\ \/ At(c, w, "errType") /\ Goto(c, w, "errData")
       \/ At(c, w, "done") /\ UNCHANGED wpc
    /\ CallAt(c, "wait")
    /\ errType' = [errType EXCEPT ![c] = fail[c][w]]
    /\ UNCHANGED <<used, closed, cpc, res, fail, errData, err>>

(* err = errS stores an interface: two words, one store each.              *)
SetErrType(c, w) ==
    /\ At(c, w, "errType") /\ Goto(c, w, "errData")
    /\ errType' = [errType EXCEPT ![c] = fail[c][w]]
    /\ UNCHANGED <<used, closed, cpc, res, fail, errData, err>>

SetErrData(c, w) ==
    /\ At(c, w, "errData") /\ Goto(c, w, "done")
    /\ errData' = [errData EXCEPT ![c] = fail[c][w]]
    /\ UNCHANGED <<used, closed, cpc, res, fail, errType, err>>

(* wg.Wait() and return; err # nil looks at the type word.                 *)
Return(c) ==
    /\ CallAt(c, "wait") /\ CallGoto(c, "returned")
    /\ \A w \in Worker : wpc[c][w] \in {"unused", "done"}
    /\ err' = [err EXCEPT ![c] = IF errType[c] = errData[c] THEN errType[c]
                                 ELSE IF errType[c] = NoFailure THEN NoFailure ELSE Torn]
    /\ UNCHANGED <<used, closed, wpc, res, fail, errType, errData>>

(* wrapper.go: <-ctx.Done(), pool.Close().  Connections in use stay until  *)
(* they are released.                                                      *)
ClosePool ==
    /\ ~ closed
    /\ closed' = TRUE
    /\ UNCHANGED <<used, cpc, wpc, res, fail, errType, errData, err>>

Goroutine(c, w) ==
    \/ Query(c, w) \/ QueryClosed(c, w) \/ RowsEnd(c, w) \/ ParseFails(c, w) \/ QueryFails(c, w)
    \/ SetErrType(c, w) \/ SetErrData(c, w)
Caller(c) == OpenRows(c) \/ CallFails(c) \/ CallClosed(c) \/ CloseRows(c) \/ Return(c)

(* What goes on by itself in calls that were made.                         *)
PoolStep ==
    \/ \E c \in Call : NextRow(c)
    \/ \E c \in Call : Caller(c)
    \/ \E c \in Call, w \in Worker : Goroutine(c, w)

(* What ends a call: statements end; none is obliged to fail, but a closed *)
(* pool refuses.                                                           *)
CallEnds(c) ==
    \/ OpenRows(c) \/ CallClosed(c) \/ CloseRows(c) \/ Return(c)
    \/ \E w \in Worker : \/ Query(c, w) \/ QueryClosed(c, w) \/ RowsEnd(c, w)
                         \/ SetErrType(c, w) \/ SetErrData(c, w)

-----------------------------------------------------------------------------
Holders == {c \in Call : cpc[c] \in {"rows1", "rows2"}}
HoldingWorkers == {x \in Call \X Worker : wpc[x[1]][x[2]] = "rows"}

(* Every connection taken is held by someone who will give it back: no     *)
(* path, the failing ones included, leaks one.                             *)
ConnectionsAccounted == used = Cardinality(Holders) + Cardinality(HoldingWorkers)

(* A call that returns no error has a result from each of its goroutines:  *)
(* no failure is overwritten by a sibling, none is still running.  Whether *)
(* a result is whole is not said here, but by ResultsAreComplete.          *)
NoErrorMeansResults ==
    \A c \in Call : cpc[c] = "returned" /\ err[c] = NoFailure =>
        \A w \in Worker : wpc[c][w] = "unused" \/ (wpc[c][w] = "done" /\ res[c][w] # "nil")

-----------------------------------------------------------------------------
(* The strengthening that makes them inductive.                            *)

IdleHasNoWorkers == \A c \in Call : cpc[c] = "idle" => \A w \in Worker : wpc[c][w] = "unused"

(* A goroutine that ends without a result has left its error in the shared *)
(* variable, whose type word no sibling ever sets back to nil.             *)
ErrorsAreKept ==
    \A c \in Call, w \in Worker :
        /\ wpc[c][w] \in {"errType", "errData"} => fail[c][w] # NoFailure
        /\ wpc[c][w] = "errData" => errType[c] # NoFailure
        /\ wpc[c][w] = "done" => res[c][w] # "nil" \/ errType[c] # NoFailure

PoolInv ==
    /\ PoolTypeOK /\ IdleHasNoWorkers
    /\ IsFiniteSet(Holders) /\ IsFiniteSet(HoldingWorkers) /\ ConnectionsAccounted
    /\ ErrorsAreKept /\ NoErrorMeansResults

-----------------------------------------------------------------------------
(* Stated by comments, docs or tests, and not kept by the code.            *)

(* The error of a call is the error of one of its queries ("make thread    *)
(* safe").                                                                 *)
ErrorIsOneQuerys ==
    \A c \in Batch : cpc[c] = "returned" /\ err[c] # NoFailure =>
        \E w \in Worker : err[c] = fail[c][w]

(* What is returned without an error is all the query selects ("no results *)
(* --> append nil for each requested field").                              *)
ResultsAreComplete ==
    \A c \in Batch : cpc[c] = "returned" /\ err[c] = NoFailure =>
        \A w \in Worker : wpc[c][w] = "done" => res[c][w] = "all"
=============================================================================
