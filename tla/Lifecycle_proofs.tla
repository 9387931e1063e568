-------------------------- MODULE Lifecycle_proofs --------------------------
(***************************************************************************)
(* Proofs about QueryPool and Lifecycle, for any number of calls,          *)
(* goroutines, connections, downloads and chunks: what the pool promises   *)
(* its callers, and what the process has finished when it exits.           *)
(***************************************************************************)
EXTENDS Lifecycle, TLAPS, FiniteSetTheorems

CallState == {"idle", "want1", "rows1", "want2", "rows2", "wait", "returned"}
WorkerState == {"unused", "want", "rows", "errType", "errData", "done"}

-----------------------------------------------------------------------------
(* Connections are counted: someone takes one, or gives one back.          *)

LEMMA OneMore ==
    ASSUME NEW S, NEW x, IsFiniteSet(S), x \notin S
    PROVE  /\ IsFiniteSet(S \cup {x})
           /\ Cardinality(S \cup {x}) = Cardinality(S) + 1 /\ Cardinality(S) \in Nat
  BY FS_AddElement, FS_CardinalityType

LEMMA OneLess ==
    ASSUME NEW S, NEW x, IsFiniteSet(S), x \in S
    PROVE  /\ IsFiniteSet(S \ {x})
           /\ Cardinality(S \ {x}) = Cardinality(S) - 1
           /\ Cardinality(S) \in Nat /\ Cardinality(S \ {x}) \in Nat
  BY FS_RemoveElement, FS_CardinalityType

Accounted ==
    IsFiniteSet(Holders) /\ IsFiniteSet(HoldingWorkers) /\ ConnectionsAccounted

LEMMA SameConnections ==
    ASSUME Accounted, Holders' = Holders, HoldingWorkers' = HoldingWorkers, used' = used
    PROVE  Accounted'
  BY DEF Accounted, ConnectionsAccounted

LEMMA CallerTakes ==
    ASSUME Accounted, NEW c, c \notin Holders,
           Holders' = Holders \cup {c}, HoldingWorkers' = HoldingWorkers, used' = used + 1
    PROVE  Accounted'
<1>1. /\ IsFiniteSet(Holders \cup {c}) /\ Cardinality(Holders) \in Nat
      /\ Cardinality(Holders \cup {c}) = Cardinality(Holders) + 1
  BY OneMore DEF Accounted
<1>2. Cardinality(HoldingWorkers) \in Nat
  BY FS_CardinalityType DEF Accounted
<1> QED
  BY <1>1, <1>2 DEF Accounted, ConnectionsAccounted

LEMMA CallerGivesBack ==
    ASSUME Accounted, NEW c \in Holders,
           Holders' = Holders \ {c}, HoldingWorkers' = HoldingWorkers, used' = used - 1
    PROVE  Accounted' /\ used' \in Nat
<1>1. /\ IsFiniteSet(Holders \ {c}) /\ Cardinality(Holders) \in Nat
      /\ Cardinality(Holders \ {c}) = Cardinality(Holders) - 1
      /\ Cardinality(Holders \ {c}) \in Nat
  BY OneLess DEF Accounted
<1>2. Cardinality(HoldingWorkers) \in Nat
  BY FS_CardinalityType DEF Accounted
<1> QED
  BY <1>1, <1>2 DEF Accounted, ConnectionsAccounted

LEMMA WorkerTakes ==
    ASSUME Accounted, NEW x, x \notin HoldingWorkers,
           Holders' = Holders, HoldingWorkers' = HoldingWorkers \cup {x}, used' = used + 1
    PROVE  Accounted'
<1>1. /\ IsFiniteSet(HoldingWorkers \cup {x}) /\ Cardinality(HoldingWorkers) \in Nat
      /\ Cardinality(HoldingWorkers \cup {x}) = Cardinality(HoldingWorkers) + 1
  BY OneMore DEF Accounted
<1>2. Cardinality(Holders) \in Nat
  BY FS_CardinalityType DEF Accounted
<1> QED
  BY <1>1, <1>2 DEF Accounted, ConnectionsAccounted

LEMMA WorkerGivesBack ==
    ASSUME Accounted, NEW x \in HoldingWorkers,
           Holders' = Holders, HoldingWorkers' = HoldingWorkers \ {x}, used' = used - 1
    PROVE  Accounted' /\ used' \in Nat
<1>1. /\ IsFiniteSet(HoldingWorkers \ {x}) /\ Cardinality(HoldingWorkers) \in Nat
      /\ Cardinality(HoldingWorkers \ {x}) = Cardinality(HoldingWorkers) - 1
      /\ Cardinality(HoldingWorkers \ {x}) \in Nat
  BY OneLess DEF Accounted
<1>2. Cardinality(Holders) \in Nat
  BY FS_CardinalityType DEF Accounted
<1> QED
  BY <1>1, <1>2 DEF Accounted, ConnectionsAccounted

(* How the two sets follow the program counters.                           *)
LEMMA HoldersFollow ==
    ASSUME NEW c \in Call, cpc \in [Call -> CallState], NEW to \in CallState,
           cpc' = [cpc EXCEPT ![c] = to]
    PROVE  Holders' = IF to \in {"rows1", "rows2"} THEN Holders \cup {c} ELSE Holders \ {c}
  BY DEF Holders

LEMMA WorkersFollow ==
    ASSUME NEW c \in Call, NEW w \in Worker, wpc \in [Call -> [Worker -> WorkerState]],
           NEW to \in WorkerState, wpc' = [wpc EXCEPT ![c][w] = to]
    PROVE  HoldingWorkers' = IF to = "rows" THEN HoldingWorkers \cup {<<c, w>>}
                             ELSE HoldingWorkers \ {<<c, w>>}
<1>1. \A d \in Call, v \in Worker :
        wpc'[d][v] = IF d = c /\ v = w THEN to ELSE wpc[d][v]
  OBVIOUS
<1>2. \A d \in Call, v \in Worker : <<d, v>> = <<c, w>> <=> d = c /\ v = w
  OBVIOUS
<1>3. \A x \in Call \X Worker : \E d \in Call, v \in Worker : x = <<d, v>> /\ x[1] = d /\ x[2] = v
  OBVIOUS
<1> QED
  BY <1>1, <1>2, <1>3 DEF HoldingWorkers

-----------------------------------------------------------------------------
(* The steps of a call itself.                                             *)

(* A call that is where it was but for its program counter, which does not *)
(* become "returned" or "idle".                                            *)
LEMMA CallMoves ==
    ASSUME PoolInv, NEW c \in Call, NEW to \in CallState \ {"idle", "returned"},
           CallGoto(c, to), Accounted', used' \in 0 .. MaxConnections,
           UNCHANGED <<closed, wpc, res, fail, errType, errData, err>>
    PROVE  PoolInv'
<1> USE DEF PoolInv
<1>1. PoolTypeOK'
  BY DEF PoolTypeOK, CallGoto, CallState
<1>2. IdleHasNoWorkers' /\ ErrorsAreKept' /\ NoErrorMeansResults'
  BY DEF PoolTypeOK, CallGoto, IdleHasNoWorkers, ErrorsAreKept, NoErrorMeansResults
<1> QED
  BY <1>1, <1>2 DEF Accounted

(* A call that ends with an error.                                         *)
LEMMA CallReturnsError ==
    ASSUME PoolInv, NEW c \in Call, NEW f \in Failure \cup {Closed},
           CallGoto(c, "returned"), err' = [err EXCEPT ![c] = f],
           Accounted', used' \in 0 .. MaxConnections,
           UNCHANGED <<closed, wpc, res, fail, errType, errData>>
    PROVE  PoolInv'
<1> USE DEF PoolInv
<1>1. PoolTypeOK'
  BY DEF PoolTypeOK, CallGoto, Error
<1>2. IdleHasNoWorkers' /\ ErrorsAreKept'
  BY DEF PoolTypeOK, CallGoto, IdleHasNoWorkers, ErrorsAreKept
<1>3. f # NoFailure
  BY PoolAssumption DEF NoFailure
<1>4. NoErrorMeansResults'
  BY <1>3 DEF PoolTypeOK, CallGoto, NoErrorMeansResults
<1> QED
  BY <1>1, <1>2, <1>4 DEF Accounted

LEMMA AccountedNow == PoolInv <=> /\ PoolTypeOK /\ IdleHasNoWorkers /\ Accounted
                                  /\ ErrorsAreKept /\ NoErrorMeansResults
  BY DEF PoolInv, Accounted

LEMMA CpcType == PoolTypeOK => cpc \in [Call -> CallState] /\ wpc \in [Call -> [Worker -> WorkerState]]
  BY DEF PoolTypeOK, CallState, WorkerState

LEMMA ExecuteQueriesStep ==
    ASSUME PoolInv, NEW c \in Call, NEW n \in 0 .. MaxQueries, ExecuteQueries(c, n)
    PROVE  PoolInv'
<1>1. /\ cpc[c] = "idle" /\ cpc' = [cpc EXCEPT ![c] = "wait"]
      /\ wpc' = [wpc EXCEPT ![c] = [w \in Worker |-> IF w <= n THEN "want" ELSE "unused"]]
      /\ UNCHANGED <<used, closed, res, fail, errType, errData, err>>
  BY DEF ExecuteQueries, CallAt, CallGoto
<1>2. PoolTypeOK /\ IdleHasNoWorkers /\ Accounted /\ ErrorsAreKept /\ NoErrorMeansResults
  BY AccountedNow
<1>3. PoolTypeOK'
  BY <1>1, <1>2 DEF PoolTypeOK
<1>4. Holders' = Holders
  BY <1>1, <1>2 DEF Holders, PoolTypeOK
<1>5. \A d \in Call, w \in Worker :
        /\ wpc[d][w] = "rows" <=> wpc'[d][w] = "rows"
        /\ wpc'[d][w] = wpc[d][w] \/ wpc'[d][w] \in {"want", "unused"}
        /\ d # c => wpc'[d][w] = wpc[d][w]
  BY <1>1, <1>2 DEF PoolTypeOK, IdleHasNoWorkers
<1>6. HoldingWorkers' = HoldingWorkers
  BY <1>5 DEF HoldingWorkers
<1>7. Accounted'
  BY <1>1, <1>2, <1>4, <1>6, SameConnections
<1>8. IdleHasNoWorkers' /\ NoErrorMeansResults'
  BY <1>1, <1>2, <1>5 DEF IdleHasNoWorkers, NoErrorMeansResults, PoolTypeOK
<1>9. ErrorsAreKept'
  BY <1>1, <1>2, <1>5 DEF ErrorsAreKept
<1> QED
  BY <1>3, <1>7, <1>8, <1>9 DEF PoolInv, Accounted

(* A call that starts, or goes on, without taking a connection.            *)
LEMMA StartStep ==
    ASSUME PoolInv, NEW c \in Call, GetDataAvailability(c) \/ GetUsage(c)
    PROVE  PoolInv'
<1>1. PICK to \in {"want1", "want2"} :
        /\ cpc[c] = "idle" /\ CallGoto(c, to)
        /\ UNCHANGED <<used, closed, wpc, res, fail, errType, errData, err>>
  BY DEF GetDataAvailability, GetUsage, CallAt
<1>2. PoolTypeOK /\ Accounted
  BY AccountedNow
<1>3. Holders' = Holders \ {c} /\ c \notin Holders
  BY <1>1, <1>2, CpcType, HoldersFollow DEF CallGoto, CallState, Holders
<1>4. HoldingWorkers' = HoldingWorkers
  BY <1>1 DEF HoldingWorkers
<1>5. Accounted' /\ used' \in 0 .. MaxConnections
  BY <1>1, <1>2, <1>3, <1>4, SameConnections DEF PoolTypeOK
<1> QED
  BY <1>1, <1>5, CallMoves DEF CallState

LEMMA OpenRowsStep == ASSUME PoolInv, NEW c \in Call, OpenRows(c) PROVE PoolInv'
<1>1. PICK to \in {"rows1", "rows2"} :
        /\ cpc[c] \in {"want1", "want2"} /\ CallGoto(c, to)
        /\ used < MaxConnections /\ used' = used + 1
        /\ UNCHANGED <<closed, wpc, res, fail, errType, errData, err>>
  BY DEF OpenRows, CallAt, Acquire
<1>2. PoolTypeOK /\ Accounted
  BY AccountedNow
<1>3. Holders' = Holders \cup {c} /\ c \notin Holders
  BY <1>1, <1>2, CpcType, HoldersFollow DEF CallGoto, CallState, Holders
<1>4. HoldingWorkers' = HoldingWorkers
  BY <1>1 DEF HoldingWorkers
<1>5. Accounted' /\ used' \in 0 .. MaxConnections
  BY <1>1, <1>2, <1>3, <1>4, CallerTakes, PoolAssumption DEF PoolTypeOK
<1> QED
  BY <1>1, <1>5, CallMoves DEF CallState

LEMMA CloseRowsStep == ASSUME PoolInv, NEW c \in Call, CloseRows(c) PROVE PoolInv'
<1>1. PICK to \in {"want2", "wait"} :
        /\ cpc[c] \in {"rows1", "rows2"} /\ CallGoto(c, to)
        /\ used' = used - 1
        /\ UNCHANGED <<closed, wpc, res, fail, errType, errData, err>>
  BY DEF CloseRows, CallAt, Release
<1>2. PoolTypeOK /\ Accounted
  BY AccountedNow
<1>3. Holders' = Holders \ {c} /\ c \in Holders
  BY <1>1, <1>2, CpcType, HoldersFollow DEF CallGoto, CallState, Holders
<1>4. HoldingWorkers' = HoldingWorkers
  BY <1>1 DEF HoldingWorkers
<1>5. Accounted' /\ used' \in 0 .. MaxConnections
  BY <1>1, <1>2, <1>3, <1>4, CallerGivesBack, PoolAssumption DEF PoolTypeOK
<1> QED
  BY <1>1, <1>5, CallMoves DEF CallState

(* The error paths: with open rows the connection goes back, too.          *)
LEMMA CallFailsStep ==
    ASSUME PoolInv, NEW c \in Call, CallFails(c) \/ CallClosed(c)
    PROVE  PoolInv'
<1>1. PICK f \in Failure \cup {Closed} :
        /\ CallGoto(c, "returned") /\ err' = [err EXCEPT ![c] = f]
        /\ UNCHANGED <<closed, wpc, res, fail, errType, errData>>
  BY DEF CallFails, CallClosed
<1>2. PoolTypeOK /\ Accounted
  BY AccountedNow
<1>3. Holders' = Holders \ {c} /\ HoldingWorkers' = HoldingWorkers
  BY <1>1, <1>2, CpcType, HoldersFollow DEF CallGoto, CallState, HoldingWorkers
<1>4. Accounted' /\ used' \in 0 .. MaxConnections
  <2>1. CASE cpc[c] \in {"want1", "want2"}
    <3>1. used' = used
      BY <2>1 DEF CallFails, CallClosed
    <3>2. c \notin Holders
      BY <2>1 DEF Holders
    <3> QED
      BY <1>2, <1>3, <3>1, <3>2, SameConnections DEF PoolTypeOK
  <2>2. CASE cpc[c] \in {"rows1", "rows2"}
    <3>1. used' = used - 1
      BY <2>2 DEF CallFails, CallClosed, Release
    <3>2. c \in Holders
      BY <2>2 DEF Holders
    <3> QED
      BY <1>2, <1>3, <3>1, <3>2, CallerGivesBack, PoolAssumption DEF PoolTypeOK
  <2> QED
    BY <2>1, <2>2 DEF CallFails, CallClosed
<1> QED
  BY <1>1, <1>4, CallReturnsError

(* err # nil looks at the type word: without it every goroutine delivered. *)
LEMMA ReturnStep == ASSUME PoolInv, NEW c \in Call, Return(c) PROVE PoolInv'
<1>1. /\ cpc[c] = "wait" /\ cpc' = [cpc EXCEPT ![c] = "returned"]
      /\ \A w \in Worker : wpc[c][w] \in {"unused", "done"}
      /\ UNCHANGED <<used, closed, wpc, res, fail, errType, errData>>
  BY DEF Return, CallAt, CallGoto
<1> DEFINE e == IF errType[c] = errData[c] THEN errType[c]
                ELSE IF errType[c] = NoFailure THEN NoFailure ELSE Torn
<1>2. err' = [err EXCEPT ![c] = e]
  BY DEF Return
<1>3. PoolTypeOK /\ IdleHasNoWorkers /\ Accounted /\ ErrorsAreKept /\ NoErrorMeansResults
  BY AccountedNow
<1>4. e \in Error \cup {Torn} /\ (e = NoFailure => errType[c] = NoFailure)
  BY <1>3 DEF PoolTypeOK, Error, NoFailure, Torn
<1> HIDE DEF e
<1>5. PoolTypeOK'
  BY <1>1, <1>2, <1>3, <1>4 DEF PoolTypeOK
<1>6. Holders' = Holders /\ HoldingWorkers' = HoldingWorkers
  BY <1>1, <1>3 DEF Holders, HoldingWorkers, PoolTypeOK
<1>7. Accounted'
  BY <1>1, <1>3, <1>6, SameConnections
<1>8. IdleHasNoWorkers' /\ ErrorsAreKept'
  BY <1>1, <1>3 DEF PoolTypeOK, IdleHasNoWorkers, ErrorsAreKept
<1>9. NoErrorMeansResults'
  BY <1>1, <1>2, <1>3, <1>4 DEF PoolTypeOK, NoErrorMeansResults, ErrorsAreKept
<1> QED
  BY <1>5, <1>7, <1>8, <1>9 DEF PoolInv, Accounted

LEMMA ClosePoolStep == PoolInv /\ ClosePool => PoolInv'
  BY DEF PoolInv, ClosePool, PoolTypeOK, IdleHasNoWorkers, Holders, HoldingWorkers,
         ConnectionsAccounted, ErrorsAreKept, NoErrorMeansResults

-----------------------------------------------------------------------------
(* The steps of its goroutines.                                            *)

(* A goroutine that moves on in a call that has not returned without an    *)
(* error; its own three promises are to be shown.                          *)
LEMMA WorkerMoves ==
    ASSUME PoolInv, NEW c \in Call, NEW w \in Worker, NEW to \in WorkerState \ {"unused"},
           wpc[c][w] \notin {"unused", "done"}, Goto(c, w, to),
           Accounted', used' \in 0 .. MaxConnections, PoolTypeOK',
           UNCHANGED <<closed, cpc, err>>,
           \A d \in Call : errType'[d] = errType[d] \/ errType'[d] # NoFailure,
           \A d \in Call, v \in Worker : <<d, v>> # <<c, w>> =>
                fail'[d][v] = fail[d][v] /\ res'[d][v] = res[d][v],
           to \in {"errType", "errData"} => fail'[c][w] # NoFailure,
           to = "errData" => errType'[c] # NoFailure,
           to = "done" => res'[c][w] # "nil" \/ errType'[c] # NoFailure
    PROVE  PoolInv'
<1>1. PoolTypeOK /\ IdleHasNoWorkers /\ ErrorsAreKept /\ NoErrorMeansResults
  BY AccountedNow
<1>2. wpc' = [wpc EXCEPT ![c][w] = to]
  BY DEF Goto
<1>3. \A d \in Call, v \in Worker : wpc'[d][v] = IF d = c /\ v = w THEN to ELSE wpc[d][v]
  BY <1>1, <1>2 DEF PoolTypeOK
<1>4. \A d \in Call, v \in Worker : d # c \/ v # w =>
        fail'[d][v] = fail[d][v] /\ res'[d][v] = res[d][v]
  OBVIOUS
<1>5. cpc[c] # "idle"
  BY <1>1 DEF IdleHasNoWorkers
<1>6. ~ (cpc[c] = "returned" /\ err[c] = NoFailure)
  BY <1>1 DEF NoErrorMeansResults
<1>7. IdleHasNoWorkers'
  BY <1>1, <1>3, <1>5 DEF IdleHasNoWorkers
<1>8. NoErrorMeansResults'
  BY <1>1, <1>3, <1>4, <1>6 DEF NoErrorMeansResults
<1>9. ErrorsAreKept'
  <2> SUFFICES ASSUME NEW d \in Call, NEW v \in Worker
               PROVE  /\ wpc'[d][v] \in {"errType", "errData"} => fail'[d][v] # NoFailure
                      /\ wpc'[d][v] = "errData" => errType'[d] # NoFailure
                      /\ wpc'[d][v] = "done" => res'[d][v] # "nil" \/ errType'[d] # NoFailure
    BY DEF ErrorsAreKept
  <2>1. CASE d = c /\ v = w
    BY <1>3, <2>1
  <2>2. CASE ~ (d = c /\ v = w)
    BY <1>1, <1>3, <1>4, <2>2 DEF ErrorsAreKept
  <2> QED
    BY <2>1, <2>2
<1> QED
  BY <1>7, <1>8, <1>9 DEF PoolInv, Accounted

LEMMA QueryStep ==
    ASSUME PoolInv, NEW c \in Call, NEW w \in Worker, Query(c, w) PROVE PoolInv'
<1>1. /\ wpc[c][w] = "want" /\ Goto(c, w, "rows")
      /\ used < MaxConnections /\ used' = used + 1
      /\ UNCHANGED <<closed, cpc, res, fail, errType, errData, err>>
  BY DEF Query, At, Acquire
<1>2. PoolTypeOK /\ Accounted
  BY AccountedNow
<1>3. HoldingWorkers' = HoldingWorkers \cup {<<c, w>>}
  BY <1>1, <1>2, CpcType, WorkersFollow DEF Goto, WorkerState
<1>4. <<c, w>> \notin HoldingWorkers
  BY <1>1 DEF HoldingWorkers
<1>5. Holders' = Holders
  BY <1>1 DEF Holders
<1>6. Accounted'
  BY <1>1, <1>2, <1>3, <1>4, <1>5, WorkerTakes
<1>7. PoolTypeOK'
  BY <1>1, <1>2, PoolAssumption DEF PoolTypeOK, Goto
<1> QED
  BY <1>1, <1>6, <1>7, WorkerMoves DEF PoolTypeOK, WorkerState

LEMMA RowsEndStep ==
    ASSUME PoolInv, NEW c \in Call, NEW w \in Worker, RowsEnd(c, w) \/ QueryFails(c, w)
    PROVE  PoolInv'
<1>1. PICK to \in {"done", "errType"} :
      /\ wpc[c][w] = "rows" /\ Goto(c, w, to) /\ used' = used - 1
      /\ UNCHANGED <<closed, cpc, errType, errData, err>>
      /\ IF to = "done"
         THEN /\ fail' = fail
              /\ \E r \in Outcome : res' = [res EXCEPT ![c][w] = r]
         ELSE /\ res' = res
              /\ \E f \in Failure : fail' = [fail EXCEPT ![c][w] = f]
  BY DEF RowsEnd, QueryFails, At, Release
<1>2. PoolTypeOK /\ Accounted
  BY AccountedNow
<1>3. HoldingWorkers' = HoldingWorkers \ {<<c, w>>} /\ Holders' = Holders
  BY <1>1, <1>2, CpcType, WorkersFollow DEF Goto, WorkerState, Holders
<1>4. <<c, w>> \in HoldingWorkers
  BY <1>1 DEF HoldingWorkers
<1>5. Accounted' /\ used' \in 0 .. MaxConnections
  <2>1. used' = used - 1
    BY <1>1
  <2>2. Accounted' /\ used' \in Nat
    BY <1>2, <1>3, <1>4, <2>1, WorkerGivesBack
  <2> QED
    BY <1>2, <2>1, <2>2, PoolAssumption DEF PoolTypeOK
<1>6. /\ res' \in [Call -> [Worker -> {"nil", "all", "some"}]]
      /\ fail' \in [Call -> [Worker -> Error]]
      /\ \A d \in Call, v \in Worker : <<d, v>> # <<c, w>> =>
            fail'[d][v] = fail[d][v] /\ res'[d][v] = res[d][v]
      /\ to = "errType" => fail'[c][w] # NoFailure
      /\ to = "done" => res'[c][w] # "nil"
  <2>1. CASE to = "done"
    <3>1. PICK r \in Outcome : res' = [res EXCEPT ![c][w] = r]
      BY <1>1, <2>1
    <3> QED
      BY <1>1, <1>2, <2>1, <3>1, PoolAssumption DEF PoolTypeOK
  <2>2. CASE to = "errType"
    <3>1. PICK f \in Failure : fail' = [fail EXCEPT ![c][w] = f]
      BY <1>1, <2>2
    <3>2. f \in Error /\ f # NoFailure
      BY PoolAssumption DEF Error, NoFailure
    <3> QED
      BY <1>1, <1>2, <2>2, <3>1, <3>2 DEF PoolTypeOK
  <2> QED
    BY <2>1, <2>2
<1>7. PoolTypeOK'
  BY <1>1, <1>2, <1>5, <1>6 DEF PoolTypeOK, Goto
<1> QED
  BY <1>1, <1>5, <1>6, <1>7, WorkerMoves DEF WorkerState

(* A goroutine that fails before it has a connection.                      *)
LEMMA NoQueryStep ==
    ASSUME PoolInv, NEW c \in Call, NEW w \in Worker, QueryClosed(c, w) \/ ParseFails(c, w)
    PROVE  PoolInv'
<1>1. PICK f \in Failure \cup {Closed} :
      /\ wpc[c][w] = "want" /\ Goto(c, w, "errType")
      /\ fail' = [fail EXCEPT ![c][w] = f]
      /\ UNCHANGED <<used, closed, cpc, res, errType, errData, err>>
  BY DEF QueryClosed, ParseFails, At
<1>2. PoolTypeOK /\ Accounted
  BY AccountedNow
<1>3. HoldingWorkers' = HoldingWorkers \ {<<c, w>>} /\ Holders' = Holders
  BY <1>1, <1>2, CpcType, WorkersFollow DEF Goto, WorkerState, Holders
<1>4. <<c, w>> \notin HoldingWorkers
  BY <1>1 DEF HoldingWorkers
<1>5. Accounted' /\ used' \in 0 .. MaxConnections
  BY <1>1, <1>2, <1>3, <1>4, SameConnections DEF PoolTypeOK
<1>6. f \in Error /\ f # NoFailure
  BY PoolAssumption DEF Error, NoFailure
<1>7. PoolTypeOK'
  BY <1>1, <1>2, <1>6 DEF PoolTypeOK, Goto
<1>8. /\ \A d \in Call, v \in Worker : <<d, v>> # <<c, w>> => fail'[d][v] = fail[d][v]
      /\ fail'[c][w] # NoFailure
  BY <1>1, <1>2, <1>6 DEF PoolTypeOK
<1> QED
  BY <1>1, <1>5, <1>7, <1>8, WorkerMoves DEF WorkerState

(* The two stores of an interface; a sibling may come in between.          *)
LEMMA SetErrStep ==
    ASSUME PoolInv, NEW c \in Call, NEW w \in Worker, SetErrType(c, w) \/ SetErrData(c, w)
    PROVE  PoolInv'
<1>1. PICK to \in {"errData", "done"} :
      /\ wpc[c][w] \in {"errType", "errData"} /\ Goto(c, w, to)
      /\ UNCHANGED <<used, closed, cpc, res, fail, err>>
      /\ IF to = "errData"
         THEN errType' = [errType EXCEPT ![c] = fail[c][w]] /\ errData' = errData
         ELSE /\ wpc[c][w] = "errData"
              /\ errData' = [errData EXCEPT ![c] = fail[c][w]] /\ errType' = errType
  BY DEF SetErrType, SetErrData, At
<1>2. PoolTypeOK /\ Accounted /\ ErrorsAreKept
  BY AccountedNow
<1>3. HoldingWorkers' = HoldingWorkers \ {<<c, w>>} /\ Holders' = Holders
  BY <1>1, <1>2, CpcType, WorkersFollow DEF Goto, WorkerState, Holders
<1>4. <<c, w>> \notin HoldingWorkers
  BY <1>1 DEF HoldingWorkers
<1>5. Accounted' /\ used' \in 0 .. MaxConnections
  BY <1>1, <1>2, <1>3, <1>4, SameConnections DEF PoolTypeOK
<1>6. fail[c][w] \in Error /\ fail[c][w] # NoFailure
  BY <1>1, <1>2 DEF ErrorsAreKept, PoolTypeOK
<1>7. PoolTypeOK'
  BY <1>1, <1>2, <1>6 DEF PoolTypeOK, Goto
<1>8. /\ \A d \in Call : errType'[d] = errType[d] \/ errType'[d] # NoFailure
      /\ errType'[c] # NoFailure
  BY <1>1, <1>2, <1>6 DEF PoolTypeOK, ErrorsAreKept
<1> QED
  BY <1>1, <1>2, <1>5, <1>6, <1>7, <1>8, WorkerMoves DEF WorkerState

(* A goroutine for the next row of GetDataAvailability.                    *)
LEMMA NextRowStep == ASSUME PoolInv, NEW c \in Call, NextRow(c) PROVE PoolInv'
<1>1. PICK w \in Worker :
      /\ cpc[c] \in {"rows1", "rows2"} /\ wpc[c][w] = "unused"
      /\ wpc' = [wpc EXCEPT ![c][w] = "want"]
      /\ UNCHANGED <<used, closed, cpc, res, fail, errType, errData, err>>
  BY DEF NextRow, At, Goto
<1>2. PoolTypeOK /\ IdleHasNoWorkers /\ Accounted /\ ErrorsAreKept /\ NoErrorMeansResults
  BY AccountedNow
<1>3. HoldingWorkers' = HoldingWorkers \ {<<c, w>>} /\ Holders' = Holders
  BY <1>1, <1>2, CpcType, WorkersFollow DEF WorkerState, Holders
<1>4. <<c, w>> \notin HoldingWorkers
  BY <1>1 DEF HoldingWorkers
<1>5. Accounted'
  BY <1>1, <1>2, <1>3, <1>4, SameConnections
<1>6. PoolTypeOK'
  BY <1>1, <1>2 DEF PoolTypeOK
<1>7. IdleHasNoWorkers' /\ ErrorsAreKept' /\ NoErrorMeansResults'
  BY <1>1, <1>2 DEF PoolTypeOK, IdleHasNoWorkers, ErrorsAreKept, NoErrorMeansResults
<1> QED
  BY <1>5, <1>6, <1>7 DEF PoolInv, Accounted

LEMMA PoolStepPreserves == PoolInv /\ PoolStep => PoolInv'
<1> SUFFICES ASSUME PoolInv, PoolStep PROVE PoolInv'
  OBVIOUS
<1>1. CASE \E c \in Call : NextRow(c)
  BY <1>1, NextRowStep
<1>2. CASE \E c \in Call : Caller(c)
  BY <1>2, OpenRowsStep, CallFailsStep, CloseRowsStep, ReturnStep DEF Caller
<1>3. CASE \E c \in Call, w \in Worker : Goroutine(c, w)
  BY <1>3, QueryStep, RowsEndStep, NoQueryStep, SetErrStep DEF Goroutine
<1> QED
  BY <1>1, <1>2, <1>3 DEF PoolStep

-----------------------------------------------------------------------------
(* Calls seen from the process: what was asked stays asked, an answer is   *)
(* final, and nobody is in progress who was not asked.                     *)
CallsKept ==
    \A c \in Call : cpc[c] # "idle" =>
        /\ cpc'[c] # "idle"
        /\ cpc[c] = "returned" => cpc'[c] = "returned" /\ err'[c] = err[c]
        /\ wpc[c][1] # "unused" => wpc'[c][1] # "unused"

AskedAfter(c) == cpc'[c] # "idle" /\ wpc'[c][1] # "unused"

LEMMA PoolStepKeeps ==
    ASSUME PoolInv, PoolStep
    PROVE  CallsKept /\ \A c \in Call : cpc[c] = "idle" => cpc'[c] = "idle"
<1>1. PoolTypeOK /\ IdleHasNoWorkers /\ 1 \in Worker
  BY PoolAssumption DEF PoolInv, Worker
<1>2. CASE \E c \in Call : NextRow(c)
  <2>1. PICK c \in Call, w \in Worker : /\ wpc' = [wpc EXCEPT ![c][w] = "want"]
                                        /\ cpc' = cpc /\ err' = err
    BY <1>2 DEF NextRow, Goto
  <2> QED
    BY <1>1, <2>1 DEF CallsKept, PoolTypeOK
<1>3. CASE \E c \in Call : Caller(c)
  <2>1. PICK c \in Call : Caller(c)
    BY <1>3
  <2>2. /\ cpc[c] \notin {"idle", "returned"} /\ wpc' = wpc
        /\ \E to \in CallState \ {"idle"} : cpc' = [cpc EXCEPT ![c] = to]
        /\ \A d \in Call \ {c} : err'[d] = err[d]
    BY <1>1, <2>1 DEF Caller, OpenRows, CallFails, CallClosed, CloseRows, Return, CallAt, CallGoto,
                      CallState, PoolTypeOK
  <2> QED
    BY <1>1, <2>2 DEF CallsKept, PoolTypeOK
<1>4. CASE \E c \in Call, w \in Worker : Goroutine(c, w)
  <2>1. PICK c \in Call, w \in Worker : Goroutine(c, w)
    BY <1>4
  <2>2. /\ cpc' = cpc /\ err' = err
        /\ \E to \in WorkerState \ {"unused"} : wpc' = [wpc EXCEPT ![c][w] = to]
    BY <2>1 DEF Goroutine, Query, QueryClosed, RowsEnd, ParseFails, QueryFails, SetErrType,
                SetErrData, Goto, WorkerState
  <2> QED
    BY <1>1, <2>2 DEF CallsKept, PoolTypeOK
<1> QED
  BY <1>2, <1>3, <1>4 DEF PoolStep

LEMMA StartKeeps ==
    ASSUME PoolInv, NEW c \in Call,
           \/ GetDataAvailability(c) \/ GetUsage(c)
           \/ \E n \in 0 .. MaxQueries : ExecuteQueries(c, n)
    PROVE  CallsKept /\ cpc[c] = "idle"
  BY DEF PoolInv, PoolTypeOK, GetDataAvailability, GetUsage, ExecuteQueries, CallAt, CallGoto,
         CallsKept

LEMMA PoolUnchanged == PoolInv /\ UNCHANGED poolVars => PoolInv'
  BY DEF PoolInv, poolVars, PoolTypeOK, IdleHasNoWorkers, Holders, HoldingWorkers,
         ConnectionsAccounted, ErrorsAreKept, NoErrorMeansResults

LEMMA NothingAskedKeeps == UNCHANGED poolVars => CallsKept
  BY DEF poolVars, CallsKept

LEMMA ChunkFacts ==
    ASSUME TypeOK, NEW d \in Download
    PROVE  /\ Len(ChunkCall[d]) \in Nat /\ chunk[d] \in Nat \ {0}
           /\ DOMAIN ChunkCall[d] = 1 .. Len(ChunkCall[d])
           /\ \A k \in 1 .. Len(ChunkCall[d]) : ChunkCall[d][k] \in Call
           /\ \A k \in 1 .. chunk[d] - 1 : ChunkCall[d][k] \in Call
<1>1. ChunkCall[d] \in Seq(Batch)
  BY LifecycleAssumption
<1>2. Len(ChunkCall[d]) \in Nat /\ DOMAIN ChunkCall[d] = 1 .. Len(ChunkCall[d])
  BY <1>1
<1>3. \A k \in 1 .. Len(ChunkCall[d]) : ChunkCall[d][k] \in Call
  BY <1>1 DEF Call
<1>4. chunk[d] \in Nat \ {0} /\ chunk[d] <= Len(ChunkCall[d]) + 1
  BY DEF TypeOK
<1> QED
  BY <1>2, <1>3, <1>4

(* The chunks behind a download stay answered, whoever else moves.         *)
LEMMA ChunksKept ==
    ASSUME IInv, CallsKept, NEW d \in Download
    PROVE  /\ \A k \in 1 .. chunk[d] - 1 :
                LET c == ChunkCall[d][k]
                IN  AskedAfter(c) /\ cpc'[c] = "returned" /\ err'[c] = NoFailure
           /\ dpc[d] = "asking" =>
                chunk[d] <= Len(ChunkCall[d]) /\ AskedAfter(ChunkCall[d][chunk[d]])
           /\ dpc[d] = "done" => chunk[d] = Len(ChunkCall[d]) + 1
<1>1. TypeOK /\ ChunksAreAnswered
  BY DEF IInv
<1>2. \A k \in 1 .. chunk[d] - 1 : ChunkCall[d][k] \in Call
  BY <1>1, ChunkFacts
<1>3. dpc[d] = "asking" => ChunkCall[d][chunk[d]] \in Call
  BY <1>1, ChunkFacts DEF ChunksAreAnswered
<1> QED
  BY <1>1, <1>2, <1>3 DEF ChunksAreAnswered, AskedOnce, AskedAfter, CallsKept

LEMMA ChunksKeptByAll ==
    ASSUME IInv, CallsKept, UNCHANGED <<dpc, chunk>>
    PROVE  ChunksAreAnswered'
  BY ChunksKept DEF ChunksAreAnswered, AskedOnce, AskedAfter

-----------------------------------------------------------------------------
LEMMA InitEstablishes == Init => IInv
<1> SUFFICES ASSUME Init PROVE IInv
  OBVIOUS
<1>1. PoolTypeOK
  <2>1. /\ used = 0 /\ 0 \in 0 .. MaxConnections /\ closed = FALSE
        /\ NoFailure \in Error
    BY PoolAssumption DEF Init, PoolInit, Error
  <2>2. /\ cpc \in [Call -> CallState] /\ wpc \in [Call -> [Worker -> WorkerState]]
        /\ res \in [Call -> [Worker -> {"nil", "all", "some"}]]
    BY DEF Init, PoolInit, CallState, WorkerState
  <2>3. /\ fail \in [Call -> [Worker -> Error]]
        /\ errType \in [Call -> Error] /\ errData \in [Call -> Error]
        /\ err \in [Call -> Error \cup {Torn}]
    BY <2>1 DEF Init, PoolInit
  <2> QED
    BY <2>1, <2>2, <2>3 DEF PoolTypeOK, CallState, WorkerState
<1>2. Holders = {} /\ HoldingWorkers = {}
  BY DEF Init, PoolInit, Holders, HoldingWorkers
<1>3. ConnectionsAccounted /\ IsFiniteSet(Holders) /\ IsFiniteSet(HoldingWorkers)
  BY <1>2, FS_EmptySet DEF Init, PoolInit, ConnectionsAccounted
<1>4. IdleHasNoWorkers /\ ErrorsAreKept /\ NoErrorMeansResults
  BY DEF Init, PoolInit, IdleHasNoWorkers, ErrorsAreKept, NoErrorMeansResults
<1>5. TypeOK
  <2>1. \A d \in Download : Len(ChunkCall[d]) \in Nat
    BY LifecycleAssumption
  <2> QED
    BY <1>1, <2>1 DEF Init, TypeOK
<1>6. DrainedStaysEmpty
  BY DEF Init, DrainedStaysEmpty
<1>7. ChunksAreAnswered
  BY DEF Init, ChunksAreAnswered
<1> QED
  BY <1>1, <1>3, <1>4, <1>5, <1>6, <1>7 DEF IInv, PoolInv

(* A client's request: the first server still listens.                     *)
LEMMA EndpointStep ==
    ASSUME IInv, NEW c \in Call,
           QueriesEndpoint(c) \/ DataAvailabilityEndpoint(c) \/ UsageEndpoint(c)
    PROVE  IInv'
<1> USE DEF IInv
<1>1. api = "serve" /\ UNCHANGED lifeVars
  BY DEF QueriesEndpoint, DataAvailabilityEndpoint, UsageEndpoint, Accepted, Listens
<1>2. \/ GetDataAvailability(c) \/ GetUsage(c)
      \/ \E n \in 0 .. MaxQueries : ExecuteQueries(c, n)
  BY DEF QueriesEndpoint, DataAvailabilityEndpoint, UsageEndpoint
<1>3. PoolInv'
  BY <1>2, ExecuteQueriesStep, StartStep
<1>4. CallsKept
  BY <1>2, StartKeeps
<1>5. ChunksAreAnswered'
  BY <1>1, <1>4, ChunksKeptByAll DEF lifeVars
<1>6. TypeOK'
  BY <1>1, <1>3 DEF TypeOK, PoolInv, lifeVars
<1>7. DrainedStaysEmpty'
  BY <1>1 DEF DrainedStaysEmpty, lifeVars
<1> QED
  BY <1>3, <1>5, <1>6, <1>7

LEMMA PoolGoesOn ==
    ASSUME IInv, PoolStep \/ ClosePool, UNCHANGED lifeVars
    PROVE  IInv'
<1> USE DEF IInv
<1>1. PoolInv'
  BY PoolStepPreserves, ClosePoolStep
<1>2. CallsKept /\ \A c \in Call : cpc[c] = "idle" => cpc'[c] = "idle"
  BY PoolStepKeeps DEF ClosePool, CallsKept
<1>3. ChunksAreAnswered'
  BY <1>2, ChunksKeptByAll DEF lifeVars
<1>4. TypeOK'
  BY <1>1 DEF TypeOK, PoolInv, lifeVars
<1>5. \A c \in Call : ~ InProgress(c) => ~ InProgress(c)'
  BY <1>2 DEF CallsKept, InProgress
<1>6. DrainedStaysEmpty'
  BY <1>5 DEF DrainedStaysEmpty, Downloading, lifeVars
<1> QED
  BY <1>1, <1>3, <1>4, <1>6

(* A download that only changes where it stands, and starts only while its *)
(* server listens.                                                         *)
LEMMA DownloadMoves ==
    ASSUME IInv, NEW d \in Download, NEW to \in {"chunk", "done", "aborted"},
           dpc' = [dpc EXCEPT ![d] = to], UNCHANGED <<poolVars, process, api, chunk>>,
           NEW server \in {"main", "other"}, on' = [on EXCEPT ![d] = server],
           ~ Downloading(d) /\ to = "chunk" => Listens(server),
           Downloading(d) => server = on[d],
           to = "done" => chunk[d] = Len(ChunkCall[d]) + 1
    PROVE  IInv'
<1> USE DEF IInv
<1>1. PoolInv'
  BY PoolUnchanged
<1>2. TypeOK'
  BY <1>1 DEF TypeOK, PoolInv
<1>3. CallsKept
  BY NothingAskedKeeps
<1>4. ChunksAreAnswered'
  BY <1>3, ChunksKept DEF ChunksAreAnswered, AskedOnce, AskedAfter, TypeOK
<1>5. DrainedStaysEmpty'
  BY DEF DrainedStaysEmpty, Downloading, InProgress, Listens, TypeOK, poolVars
<1> QED
  BY <1>1, <1>2, <1>4, <1>5

LEMMA AskChunkStep == ASSUME IInv, NEW d \in Download, AskChunk(d) PROVE IInv'
<1> USE DEF IInv
<1> DEFINE c == ChunkCall[d][chunk[d]]
<1>1. /\ dpc[d] = "chunk" /\ chunk[d] <= Len(ChunkCall[d]) /\ api = "serve"
      /\ ExecuteQueries(c, 1)
      /\ dpc' = [dpc EXCEPT ![d] = "asking"] /\ UNCHANGED <<process, api, on, chunk>>
  BY DEF AskChunk, HasChunk, Listens
<1>2. c \in Call /\ 1 \in 0 .. MaxQueries /\ 1 \in Worker
  BY <1>1, ChunkFacts, PoolAssumption DEF Worker
<1>3. PoolInv' /\ CallsKept
  BY <1>1, <1>2, ExecuteQueriesStep, StartKeeps
<1>4. TypeOK'
  BY <1>1, <1>3 DEF TypeOK, PoolInv
<1>5. AskedAfter(c)
  BY <1>1, <1>2 DEF ExecuteQueries, CallGoto, AskedAfter, PoolInv, PoolTypeOK
<1>6. ChunksAreAnswered'
  BY <1>1, <1>3, <1>5, ChunksKept DEF ChunksAreAnswered, AskedOnce, AskedAfter, TypeOK
<1>7. DrainedStaysEmpty'
  BY <1>1 DEF DrainedStaysEmpty
<1> QED
  BY <1>3, <1>4, <1>6, <1>7

(* Status 200: one more chunk is behind the download.                      *)
LEMMA ChunkAnsweredStep == ASSUME IInv, NEW d \in Download, ChunkAnswered(d) PROVE IInv'
<1> USE DEF IInv
<1> DEFINE c == ChunkCall[d][chunk[d]]
<1>1. /\ dpc[d] = "asking" /\ cpc[c] = "returned"
      /\ UNCHANGED <<poolVars, process, api, on>>
  BY DEF ChunkAnswered
<1>2. CASE err[c] = NoFailure
  <2>1. /\ dpc' = [dpc EXCEPT ![d] = "chunk"] /\ chunk' = [chunk EXCEPT ![d] = @ + 1]
    BY <1>2 DEF ChunkAnswered
  <2>2. chunk[d] <= Len(ChunkCall[d]) /\ AskedOnce(c) /\ chunk[d] \in Nat \ {0}
        /\ Len(ChunkCall[d]) \in Nat
    BY <1>1, ChunkFacts DEF ChunksAreAnswered
  <2>3. PoolInv'
    BY <1>1, PoolUnchanged
  <2>4. TypeOK'
    BY <1>1, <2>1, <2>2, <2>3 DEF TypeOK, PoolInv
  <2>5. CallsKept
    BY <1>1, NothingAskedKeeps
  <2>6. AskedAfter(c) /\ cpc'[c] = "returned" /\ err'[c] = NoFailure
    BY <1>1, <1>2, <2>2 DEF AskedOnce, AskedAfter, poolVars
  <2>7. \A k \in 1 .. chunk'[d] - 1 : k \in 1 .. chunk[d] - 1 \/ k = chunk[d]
    BY <2>1, <2>2 DEF TypeOK
  <2>8. \A k \in 1 .. chunk'[d] - 1 :
            LET x == ChunkCall[d][k]
            IN  AskedAfter(x) /\ cpc'[x] = "returned" /\ err'[x] = NoFailure
    BY <2>5, <2>6, <2>7, ChunksKept
  <2>9. ChunksAreAnswered'
    <3> SUFFICES ASSUME NEW e \in Download
                 PROVE  /\ \A k \in 1 .. chunk'[e] - 1 :
                            LET x == ChunkCall[e][k]
                            IN  AskedAfter(x) /\ cpc'[x] = "returned" /\ err'[x] = NoFailure
                        /\ dpc'[e] = "asking" => chunk'[e] <= Len(ChunkCall[e])
                                                 /\ AskedAfter(ChunkCall[e][chunk'[e]])
                        /\ dpc'[e] = "done" => chunk'[e] = Len(ChunkCall[e]) + 1
      BY DEF ChunksAreAnswered, AskedOnce, AskedAfter
    <3>1. CASE e = d
      BY <2>1, <2>8, <3>1 DEF TypeOK
    <3>2. CASE e # d
      <4>1. chunk'[e] = chunk[e] /\ dpc'[e] = dpc[e]
        BY <2>1, <3>2 DEF TypeOK
      <4> QED
        BY <2>5, <4>1, ChunksKept
    <3> QED
      BY <3>1, <3>2
  <2>10. DrainedStaysEmpty'
    BY <1>1, <2>1 DEF DrainedStaysEmpty, Downloading, InProgress, TypeOK, poolVars
  <2> QED
    BY <2>3, <2>4, <2>9, <2>10
<1>3. CASE err[c] # NoFailure
  <2>1. /\ dpc' = [dpc EXCEPT ![d] = "aborted"] /\ UNCHANGED chunk
    BY <1>3 DEF ChunkAnswered
  <2>2. on' = [on EXCEPT ![d] = on[d]] /\ on[d] \in {"main", "other"}
    BY <1>1 DEF TypeOK
  <2> QED
    BY <1>1, <2>1, <2>2, DownloadMoves
<1> QED
  BY <1>2, <1>3

LEMMA DownloadStep ==
    ASSUME IInv, NEW d \in Download,
           \/ ClientDownload(d) \/ ChunkRefused(d) \/ ChunkTimesOut(d) \/ FinishDownload(d)
    PROVE  IInv'
<1> USE DEF IInv
<1>1. CASE ClientDownload(d)
  BY <1>1, DownloadMoves DEF ClientDownload, Downloading
<1>2. on = [on EXCEPT ![d] = on[d]] /\ on[d] \in {"main", "other"}
  BY DEF TypeOK
<1>3. CASE ChunkRefused(d) \/ ChunkTimesOut(d)
  BY <1>2, <1>3, DownloadMoves DEF ChunkRefused, ChunkTimesOut
<1>4. CASE FinishDownload(d)
  <2>1. chunk[d] = Len(ChunkCall[d]) + 1
    BY <1>4, ChunkFacts DEF FinishDownload, TypeOK
  <2> QED
    BY <1>2, <1>4, <2>1, DownloadMoves DEF FinishDownload, Downloading
<1> QED
  BY <1>1, <1>3, <1>4

(* Main and the servers: each drains before the next is told to stop.      *)
LEMMA ProcessStep ==
    ASSUME IInv, \/ Notify \/ Signal \/ Shutdown \/ MainDrained \/ OtherDrained \/ Exit
    PROVE  IInv'
<1> USE DEF IInv
<1>1. UNCHANGED <<poolVars, dpc, on, chunk>>
  BY DEF Notify, Signal, Shutdown, MainDrained, OtherDrained, Exit
<1>2. PoolInv'
  BY <1>1, PoolUnchanged
<1>3. TypeOK'
  BY <1>1, <1>2 DEF TypeOK, PoolInv, Notify, Signal, Shutdown, MainDrained, OtherDrained, Exit
<1>4. ChunksAreAnswered'
  BY <1>1, NothingAskedKeeps, ChunksKeptByAll
<1>5. DrainedStaysEmpty'
  BY <1>1 DEF DrainedStaysEmpty, Downloading, InProgress, poolVars, TypeOK,
              Notify, Signal, Shutdown, MainDrained, OtherDrained, Exit
<1> QED
  BY <1>2, <1>3, <1>4, <1>5

LEMMA NextPreserves == IInv /\ [Next]_vars => IInv'
<1> SUFFICES ASSUME IInv, [Next]_vars PROVE IInv'
  OBVIOUS
<1>1. CASE \E c \in Call : QueriesEndpoint(c) \/ DataAvailabilityEndpoint(c) \/ UsageEndpoint(c)
  BY <1>1, EndpointStep
<1>2. CASE \E d \in Download : ClientDownload(d) \/ (Alive /\ (DownloadEnds(d) \/ ChunkTimesOut(d)))
  BY <1>2, DownloadStep, AskChunkStep, ChunkAnsweredStep DEF DownloadEnds
<1>3. CASE Alive /\ PoolStep /\ UNCHANGED lifeVars
  BY <1>3, PoolGoesOn
<1>4. CASE Notify \/ Signal \/ Stop
  BY <1>4, ProcessStep, PoolGoesOn DEF Stop, PoolClosed
<1>5. CASE UNCHANGED vars
  <2> USE DEF IInv
  <2>1. UNCHANGED poolVars /\ UNCHANGED lifeVars
    BY <1>5 DEF vars
  <2>2. PoolInv' /\ ChunksAreAnswered'
    BY <2>1, PoolUnchanged, NothingAskedKeeps, ChunksKeptByAll DEF lifeVars
  <2>3. TypeOK' /\ DrainedStaysEmpty'
    BY <2>1, <2>2 DEF TypeOK, PoolInv, DrainedStaysEmpty, Downloading, InProgress,
                      lifeVars, poolVars
  <2> QED
    BY <2>2, <2>3
<1> QED
  BY <1>1, <1>2, <1>3, <1>4, <1>5 DEF Next

(* The inductive invariant of pool, servers and downloads together.        *)
THEOREM Invariance == Spec => []IInv
<1> QED
  BY InitEstablishes, NextPreserves, PTL DEF Spec

(* No path of ExecuteQueries, GetDataAvailability or a single query leaks  *)
(* a connection, with any number of them and while the pool is closed.     *)
THEOREM NoConnectionLeaks == Spec => []ConnectionsAccounted
<1>1. IInv => ConnectionsAccounted
  BY DEF IInv, PoolInv
<1> QED
  BY <1>1, Invariance, PTL

(* The race on the shared error loses no failure: a call that reports none *)
(* has a result of each of its goroutines.                                 *)
THEOREM SuccessHasResults == Spec => []NoErrorMeansResults
<1>1. IInv => NoErrorMeansResults
  BY DEF IInv, PoolInv
<1> QED
  BY <1>1, Invariance, PTL

(* When the process exits nobody it accepted waits for an answer.          *)
THEOREM ExitIsGraceful == Spec => []AnsweredBeforeExit
<1>1. IInv => AnsweredBeforeExit
  BY DEF IInv, TypeOK, DrainedStaysEmpty, AnsweredBeforeExit, Downloading
<1> QED
  BY <1>1, Invariance, PTL

(* A download that is not cut off has all its chunks, although the pool    *)
(* and the server it asks are closed under it.                             *)
THEOREM FinishedDownloadsAreWhole == Spec => []DownloadsAreWhole
<1>1. IInv => DownloadsAreWhole
  <2> SUFFICES ASSUME IInv, NEW d \in Download, dpc[d] = "done", NEW k \in DOMAIN ChunkCall[d]
               PROVE  cpc[ChunkCall[d][k]] = "returned" /\ res[ChunkCall[d][k]][1] # "nil"
    BY DEF DownloadsAreWhole
  <2>1. TypeOK /\ PoolInv /\ ChunksAreAnswered
    BY DEF IInv
  <2>2. k \in 1 .. chunk[d] - 1 /\ ChunkCall[d][k] \in Call
    BY <2>1, ChunkFacts DEF ChunksAreAnswered
  <2>3. /\ cpc[ChunkCall[d][k]] = "returned" /\ err[ChunkCall[d][k]] = NoFailure
        /\ wpc[ChunkCall[d][k]][1] # "unused"
    BY <2>1, <2>2 DEF ChunksAreAnswered, AskedOnce
  <2>4. 1 \in Worker
    BY PoolAssumption DEF Worker
  <2> QED
    BY <2>1, <2>2, <2>3, <2>4 DEF PoolInv, NoErrorMeansResults
<1> QED
  BY <1>1, Invariance, PTL
=============================================================================
