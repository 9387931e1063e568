--------------------------- MODULE Queries_proofs ---------------------------
(***************************************************************************)
(* Proofs about POST /queries: what is asked, for every set of sources and *)
(* owners and every length of a request (Queries), and what is answered,   *)
(* for every query, table and rows (ResponseFormat, with SeriesFormat,     *)
(* QueryWindow and TableFormat in it).                                     *)
(***************************************************************************)
EXTENDS Queries, ResponseFormat, TLAPS, FiniteSetTheorems, SequenceTheorems, WellFoundedInduction

LEMMA RequestFacts ==
    /\ <<>> \in Requests(MaxElements)
    /\ \A es \in Requests(MaxElements) :
        DOMAIN es \subseteq Index /\ \A i \in DOMAIN es : es[i] \in Source
<1>1. <<>> \in [1 .. 0 -> Source]
  OBVIOUS
<1>2. <<>> \in Requests(MaxElements)
  BY <1>1, QueriesAssumption DEF Requests
<1>3. ASSUME NEW es \in Requests(MaxElements)
      PROVE  DOMAIN es \subseteq Index /\ \A i \in DOMAIN es : es[i] \in Source
  <2>1. PICK n \in 0 .. MaxElements : es \in [1 .. n -> Source]
    BY DEF Requests
  <2> QED
    BY <2>1, QueriesAssumption DEF Index
<1> QED
  BY <1>2, <1>3

(* The same for the rows of a response.                                    *)
LEMMA ResponseFacts ==
    /\ <<>> \in UNION {[1 .. n -> Rows \cup {Nil}] : n \in 0 .. MaxElements}
    /\ \A es \in Requests(MaxElements), r \in [Index -> Rows \cup {Nil}] :
        [i \in DOMAIN es |-> r[i]] \in UNION {[1 .. n -> Rows \cup {Nil}] : n \in 0 .. MaxElements}
<1>1. <<>> \in [1 .. 0 -> Rows \cup {Nil}]
  OBVIOUS
<1>2. ASSUME NEW es \in Requests(MaxElements), NEW r \in [Index -> Rows \cup {Nil}]
      PROVE  [i \in DOMAIN es |-> r[i]] \in UNION {[1 .. n -> Rows \cup {Nil}] : n \in 0 .. MaxElements}
  <2>1. PICK n \in 0 .. MaxElements : es \in [1 .. n -> Source]
    BY DEF Requests
  <2>2. [i \in DOMAIN es |-> r[i]] \in [1 .. n -> Rows \cup {Nil}]
    BY <2>1, QueriesAssumption DEF Index
  <2> QED
    BY <2>2
<1> QED
  BY <1>1, <1>2, QueriesAssumption

LEMMA DataFacts ==
    /\ \A s \in Source : CachedRow(s) \in Rows /\ DbRows(s) \in Rows
    /\ \A s \in Source : DbRows(s) # Nil /\ CachedRow(s) # Nil
    /\ \A s \in Source, o \in User \cup {NoUser}, f \in BOOLEAN : tableName(s, o, f) \in Table
    /\ \A s \in Source, f \in BOOLEAN :
            tableName(s, OwnerOf[s], f) \in Table /\ IsOwnTable(tableName(s, OwnerOf[s], f), s)
    /\ \A c \in DbErrorCode : GetStatusCode(c) \in FailureStatus
  BY QueryDataAssumption
  DEF CachedRow, DbRows, Rows, Nil, IsOwnTable, Table, tableName, DbErrorCode, GetStatusCode, FailureStatus

LEMMA ExecFacts ==
    ASSUME NEW q \in Seq(Table)
    PROVE  /\ ExecErrors(q) \subseteq DbErrorCode
           /\ ExecData(q) \in Seq(Rows)
           /\ DOMAIN ExecData(q) = DOMAIN q
<1>1. DOMAIN q = 1 .. Len(q) /\ Len(q) \in Nat
  OBVIOUS
<1>2. ASSUME NEW k \in DOMAIN q PROVE DbRows(q[k].source) \in Rows
  <2>1. q[k] \in Table
    BY <1>1
  <2>2. q[k].source \in Source
    BY <2>1 DEF Table
  <2> QED
    BY <2>2, DataFacts
<1>3. ExecData(q) \in [1 .. Len(q) -> Rows]
  BY <1>1, <1>2 DEF ExecData
<1>4. ExecErrors(q) \subseteq DbErrorCode
  BY DEF ExecErrors, DbErrorCode
<1> QED
  BY <1>1, <1>3, <1>4

-----------------------------------------------------------------------------
LEMMA InvInit == Init => IInv
<1> SUFFICES ASSUME Init PROVE IInv
  OBVIOUS
<1>1. TypeOK
  BY RequestFacts, ResponseFacts
  DEF Init, TypeOK, Pc, GoroutineState, Table, Rows, FailureStatus, NoRequest
<1> QED
  BY <1>1 DEF Init, IInv, GoroutinesMatchRequest, FreshUntilVerified, DbListsMatch, HitXorAsked,
              AllDoneAfterCache, QueriesMatch, MergedIsComplete, OpenWhileWorking,
              ResponseOnlyAfter, NoRequest, Pending

(* A handler that gives up only writes its status.                         *)
LEMMA FailStep ==
    ASSUME IInv, NEW code \in FailureStatus, Fail(code)
    PROVE  IInv'
  BY DEF Fail, IInv, TypeOK, Pc, GoroutinesMatchRequest, FreshUntilVerified, DbListsMatch,
         HitXorAsked, Asked, AllDoneAfterCache, QueriesMatch, MergedIsComplete,
         OpenWhileWorking, ResponseOnlyAfter, FailureStatus, Pending

LEMMA ReceiveStep ==
    ASSUME IInv, NEW es \in Requests(MaxElements), Receive(es)
    PROVE  IInv'
<1>1. /\ pc' = "verify" /\ req' = es /\ status' = Pending /\ response' = <<>>
      /\ ownerUserIds' = [i \in Index |-> NoUser] /\ gpc' = [i \in Index |-> "unused"]
      /\ raw' = [i \in Index |-> Nil]
      /\ dbRequestElements' = <<>> /\ dbRequestIndices' = <<>>
      /\ queries' = <<>> /\ data' = <<>>
  BY DEF Receive
<1>2. TypeOK'
  BY <1>1, ResponseFacts DEF TypeOK, Pc, GoroutineState
<1>3. GoroutinesMatchRequest' /\ FreshUntilVerified' /\ DbListsMatch' /\ HitXorAsked'
  BY <1>1 DEF GoroutinesMatchRequest, FreshUntilVerified, DbListsMatch, HitXorAsked
<1>4. /\ AllDoneAfterCache' /\ QueriesMatch' /\ MergedIsComplete'
      /\ OpenWhileWorking' /\ ResponseOnlyAfter'
  BY <1>1 DEF AllDoneAfterCache, QueriesMatch, MergedIsComplete, OpenWhileWorking, ResponseOnlyAfter
<1> QED
  BY <1>2, <1>3, <1>4 DEF IInv

LEMMA VerifyGrantsStep == IInv /\ VerifyGrants => IInv'
<1> SUFFICES ASSUME IInv, VerifyGrants PROVE IInv'
  OBVIOUS
<1> USE DEF IInv
<1>1. \A i \in DOMAIN req : i \in Index /\ req[i] \in Source /\ OwnerOf[req[i]] \in User \cup {NoUser}
  BY RequestFacts, QueryDataAssumption DEF TypeOK
<1>2. TypeOK'
  BY <1>1 DEF VerifyGrants, TypeOK, Pc, GoroutineState
<1>3. GoroutinesMatchRequest'
  BY <1>1 DEF VerifyGrants, GoroutinesMatchRequest
<1>4. FreshUntilVerified' /\ DbListsMatch'
  BY DEF VerifyGrants, FreshUntilVerified, DbListsMatch
<1>5. HitXorAsked'
  BY <1>1 DEF VerifyGrants, FreshUntilVerified, HitXorAsked
<1>6. /\ AllDoneAfterCache' /\ QueriesMatch' /\ MergedIsComplete'
      /\ OpenWhileWorking' /\ ResponseOnlyAfter'
  BY DEF VerifyGrants, FreshUntilVerified, AllDoneAfterCache, QueriesMatch, MergedIsComplete,
         OpenWhileWorking, ResponseOnlyAfter
<1> QED
  BY <1>2, <1>3, <1>4, <1>5, <1>6

(* Nothing but the cache goroutine of element i moves.                     *)
LEMMA CacheHitStep == ASSUME IInv, NEW i \in Index, CacheHit(i) PROVE IInv'
<1> USE DEF IInv
<1>1. i \in DOMAIN req /\ req[i] \in Source /\ pc = "cache"
  BY RequestFacts DEF CacheHit, GoroutinesMatchRequest, TypeOK
<1>2. TypeOK'
  BY <1>1, DataFacts DEF CacheHit, TypeOK, GoroutineState
<1>3. GoroutinesMatchRequest' /\ FreshUntilVerified'
  BY <1>1 DEF CacheHit, GoroutinesMatchRequest, FreshUntilVerified, TypeOK
<1>4. DbListsMatch'
  BY DEF CacheHit, DbListsMatch, TypeOK
<1>5. Asked(i) = {}
  BY <1>1 DEF CacheHit, DbListsMatch, Asked
<1>6. HitXorAsked'
  BY <1>1, <1>5 DEF CacheHit, HitXorAsked, Asked, TypeOK
<1>7. /\ AllDoneAfterCache' /\ QueriesMatch' /\ MergedIsComplete'
      /\ OpenWhileWorking' /\ ResponseOnlyAfter'
  BY <1>1 DEF CacheHit, AllDoneAfterCache, QueriesMatch, MergedIsComplete, OpenWhileWorking,
              ResponseOnlyAfter
<1> QED
  BY <1>2, <1>3, <1>4, <1>6, <1>7

LEMMA CacheMissStep == ASSUME IInv, NEW i \in Index, CacheMiss(i) PROVE IInv'
<1> USE DEF IInv
<1>1. pc = "cache" /\ pc' = pc /\ gpc[i] = "lookup"
  BY DEF CacheMiss
<1>2. TypeOK'
  BY DEF CacheMiss, TypeOK, GoroutineState
<1>3. GoroutinesMatchRequest' /\ FreshUntilVerified'
  BY <1>1 DEF CacheMiss, GoroutinesMatchRequest, FreshUntilVerified, TypeOK
<1>4. DbListsMatch'
  BY DEF CacheMiss, DbListsMatch, TypeOK
<1>5. HitXorAsked'
  BY <1>1 DEF CacheMiss, HitXorAsked, Asked, TypeOK
<1>6. /\ AllDoneAfterCache' /\ QueriesMatch' /\ MergedIsComplete'
      /\ OpenWhileWorking' /\ ResponseOnlyAfter'
  BY <1>1 DEF CacheMiss, AllDoneAfterCache, QueriesMatch, MergedIsComplete, OpenWhileWorking,
              ResponseOnlyAfter
<1> QED
  BY <1>2, <1>3, <1>4, <1>5, <1>6

(* The process ends, and is started anew: only pc and status change.       *)
LEMMA CrashStep ==
    ASSUME IInv, (\E i \in Index : CachePanics(i)) \/ Restart
    PROVE  IInv'
<1> USE DEF IInv
<1>1. /\ pc' \in {"crashed", "idle"}
      /\ pc' = "idle" <=> status' = NoRequest
      /\ pc' # "idle" => status' = Pending /\ response = <<>>
      /\ UNCHANGED <<req, ownerUserIds, gpc, raw, dbRequestElements, dbRequestIndices,
                     queries, data, response>>
      /\ pc # "idle" /\ pc # "verify"
      /\ status' \in {NoRequest, Pending}
  BY DEF CachePanics, Restart, OpenWhileWorking, ResponseOnlyAfter, NoRequest, Pending
<1>2. TypeOK'
  <2>1. pc' \in Pc /\ status' \in {NoRequest, Pending, 200} \cup FailureStatus
    BY <1>1 DEF Pc
  <2>2. TypeOK
    OBVIOUS
  <2> QED
    BY <1>1, <2>1, <2>2 DEF TypeOK
<1>3. GoroutinesMatchRequest' /\ FreshUntilVerified'
  BY <1>1 DEF GoroutinesMatchRequest, FreshUntilVerified
<1>4. DbListsMatch' /\ HitXorAsked'
  BY <1>1 DEF DbListsMatch, HitXorAsked, Asked
<1>5. AllDoneAfterCache' /\ QueriesMatch' /\ MergedIsComplete'
  BY <1>1 DEF AllDoneAfterCache, QueriesMatch, MergedIsComplete
<1>6. OpenWhileWorking' /\ ResponseOnlyAfter'
  BY <1>1 DEF OpenWhileWorking, ResponseOnlyAfter, NoRequest, Pending
<1> QED
  BY <1>2, <1>3, <1>4, <1>5, <1>6

LEMMA AppendStep == ASSUME IInv, NEW i \in Index, Append2DbRequest(i) PROVE IInv'
<1> USE DEF IInv
<1>1. /\ pc = "cache" /\ gpc[i] = "lock" /\ i \in DOMAIN req /\ req[i] \in Source
      /\ gpc' = [gpc EXCEPT ![i] = "done"]
  BY RequestFacts DEF Append2DbRequest, GoroutinesMatchRequest, TypeOK
<1> DEFINE n == Len(dbRequestIndices)
<1>2. /\ n \in Nat /\ DOMAIN dbRequestIndices = 1 .. n /\ Len(dbRequestElements) = n
      /\ dbRequestIndices \in Seq(Index) /\ dbRequestElements \in Seq(Source)
  BY DEF DbListsMatch, TypeOK
<1>3. /\ dbRequestIndices' = Append(dbRequestIndices, i)
      /\ dbRequestElements' = Append(dbRequestElements, req[i])
  BY DEF Append2DbRequest
<1>4. /\ DOMAIN dbRequestIndices' = 1 .. n + 1 /\ DOMAIN dbRequestElements' = 1 .. n + 1
      /\ dbRequestIndices'[n + 1] = i /\ dbRequestElements'[n + 1] = req[i]
      /\ \A k \in 1 .. n : /\ dbRequestIndices'[k] = dbRequestIndices[k]
                           /\ dbRequestElements'[k] = dbRequestElements[k]
  BY <1>2, <1>3
<1> HIDE DEF n
<1>5. TypeOK'
  BY <1>1, <1>2, <1>3 DEF Append2DbRequest, TypeOK, GoroutineState
<1>6. GoroutinesMatchRequest' /\ FreshUntilVerified'
  BY <1>1 DEF Append2DbRequest, GoroutinesMatchRequest, FreshUntilVerified, TypeOK
<1>7. \A k \in 1 .. n : dbRequestIndices[k] # i /\ dbRequestIndices[k] \in Index
  <2>1. \A k \in 1 .. n : gpc[dbRequestIndices[k]] = "done"
    BY <1>2 DEF DbListsMatch
  <2>2. \A k \in 1 .. n : dbRequestIndices[k] \in Index
    BY <1>2
  <2> QED
    BY <1>1, <2>1, <2>2
<1>8. DbListsMatch'
  <2>1. \A k \in 1 .. n : /\ dbRequestIndices[k] \in DOMAIN req
                         /\ gpc[dbRequestIndices[k]] = "done"
                         /\ dbRequestElements[k] = req[dbRequestIndices[k]]
    BY <1>2 DEF DbListsMatch
  <2>2. \A k, l \in 1 .. n : dbRequestIndices[k] = dbRequestIndices[l] => k = l
    BY <1>2 DEF DbListsMatch
  <2>3. req' = req /\ gpc'[i] = "done" /\ \A j \in Index \ {i} : gpc'[j] = gpc[j]
    BY <1>1 DEF Append2DbRequest, TypeOK
  <2>4. 1 .. n + 1 = (1 .. n) \cup {n + 1} /\ n + 1 \notin 1 .. n
    BY <1>2
  <2>5. ASSUME NEW k \in 1 .. n + 1
        PROVE  /\ dbRequestIndices'[k] \in DOMAIN req'
               /\ gpc'[dbRequestIndices'[k]] = "done"
               /\ dbRequestElements'[k] = req'[dbRequestIndices'[k]]
    BY <1>1, <1>4, <1>7, <2>1, <2>3, <2>4
  <2>6. ASSUME NEW k \in 1 .. n + 1, NEW l \in 1 .. n + 1,
               dbRequestIndices'[k] = dbRequestIndices'[l]
        PROVE  k = l
    BY <1>4, <1>7, <2>2, <2>4, <2>6
  <2> QED
    BY <1>4, <2>5, <2>6 DEF DbListsMatch
<1>9. HitXorAsked'
  <2>1. Asked(i)' # {}
    BY <1>2, <1>4 DEF Asked
  <2>2. \A j \in Index \ {i} : Asked(j)' = Asked(j)
    BY <1>2, <1>4 DEF Asked
  <2> QED
    BY <1>1, <2>1, <2>2, RequestFacts DEF Append2DbRequest, HitXorAsked, TypeOK
<1>10. /\ AllDoneAfterCache' /\ QueriesMatch' /\ MergedIsComplete'
       /\ OpenWhileWorking' /\ ResponseOnlyAfter'
  BY <1>1 DEF Append2DbRequest, AllDoneAfterCache, QueriesMatch, FreshUntilVerified,
              MergedIsComplete, OpenWhileWorking, ResponseOnlyAfter
<1> QED
  BY <1>5, <1>6, <1>8, <1>9, <1>10

LEMMA CacheDoneStep == IInv /\ CacheDone => IInv'
<1> SUFFICES ASSUME IInv, CacheDone PROVE IInv'
  OBVIOUS
<1> USE DEF IInv
<1>1. TypeOK' /\ GoroutinesMatchRequest' /\ FreshUntilVerified' /\ DbListsMatch'
  BY DEF CacheDone, TypeOK, Pc, GoroutinesMatchRequest, FreshUntilVerified, DbListsMatch
<1>2. HitXorAsked'
  BY DEF CacheDone, HitXorAsked, Asked
<1>3. AllDoneAfterCache'
  BY RequestFacts DEF CacheDone, AllDoneAfterCache, GoroutinesMatchRequest, TypeOK
<1>4. QueriesMatch' /\ MergedIsComplete' /\ OpenWhileWorking' /\ ResponseOnlyAfter'
  BY DEF CacheDone, FreshUntilVerified, QueriesMatch, MergedIsComplete, OpenWhileWorking,
         ResponseOnlyAfter
<1> QED
  BY <1>1, <1>2, <1>3, <1>4

(* The owners handed to tableName are those of the elements it names.      *)
LEMMA OwnersForDbMatch ==
    ASSUME IInv, pc = "generate", NEW k \in DOMAIN dbRequestElements
    PROVE  /\ dbRequestElements[k] \in Source
           /\ OwnersForDb[k] = OwnerOf[dbRequestElements[k]]
<1>1. /\ k \in DOMAIN dbRequestIndices /\ dbRequestIndices[k] \in DOMAIN req
      /\ dbRequestElements[k] = req[dbRequestIndices[k]]
  BY DEF IInv, DbListsMatch
<1>2. req[dbRequestIndices[k]] \in Source /\ dbRequestIndices[k] \in Index
  BY <1>1, RequestFacts DEF IInv, TypeOK
<1>3. ownerUserIds[dbRequestIndices[k]] = OwnerOf[req[dbRequestIndices[k]]]
  BY <1>1, <1>2 DEF IInv, GoroutinesMatchRequest
<1> QED
  BY <1>1, <1>2, <1>3 DEF OwnersForDb

LEMMA GenerateStep == IInv /\ GenerateQueries => IInv'
<1> SUFFICES ASSUME IInv, GenerateQueries PROVE IInv'
  OBVIOUS
<1> USE DEF IInv
<1> DEFINE n == Len(dbRequestElements)
<1>1. n \in Nat /\ DOMAIN dbRequestElements = 1 .. n
  BY DEF TypeOK
<1>2. /\ DOMAIN queries' = 1 .. n
      /\ queries' = [k \in 1 .. n |-> queries'[k]]
      /\ \A k \in 1 .. n :
            queries'[k] \in Table /\ IsOwnTable(queries'[k], dbRequestElements[k])
  <2>1. PICK found \in [1 .. n -> BOOLEAN] :
            queries' = [k \in 1 .. n |-> tableName(dbRequestElements[k], OwnersForDb[k], found[k])]
    BY <1>1 DEF GenerateQueries
  <2>2. ASSUME NEW k \in 1 .. n
        PROVE  queries'[k] \in Table /\ IsOwnTable(queries'[k], dbRequestElements[k])
    <3>1. /\ dbRequestElements[k] \in Source
          /\ OwnersForDb[k] = OwnerOf[dbRequestElements[k]]
      BY <1>1, OwnersForDbMatch DEF GenerateQueries
    <3>2. queries'[k] = tableName(dbRequestElements[k], OwnerOf[dbRequestElements[k]], found[k])
      BY <2>1, <3>1
    <3> QED
      BY <3>1, <3>2, DataFacts
  <2> QED
    BY <2>1, <2>2
<1>3. queries' \in Seq(Table)
  <2>1. queries' \in [1 .. n -> Table]
    BY <1>2
  <2> QED
    BY <1>1, <2>1
<1> HIDE DEF n
<1>4. TypeOK'
  BY <1>3 DEF GenerateQueries, TypeOK, Pc
<1>5. GoroutinesMatchRequest' /\ FreshUntilVerified' /\ DbListsMatch' /\ HitXorAsked'
  BY DEF GenerateQueries, GoroutinesMatchRequest, FreshUntilVerified, DbListsMatch,
         HitXorAsked, Asked
<1>6. QueriesMatch'
  BY <1>1, <1>2 DEF GenerateQueries, QueriesMatch
<1>7. AllDoneAfterCache' /\ MergedIsComplete' /\ OpenWhileWorking' /\ ResponseOnlyAfter'
  BY DEF GenerateQueries, AllDoneAfterCache, MergedIsComplete, OpenWhileWorking, ResponseOnlyAfter
<1> QED
  BY <1>4, <1>5, <1>6, <1>7

LEMMA ExecuteStep == IInv /\ ExecuteQueries => IInv'
<1> SUFFICES ASSUME IInv, ExecuteQueries PROVE IInv'
  OBVIOUS
<1> USE DEF IInv
<1>1. data' = ExecData(queries) /\ data' \in Seq(Rows)
  BY ExecFacts DEF ExecuteQueries, TypeOK
<1>2. TypeOK'
  BY <1>1 DEF ExecuteQueries, TypeOK, Pc
<1>3. GoroutinesMatchRequest' /\ FreshUntilVerified' /\ DbListsMatch' /\ HitXorAsked'
  BY DEF ExecuteQueries, GoroutinesMatchRequest, FreshUntilVerified, DbListsMatch,
         HitXorAsked, Asked
<1>4. QueriesMatch'
  BY <1>1 DEF ExecuteQueries, QueriesMatch, ExecData
<1>5. AllDoneAfterCache' /\ MergedIsComplete' /\ OpenWhileWorking' /\ ResponseOnlyAfter'
  BY DEF ExecuteQueries, AllDoneAfterCache, MergedIsComplete, OpenWhileWorking, ResponseOnlyAfter
<1> QED
  BY <1>2, <1>3, <1>4, <1>5

LEMMA MergeStep == IInv /\ Merge => IInv'
<1> SUFFICES ASSUME IInv, Merge PROVE IInv'
  OBVIOUS
<1> USE DEF IInv
<1>1. /\ DOMAIN data = DOMAIN dbRequestIndices
      /\ \A k \in DOMAIN data : data[k] = DbRows(dbRequestElements[k])
  BY DEF Merge, QueriesMatch, DbListsMatch, IsOwnTable
<1>2. \A k \in DOMAIN data : data[k] \in Rows
  BY <1>1, DataFacts DEF Merge, TypeOK
<1>3. raw' \in [Index -> Rows \cup {Nil}]
  BY <1>2 DEF Merge, TypeOK
<1>4. TypeOK'
  BY <1>3 DEF Merge, TypeOK, Pc
<1>5. MergedIsComplete'
  <2>1. ASSUME NEW i \in DOMAIN req
        PROVE  raw'[i] \in RowsFor(req[i])
    <3>1. i \in Index
      BY RequestFacts DEF TypeOK
    <3>2. CASE Asked(i) = {}
      <4>1. raw[i] = CachedRow(req[i]) /\ req[i] \in Cachable
        BY <3>2 DEF Merge, HitXorAsked, AllDoneAfterCache
      <4>2. raw'[i] = raw[i]
        BY <1>1, <3>1, <3>2 DEF Merge, Asked
      <4> QED
        BY <4>1, <4>2 DEF RowsFor
    <3>3. CASE Asked(i) # {}
      <4>1. PICK k \in DOMAIN data :
                /\ k = CHOOSE l \in DOMAIN data : dbRequestIndices[l] = i
                /\ dbRequestIndices[k] = i
        BY <1>1, <3>3 DEF Asked
      <4>2. raw'[i] = data[k]
        BY <3>1, <4>1 DEF Merge
      <4>3. data[k] = DbRows(req[i])
        BY <1>1, <4>1 DEF DbListsMatch
      <4> QED
        BY <4>2, <4>3 DEF RowsFor
    <3> QED
      BY <3>2, <3>3
  <2> QED
    BY <2>1 DEF Merge, MergedIsComplete
<1>6. /\ GoroutinesMatchRequest' /\ FreshUntilVerified' /\ DbListsMatch' /\ HitXorAsked'
      /\ AllDoneAfterCache' /\ QueriesMatch' /\ OpenWhileWorking' /\ ResponseOnlyAfter'
  BY DEF Merge, GoroutinesMatchRequest, FreshUntilVerified, DbListsMatch, HitXorAsked,
         AllDoneAfterCache, QueriesMatch, OpenWhileWorking, ResponseOnlyAfter
<1> QED
  BY <1>4, <1>5, <1>6

LEMMA RespondStep == IInv /\ Respond => IInv'
<1> SUFFICES ASSUME IInv, Respond PROVE IInv'
  OBVIOUS
<1> USE DEF IInv
<1>1. TypeOK'
  BY ResponseFacts DEF Respond, TypeOK, Pc
<1> QED
  BY <1>1 DEF Respond, GoroutinesMatchRequest, FreshUntilVerified, DbListsMatch, HitXorAsked,
              AllDoneAfterCache, QueriesMatch, MergedIsComplete, OpenWhileWorking,
              ResponseOnlyAfter, Pending

(* The statuses a handler gives up with.                                   *)
LEMMA HandlerFails ==
    ASSUME IInv, RejectBody \/ VerifyFails \/ GenerateFails \/ ExecuteFails \/ FormatFails
    PROVE  pc # "idle" /\ \E code \in FailureStatus : Fail(code)
<1>1. \A code \in ExecErrors(queries) : GetStatusCode(code) \in FailureStatus
  BY ExecFacts, DataFacts DEF IInv, TypeOK
<1> QED
  BY <1>1 DEF RejectBody, VerifyFails, GenerateFails, ExecuteFails, FormatFails, FailureStatus

LEMMA InvStep == IInv /\ [Next]_vars => IInv'
<1> SUFFICES ASSUME IInv, [Next]_vars PROVE IInv'
  OBVIOUS
<1>1. CASE \E es \in Requests(MaxElements) : Receive(es)
  BY <1>1, ReceiveStep
<1>2. CASE \E i \in Index : Goroutine(i)
  BY <1>2, CacheHitStep, CacheMissStep, CrashStep, AppendStep DEF Goroutine
<1>3. CASE Handler
  BY <1>3, HandlerFails, FailStep, VerifyGrantsStep, CacheDoneStep, GenerateStep, ExecuteStep,
     MergeStep, RespondStep DEF Handler
<1>4. CASE Restart
  BY <1>4, CrashStep
<1>5. CASE UNCHANGED vars
  BY <1>5 DEF vars, IInv, TypeOK, GoroutinesMatchRequest, FreshUntilVerified, DbListsMatch,
              HitXorAsked, Asked, AllDoneAfterCache, QueriesMatch, MergedIsComplete,
              OpenWhileWorking, ResponseOnlyAfter
<1> QED
  BY <1>1, <1>2, <1>3, <1>4, <1>5 DEF Next

(* The inductive invariant of the /queries handler.                        *)
THEOREM Invariance == Spec => []IInv
  BY InvInit, InvStep, PTL DEF Spec

LEMMA InvImplies == IInv => OnlyOwnTables /\ EachElementOnce
<1> SUFFICES ASSUME IInv PROVE OnlyOwnTables /\ EachElementOnce
  OBVIOUS
<1>1. OnlyOwnTables
  BY DEF IInv, QueriesMatch, DbListsMatch, OnlyOwnTables
<1>2. ASSUME pc \in {"generate", "execute", "merge"}, NEW i \in DOMAIN req
      PROVE  \/ raw[i] = CachedRow(req[i]) /\ Asked(i) = {}
             \/ raw[i] = Nil /\ \E k \in DOMAIN dbRequestIndices : Asked(i) = {k}
  <2>1. \/ raw[i] = CachedRow(req[i]) /\ Asked(i) = {}
        \/ raw[i] = Nil /\ Asked(i) # {}
    BY <1>2 DEF IInv, HitXorAsked, AllDoneAfterCache
  <2>2. Asked(i) # {} => \E k \in DOMAIN dbRequestIndices : Asked(i) = {k}
    BY DEF Asked, IInv, DbListsMatch
  <2> QED
    BY <2>1, <2>2
<1> QED
  BY <1>1, <1>2 DEF EachElementOnce

(* No query of the handler names a table of another element or owner.      *)
THEOREM QueriesReadOwnTables == Spec => []OnlyOwnTables
  BY Invariance, InvImplies, PTL

(* Cache and database share the elements without gap or overlap.           *)
THEOREM ElementsArePartitioned == Spec => []EachElementOnce
  BY Invariance, InvImplies, PTL

-----------------------------------------------------------------------------
(* The handler implements QueryService, which shares its constants and the *)
(* variables req, status and response.                                     *)
LEMMA ServiceInit == Init => Service!SInit
  BY DEF Init, Service!SInit, NoRequest, Service!NoRequest

LEMMA ServiceStep == IInv /\ [Next]_vars => [Service!SNext]_(Service!svars)
<1> SUFFICES ASSUME IInv, [Next]_vars
             PROVE  Service!SNext \/ UNCHANGED Service!svars
  OBVIOUS
<1> USE DEF Service!svars, Pending, Service!Pending
<1>1. ASSUME NEW es \in Requests(MaxElements), Receive(es)
      PROVE  Service!SNext
  <2>1. pc = "idle" /\ status # Pending
    BY <1>1 DEF Receive, IInv, OpenWhileWorking
  <2>2. Service!SReceive
    BY <1>1, <2>1 DEF Receive, Service!SReceive, Requests, Service!Requests
  <2> QED
    BY <2>2 DEF Service!SNext
<1>2. ASSUME NEW code \in FailureStatus, Fail(code), pc # "idle"
      PROVE  Service!SNext
  <2>1. Service!SFail
    BY <1>2 DEF Fail, IInv, OpenWhileWorking, Service!SFail, FailureStatus, Service!FailureStatus
  <2> QED
    BY <2>1 DEF Service!SNext
<1>3. CASE Respond
  <2>1. \A i \in DOMAIN req : response'[i] \in Service!RowsFor(req[i])
    BY <1>3 DEF Respond, IInv, MergedIsComplete, RowsFor, Service!RowsFor, DbRows, Service!DbRows,
                CachedRow, Service!CachedRow
  <2>2. Service!SAnswer
    BY <1>3, <2>1 DEF Respond, IInv, OpenWhileWorking, Service!SAnswer
  <2> QED
    BY <2>2 DEF Service!SNext
<1>4. CASE \E i \in Index : Goroutine(i)
  BY <1>4 DEF Goroutine, CacheHit, CacheMiss, CachePanics, Append2DbRequest
<1>5. CASE VerifyGrants \/ CacheDone \/ GenerateQueries \/ ExecuteQueries \/ Merge
  BY <1>5 DEF VerifyGrants, CacheDone, GenerateQueries, ExecuteQueries, Merge
<1>6. CASE Restart
  BY <1>6 DEF Restart, IInv, OpenWhileWorking, Service!SLost, Service!SNext, NoRequest,
              Service!NoRequest
<1>7. CASE UNCHANGED vars
  BY <1>7 DEF vars
<1> QED
  BY <1>1, <1>2, <1>3, <1>4, <1>5, <1>6, <1>7, HandlerFails DEF Next, Handler

(* A 200 carries the rows of every requested source in request order, a    *)
(* failure carries no data, whatever the interleaving.                     *)
THEOREM RefinesService == Spec => ImplementsService
<1>1. Init => Service!SInit
  BY ServiceInit
<1>2. IInv /\ [Next]_vars => [Service!SNext]_(Service!svars)
  BY ServiceStep
<1> QED
  BY <1>1, <1>2, Invariance, PTL DEF Spec, ImplementsService, Service!SSpec

-----------------------------------------------------------------------------
(* Permutations of positions.                                              *)

LEMMA PermutationsAreOnto ==
    ASSUME NEW n \in Nat, NEW p \in SetToSeqs(1 .. n)
    PROVE  /\ p \in [1 .. n -> 1 .. n]
           /\ \A i, j \in 1 .. n : p[i] = p[j] => i = j
           /\ \A k \in 1 .. n : \E i \in 1 .. n : p[i] = k
<1>1. IsFiniteSet(1 .. n) /\ Cardinality(1 .. n) = n
  BY FS_Interval
<1>2. p \in [1 .. n -> 1 .. n] /\ \A i, j \in 1 .. n : i # j => p[i] # p[j]
  BY <1>1 DEF SetToSeqs
<1>3. p \in Injection(1 .. n, 1 .. n)
  BY <1>2 DEF Injection, IsInjective
<1>4. p \in Surjection(1 .. n, 1 .. n)
  BY <1>1, <1>3, FS_Injection
<1> QED
  BY <1>2, <1>4 DEF Surjection

(* A sort of the rows of a slice counts every row as often as before.      *)
LEMMA SortingKeepsCounts ==
    ASSUME NEW m \in Nat, NEW n \in 0 .. m, NEW p \in SetToSeqs(1 .. n), NEW s, DOMAIN s = 1 .. m,
           NEW r
    PROVE  CountIn([i \in 1 .. m |-> IF i <= n THEN s[p[i]] ELSE s[i]], r) = CountIn(s, r)
<1> DEFINE sorted == [i \in 1 .. m |-> IF i <= n THEN s[p[i]] ELSE s[i]]
           was == {i \in 1 .. m : s[i] = r}
           is  == {i \in 1 .. m : sorted[i] = r}
           from == [i \in is |-> IF i <= n THEN p[i] ELSE i]
<1>0. n \in Nat /\ n <= m
  OBVIOUS
<1>1. /\ p \in [1 .. n -> 1 .. n]
      /\ \A i, j \in 1 .. n : p[i] = p[j] => i = j
      /\ \A k \in 1 .. n : \E i \in 1 .. n : p[i] = k
  BY <1>0, PermutationsAreOnto
<1>2. IsFiniteSet(is)
  <2>1. IsFiniteSet(1 .. m) /\ is \in SUBSET (1 .. m)
    BY FS_Interval
  <2> QED
    BY <2>1, FS_Subset
<1>3. from \in [is -> was] /\ \A i, j \in is : from[i] = from[j] => i = j
  BY <1>1, SMTT(30)
<1>4. ASSUME NEW k \in was PROVE \E i \in is : from[i] = k
  <2>1. CASE k <= n
    <3>1. PICK i \in 1 .. n : p[i] = k
      BY <1>0, <1>1, <2>1
    <3>2. i \in 1 .. m /\ i <= n
      BY <1>0, <3>1
    <3>3. sorted[i] = r
      BY <3>1, <3>2
    <3> QED
      BY <3>1, <3>2, <3>3
  <2>2. CASE k > n
    BY <2>2
  <2> QED
    BY <2>1, <2>2
<1>5. from \in Bijection(is, was)
  BY <1>3, <1>4 DEF Bijection, Injection, Surjection, IsInjective
<1>6. Cardinality(was) = Cardinality(is)
  BY <1>2, <1>5, FS_Bijection DEF ExistsBijection
<1> QED
  BY <1>6 DEF CountIn

-----------------------------------------------------------------------------
(* The rows of one series: per_query.                                      *)

LEMMA ArrayTypes ==
    ASSUME SeriesTypeOK
    PROVE  /\ Len(array) \in Nat /\ DOMAIN array = 1 .. Len(array) /\ len \in Nat /\ len <= Len(array)
           /\ \A i \in DOMAIN array : array[i] \in AnyRow
<1>1. array \in Seq(AnyRow) /\ len \in 0 .. Len(array)
  BY DEF SeriesTypeOK
<1> HIDE DEF SeriesTypeOK
<1> QED
  BY <1>1, LenProperties, ElementOfSeq

(* A backing array holds the rows, and nil in the room after them.         *)
LEMMA BackingFacts ==
    ASSUME NEW rows \in Seq(AnyRow), NEW arr \in Backing(rows)
    PROVE  /\ arr \in Seq(AnyRow) /\ Len(rows) \in 0 .. Len(arr)
           /\ \A i \in DOMAIN arr : arr[i] = IF i <= Len(rows) THEN rows[i] ELSE NilRow
<1>1. PICK capacity \in Len(rows) .. 2 * Len(rows) :
            arr = [i \in 1 .. capacity |-> IF i <= Len(rows) THEN rows[i] ELSE NilRow]
  BY DEF Backing
<1>2. Len(rows) \in Nat /\ \A i \in 1 .. Len(rows) : rows[i] \in AnyRow
  BY LenProperties, ElementOfSeq
<1>3. arr \in [1 .. capacity -> AnyRow] /\ capacity \in Nat
  BY <1>1, <1>2 DEF AnyRow, NilRow, NoTime
<1>4. arr \in Seq(AnyRow) /\ Len(arr) = capacity
  BY <1>3
<1> QED
  BY <1>1, <1>2, <1>4

(* What is counted of a backing array are the rows it was made for.        *)
LEMMA BackingKeepsCounts ==
    ASSUME NEW rows \in Seq(AnyRow), NEW arr \in Backing(rows), NEW r, ~ r.empty
    PROVE  CountIn(arr, r) = CountIn(rows, r)
<1>1. Len(rows) \in Nat /\ DOMAIN rows = 1 .. Len(rows)
  BY LenProperties
<1>2. DOMAIN arr = 1 .. Len(arr) /\ Len(arr) \in Nat /\ Len(rows) <= Len(arr)
  BY BackingFacts, LenProperties
<1>3. \A i \in DOMAIN arr : arr[i] = IF i <= Len(rows) THEN rows[i] ELSE NilRow
  BY BackingFacts
<1>4. NilRow # r
  BY DEF NilRow
<1>5. {i \in DOMAIN arr : arr[i] = r} = {i \in DOMAIN rows : rows[i] = r}
  BY <1>1, <1>2, <1>3, <1>4
<1> QED
  BY <1>5 DEF CountIn

(* What formatResponse begins with, be it the rows of a plain query or of  *)
(* a grouped one.                                                          *)
LEMMA SeriesBegins ==
    ASSUME stage = "trim", fetched \in Seq(AnyRow), len = Len(fetched), array \in Backing(fetched),
           limit \in Nat \cup {NoLimit}, direction \in {"asc", "desc"}, end \in Nat
    PROVE  SeriesIInv
<1>1. /\ array \in Seq(AnyRow) /\ len \in 0 .. Len(array)
      /\ \A i \in DOMAIN array : array[i] = IF i <= len THEN fetched[i] ELSE NilRow
  BY BackingFacts
<1>2. DOMAIN fetched = 1 .. len /\ DOMAIN array = 1 .. Len(array) /\ len \in Nat /\ Len(array) \in Nat
  BY <1>1, LenProperties
<1>3. SeriesTypeOK
  BY <1>1 DEF SeriesTypeOK
<1>4. RowsOfDatabase /\ RowsSorted
  BY <1>1, <1>2 DEF RowsOfDatabase, RowsSorted
<1>5. BeyondIsCut /\ FetchedOrNil /\ ValuesSorted
  BY <1>1, <1>2 DEF BeyondIsCut, FetchedOrNil, ValuesSorted, NilRow, Range
<1>6. SameValues
  BY <1>1, BackingKeepsCounts DEF SameValues
<1> QED
  BY <1>3, <1>4, <1>5, <1>6 DEF SeriesIInv

LEMMA TrimKeeps == SeriesIInv /\ Trim => SeriesIInv'
<1> SUFFICES ASSUME SeriesIInv, Trim PROVE SeriesIInv'
  OBVIOUS
<1>1. PICK k \in 0 .. len :
        /\ len' = k
        /\ k > 0 => ~ array[k].empty
        /\ \A i \in k + 1 .. len : array[i].empty
        /\ stage = "trim" /\ stage' = "sort"
        /\ UNCHANGED <<array, limit, direction, end, fetched>>
  BY DEF Trim, Trimmed
<1>2. /\ Len(array) \in Nat /\ DOMAIN array = 1 .. Len(array) /\ len \in Nat /\ len <= Len(array)
  BY ArrayTypes DEF SeriesIInv
<1>3. SeriesTypeOK'
  BY <1>1, <1>2 DEF SeriesIInv, SeriesTypeOK
<1>4. RowsOfDatabase' /\ RowsSorted'
  <2>1. k > 0 => k \in DOMAIN fetched /\ array[k] = fetched[k]
    BY <1>1, <1>2 DEF SeriesIInv, RowsOfDatabase
  <2> QED
    BY <1>1, <1>2, <2>1 DEF RowsOfDatabase, RowsSorted
<1>5. BeyondIsCut'
  <2> SUFFICES ASSUME NEW i \in 1 .. Len(array), i > k PROVE array[i].empty
    BY <1>1, <1>2 DEF BeyondIsCut
  <2>1. i > len \/ i \in k + 1 .. len
    BY <1>1, <1>2
  <2> QED
    BY <1>1, <1>2, <2>1 DEF SeriesIInv, BeyondIsCut
<1>6. FetchedOrNil' /\ SameValues' /\ ValuesSorted'
  BY <1>1 DEF SeriesIInv, FetchedOrNil, SameValues, ValuesSorted
<1> QED
  BY <1>3, <1>4, <1>5, <1>6 DEF SeriesIInv

LEMMA SortKeeps == SeriesIInv /\ Sort2D => SeriesIInv'
<1> SUFFICES ASSUME SeriesIInv, Sort2D PROVE SeriesIInv'
  OBVIOUS
<1> DEFINE m == Len(array)
<1>1. PICK p \in SetToSeqs(1 .. len) :
        /\ \A i, j \in 1 .. len : i < j => InOrder(array[p[i]], array[p[j]])
        /\ array' = [i \in DOMAIN array |-> IF i <= len THEN array[p[i]] ELSE array[i]]
  BY DEF Sort2D
<1>2. stage = "sort" /\ stage' = "limit" /\ UNCHANGED <<len, limit, direction, end, fetched>>
  BY DEF Sort2D
<1>3. /\ m \in Nat /\ DOMAIN array = 1 .. m /\ len \in Nat /\ len <= m
      /\ \A i \in 1 .. m : array[i] \in AnyRow
  BY ArrayTypes DEF SeriesIInv
<1>4. p \in [1 .. len -> 1 .. len]
  BY <1>3, PermutationsAreOnto
<1> HIDE DEF m
<1>5. /\ DOMAIN array' = 1 .. m
      /\ \A i \in 1 .. m : array'[i] = IF i <= len THEN array[p[i]] ELSE array[i]
  BY <1>1, <1>3
<1>6. \A i \in 1 .. m : \E k \in 1 .. m : array'[i] = array[k]
  BY <1>3, <1>4, <1>5
<1>7. array' \in Seq(AnyRow) /\ Len(array') = m
  <2>1. array' \in [1 .. m -> AnyRow]
    BY <1>1, <1>3, <1>4, SMTT(30)
  <2> QED
    BY <1>3, <2>1
<1>8. SeriesTypeOK'
  BY <1>2, <1>3, <1>7 DEF SeriesIInv, SeriesTypeOK, m
<1>9. RowsOfDatabase' /\ RowsSorted' /\ BeyondIsCut'
  <2>1. RowsOfDatabase'
    BY <1>2 DEF SeriesIInv, RowsOfDatabase
  <2>2. RowsSorted'
    BY <1>1, <1>2, <1>3, <1>5 DEF RowsSorted, InOrder
  <2>3. BeyondIsCut'
    BY <1>2, <1>3, <1>5 DEF SeriesIInv, BeyondIsCut
  <2> QED
    BY <2>1, <2>2, <2>3
<1>10. FetchedOrNil'
  BY <1>2, <1>3, <1>5, <1>6 DEF SeriesIInv, FetchedOrNil
<1>11. SameValues'
  <2>1. \A r : CountIn(array', r) = CountIn(array, r)
    BY <1>1, <1>3, SortingKeepsCounts
  <2>2. Range(array') \subseteq Range(array)
    BY <1>3, <1>5, <1>6 DEF Range
  <2> QED
    BY <1>2, <2>1, <2>2 DEF SeriesIInv, SameValues
<1>12. ValuesSorted'
  <2> SUFFICES ASSUME NEW i \in 1 .. m, NEW j \in 1 .. m, i < j, ~ array'[i].empty, ~ array'[j].empty
               PROVE  InOrder(array[p[i]], array[p[j]]) /\ i <= len /\ j <= len
    BY <1>2, <1>5 DEF ValuesSorted, InOrder
  <2>1. i <= len /\ j <= len
    BY <1>2, <1>3, <1>5 DEF SeriesIInv, BeyondIsCut
  <2> QED
    BY <1>1, <1>3, <2>1
<1> QED
  BY <1>8, <1>9, <1>10, <1>11, <1>12 DEF SeriesIInv

(* A limit within the slice leaves sorted rows behind those it keeps; one  *)
(* beyond it exposes rows that are empty.                                  *)
LEMMA LimitKeeps == SeriesIInv /\ Limit => SeriesIInv'
<1> SUFFICES ASSUME SeriesIInv, Limit PROVE SeriesIInv'
  OBVIOUS
<1>1. /\ stage = "limit" /\ stage' = "end" /\ limit <= Len(array)
      /\ len' = IF limit = NoLimit THEN len ELSE limit
      /\ UNCHANGED <<array, limit, direction, end, fetched>>
  BY DEF Limit
<1>2. /\ Len(array) \in Nat /\ DOMAIN array = 1 .. Len(array) /\ len \in Nat /\ len <= Len(array)
      /\ limit \in Nat \cup {NoLimit}
  BY ArrayTypes DEF SeriesIInv, SeriesTypeOK
<1>3. len' \in Nat /\ len' <= Len(array)
  BY <1>1, <1>2
<1>4. SeriesTypeOK'
  BY <1>1, <1>2, <1>3 DEF SeriesIInv, SeriesTypeOK
<1>5. RowsOfDatabase' /\ RowsSorted'
  BY <1>1 DEF RowsOfDatabase, RowsSorted
<1>6. BeyondIsCut'
  <2> SUFFICES ASSUME NEW i \in 1 .. Len(array), i > len', ~ array[i].empty
               PROVE  CutAway(array[i])'
    BY <1>1, <1>2 DEF BeyondIsCut
  <2>1. i <= len
    BY <1>1, <1>2 DEF SeriesIInv, BeyondIsCut
  <2>2. limit # NoLimit /\ limit < len /\ limit \in Nat
    BY <1>1, <1>2, <2>1
  <2>3. len \in DOMAIN fetched /\ ~ fetched[len].empty
    BY <1>1, <1>2, <2>2 DEF SeriesIInv, RowsOfDatabase
  <2>4. \A j \in 1 .. limit : InOrder(array[j], array[i])
    BY <1>1, <1>2, <2>1, <2>2 DEF SeriesIInv, RowsSorted
  <2>5. CutAway(array[i])
    BY <2>2, <2>3, <2>4 DEF CutAway
  <2> QED
    BY <1>1, <2>5 DEF CutAway, InOrder
<1>7. FetchedOrNil' /\ SameValues' /\ ValuesSorted'
  BY <1>1 DEF SeriesIInv, FetchedOrNil, SameValues, ValuesSorted, InOrder
<1> QED
  BY <1>4, <1>5, <1>6, <1>7 DEF SeriesIInv

LEMMA LimitPanicsKeeps == SeriesIInv /\ LimitPanics => SeriesIInv'
  BY DEF LimitPanics, SeriesIInv, SeriesTypeOK, RowsOfDatabase, RowsSorted, BeyondIsCut,
         FetchedOrNil, SameValues, ValuesSorted

LEMMA FilterEndKeeps == SeriesIInv /\ FilterEnd => SeriesIInv'
<1> SUFFICES ASSUME SeriesIInv, FilterEnd PROVE SeriesIInv'
  OBVIOUS
<1>1. PICK k \in 0 .. len :
        /\ stage = "end" /\ stage' = "done"
        /\ len' = k /\ \A i \in k + 1 .. len : TooLate(array[i])
        /\ UNCHANGED <<array, limit, direction, end, fetched>>
  BY DEF FilterEnd
<1>2. /\ Len(array) \in Nat /\ DOMAIN array = 1 .. Len(array) /\ len \in Nat /\ len <= Len(array)
  BY ArrayTypes DEF SeriesIInv
<1>3. SeriesTypeOK'
  BY <1>1, <1>2 DEF SeriesIInv, SeriesTypeOK
<1>4. RowsOfDatabase' /\ RowsSorted'
  BY <1>1 DEF RowsOfDatabase, RowsSorted
<1>5. BeyondIsCut'
  <2>1. \A r : (CutAway(r) => CutAway(r)') /\ (TooLate(r) => TooLate(r)')
    BY <1>1 DEF CutAway, InOrder, TooLate
  <2> SUFFICES ASSUME NEW i \in 1 .. Len(array), i > k
               PROVE  array[i].empty \/ CutAway(array[i]) \/ TooLate(array[i])
    BY <1>1, <1>2, <2>1 DEF BeyondIsCut
  <2>2. i > len \/ i \in k + 1 .. len
    BY <1>1, <1>2
  <2> QED
    BY <1>1, <1>2, <2>2 DEF SeriesIInv, BeyondIsCut
<1>6. FetchedOrNil' /\ SameValues' /\ ValuesSorted'
  BY <1>1 DEF SeriesIInv, FetchedOrNil, SameValues, ValuesSorted, InOrder
<1> QED
  BY <1>3, <1>4, <1>5, <1>6 DEF SeriesIInv

(* Every row with a value that no cut was meant for is in the answer, in   *)
(* order.                                                                  *)
LEMMA SeriesInvImplies == SeriesIInv => NoValueLost /\ ValuesInOrder
<1> SUFFICES ASSUME SeriesIInv PROVE NoValueLost /\ ValuesInOrder
  OBVIOUS
<1>1. /\ Len(array) \in Nat /\ DOMAIN array = 1 .. Len(array) /\ len \in Nat /\ len <= Len(array)
      /\ array \in Seq(AnyRow)
  BY ArrayTypes DEF SeriesIInv, SeriesTypeOK
<1>2. DOMAIN Answer = 1 .. len /\ \A i \in 1 .. len : Answer[i] = array[i]
  BY <1>1 DEF Answer
<1>3. \A r : CountIn(Answer, r) <= CountIn(array, r)
  <2> SUFFICES ASSUME NEW r PROVE CountIn(Answer, r) <= CountIn(array, r)
    OBVIOUS
  <2>1. {i \in DOMAIN Answer : Answer[i] = r} \in SUBSET {i \in DOMAIN array : array[i] = r}
    BY <1>1, <1>2
  <2>2. IsFiniteSet({i \in DOMAIN array : array[i] = r})
    <3>1. IsFiniteSet(1 .. Len(array)) /\ {i \in DOMAIN array : array[i] = r} \in SUBSET (1 .. Len(array))
      BY <1>1, FS_Interval
    <3> QED
      BY <3>1, FS_Subset
  <2> QED
    BY <2>1, <2>2, FS_Subset DEF CountIn
<1>4. ASSUME stage = "done", NEW r, ~ r.empty, ~ CutAway(r), ~ TooLate(r)
      PROVE  CountIn(Answer, r) = CountIn(array, r)
  <2>1. {i \in DOMAIN Answer : Answer[i] = r} = {i \in DOMAIN array : array[i] = r}
    BY <1>1, <1>2, <1>4 DEF SeriesIInv, BeyondIsCut
  <2> QED
    BY <2>1 DEF CountIn
<1>5. Range(Answer) \subseteq Range(array)
  BY <1>1, <1>2 DEF Range
<1>6. NoValueLost
  <2> SUFFICES ASSUME stage = "done", NEW r \in Range(fetched) \cup Range(array), ~ r.empty
               PROVE  /\ CountIn(Answer, r) <= CountIn(fetched, r)
                      /\ CutAway(r) \/ TooLate(r) \/ CountIn(Answer, r) = CountIn(fetched, r)
    BY <1>5 DEF NoValueLost
  <2>1. CountIn(array, r) = CountIn(fetched, r)
    BY DEF SeriesIInv, SameValues
  <2> QED
    BY <1>3, <1>4, <2>1
<1>7. ValuesInOrder
  BY <1>1 DEF SeriesIInv, ValuesSorted, ValuesInOrder
<1> QED
  BY <1>6, <1>7

-----------------------------------------------------------------------------
(* Arithmetic, and the buckets and rows of a grouped query.                *)

(* Multiples of a group time are apart by it at least.                     *)
LEMMA Multiples ==
    ASSUME NEW g \in Nat \ {0}, NEW k \in Int, NEW m \in Int
    PROVE  /\ k * g \in Int /\ m * g \in Int
           /\ k < m => k * g + g <= m * g
           /\ k * g < m * g + g => k <= m
<1>1. k * g \in Int /\ m * g \in Int
  OBVIOUS
<1>2. ASSUME k < m PROVE k * g + g <= m * g
  <2>1. m - k - 1 \in Nat
    BY <1>2
  <2>2. (m - k - 1) * g \in Nat
    BY <2>1
  <2>3. (m - k - 1) * g = m * g - k * g - g
    OBVIOUS
  <2> QED
    BY <1>1, <2>2, <2>3
<1>3. ASSUME k * g < m * g + g PROVE k <= m
  <2> SUFFICES ASSUME m < k PROVE FALSE
    OBVIOUS
  <2>1. k - m - 1 \in Nat
    OBVIOUS
  <2>2. (k - m - 1) * g \in Nat
    BY <2>1
  <2>3. (k - m - 1) * g = k * g - m * g - g
    OBVIOUS
  <2> QED
    BY <1>1, <1>3, <2>2, <2>3
<1> QED
  BY <1>1, <1>2, <1>3

LEMMA Division ==
    ASSUME NEW a \in Nat, NEW g \in Nat \ {0}
    PROVE  /\ a \div g \in Nat
           /\ (a \div g) * g <= a /\ a < (a \div g) * g + g
OBVIOUS

(* A time without the part of a second it has.                             *)
Floored(h, s) == h - ((h - 1) % s)

LEMMA FlooredFacts ==
    ASSUME NEW s \in Nat \ {0}, NEW h \in Int
    PROVE  \E k \in Int : /\ Floored(h, s) = 1 + k * s /\ k * s \in Int
                          /\ 1 + k * s <= h /\ h < 1 + k * s + s
<1> DEFINE k == (h - 1) \div s
<1>1. k \in Int /\ k * s \in Int /\ h - 1 = k * s + ((h - 1) % s) /\ (h - 1) % s \in 0 .. s - 1
  OBVIOUS
<1> HIDE DEF k
<1>2. Floored(h, s) = 1 + k * s /\ 1 + k * s <= h /\ h < 1 + k * s + s
  BY ONLY <1>1, h \in Int, s \in Nat \ {0} DEF Floored
<1> QED
  BY <1>1, <1>2

(* Whole seconds keep the distance of group times, and the start of every  *)
(* bucket is one.                                                          *)
LEMMA FlooredPeriod ==
    ASSUME NEW s \in Nat \ {0}, NEW g \in Nat \ {0}, g % s = 0, NEW a \in Nat \ {0}, NEW b \in Nat \ {0}
    PROVE  /\ Floored(a, s) \in Nat \ {0} /\ Floored(a, s) <= a
           /\ Floored(b, s) \in Nat \ {0} /\ Floored(b, s) <= b
           /\ Floored(a - g, s) = Floored(a, s) - g
           /\ \A q \in Nat : a + q * g <= b => Floored(a, s) + q * g <= Floored(b, s)
           /\ \A q \in Nat : b < a + q * g => Floored(b, s) <= Floored(a, s) + q * g
           /\ \A q \in Int : 1 + q * g <= b => 1 + q * g <= Floored(b, s)
<1>0. \A h \in Int : \E k \in Int : /\ Floored(h, s) = 1 + k * s /\ k * s \in Int
                                       /\ 1 + k * s <= h /\ h < 1 + k * s + s
  BY FlooredFacts
<1>00. a \in Int /\ b \in Int /\ a - g \in Int
  OBVIOUS
<1>1. PICK i \in Int : Floored(a, s) = 1 + i * s /\ i * s \in Int /\ 1 + i * s <= a /\ a < 1 + i * s + s
  BY ONLY <1>0, <1>00
<1>2. PICK j \in Int : Floored(b, s) = 1 + j * s /\ j * s \in Int /\ 1 + j * s <= b /\ b < 1 + j * s + s
  BY ONLY <1>0, <1>00
<1>3. PICK c \in Int : Floored(a - g, s) = 1 + c * s /\ c * s \in Int /\ 1 + c * s <= a - g /\ a - g < 1 + c * s + s
  BY ONLY <1>0, <1>00
<1>4. PICK m \in Int : g = m * s
  <2> DEFINE d == g \div s
  <2>1. d \in Int /\ d * s \in Int /\ g = d * s + (g % s)
    OBVIOUS
  <2> HIDE DEF d
  <2>2. g = d * s
    BY ONLY <2>1, g % s = 0
  <2> QED
    BY ONLY <2>1, <2>2
<1>5. ASSUME NEW q \in Int PROVE q * g \in Int /\ q * g = (q * m) * s /\ q * m \in Int
  <2>1. q * (m * s) = (q * m) * s
    OBVIOUS
  <2> QED
    BY <1>4, <2>1
<1>6. ASSUME NEW k \in Int, k * s <= s - 1 PROVE k <= 0
  <2>1. 0 * s = 0 /\ k * s < 0 * s + s
    BY <1>6
  <2> QED
    BY ONLY <2>1, k \in Int, s \in Nat \ {0}, Multiples
<1>7. ASSUME NEW k \in Int, k * s > - s PROVE k >= 0
  <2>1. (-1) * s = - s /\ (k < -1 + 1 => k <= -1)
    OBVIOUS
  <2>2. k < 0 => k * s + s <= 0 * s
    BY Multiples
  <2>3. 0 * s = 0 /\ k * s \in Int
    OBVIOUS
  <2> QED
    BY ONLY <1>7, <2>2, <2>3, k \in Int, s \in Nat \ {0}
<1>8. ASSUME NEW k \in Int, k * s < j * s + s PROVE k * s <= j * s
  <2>1. k <= j
    BY <1>8, Multiples
  <2>2. k = j \/ (k < j => k * s + s <= j * s)
    BY Multiples
  <2> QED
    BY <1>2, <2>1, <2>2
<1>9. Floored(a, s) \in Nat \ {0} /\ Floored(b, s) \in Nat \ {0}
  <2>1. i >= 0 /\ j >= 0
    BY <1>1, <1>2, <1>7
  <2>2. i * s \in Nat /\ j * s \in Nat
    BY <2>1
  <2> QED
    BY <1>1, <1>2, <2>2
<1>10. Floored(a - g, s) = Floored(a, s) - g
  <2>1. (i - m) * s = i * s - m * s /\ i - m \in Int /\ m * s \in Int
    OBVIOUS
  <2>2. (i - m) * s < c * s + s /\ c * s < (i - m) * s + s
    BY <1>1, <1>3, <1>4, <2>1
  <2>3. i - m <= c /\ c <= i - m
    BY <1>3, <2>1, <2>2, Multiples
  <2>4. c = i - m
    BY <2>3
  <2> QED
    BY <1>1, <1>3, <1>4, <2>1, <2>4
<1>11. ASSUME NEW q \in Nat, a + q * g <= b PROVE Floored(a, s) + q * g <= Floored(b, s)
  <2>1. (i + q * m) * s = i * s + q * g /\ i + q * m \in Int /\ q * g \in Int
    <3>1. (i + q * m) * s = i * s + (q * m) * s
      BY <1>5
    <3> QED
      BY <1>5, <3>1
  <2>2. (i + q * m) * s < j * s + s
    BY <1>1, <1>2, <1>11, <2>1
  <2>3. (i + q * m) * s <= j * s
    BY <1>8, <2>1, <2>2
  <2> QED
    BY <1>1, <1>2, <2>1, <2>3
<1>12. ASSUME NEW q \in Nat, b < a + q * g PROVE Floored(b, s) <= Floored(a, s) + q * g
  <2>1. (i + q * m) * s = i * s + q * g /\ i + q * m \in Int /\ q * g \in Int
    <3>1. (i + q * m) * s = i * s + (q * m) * s
      BY <1>5
    <3> QED
      BY <1>5, <3>1
  <2>2. j * s < (i + q * m) * s + s
    BY <1>1, <1>2, <1>12, <2>1
  <2>3. j <= i + q * m
    BY <2>1, <2>2, Multiples
  <2>4. j = i + q * m \/ (j < i + q * m => j * s + s <= (i + q * m) * s)
    BY <2>1, Multiples
  <2> QED
    BY <1>1, <1>2, <2>1, <2>3, <2>4
<1>13. ASSUME NEW q \in Int, 1 + q * g <= b PROVE 1 + q * g <= Floored(b, s)
  <2>1. q * g \in Int /\ q * g = (q * m) * s /\ q * m \in Int
    BY <1>5
  <2>2. (q * m) * s < j * s + s
    BY ONLY <1>2, <1>13, <2>1, b \in Nat \ {0}, s \in Nat \ {0}
  <2>3. (q * m) * s <= j * s
    BY <1>8, <2>1, <2>2
  <2> QED
    BY ONLY <1>2, <2>1, <2>3
<1> QED
  BY <1>1, <1>2, <1>9, <1>10, <1>11, <1>12, <1>13

LEMMA SmallerPart ==
    ASSUME NEW B, IsFiniteSet(B), NEW A, A \subseteq B
    PROVE  /\ IsFiniteSet(A) /\ Cardinality(A) \in Nat /\ Cardinality(B) \in Nat
           /\ Cardinality(A) <= Cardinality(B)
           /\ \A x \in B : x \notin A => Cardinality(A) < Cardinality(B)
<1>1. IsFiniteSet(A) /\ Cardinality(A) <= Cardinality(B)
  <2>1. A \in SUBSET B
    OBVIOUS
  <2> QED
    BY <2>1, FS_Subset
<1>2. Cardinality(A) \in Nat /\ Cardinality(B) \in Nat
  BY <1>1, FS_CardinalityType
<1>3. ASSUME NEW x \in B, x \notin A PROVE Cardinality(A) < Cardinality(B)
  <2>1. IsFiniteSet(B \ {x}) /\ Cardinality(B \ {x}) = Cardinality(B) - 1
    BY FS_RemoveElement
  <2>2. A \in SUBSET (B \ {x})
    BY <1>3
  <2>3. Cardinality(A) <= Cardinality(B \ {x})
    BY <2>1, <2>2, FS_Subset
  <2> QED
    BY <1>2, <2>1, <2>3
<1> QED
  BY <1>1, <1>2, <1>3

(* Sorted goes through the elements of a finite set in the order given.    *)
LEMMA SortedEnumerates ==
    ASSUME NEW S, IsFiniteSet(S), NEW R,
           \A x \in S : <<x, x>> \notin R,
           \A x, y \in S : x # y => <<x, y>> \in R \/ <<y, x>> \in R,
           \A x, y, z \in S : <<x, y>> \in R /\ <<y, z>> \in R => <<x, z>> \in R
    PROVE  /\ Cardinality(S) \in Nat /\ Sorted(S, R) \in [1 .. Cardinality(S) -> S]
           /\ Len(Sorted(S, R)) = Cardinality(S) /\ Sorted(S, R) \in Seq(S)
           /\ \A k \in 1 .. Cardinality(S) : Cardinality({y \in S : <<y, Sorted(S, R)[k]>> \in R}) = k - 1
           /\ \A x \in S : \E k \in 1 .. Cardinality(S) : Sorted(S, R)[k] = x
           /\ \A i, j \in 1 .. Cardinality(S) : i < j <=> <<Sorted(S, R)[i], Sorted(S, R)[j]>> \in R
<1> DEFINE n == Cardinality(S)
           before(x) == {y \in S : <<y, x>> \in R}
           rank == [x \in S |-> Cardinality(before(x)) + 1]
<1>1. n \in Nat
  BY FS_CardinalityType
<1>2. \A x \in S : rank[x] \in 1 .. n
  <2> SUFFICES ASSUME NEW x \in S PROVE rank[x] \in 1 .. n
    OBVIOUS
  <2>1. before(x) \subseteq S /\ x \notin before(x)
    OBVIOUS
  <2>2. Cardinality(before(x)) \in Nat /\ Cardinality(before(x)) < n
    BY <2>1, SmallerPart
  <2> QED
    BY <1>1, <2>2
<1>3. ASSUME NEW x \in S, NEW y \in S, <<x, y>> \in R PROVE rank[x] < rank[y]
  <2>1. before(x) \subseteq before(y) /\ x \in before(y) /\ x \notin before(x)
    BY <1>3
  <2>2. before(y) \subseteq S
    OBVIOUS
  <2>3. IsFiniteSet(before(y))
    BY <2>2, SmallerPart
  <2> HIDE DEF before
  <2>4. Cardinality(before(x)) < Cardinality(before(y)) /\ Cardinality(before(x)) \in Nat /\ Cardinality(before(y)) \in Nat
    BY <2>1, <2>3, SmallerPart
  <2> QED
    BY <2>4
<1>4. rank \in Injection(S, 1 .. n)
  <2>1. rank \in [S -> 1 .. n]
    BY <1>2
  <2>2. ASSUME NEW x \in S, NEW y \in S, rank[x] = rank[y] PROVE x = y
    <3>1. ~ (rank[x] < rank[y]) /\ ~ (rank[y] < rank[x])
      BY <1>1, <1>2, <2>2
    <3> QED
      BY <1>3, <3>1
  <2> HIDE DEF rank
  <2> QED
    BY <2>1, <2>2 DEF Injection, IsInjective
<1>5. rank \in Surjection(S, 1 .. n)
  <2>1. IsFiniteSet(1 .. n) /\ Cardinality(1 .. n) = n
    BY <1>1, FS_Interval
  <2> QED
    BY <1>4, <2>1, FS_Injection
<1>6. \A k \in 1 .. n : \E x \in S : rank[x] = k
  BY <1>5 DEF Surjection
<1> DEFINE sorted == Sorted(S, R)
<1>7. sorted = [k \in 1 .. n |-> CHOOSE x \in S : Cardinality(before(x)) = k - 1]
  BY DEF Sorted
<1> HIDE DEF sorted
<1>8. ASSUME NEW k \in 1 .. n PROVE sorted[k] \in S /\ rank[sorted[k]] = k /\ Cardinality(before(sorted[k])) = k - 1
  <2>1. PICK x \in S : rank[x] = k
    BY <1>6
  <2>2. Cardinality(before(x)) \in Nat
    <3>1. before(x) \subseteq S
      OBVIOUS
    <3> QED
      BY <3>1, SmallerPart
  <2>3. Cardinality(before(x)) = k - 1
    BY <1>1, <2>1, <2>2
  <2> HIDE DEF before
  <2>4. sorted[k] = CHOOSE z \in S : Cardinality(before(z)) = k - 1
    BY <1>7
  <2>5. sorted[k] \in S /\ Cardinality(before(sorted[k])) = k - 1
    BY <2>3, <2>4
  <2> QED
    BY <1>1, <2>5
<1>9. sorted \in [1 .. n -> S]
  BY <1>7, <1>8
<1>10. \A x \in S : \E k \in 1 .. n : sorted[k] = x
  <2> SUFFICES ASSUME NEW x \in S PROVE sorted[rank[x]] = x
    BY <1>2
  <2>1. rank[x] \in 1 .. n
    BY <1>2
  <2>2. sorted[rank[x]] \in S /\ rank[sorted[rank[x]]] = rank[x]
    BY <1>8, <2>1
  <2> QED
    BY <1>4, <2>2 DEF Injection, IsInjective
<1>11. ASSUME NEW i \in 1 .. n, NEW j \in 1 .. n PROVE i < j <=> <<sorted[i], sorted[j]>> \in R
  <2>1. sorted[i] \in S /\ sorted[j] \in S /\ rank[sorted[i]] = i /\ rank[sorted[j]] = j
    BY <1>8
  <2> HIDE DEF rank
  <2>2. <<sorted[i], sorted[j]>> \in R => i < j
    BY <1>3, <2>1
  <2>3. ASSUME i < j PROVE <<sorted[i], sorted[j]>> \in R
    <3>1. sorted[i] # sorted[j]
      BY <1>1, <2>1, <2>3
    <3>2. ~ (<<sorted[j], sorted[i]>> \in R)
      <4>1. SUFFICES ASSUME <<sorted[j], sorted[i]>> \in R PROVE FALSE
        OBVIOUS
      <4>2. j < i
        BY <1>3, <2>1, <4>1
      <4> QED
        BY <1>1, <2>3, <4>2
    <3> QED
      BY <2>1, <3>1, <3>2
  <2> QED
    BY <2>2, <2>3
<1>12. sorted \in Seq(S) /\ Len(sorted) = n
  BY <1>1, <1>9
<1> QED
  BY <1>1, <1>8, <1>9, <1>10, <1>11, <1>12 DEF sorted

-----------------------------------------------------------------------------
(* The SQL of a grouped query.                                             *)

(* What WindowAssumption says of an element.                               *)
LEMMA ElementFacts ==
    ASSUME NEW e \in Element
    PROVE  /\ e.group \in Nat \ {0} /\ e.unit \in Nat /\ e.second \in Nat \ {0}
           /\ e.start \in Nat \ {0} /\ e.end \in Nat \ {0} /\ e.start < e.end
           /\ LastHalf \in Nat /\ e.start <= LastHalf /\ e.end <= LastHalf
           /\ e.form \in {"absolute", "last", "ahead"} /\ e.limit \in Nat \cup {NoLimit}
           /\ e.form # "absolute" => e.unit # NoUnit
           /\ Len(e.columns) \in Nat \ {0} /\ DOMAIN e.columns = 1 .. Len(e.columns)
           /\ \E idx \in DOMAIN e.columns : e.columns[idx] = "difference"
<1>1. /\ e.columns \in Seq({"difference", "plain", "last"}) /\ e.form \in {"absolute", "last", "ahead"}
      /\ e.unit \in Nat /\ e.second \in Nat \ {0} /\ e.group \in Nat \ {0}
      /\ e.start \in Half /\ e.end \in Half /\ e.limit \in Limits
      /\ e.start < e.end /\ \E idx \in DOMAIN e.columns : e.columns[idx] = "difference"
      /\ e.form # "absolute" => e.unit # NoUnit
      /\ LastHalf \in Nat
  BY WindowAssumption
<1>2. Len(e.columns) \in Nat /\ DOMAIN e.columns = 1 .. Len(e.columns)
  BY <1>1, LenProperties
<1>3. e.limit \in Nat \cup {NoLimit}
  BY <1>1, SeriesFormatAssumption
<1> QED
  BY <1>1, <1>2, <1>3 DEF Half

(* A bucket begins at or before the halves in it and ends after them.      *)
LEMMA BucketFacts ==
    ASSUME NEW h \in Nat \ {0}, NEW g \in Nat \ {0}
    PROVE  /\ Bucket(h, g) \in 1 .. h /\ h < Bucket(h, g) + g
           /\ (h - 1) \div g \in Nat /\ Bucket(h, g) = 1 + ((h - 1) \div g) * g
<1>1. h - 1 \in Nat
  OBVIOUS
<1>2. /\ (h - 1) \div g \in Nat /\ ((h - 1) \div g) * g <= h - 1
      /\ h - 1 < ((h - 1) \div g) * g + g /\ ((h - 1) \div g) * g \in Nat
  BY <1>1, Division
<1>3. Bucket(h, g) = 1 + ((h - 1) \div g) * g
  BY DEF Bucket
<1> QED
  BY <1>2, <1>3

(* The window has been moved where a column of differences was reached.    *)
LEMMA MovesFacts ==
    ASSUME NEW e \in Element, NEW idx \in DOMAIN e.columns
    PROVE  /\ Moves(e, idx) \in Nat
           /\ e.form = "absolute" => Moves(e, idx) = Cardinality({i \in 1 .. idx : e.columns[i] = "difference"})
           /\ \A i \in 1 .. idx : e.columns[i] = "difference" => Moves(e, idx) >= 1
           /\ e.form # "absolute" => Moves(e, idx) <= 1
<1> DEFINE differences == {i \in 1 .. idx : e.columns[i] = "difference"}
<1>1. idx \in Nat
  BY ElementFacts
<1>2. IsFiniteSet(1 .. idx)
  BY <1>1, FS_Interval
<1>3. IsFiniteSet(differences) /\ Cardinality(differences) \in Nat
  <2>1. differences \subseteq 1 .. idx
    OBVIOUS
  <2> QED
    BY <1>2, <2>1, SmallerPart
<1>4. differences # {} => Cardinality(differences) >= 1
  BY <1>3, FS_EmptySet
<1>5. Moves(e, idx) = IF e.form = "absolute" THEN Cardinality(differences)
                      ELSE IF differences = {} THEN 0 ELSE 1
  BY DEF Moves
<1> QED
  BY <1>3, <1>4, <1>5

(* A moved period ends after it begins, or is empty.                       *)
LEMMA BoundsFacts ==
    ASSUME NEW e \in Element, NEW moves \in Nat
    PROVE  /\ StartAfter(e, moves) \in Int /\ EndAfter(e, moves) \in Nat \ {0}
           /\ EndAfter(e, moves) - StartAfter(e, moves) \in Nat
<1>1. /\ e.second \in Nat \ {0} /\ e.unit \in Nat /\ e.start \in Nat \ {0} /\ e.end \in Nat \ {0}
      /\ e.start < e.end
  BY ElementFacts
<1>2. CASE moves = 0 \/ e.unit = NoUnit
  BY <1>1, <1>2 DEF StartAfter, EndAfter, ZeroTime
<1>3. CASE moves # 0 /\ e.unit # NoUnit
  <2> DEFINE more == (moves - 1) * WholeSeconds(e)
             s == e.second
  <2>1. WholeSeconds(e) \in Nat
    <3>1. e.unit + e.second - 1 \in Nat
      BY <1>1
    <3>2. (e.unit + e.second - 1) \div e.second \in Nat
      BY <1>1, <3>1, Division
    <3> QED
      BY <1>1, <3>2 DEF WholeSeconds
  <2>2. moves - 1 \in Nat
    BY <1>3
  <2>3. more \in Nat
    <3> HIDE DEF WholeSeconds
    <3> QED
      BY <2>1, <2>2
  <2>4. /\ StartAfter(e, moves) = Floored(e.start - e.unit, s) - more
        /\ EndAfter(e, moves) = Floored(e.end, s)
    BY <1>3 DEF StartAfter, EndAfter, Formatted, Floored
  <2> HIDE DEF more, s
  <2>5. s \in Nat \ {0} /\ e.start - e.unit \in Int /\ e.end \in Int
    BY <1>1 DEF s
  <2>6. PICK i \in Int : /\ Floored(e.start - e.unit, s) = 1 + i * s /\ i * s \in Int
                         /\ 1 + i * s <= e.start - e.unit
    BY ONLY <2>5, FlooredFacts
  <2>7. PICK j \in Int : /\ Floored(e.end, s) = 1 + j * s /\ j * s \in Int
                         /\ 1 + j * s <= e.end /\ e.end < 1 + j * s + s
    BY ONLY <2>5, FlooredFacts
  <2>8. 0 * s = 0 /\ 0 * s < j * s + s
    BY ONLY <1>1, <2>5, <2>7
  <2>9. 0 <= j
    BY ONLY <2>5, <2>8, j \in Int, Multiples
  <2>10. j * s \in Nat
    BY ONLY <2>5, <2>9, j \in Int
  <2>11. i * s < j * s + s
    BY ONLY <1>1, <2>5, <2>6, <2>7
  <2>12. i * s <= j * s
    <3>1. i <= j
      BY ONLY <2>5, <2>11, i \in Int, j \in Int, Multiples
    <3>2. i = j \/ (i < j => i * s + s <= j * s)
      BY ONLY <2>5, i \in Int, j \in Int, Multiples
    <3> QED
      BY ONLY <2>5, <2>6, <2>7, <3>1, <3>2
  <2> QED
    BY ONLY <2>3, <2>4, <2>6, <2>7, <2>10, <2>12
<1> QED
  BY <1>2, <1>3

LEMMA OuterLimitIsNatural ==
    ASSUME NEW e \in Element
    PROVE  OuterLimit(e) \in Nat
<1>1. /\ Len(e.columns) \in DOMAIN e.columns
      /\ \E i \in 1 .. Len(e.columns) : e.columns[i] = "difference"
  BY ElementFacts
<1>2. Moves(e, Len(e.columns)) \in Nat /\ Moves(e, Len(e.columns)) >= 1
  BY <1>1, MovesFacts
<1>3. e.unit \in Nat
  BY ElementFacts
<1> DEFINE moves == IF e.form = "absolute" THEN Moves(e, Len(e.columns)) - 1 ELSE 0
<1>4. moves \in Nat
  BY <1>2
<1>5. OuterLimit(e) = IF e.unit = NoUnit THEN 0
                      ELSE (EndAfter(e, moves) - StartAfter(e, moves)) \div e.unit
  BY DEF OuterLimit, Units
<1> HIDE DEF moves
<1>6. EndAfter(e, moves) - StartAfter(e, moves) \in Nat
  BY <1>4, BoundsFacts
<1>7. e.unit # NoUnit => (EndAfter(e, moves) - StartAfter(e, moves)) \div e.unit \in Nat
  BY <1>3, <1>6, Division DEF NoUnit
<1> QED
  BY <1>5, <1>7

(* The buckets of a column begin where there are halves.                   *)
LEMMA SubqueryFacts ==
    ASSUME NEW e \in Element, NEW tbl \in TableContents, NEW idx
    PROVE  DOMAIN Subquery(e, tbl, idx) \subseteq Half
<1> SUFFICES ASSUME NEW b \in DOMAIN Subquery(e, tbl, idx) PROVE b \in Half
  OBVIOUS
<1>1. PICK h \in tbl \cap Window(e, idx) : b = Bucket(h, e.group)
  BY DEF Subquery
<1>2. h \in Nat \ {0} /\ h <= LastHalf /\ LastHalf \in Nat
  BY <1>1, WindowAssumption DEF Half
<1>3. b \in 1 .. h
  BY <1>1, <1>2, ElementFacts, BucketFacts
<1> QED
  BY <1>2, <1>3 DEF Half

Earlier(S, t) == {y \in S : y < t}

(* A set of halves in the order of time.                                   *)
LEMMA SortedTimes ==
    ASSUME NEW S, S \subseteq Half, NEW before, \A x, y \in S : <<x, y>> \in before <=> x < y
    PROVE  /\ Cardinality(S) \in Nat /\ Sorted(S, before) \in [1 .. Cardinality(S) -> S]
           /\ Len(Sorted(S, before)) = Cardinality(S) /\ Sorted(S, before) \in Seq(S)
           /\ \A k \in 1 .. Cardinality(S) : Cardinality(Earlier(S, Sorted(S, before)[k])) = k - 1
           /\ \A x \in S : \E k \in 1 .. Cardinality(S) : Sorted(S, before)[k] = x
           /\ \A i, j \in 1 .. Cardinality(S) : i < j <=> Sorted(S, before)[i] < Sorted(S, before)[j]
<1>1. LastHalf \in Nat /\ Half \subseteq Int
  BY WindowAssumption DEF Half
<1>2. IsFiniteSet(S)
  <2>1. IsFiniteSet(Half)
    BY <1>1, FS_Interval DEF Half
  <2>2. S \subseteq Half
    OBVIOUS
  <2> QED
    BY <2>1, <2>2, SmallerPart
<1>3. \A x, y \in S : <<x, y>> \in before <=> x < y
  OBVIOUS
<1>4. S \subseteq Int
  BY <1>1
<1>5. /\ \A x \in S : <<x, x>> \notin before
      /\ \A x, y \in S : x # y => <<x, y>> \in before \/ <<y, x>> \in before
      /\ \A x, y, z \in S : <<x, y>> \in before /\ <<y, z>> \in before => <<x, z>> \in before
  BY <1>3, <1>4
<1> DEFINE sorted == Sorted(S, before)
           n == Cardinality(S)
<1>6. /\ n \in Nat /\ sorted \in [1 .. n -> S] /\ Len(sorted) = n /\ sorted \in Seq(S)
      /\ \A k \in 1 .. n : Cardinality({y \in S : <<y, sorted[k]>> \in before}) = k - 1
      /\ \A x \in S : \E k \in 1 .. n : sorted[k] = x
      /\ \A i, j \in 1 .. n : i < j <=> <<sorted[i], sorted[j]>> \in before
  BY <1>2, <1>5, SortedEnumerates
<1> HIDE DEF sorted, n
<1>7. \A k \in 1 .. n : {y \in S : <<y, sorted[k]>> \in before} = Earlier(S, sorted[k])
  BY <1>3, <1>6 DEF Earlier
<1>8. \A i, j \in 1 .. n : <<sorted[i], sorted[j]>> \in before <=> sorted[i] < sorted[j]
  BY <1>3, <1>6
<1> QED
  BY <1>6, <1>7, <1>8 DEF sorted, n

(* Either plan gives rows of times that some column has.                   *)
LEMMA JoinTimesFacts ==
    ASSUME NEW e \in Element, NEW subs, NEW plan \in {"merge", "hash"},
           UNION {DOMAIN subs[i] : i \in DOMAIN e.columns} \subseteq Half
    PROVE  JoinTimes(e, subs, plan) \in Seq(UNION {DOMAIN subs[i] : i \in DOMAIN e.columns})
<1> DEFINE all == UNION {DOMAIN subs[i] : i \in DOMAIN e.columns}
           first == DOMAIN subs[1]
           before == {p \in all \X all : p[1] < p[2]}
           order == {p \in all \X all : Before(e, 1, p[1], p[2])}
<1>1. first \subseteq all
  <2>1. 1 \in DOMAIN e.columns
    BY ElementFacts
  <2> QED
    BY <2>1
<1>2. JoinTimes(e, subs, plan) = IF plan = "merge" THEN Sorted(all, before)
                                 ELSE Sorted(first, order) \o Sorted(all \ first, before)
  BY DEF JoinTimes
<1>3. all \subseteq Half /\ \A x, y \in all : <<x, y>> \in before <=> x < y
  OBVIOUS
<1>4. /\ \A x, y \in all : <<x, y>> \in order <=> Before(e, 1, x, y)
      /\ \/ \A x, y : Before(e, 1, x, y) <=> x < y
         \/ \A x, y : Before(e, 1, x, y) <=> x > y
  <2>1. \A x, y \in all : <<x, y>> \in order <=> Before(e, 1, x, y)
    OBVIOUS
  <2>2. \A x, y : Before(e, 1, x, y) <=>
            IF Moves(e, 1) = 0 /\ e.columns[1] = "last" THEN x > y ELSE x < y
    BY Zenon DEF Before
  <2>3. CASE Moves(e, 1) = 0 /\ e.columns[1] = "last"
    BY <2>1, <2>2, <2>3, Zenon
  <2>4. CASE ~ (Moves(e, 1) = 0 /\ e.columns[1] = "last")
    BY <2>1, <2>2, <2>4, Zenon
  <2> QED
    BY <2>3, <2>4
<1> HIDE DEF all, first, before, order
<1>5. \A S : S \subseteq all => Sorted(S, before) \in Seq(all)
  <2> SUFFICES ASSUME NEW S, S \subseteq all PROVE Sorted(S, before) \in Seq(all)
    OBVIOUS
  <2>1. S \subseteq Half /\ \A x, y \in S : <<x, y>> \in before <=> x < y
    BY <1>3
  <2>2. /\ Cardinality(S) \in Nat /\ Sorted(S, before) \in [1 .. Cardinality(S) -> S]
    BY <2>1, SortedTimes
  <2>3. Sorted(S, before) \in [1 .. Cardinality(S) -> all]
    BY <2>2
  <2> QED
    BY <2>2, <2>3
<1>6. Sorted(first, order) \in Seq(all)
  <2>1. LastHalf \in Nat /\ Half \subseteq Int /\ first \subseteq Half
    BY <1>1, <1>3, WindowAssumption DEF Half
  <2>2. IsFiniteSet(first)
    <3>1. IsFiniteSet(Half)
      BY <2>1, FS_Interval DEF Half
    <3> QED
      BY <2>1, <3>1, SmallerPart
  <2>3. \A x, y \in first : x \in Int /\ y \in Int /\ (<<x, y>> \in order <=> Before(e, 1, x, y))
    BY <1>1, <1>4, <2>1
  <2>4. /\ \A x \in first : <<x, x>> \notin order
        /\ \A x, y \in first : x # y => <<x, y>> \in order \/ <<y, x>> \in order
        /\ \A x, y, z \in first : <<x, y>> \in order /\ <<y, z>> \in order => <<x, z>> \in order
    <3>1. CASE \A x, y : Before(e, 1, x, y) <=> x < y
      BY ONLY <2>3, <3>1
    <3>2. CASE \A x, y : Before(e, 1, x, y) <=> x > y
      BY ONLY <2>3, <3>2
    <3> QED
      BY <1>4, <3>1, <3>2
  <2>5. Cardinality(first) \in Nat /\ Sorted(first, order) \in [1 .. Cardinality(first) -> first]
    BY ONLY <2>2, <2>4, SortedEnumerates
  <2>6. Sorted(first, order) \in [1 .. Cardinality(first) -> all]
    BY <1>1, <2>5
  <2> QED
    BY <2>5, <2>6
<1>7. Sorted(all, before) \in Seq(all) /\ Sorted(all \ first, before) \in Seq(all)
  BY <1>1, <1>5
<1>8. JoinTimes(e, subs, plan) \in Seq(all)
  BY <1>2, <1>6, <1>7, ConcatProperties
<1> QED
  BY <1>8 DEF all

(* The rows of the join have a time of the table, or none.                 *)
LEMMA JoinedFacts ==
    ASSUME NEW e \in Element, NEW tbl \in TableContents, NEW plan \in {"merge", "hash"}
    PROVE  \E m \in Nat :
            /\ Len(Joined(e, tbl, plan)) = m /\ DOMAIN Joined(e, tbl, plan) = 1 .. m
            /\ \A i \in 1 .. m : Joined(e, tbl, plan)[i].time \in Half \cup {NoTime}
<1> DEFINE subs == [idx \in DOMAIN e.columns |-> Subquery(e, tbl, idx)]
           times == JoinTimes(e, subs, plan)
           all == UNION {DOMAIN subs[i] : i \in DOMAIN e.columns}
           joined1 == [i \in DOMAIN times |->
                         [time   |-> IF times[i] \in DOMAIN subs[1] THEN times[i] ELSE NoTime,
                          values |-> [idx \in DOMAIN e.columns |-> Column(e, subs, times, idx, i)]]]
<1>1. \A b \in all : b \in Half
  <2> SUFFICES ASSUME NEW idx \in DOMAIN e.columns, NEW b \in DOMAIN subs[idx] PROVE b \in Half
    OBVIOUS
  <2>1. b \in DOMAIN Subquery(e, tbl, idx)
    OBVIOUS
  <2> QED
    BY <2>1, SubqueryFacts
<1>2. Joined(e, tbl, plan) = joined1
  BY DEF Joined
<1>3. times \in Seq(all)
  <2> HIDE DEF subs
  <2>1. all \subseteq Half
    BY <1>1
  <2> QED
    BY <2>1, JoinTimesFacts
<1> HIDE DEF subs, times, all
<1>4. Len(times) \in Nat /\ DOMAIN times = 1 .. Len(times) /\ \A i \in 1 .. Len(times) : times[i] \in all
  BY <1>3, LenProperties, ElementOfSeq
<1>5. DOMAIN joined1 = 1 .. Len(times) /\ \A i \in 1 .. Len(times) :
          joined1[i].time = IF times[i] \in DOMAIN subs[1] THEN times[i] ELSE NoTime
  BY <1>4
<1>6. Len(joined1) = Len(times)
  BY <1>4, LenProperties
<1> HIDE DEF joined1
<1>7. \A i \in 1 .. Len(times) : joined1[i].time \in Half \cup {NoTime}
  BY <1>1, <1>4, <1>5
<1> QED
  BY <1>2, <1>4, <1>5, <1>6, <1>7

(* The rows the outer ORDER BY puts before row i.                          *)
Ahead(rows, i) == {j \in DOMAIN rows : \/ OuterBefore(rows[j], rows[i])
                                       \/ rows[j].time = rows[i].time /\ j < i}

(* The outer ORDER BY: rows of later times come first.                     *)
LEMMA OuterOrderFacts ==
    ASSUME NEW m \in Nat, NEW rows, DOMAIN rows = 1 .. m, \A i \in 1 .. m : rows[i].time \in Nat
    PROVE  \E at \in [1 .. m -> 1 .. m] :
            /\ OuterOrder(rows) = [k \in 1 .. m |-> rows[at[k]]]
            /\ \A i \in 1 .. m : \E k \in 1 .. m : at[k] = i
            /\ \A k \in 1 .. m : Cardinality(Ahead(rows, at[k])) = k - 1
<1>2. IsFiniteSet(1 .. m) /\ Cardinality(1 .. m) = m
  <2>1. IsFiniteSet(1 .. m) /\ Cardinality(1 .. m) = IF 1 > m THEN 0 ELSE m - 1 + 1
    BY FS_Interval
  <2> QED
    BY ONLY <2>1, m \in Nat
<1> DEFINE order == {p \in (DOMAIN rows) \X (DOMAIN rows) :
                       \/ OuterBefore(rows[p[1]], rows[p[2]])
                       \/ rows[p[1]].time = rows[p[2]].time /\ p[1] < p[2]}
           at == Sorted(1 .. m, order)
<1>1. \A i, j \in 1 .. m : <<i, j>> \in order <=> \/ OuterBefore(rows[i], rows[j])
                                                  \/ rows[i].time = rows[j].time /\ i < j
  OBVIOUS
<1>3. OuterOrder(rows) = [k \in 1 .. m |-> rows[at[k]]]
  BY DEF OuterOrder
<1> HIDE DEF order
<1>4. \A i \in 1 .. m : <<i, i>> \notin order
  BY <1>1 DEF OuterBefore
<1>5. \A i, j \in 1 .. m : i # j => <<i, j>> \in order \/ <<j, i>> \in order
  BY <1>1 DEF OuterBefore, NoTime
<1>6. \A i, j, k \in 1 .. m : <<i, j>> \in order /\ <<j, k>> \in order => <<i, k>> \in order
  BY <1>1 DEF OuterBefore, NoTime
<1>7. /\ at \in [1 .. m -> 1 .. m]
      /\ \A k \in 1 .. m : Cardinality({y \in 1 .. m : <<y, at[k]>> \in order}) = k - 1
      /\ \A i \in 1 .. m : \E k \in 1 .. m : at[k] = i
  BY <1>2, <1>4, <1>5, <1>6, SortedEnumerates
<1> HIDE DEF at
<1>8. \A k \in 1 .. m : {y \in 1 .. m : <<y, at[k]>> \in order} = Ahead(rows, at[k])
  BY <1>1, <1>7 DEF Ahead
<1> QED
  BY <1>3, <1>7, <1>8

(* The rows of a result for the first c of the rows in the order at.       *)
FirstRows(rows, at, c) ==
    IF c = 0 THEN <<NilRow>>
    ELSE [k \in 1 .. c |-> [time  |-> rows[at[k]].time,
                            empty |-> \A v \in Range(rows[at[k]].values) : v = Null]]

(* What ExecuteQuery hands over: as many of the last rows as the limit     *)
(* lets through.                                                           *)
LEMMA ExecutedFacts ==
    ASSUME NEW e \in Element, NEW m \in Nat, NEW rows, DOMAIN rows = 1 .. m,
           \A i \in 1 .. m : rows[i].time \in Nat
    PROVE  \E at \in [1 .. m -> 1 .. m], c \in 0 .. m :
            /\ c = IF OuterLimit(e) >= m THEN m ELSE OuterLimit(e)
            /\ \A i \in 1 .. m : \E k \in 1 .. m : at[k] = i
            /\ \A k \in 1 .. m : Cardinality(Ahead(rows, at[k])) = k - 1
            /\ Executed(e, rows) = FirstRows(rows, at, c)
<1>1. PICK at \in [1 .. m -> 1 .. m] :
        /\ OuterOrder(rows) = [k \in 1 .. m |-> rows[at[k]]]
        /\ \A i \in 1 .. m : \E k \in 1 .. m : at[k] = i
        /\ \A k \in 1 .. m : Cardinality(Ahead(rows, at[k])) = k - 1
  BY OuterOrderFacts, ZenonT(60)
<1> DEFINE ordered == OuterOrder(rows)
           l == OuterLimit(e)
           cut == IF l >= Len(ordered) THEN ordered ELSE SubSeq(ordered, 1, l)
           c == IF l >= m THEN m ELSE l
<1>2. l \in Nat
  BY OuterLimitIsNatural
<1>3. Executed(e, rows) =
        IF cut = <<>> THEN <<NilRow>>
        ELSE [i \in DOMAIN cut |-> [time |-> cut[i].time, empty |-> \A v \in Range(cut[i].values) : v = Null]]
  BY DEF Executed
<1>4. ordered = [k \in 1 .. m |-> rows[at[k]]]
  BY <1>1
<1> HIDE DEF ordered, l
<1>5. Len(ordered) = m /\ c \in 0 .. m
  BY <1>2, <1>4
<1>6. cut = [k \in 1 .. c |-> rows[at[k]]]
  <2>1. CASE l >= m
    BY <1>4, <1>5, <2>1
  <2>2. CASE ~ (l >= m)
    <3>1. cut = SubSeq(ordered, 1, l) /\ c = l /\ l \in 0 .. m
      BY <1>2, <1>5, <2>2
    <3>2. SubSeq(ordered, 1, l) = [k \in 1 .. l |-> ordered[k]]
      BY <1>2, <1>4, <1>5, <3>1
    <3>3. \A k \in 1 .. l : ordered[k] = rows[at[k]]
      BY <1>4, <3>1
    <3> QED
      BY <3>1, <3>2, <3>3
  <2> QED
    BY <2>1, <2>2
<1> HIDE DEF cut, c
<1>7. cut = <<>> <=> c = 0
  <2>1. CASE c = 0
    BY <1>6, <2>1
  <2>2. CASE c # 0
    <3>1. 1 \in DOMAIN cut
      BY <1>5, <1>6, <2>2
    <3> QED
      BY <2>2, <3>1
  <2> QED
    BY <2>1, <2>2
<1>8. DOMAIN cut = 1 .. c /\ \A k \in 1 .. c : cut[k] = rows[at[k]]
  BY <1>6
<1>9. Executed(e, rows) = FirstRows(rows, at, c)
  BY <1>3, <1>7, <1>8 DEF FirstRows
<1> QED
  BY <1>1, <1>5, <1>9 DEF c, l

(* What is fetched are rows.                                               *)
LEMMA FetchedFacts ==
    ASSUME NEW e \in Element, NEW tbl \in TableContents, NEW plan \in {"merge", "hash"}
    PROVE  Executed(e, Joined(e, tbl, plan)) \in Seq(AnyRow)
<1> DEFINE rows == Joined(e, tbl, plan)
           out == Executed(e, rows)
<1>1. PICK m \in Nat : DOMAIN rows = 1 .. m /\ \A i \in 1 .. m : rows[i].time \in Half \cup {NoTime}
  BY JoinedFacts
<1>2. \A i \in 1 .. m : rows[i].time \in Nat
  BY <1>1, ElementFacts DEF Half, NoTime
<1> HIDE DEF rows
<1>3. PICK at \in [1 .. m -> 1 .. m], c \in 0 .. m : out = FirstRows(rows, at, c)
  BY <1>1, <1>2, ExecutedFacts
<1> HIDE DEF out
<1>4. CASE c = 0
  <2>1. out = <<NilRow>>
    BY <1>3, <1>4 DEF FirstRows
  <2>2. NilRow \in AnyRow
    BY DEF NilRow, AnyRow, NoTime
  <2>3. <<NilRow>> \in Seq(AnyRow)
    BY <2>2
  <2> QED
    BY <2>1, <2>3 DEF out, rows
<1>5. CASE c # 0
  <2>1. out = [k \in 1 .. c |-> [time  |-> rows[at[k]].time,
                                 empty |-> \A v \in Range(rows[at[k]].values) : v = Null]]
    BY <1>3, <1>5 DEF FirstRows
  <2>2. \A k \in 1 .. c : at[k] \in 1 .. m
    OBVIOUS
  <2>3. \A k \in 1 .. c : out[k] \in AnyRow
    BY <1>2, <2>1, <2>2 DEF AnyRow
  <2>4. out \in [1 .. c -> AnyRow] /\ c \in Nat
    <3>1. DOMAIN out = 1 .. c /\ out = [k \in DOMAIN out |-> out[k]]
      BY <2>1
    <3> QED
      BY <2>3, <3>1
  <2>5. out \in Seq(AnyRow)
    BY <2>4
  <2> QED
    BY <2>5 DEF out, rows
<1> QED
  BY <1>4, <1>5

-----------------------------------------------------------------------------
(* The rows of a regular query.                                            *)

(* The period as the SQL has it: an absolute one in whole seconds.         *)
From == IF element.form = "absolute" THEN Floored(element.start, element.second) ELSE element.start
Until == IF element.form = "absolute" THEN Floored(element.end, element.second) ELSE element.end

RowsAsked == {h \in table : From - element.group <= h /\ h < Until}
RowsIn(b) == {h \in RowsAsked : Bucket(h, element.group) = b}
BucketsWithRows == {Bucket(h, element.group) : h \in RowsAsked}
BucketsFetched == {b \in BucketsWithRows :
                     Cardinality(Earlier(BucketsWithRows, b)) < OuterLimit(element) + 2}

(* Whole seconds leave as many buckets to the period, and those asked for. *)
LEMMA WholePeriod ==
    ASSUME element \in Element, Regular
    PROVE  /\ From \in Nat \ {0} /\ From <= element.start /\ Until \in Nat \ {0} /\ Until <= element.end
           /\ \A q \in Nat : element.start + q * element.group <= element.end
                                => From + q * element.group <= Until
           /\ \A q \in Nat : element.end < element.start + q * element.group
                                => Until <= From + q * element.group
           /\ \A q \in Int : 1 + q * element.group <= element.end => 1 + q * element.group <= Until
           /\ element.form = "absolute" => Floored(element.start - element.group, element.second)
                                              = From - element.group
<1>1. /\ element.group \in Nat \ {0} /\ element.second \in Nat \ {0}
      /\ element.start \in Nat \ {0} /\ element.end \in Nat \ {0}
      /\ element.form = "absolute" => element.group % element.second = 0
  BY ElementFacts DEF Regular
<1>2. CASE element.form = "absolute"
  <2>1. From = Floored(element.start, element.second) /\ Until = Floored(element.end, element.second)
    BY <1>2 DEF From, Until
  <2> QED
    BY <1>1, <1>2, <2>1, FlooredPeriod
<1>3. CASE element.form # "absolute"
  <2>1. From = element.start /\ Until = element.end
    BY <1>3 DEF From, Until
  <2>2. \A q \in Int : q * element.group \in Int
    BY <1>1
  <2> QED
    BY <1>1, <1>3, <2>1, <2>2
<1> QED
  BY <1>2, <1>3

(* Every column has the same window and limit.                             *)
LEMMA RegularWindows ==
    ASSUME element \in Element, table \in TableContents, Regular, NEW idx \in DOMAIN element.columns
    PROVE  /\ Moves(element, idx) = 1
           /\ \A h : h \in Window(element, idx) <=>
                /\ h \in Half /\ From - element.group <= h
                /\ element.form = "absolute" => h < Until
           /\ Window(element, idx) \cap table = RowsAsked
<1> DEFINE n == Len(element.columns)
<1>1. /\ n \in Nat /\ idx \in 1 .. n /\ 1 \in 1 .. n /\ n \in DOMAIN element.columns
      /\ DOMAIN element.columns = 1 .. n
      /\ element.form \in {"absolute", "last"} /\ element.unit = element.group
      /\ element.columns[1] = "difference" /\ Moves(element, n) = 1
      /\ element.form = "last" => \A h \in table : h < element.end
      /\ element.group \in Nat \ {0} /\ element.start \in Nat \ {0} /\ element.end \in Nat \ {0}
      /\ element.end - element.start \in Nat
  BY ElementFacts DEF Regular
<1> HIDE DEF n
<1>2. Moves(element, idx) \in Nat /\ Moves(element, idx) >= 1
  <2>1. 1 \in 1 .. idx
    BY <1>1
  <2> QED
    BY <1>1, <2>1, MovesFacts
<1>3. Moves(element, idx) <= 1
  <2>1. CASE element.form = "absolute"
    <3> DEFINE A == {i \in 1 .. idx : element.columns[i] = "difference"}
               B == {i \in 1 .. n : element.columns[i] = "difference"}
    <3>1. Moves(element, idx) = Cardinality(A) /\ Moves(element, n) = Cardinality(B)
      BY <1>1, <2>1, MovesFacts
    <3>7. n \in Int /\ 1 \in Int
      BY ONLY <1>1
    <3>8. IsFiniteSet(1 .. n)
      BY ONLY <3>7, FS_Interval
    <3>2. IsFiniteSet(1 .. n) /\ B \subseteq 1 .. n
      BY ONLY <3>8
    <3>4. \A i \in 1 .. idx : i \in 1 .. n
      BY <1>1
    <3>5. A \subseteq B
      BY <3>4
    <3> HIDE DEF A, B
    <3>6. IsFiniteSet(B)
      BY <3>2, SmallerPart
    <3>3. Cardinality(A) <= Cardinality(B)
      BY <3>5, <3>6, SmallerPart
    <3> QED
      BY <1>1, <3>1, <3>3
  <2>2. CASE element.form # "absolute"
    BY <2>2, MovesFacts
  <2> QED
    BY <2>1, <2>2
<1>4. Moves(element, idx) = 1
  BY <1>2, <1>3
<1>5. ASSUME NEW h
      PROVE  h \in Window(element, idx) <=>
                /\ h \in Half /\ From - element.group <= h
                /\ element.form = "absolute" => h < Until
  <2>1. CASE element.form = "absolute"
    <3>1. 0 * WholeSeconds(element) = 0
      <4>1. WholeSeconds(element) \in Int
        <5>1. (element.unit + element.second - 1) \div element.second \in Nat
          <6>1. element.unit + element.second - 1 \in Nat /\ element.second \in Nat \ {0}
            BY <1>1, ElementFacts
          <6> QED
            BY <6>1, Division
        <5> QED
          BY <5>1, ElementFacts DEF WholeSeconds
      <4> HIDE DEF WholeSeconds
      <4> QED
        BY <4>1
    <3>2. StartAfter(element, 1) = Floored(element.start - element.group, element.second)
      <4>1. StartAfter(element, 1) = Formatted(element, element.start - element.unit) - (1 - 1) * WholeSeconds(element)
        BY <1>1 DEF StartAfter, NoUnit
      <4>2. Formatted(element, element.start - element.unit) = Floored(element.start - element.group, element.second)
        BY <1>1 DEF Formatted, Floored
      <4>3. Floored(element.start - element.group, element.second) \in Int
        BY <2>1, <1>1, WholePeriod
      <4> QED
        BY <3>1, <4>1, <4>2, <4>3
    <3>3. EndAfter(element, 1) = Until
      BY <1>1, <2>1 DEF EndAfter, NoUnit, Formatted, Floored, Until
    <3>4. Floored(element.start - element.group, element.second) = From - element.group
      BY <2>1, WholePeriod
    <3> QED
      BY <1>4, <2>1, <3>2, <3>3, <3>4 DEF Window
  <2>2. CASE element.form = "last"
    <3>1. From = element.start /\ 1 * element.unit = element.group
      BY <1>1, <2>2 DEF From
    <3> QED
      BY <1>1, <1>4, <2>2, <3>1 DEF Window
  <2> QED
    BY <1>1, <2>1, <2>2
<1>6. table \subseteq Half
  BY WindowAssumption
<1>7. Window(element, idx) \cap table = RowsAsked
  <2>1. element.form = "last" => Until = element.end
    BY DEF Until
  <2> QED
    BY <1>1, <1>5, <1>6, <2>1 DEF RowsAsked
<1> QED
  BY <1>4, <1>5, <1>7

(* Every column has the same buckets, whose rows are all in the window.    *)
LEMMA RegularSubqueries ==
    ASSUME element \in Element, table \in TableContents, Regular, NEW idx \in DOMAIN element.columns
    PROVE  /\ Subquery(element, table, idx) = [b \in BucketsFetched |-> RowsIn(b)]
           /\ OuterLimit(element) = (element.end - element.start) \div element.group
<1> DEFINE n == Len(element.columns)
<1>1. /\ n \in DOMAIN element.columns /\ element.form \in {"absolute", "last"}
      /\ element.unit = element.group /\ Moves(element, n) = 1
      /\ element.group \in Nat \ {0} /\ element.end - element.start \in Nat
  BY ElementFacts DEF Regular
<1> HIDE DEF n
<1>4. Moves(element, idx) = 1 /\ table \cap Window(element, idx) = RowsAsked
  BY RegularWindows
<1>5. (element.end - element.start) \div element.group \in Nat
  BY <1>1, Division
<1>6. OuterLimit(element) = (element.end - element.start) \div element.group
  <2>1. OuterLimit(element) = (EndAfter(element, 0) - StartAfter(element, 0)) \div element.unit
    <3> DEFINE moves == IF element.form = "absolute" THEN Moves(element, n) - 1 ELSE 0
    <3>1. OuterLimit(element) = IF element.unit = NoUnit THEN 0
                                ELSE (EndAfter(element, moves) - StartAfter(element, moves)) \div element.unit
      BY DEF OuterLimit, Units, n
    <3>2. moves = 0 /\ element.unit # NoUnit
      BY <1>1 DEF NoUnit
    <3> HIDE DEF moves
    <3> QED
      BY <3>1, <3>2
  <2>2. EndAfter(element, 0) = element.end /\ StartAfter(element, 0) = element.start
    BY DEF EndAfter, StartAfter
  <2> QED
    BY <1>1, <2>1, <2>2
<1>7. InnerLimit(element, idx) = OuterLimit(element) + 2
  BY <1>1, <1>4 DEF InnerLimit, Units, OuterLimit, n
<1>8. InnerLimit(element, idx) # NoLimit
  BY <1>5, <1>6, <1>7 DEF NoLimit
<1>9. \A t, b : Before(element, idx, t, b) <=> t < b
  BY <1>4 DEF Before
<1> QED
  BY <1>4, <1>6, <1>7, <1>8, <1>9 DEF Subquery, BucketsFetched, BucketsWithRows, RowsIn, Earlier

(* The rows asked for are of the table and of the moved period.            *)
LEMMA AskedHalves ==
    ASSUME element \in Element, table \in TableContents, NEW h \in RowsAsked
    PROVE  /\ h \in Nat \ {0} /\ h \in table
           /\ From - element.group <= h /\ h < Until
           /\ Bucket(h, element.group) \in Half
<1>1. h \in Half /\ LastHalf \in Nat
  BY WindowAssumption DEF RowsAsked
<1>2. h \in Nat \ {0} /\ h <= LastHalf
  BY <1>1 DEF Half
<1>3. Bucket(h, element.group) \in 1 .. h
  BY <1>2, ElementFacts, BucketFacts
<1> QED
  BY <1>1, <1>2, <1>3 DEF RowsAsked, Half

LEMMA FetchedBuckets ==
    ASSUME element \in Element, table \in TableContents
    PROVE  /\ BucketsFetched \subseteq BucketsWithRows /\ BucketsWithRows \subseteq Half
           /\ BucketsWithRows \subseteq Nat \ {0}
           /\ IsFiniteSet(BucketsWithRows) /\ IsFiniteSet(BucketsFetched)
           /\ \A b \in BucketsWithRows : RowsIn(b) # {}
<1>1. BucketsWithRows \subseteq Half
  BY AskedHalves DEF BucketsWithRows
<1>2. LastHalf \in Nat
  BY WindowAssumption
<1>3. IsFiniteSet(Half)
  BY <1>2, FS_Interval DEF Half
<1>4. BucketsFetched \subseteq BucketsWithRows
  BY DEF BucketsFetched
<1>5. IsFiniteSet(BucketsWithRows)
  BY <1>1, <1>3, SmallerPart
<1>6. IsFiniteSet(BucketsFetched)
  BY <1>4, <1>5, SmallerPart
<1>7. \A b \in BucketsWithRows : RowsIn(b) # {}
  BY DEF BucketsWithRows, RowsIn
<1> QED
  BY <1>1, <1>2, <1>4, <1>5, <1>6, <1>7 DEF Half

(* The buckets in the order of time, each with the one before it.          *)
InOrderOfTime(n, times) ==
    /\ \A k \in 1 .. n : Cardinality(Earlier(BucketsFetched, times[k])) = k - 1
    /\ \A b \in BucketsFetched : \E k \in 1 .. n : times[k] = b
    /\ \A i, j \in 1 .. n : i < j <=> times[i] < times[j]
    /\ DOMAIN joined = 1 .. n
    /\ \A i \in 1 .. n :
         /\ joined[i].time = times[i] /\ 1 \in DOMAIN joined[i].values
         /\ joined[i].values[1] = IF i = 1 THEN Null ELSE <<RowsIn(times[i]), RowsIn(times[i - 1])>>

(* The join of a regular query: the buckets in order, each with the one    *)
(* before it.                                                              *)
LEMMA RegularRows ==
    ASSUME element \in Element, table \in TableContents, Regular, NEW plan \in {"merge", "hash"},
           joined = Joined(element, table, plan)
    PROVE  \E n \in Nat : \E times \in [1 .. n -> BucketsFetched] : InOrderOfTime(n, times)
<1>0. PICK subs : subs = [idx \in DOMAIN element.columns |-> Subquery(element, table, idx)]
  OBVIOUS
<1> DEFINE times == JoinTimes(element, subs, plan)
           n == Cardinality(BucketsFetched)
<1>1. PICK all : all = UNION {DOMAIN subs[i] : i \in DOMAIN element.columns}
  OBVIOUS
<1>2. PICK before : before = {p \in all \X all : p[1] < p[2]}
  OBVIOUS
<1>2a. {p \in all \X all : Before(element, 1, p[1], p[2])} = before
  <2>1. 1 \in DOMAIN element.columns
    BY ElementFacts
  <2>2. Moves(element, 1) = 1
    BY <2>1, RegularWindows
  <2>3. \A x, y : Before(element, 1, x, y) <=> x < y
    BY <2>2 DEF Before
  <2> QED
    BY <1>2, <2>3
<1>3. times = Sorted(BucketsFetched, before) /\ all = BucketsFetched
  <2>1. 1 \in DOMAIN element.columns
    BY ElementFacts
  <2>2. \A i \in DOMAIN element.columns : subs[i] = [b \in BucketsFetched |-> RowsIn(b)]
    BY <1>0, RegularSubqueries
  <2>3. all = BucketsFetched /\ DOMAIN subs[1] = BucketsFetched
    BY <1>1, <2>1, <2>2
  <2>4. JoinTimes(element, subs, plan) =
          IF plan = "merge" THEN Sorted(all, before)
          ELSE Sorted(DOMAIN subs[1], before) \o Sorted(all \ DOMAIN subs[1], before)
    BY <1>1, <1>2, <1>2a DEF JoinTimes
  <2>5. all \ DOMAIN subs[1] = {}
    BY <2>3
  <2>6. Sorted({}, before) = <<>>
    <3>1. Cardinality({}) = 0
      BY FS_EmptySet
    <3> QED
      BY <3>1 DEF Sorted
  <2>7. BucketsFetched \subseteq Half
    BY FetchedBuckets
  <2>8. \A x, y \in BucketsFetched : <<x, y>> \in before <=> x < y
    BY <1>2, <2>3
  <2>9. Sorted(BucketsFetched, before) \in Seq(BucketsFetched)
    BY <2>7, <2>8, SortedTimes
  <2>10. Sorted(BucketsFetched, before) \o <<>> = Sorted(BucketsFetched, before)
    BY <2>9, ConcatEmptySeq
  <2> QED
    BY <2>3, <2>4, <2>5, <2>6, <2>10
<1>4. BucketsFetched \subseteq Half /\ \A b \in BucketsFetched : RowsIn(b) # {}
  BY FetchedBuckets
<1>5. \A x, y \in BucketsFetched : <<x, y>> \in before <=> x < y
  BY <1>2, <1>3
<1>6. 1 \in DOMAIN element.columns /\ element.columns[1] = "difference"
  BY ElementFacts DEF Regular
<1>7. subs[1] = [b \in BucketsFetched |-> RowsIn(b)]
  BY <1>0, <1>6, RegularSubqueries
<1>8. joined = [i \in DOMAIN times |->
                  [time   |-> IF times[i] \in DOMAIN subs[1] THEN times[i] ELSE NoTime,
                   values |-> [idx \in DOMAIN element.columns |-> Column(element, subs, times, idx, i)]]]
  BY <1>0 DEF Joined
<1> HIDE DEF times
<1>9. /\ n \in Nat /\ times \in [1 .. n -> BucketsFetched]
      /\ \A k \in 1 .. n : Cardinality(Earlier(BucketsFetched, times[k])) = k - 1
      /\ \A x \in BucketsFetched : \E k \in 1 .. n : times[k] = x
      /\ \A i, j \in 1 .. n : i < j <=> times[i] < times[j]
  <2> DEFINE sorted == Sorted(BucketsFetched, before)
  <2>1. /\ n \in Nat /\ sorted \in [1 .. n -> BucketsFetched]
        /\ \A k \in 1 .. n : Cardinality(Earlier(BucketsFetched, sorted[k])) = k - 1
        /\ \A x \in BucketsFetched : \E k \in 1 .. n : sorted[k] = x
        /\ \A i, j \in 1 .. n : i < j <=> sorted[i] < sorted[j]
    BY <1>4, <1>5, SortedTimes
  <2> HIDE DEF sorted, n
  <2>2. times = sorted
    BY <1>3 DEF sorted
  <2> QED
    BY <2>1, <2>2
<1> HIDE DEF n
<1>10. ASSUME NEW i \in 1 .. n
       PROVE  /\ joined[i].time = times[i] /\ 1 \in DOMAIN joined[i].values
              /\ joined[i].values[1] = IF i = 1 THEN Null ELSE <<RowsIn(times[i]), RowsIn(times[i - 1])>>
  <2>1. times[i] \in BucketsFetched /\ DOMAIN times = 1 .. n
    BY <1>9
  <2>2. joined[i].time = times[i] /\ 1 \in DOMAIN joined[i].values
        /\ joined[i].values[1] = Column(element, subs, times, 1, i)
    BY <1>6, <1>7, <1>8, <2>1
  <2>3. ValueAt(subs[1], times[i]) = RowsIn(times[i]) /\ RowsIn(times[i]) # NoRows
    BY <1>4, <1>7, <2>1 DEF ValueAt, NoRows
  <2>4. CASE i = 1
    <3>1. Column(element, subs, times, 1, i) = Null
      BY <1>6, <2>3, <2>4 DEF Column
    <3> QED
      BY <2>2, <2>4, <3>1
  <2>5. CASE i # 1
    <3>1. times[i - 1] \in BucketsFetched
      <4>1. i - 1 \in 1 .. n
        BY <1>9, <2>5
      <4> QED
        BY <1>9, <4>1
    <3>2. ValueAt(subs[1], times[i - 1]) = RowsIn(times[i - 1]) /\ RowsIn(times[i - 1]) # NoRows
      BY <1>4, <1>7, <3>1 DEF ValueAt, NoRows
    <3>3. Column(element, subs, times, 1, i) = <<RowsIn(times[i]), RowsIn(times[i - 1])>>
      BY <1>6, <2>3, <2>5, <3>2 DEF Column
    <3> QED
      BY <2>2, <2>5, <3>3
  <2> QED
    BY <2>4, <2>5
<1>11. DOMAIN joined = 1 .. n
  BY <1>8, <1>9
<1> QED
  BY <1>9, <1>10, <1>11 DEF InOrderOfTime

-----------------------------------------------------------------------------
(* How many buckets there are in a span of time.                           *)

(* A span of time has no more buckets than group times.                    *)
LEMMA FewBuckets ==
    ASSUME NEW g \in Nat \ {0}, NEW lo \in Int, NEW hi \in Int, NEW c \in Nat, hi - lo + 1 <= c,
           NEW S, \A b \in S : \E k \in lo .. hi : b = 1 + k * g
    PROVE  Cardinality(S) <= c
<1> DEFINE K == {k \in lo .. hi : 1 + k * g \in S}
           f == [k \in K |-> 1 + k * g]
<1>1. /\ IsFiniteSet(lo .. hi)
      /\ Cardinality(lo .. hi) = IF lo > hi THEN 0 ELSE hi - lo + 1
  BY FS_Interval
<1>2. K \subseteq lo .. hi
  OBVIOUS
<1>3. IsFiniteSet(K) /\ Cardinality(K) \in Nat /\ Cardinality(K) <= Cardinality(lo .. hi)
  <2> HIDE DEF K
  <2> QED
    BY <1>1, <1>2, SmallerPart
<1>4. \A b \in S : \E k \in K : f[k] = b
  OBVIOUS
<1>5. f \in [K -> S]
  OBVIOUS
<1>6. f \in Surjection(K, S)
  <2> HIDE DEF f, K
  <2> QED
    BY <1>4, <1>5 DEF Surjection
<1>7. IsFiniteSet(S) /\ Cardinality(S) <= Cardinality(K)
  <2> HIDE DEF f, K
  <2> QED
    BY <1>3, <1>6, FS_Surjection
<1>8. Cardinality(S) \in Nat
  BY <1>7, FS_CardinalityType
<1> HIDE DEF K
<1> QED
  BY <1>1, <1>3, <1>7, <1>8

(* Two buckets are apart by the group time at least.                       *)
LEMMA BucketsApart ==
    ASSUME NEW g \in Nat \ {0}, NEW h \in Nat \ {0}, NEW i \in Nat \ {0},
           Bucket(h, g) < Bucket(i, g)
    PROVE  Bucket(h, g) + g <= Bucket(i, g)
<1>1. /\ (h - 1) \div g \in Int /\ Bucket(h, g) = 1 + ((h - 1) \div g) * g
      /\ (i - 1) \div g \in Int /\ Bucket(i, g) = 1 + ((i - 1) \div g) * g
  BY BucketFacts
<1> DEFINE k == (h - 1) \div g
           m == (i - 1) \div g
<1> HIDE DEF k, m
<1>2. k \in Int /\ m \in Int /\ Bucket(h, g) = 1 + k * g /\ Bucket(i, g) = 1 + m * g
  BY <1>1 DEF k, m
<1>3. /\ k * g \in Int /\ m * g \in Int
      /\ k < m => k * g + g <= m * g
      /\ m * g < k * g + g => m <= k
  BY <1>2, Multiples
<1>4. m <= k => m * g < k * g + g
  <2>1. m = k \/ m < k \/ k < m
    BY <1>2
  <2>2. m < k => m * g + g <= k * g
    BY <1>2, Multiples
  <2> QED
    BY <1>2, <1>3, <2>1, <2>2
<1> QED
  BY <1>2, <1>3, <1>4

(* The start of a bucket is in it.                                         *)
LEMMA BucketOfStart ==
    ASSUME NEW g \in Nat \ {0}, NEW k \in Nat
    PROVE  /\ k * g \in Nat /\ 1 + k * g \in Nat \ {0}
           /\ Bucket(1 + k * g, g) = 1 + k * g
<1>1. k * g \in Nat
  OBVIOUS
<1>2. (k * g) \div g = k
  <2> DEFINE m == (k * g) \div g
  <2>1. m \in Nat /\ m * g <= k * g /\ k * g < m * g + g
    BY <1>1, Division
  <2> HIDE DEF m
  <2>2. k <= m
    BY <2>1, Multiples
  <2>3. m < k + 1
    <3>1. m * g < k * g + g
      BY <1>1, <2>1
    <3>2. m <= k
      BY <2>1, <3>1, Multiples
    <3> QED
      BY <2>1, <3>2
  <2> QED
    BY <2>1, <2>2, <2>3 DEF m
<1>3. (1 + k * g) - 1 = k * g
  BY <1>1
<1> QED
  BY <1>1, <1>2, <1>3 DEF Bucket

(* The answer gets the last rows, as many as the window has units.         *)
IsFetched(r) ==
    \E k \in DOMAIN fetched : fetched[k] = [time |-> r.time, empty |-> \A v \in Range(r.values) : v = Null]
IsAmongLast(t, n, times) == \E j \in 1 .. n : t = times[j] /\ n - j < OuterLimit(element)

LEMMA RegularFetched ==
    ASSUME element \in Element, NEW n \in Nat, NEW times \in [1 .. n -> Nat \ {0}],
           \A i, j \in 1 .. n : i < j <=> times[i] < times[j],
           DOMAIN joined = 1 .. n, \A i \in 1 .. n : joined[i].time = times[i],
           fetched = Executed(element, joined)
    PROVE  /\ \A j \in 1 .. n : n - j < OuterLimit(element) => IsFetched(joined[j])
           /\ \A k \in DOMAIN fetched : fetched[k] = NilRow \/ IsAmongLast(fetched[k].time, n, times)
<1> DEFINE q == OuterLimit(element)
<1>1. q \in Nat
  BY OuterLimitIsNatural
<1>2. \A i \in 1 .. n : joined[i].time \in Nat
  OBVIOUS
<1>3. PICK at \in [1 .. n -> 1 .. n], c \in 0 .. n :
        /\ c = IF q >= n THEN n ELSE q
        /\ \A i \in 1 .. n : \E k \in 1 .. n : at[k] = i
        /\ \A k \in 1 .. n : Cardinality(Ahead(joined, at[k])) = k - 1
        /\ fetched = FirstRows(joined, at, c)
  <2>1. element \in Element /\ n \in Nat /\ DOMAIN joined = 1 .. n /\ fetched = Executed(element, joined)
    OBVIOUS
  <2>2. \E at \in [1 .. n -> 1 .. n], c \in 0 .. n :
            /\ c = IF OuterLimit(element) >= n THEN n ELSE OuterLimit(element)
            /\ \A i \in 1 .. n : \E k \in 1 .. n : at[k] = i
            /\ \A k \in 1 .. n : Cardinality(Ahead(joined, at[k])) = k - 1
            /\ Executed(element, joined) = FirstRows(joined, at, c)
    BY ONLY <1>2, <2>1, ExecutedFacts, ZenonT(60)
  <2> QED
    BY <2>1, <2>2
<1> HIDE DEF q
<1>4. ASSUME NEW j \in 1 .. n PROVE Cardinality(Ahead(joined, j)) = n - j
  <2>1. \A i \in 1 .. n : times[i] # 0 /\ times[i] \in Nat
    OBVIOUS
  <2>2. \A i \in 1 .. n : i > j <=> times[i] > times[j]
    OBVIOUS
  <2>3. \A i \in 1 .. n : i \in Ahead(joined, j) <=> i > j
    BY <2>1, <2>2 DEF Ahead, OuterBefore, NoTime
  <2>4. Ahead(joined, j) \subseteq 1 .. n
    BY DEF Ahead
  <2>5. \A i : i \in Ahead(joined, j) <=> i \in j + 1 .. n
    <3>1. \A i \in 1 .. n : i > j => i \in j + 1 .. n
      OBVIOUS
    <3>2. \A i \in j + 1 .. n : i \in 1 .. n /\ i > j
      OBVIOUS
    <3> QED
      BY ONLY <2>3, <2>4, <3>1, <3>2
  <2>6. Ahead(joined, j) = j + 1 .. n
    BY <2>5
  <2>7. Cardinality(j + 1 .. n) = IF j + 1 > n THEN 0 ELSE n - (j + 1) + 1
    BY ONLY FS_Interval, n \in Nat, j \in 1 .. n
  <2> QED
    BY ONLY <2>6, <2>7, n \in Nat, j \in 1 .. n
<1>5. \A k \in 1 .. n : at[k] \in 1 .. n /\ n - at[k] = k - 1
  BY <1>3, <1>4
<1>6. ASSUME NEW j \in 1 .. n, n - j < q PROVE IsFetched(joined[j])
  <2>1. PICK k \in 1 .. n : at[k] = j
    BY <1>3
  <2>2. k \in 1 .. c /\ c # 0
    <3>1. k - 1 < q
      BY <1>5, <1>6, <2>1
    <3>2. c = IF q >= n THEN n ELSE q
      BY <1>3
    <3> QED
      BY ONLY <1>1, <3>1, <3>2, n \in Nat, k \in 1 .. n
  <2>3. fetched = [i \in 1 .. c |-> [time  |-> joined[at[i]].time,
                                     empty |-> \A v \in Range(joined[at[i]].values) : v = Null]]
    BY <1>3, <2>2 DEF FirstRows
  <2>4. k \in DOMAIN fetched /\ fetched[k] = [time  |-> joined[at[k]].time,
                                              empty |-> \A v \in Range(joined[at[k]].values) : v = Null]
    BY <2>2, <2>3
  <2> QED
    BY <2>1, <2>4 DEF IsFetched
<1>7. ASSUME NEW k \in DOMAIN fetched
      PROVE  fetched[k] = NilRow \/ IsAmongLast(fetched[k].time, n, times)
  <2>1. CASE c = 0
    <3>1. fetched = <<NilRow>>
      BY <1>3, <2>1 DEF FirstRows
    <3>2. k = 1
      BY <3>1
    <3> QED
      BY <3>1, <3>2
  <2>2. CASE c # 0
    <3>1. fetched = [i \in 1 .. c |-> [time  |-> joined[at[i]].time,
                                       empty |-> \A v \in Range(joined[at[i]].values) : v = Null]]
      BY <1>3, <2>2 DEF FirstRows
    <3>2. k \in 1 .. c /\ fetched[k].time = joined[at[k]].time
      BY <3>1
    <3>3. k \in 1 .. n /\ k - 1 < q
      <4>1. c = IF q >= n THEN n ELSE q
        BY <1>3
      <4> QED
        BY ONLY <1>1, <3>2, <4>1, n \in Nat
    <3>4. at[k] \in 1 .. n /\ n - at[k] < q
      BY <1>5, <3>3
    <3> QED
      BY <3>2, <3>4 DEF IsAmongLast, q
  <2> QED
    BY <2>1, <2>2
<1> QED
  BY <1>6, <1>7 DEF q

-----------------------------------------------------------------------------
(* A bucket asked for.                                                     *)

(* The period in whole buckets.                                            *)
LEMMA PeriodInBuckets ==
    ASSUME element \in Element, table \in TableContents, Regular
    PROVE  /\ element.group \in Nat \ {0} /\ element.start \in Nat \ {0} /\ element.end \in Nat \ {0}
           /\ OuterLimit(element) \in Nat /\ OuterLimit(element) * element.group \in Nat
           /\ OuterLimit(element) * element.group <= element.end - element.start
           /\ element.end - element.start < OuterLimit(element) * element.group + element.group
           /\ (element.end - element.start) % element.group = 0
                => element.end - element.start = OuterLimit(element) * element.group
           /\ From \in Nat \ {0} /\ Until \in Nat \ {0}
           /\ OuterLimit(element) * element.group <= Until - From
           /\ Until <= From + OuterLimit(element) * element.group + element.group
<1>1. /\ element.group \in Nat \ {0} /\ element.start \in Nat \ {0} /\ element.end \in Nat \ {0}
      /\ element.end - element.start \in Nat
  BY ElementFacts
<1>2. OuterLimit(element) = (element.end - element.start) \div element.group
  <2>1. 1 \in DOMAIN element.columns
    BY ElementFacts
  <2> QED
    BY <2>1, RegularSubqueries
<1>3. \A a \in Nat, g \in Nat \ {0} : /\ a \div g \in Nat /\ (a \div g) * g <= a /\ a < (a \div g) * g + g
                                      /\ (a \div g) * g \in Nat /\ (a % g = 0 => a = (a \div g) * g)
  OBVIOUS
<1> DEFINE q == OuterLimit(element)
           g == element.group
<1>4. /\ q \in Nat /\ q * g \in Nat
      /\ q * g <= element.end - element.start /\ element.end - element.start < q * g + g
      /\ (element.end - element.start) % g = 0 => element.end - element.start = q * g
  BY <1>1, <1>2, <1>3
<1> HIDE DEF q, g
<1>5. /\ From \in Nat \ {0} /\ Until \in Nat \ {0}
      /\ element.start + q * g <= element.end => From + q * g <= Until
      /\ element.end < element.start + (q + 1) * g => Until <= From + (q + 1) * g
  <2>1. q + 1 \in Nat
    BY <1>4
  <2> QED
    BY <1>4, <2>1, WholePeriod DEF g
<1>6. g \in Nat \ {0} /\ (q + 1) * g = q * g + g
  <2>1. g \in Nat \ {0}
    BY <1>1 DEF g
  <2> QED
    BY <1>4, <2>1
<1>7. q * g <= Until - From /\ Until <= From + q * g + g
  BY ONLY <1>1, <1>4, <1>5, <1>6
<1> QED
  BY <1>1, <1>4, <1>5, <1>7 DEF q, g

(* The rows of a bucket asked for and of the one before it are selected,   *)
(* and neither is cut off by the limit of the subquery.                    *)
LEMMA AskedIsFetched ==
    ASSUME element \in Element, table \in TableContents, Regular,
           NEW b \in AskedBuckets, Full(b) # {}, b > element.group, Full(b - element.group) # {}
    PROVE  /\ b \in BucketsFetched /\ RowsIn(b) = Full(b)
           /\ b - element.group \in BucketsFetched /\ RowsIn(b - element.group) = Full(b - element.group)
<1> DEFINE g == element.group
           s == element.start
           t == element.end
           q == OuterLimit(element)
           u == From
           v == Until
           kb == (b - 1) \div g
<1>1. /\ g \in Nat \ {0} /\ s \in Nat \ {0} /\ t \in Nat \ {0} /\ q \in Nat /\ q * g \in Nat
      /\ u \in Nat \ {0} /\ v \in Nat \ {0} /\ v <= u + q * g + g
  BY PeriodInBuckets
<1>2. b \in Nat \ {0} /\ b = Bucket(b, g) /\ s <= b /\ b + g <= t
  BY WindowAssumption DEF AskedBuckets, Half
<1>2a. u <= s /\ \A k \in Int : 1 + k * g <= t => 1 + k * g <= v
  BY WholePeriod
<1> HIDE DEF g, s, t, q, u, v
<1>3. kb \in Int /\ b = 1 + kb * g /\ kb * g \in Int
  BY <1>1, <1>2, BucketFacts
<1>4. \A h \in table : h \in Nat \ {0} /\ Bucket(h, g) <= h /\ h < Bucket(h, g) + g /\ Bucket(h, g) \in Nat
  <2> SUFFICES ASSUME NEW h \in table
               PROVE  h \in Nat \ {0} /\ Bucket(h, g) <= h /\ h < Bucket(h, g) + g /\ Bucket(h, g) \in Nat
    OBVIOUS
  <2>1. h \in Nat \ {0}
    BY WindowAssumption DEF Half
  <2>2. Bucket(h, g) \in 1 .. h /\ h < Bucket(h, g) + g
    BY <1>1, <2>1, BucketFacts
  <2> QED
    BY <2>1, <2>2
<1> HIDE DEF kb
<1>4a. b + g <= v
  <2>1. kb + 1 \in Int /\ (kb + 1) * g = kb * g + g
    BY <1>1, <1>3
  <2>2. 1 + (kb + 1) * g = b + g
    BY <1>1, <1>3, <2>1
  <2> QED
    BY <1>2, <1>2a, <2>1, <2>2
<1>5. ASSUME NEW h \in table, Bucket(h, g) = b \/ Bucket(h, g) = b - g
      PROVE  h \in RowsAsked
  <2>1. u - g <= h /\ h < v
    BY <1>1, <1>2, <1>2a, <1>4, <1>4a, <1>5
  <2> QED
    BY <2>1 DEF RowsAsked, u, g, v
<1>6. RowsIn(b) = Full(b) /\ RowsIn(b - g) = Full(b - g)
  BY <1>5 DEF RowsIn, Full, RowsAsked, g
<1>7. b \in BucketsWithRows /\ b - g \in BucketsWithRows
  <2>1. RowsIn(b) # {} /\ RowsIn(b - g) # {}
    BY <1>6 DEF g
  <2> QED
    BY <2>1 DEF RowsIn, BucketsWithRows, g
<1>8. Cardinality(Earlier(BucketsWithRows, b)) <= q + 1
  <2>1. ASSUME NEW c \in Earlier(BucketsWithRows, b)
        PROVE  \E k \in kb - q - 1 .. kb - 1 : c = 1 + k * g
    <3>1. PICK h \in RowsAsked : c = Bucket(h, g) /\ c < b
      BY DEF Earlier, BucketsWithRows, g
    <3>2. h \in table /\ h \in Nat \ {0} /\ h < c + g /\ u - g <= h /\ c \in Nat
      BY <1>4, <3>1 DEF RowsAsked, u, g
    <3> DEFINE k == (h - 1) \div g
    <3>3. k \in Int /\ c = 1 + k * g /\ k * g \in Int
      BY ONLY <1>1, <3>1, <3>2, BucketFacts
    <3> HIDE DEF k
    <3>4. k <= kb - 1
      <4>1. kb <= k => kb * g <= k * g
        <5>1. kb = k \/ (kb < k => kb * g + g <= k * g)
          BY <1>1, <1>3, <3>3, Multiples
        <5> QED
          BY <1>1, <1>3, <3>3, <5>1
      <4> QED
        BY <1>3, <3>1, <3>3, <4>1
    <3>5. kb - q - 1 <= k
      <4> DEFINE m == kb - q - 1
      <4>1. m \in Int /\ m * g = kb * g - q * g - g
        BY <1>1, <1>3
      <4>2. k < m => k * g + g <= m * g
        BY <1>1, <3>3, <4>1, Multiples
      <4> HIDE DEF m
      <4>3. ~ (k < m)
        BY <1>1, <1>2, <1>3, <1>4a, <3>2, <3>3, <4>1, <4>2
      <4> QED
        BY <3>3, <4>1, <4>3 DEF m
    <3> QED
      BY <1>1, <1>3, <3>3, <3>4, <3>5
  <2>2. kb - q - 1 \in Int /\ kb - 1 \in Int /\ q + 1 \in Nat /\ (kb - 1) - (kb - q - 1) + 1 <= q + 1
    BY <1>1, <1>3
  <2> QED
    BY <1>1, <2>1, <2>2, FewBuckets
<1>9. /\ Cardinality(Earlier(BucketsWithRows, b)) \in Nat
      /\ Cardinality(Earlier(BucketsWithRows, b - g)) \in Nat
      /\ Cardinality(Earlier(BucketsWithRows, b - g)) <= Cardinality(Earlier(BucketsWithRows, b))
  <2>1. IsFiniteSet(BucketsWithRows) /\ BucketsWithRows \subseteq Nat \ {0}
    BY FetchedBuckets
  <2>2. Earlier(BucketsWithRows, b) \subseteq BucketsWithRows
    BY DEF Earlier
  <2>3. IsFiniteSet(Earlier(BucketsWithRows, b))
    BY <2>1, <2>2, SmallerPart
  <2>4. Earlier(BucketsWithRows, b - g) \subseteq Earlier(BucketsWithRows, b)
    <3>1. \A c \in Nat : c < b - g => c < b
      BY <1>1, <1>2
    <3> QED
      BY <2>1, <3>1 DEF Earlier
  <2> QED
    BY <2>3, <2>4, SmallerPart
<1>10. b \in BucketsFetched /\ b - g \in BucketsFetched
  BY <1>1, <1>7, <1>8, <1>9 DEF BucketsFetched, q
<1> QED
  BY <1>6, <1>10 DEF g

(* Nor does the outer limit cut it off: too few buckets come after it.     *)
LEMMA AskedIsNotCut ==
    ASSUME element \in Element, table \in TableContents, Regular, NothingCutOff, NEW b \in AskedBuckets
    PROVE  Cardinality({c \in BucketsFetched : c > b}) < OuterLimit(element)
<1> DEFINE g == element.group
           s == element.start
           t == element.end
           q == OuterLimit(element)
           kb == (b - 1) \div g
           Later == {c \in BucketsFetched : c > b}
<1>1. /\ g \in Nat \ {0} /\ s \in Nat \ {0} /\ t \in Nat \ {0} /\ q \in Nat /\ q * g \in Nat
      /\ q * g <= t - s /\ t - s < q * g + g
      /\ (t - s) % g = 0 => t - s = q * g
  BY PeriodInBuckets
<1>2. b \in Nat \ {0} /\ b = Bucket(b, g) /\ s <= b /\ b + g <= t
  BY WindowAssumption DEF AskedBuckets, Half
<1>3. (t - s) % g = 0 \/ Bucket(t, g) = t
  BY DEF NothingCutOff, Regular
<1> HIDE DEF g, s, t, q
<1>4. kb \in Int /\ b = 1 + kb * g /\ kb * g \in Int
  BY <1>1, <1>2, BucketFacts
<1> HIDE DEF kb
<1>5. q >= 1
  <2>1. q = 0 => q * g = 0
    BY <1>1
  <2> QED
    BY <1>1, <1>2, <2>1
<1>6. ASSUME NEW c \in Later PROVE \E k \in kb + 1 .. kb + q - 1 : c = 1 + k * g
  <2>1. c \in BucketsWithRows /\ c > b
    BY DEF BucketsFetched
  <2>2. PICK h \in RowsAsked : c = Bucket(h, g)
    BY <2>1 DEF BucketsWithRows, g
  <2>3. h \in Nat \ {0} /\ h < t
    <3>1. h \in Nat \ {0} /\ h < Until /\ Until <= element.end /\ Until \in Nat /\ element.end \in Nat
      BY AskedHalves, WholePeriod, ElementFacts
    <3> QED
      BY <3>1 DEF t
  <2> DEFINE k == (h - 1) \div g
  <2>4. c \in 1 .. h /\ k \in Int /\ c = 1 + k * g /\ k * g \in Int
    BY <1>1, <2>2, <2>3, BucketFacts
  <2> HIDE DEF k
  <2>5. kb + 1 <= k
    <3>1. k = kb \/ (k < kb => k * g + g <= kb * g)
      BY <1>1, <1>4, <2>4, Multiples
    <3> QED
      BY <1>1, <1>4, <2>1, <2>4, <3>1
  <2>6. k <= kb + q - 1
    <3> SUFFICES ASSUME kb + q <= k PROVE FALSE
      BY <1>1, <1>4, <2>4
    <3> DEFINE m == kb + q
    <3>1. m \in Int /\ m * g = kb * g + q * g
      BY <1>1, <1>4
    <3>2. m * g <= k * g
      <4>1. m = k \/ (m < k => m * g + g <= k * g)
        BY <1>1, <2>4, <3>1, Multiples
      <4> QED
        BY <1>1, <2>4, <3>1, <4>1
    <3> HIDE DEF m
    <3>3. CASE (t - s) % g = 0
      BY <1>1, <1>2, <1>4, <2>3, <2>4, <3>1, <3>2, <3>3
    <3>4. CASE Bucket(t, g) = t
      <4> DEFINE kt == (t - 1) \div g
      <4>1. kt \in Int /\ t = 1 + kt * g /\ kt * g \in Int
        BY <1>1, <3>4, BucketFacts
      <4> HIDE DEF kt
      <4>2. k * g + g <= kt * g
        <5>1. k < kt => k * g + g <= kt * g
          BY <1>1, <2>4, <4>1, Multiples
        <5>2. kt * g < k * g + g => kt <= k
          BY <1>1, <2>4, <4>1, Multiples
        <5>3. kt <= k => kt * g <= k * g
          <6>1. kt = k \/ (kt < k => kt * g + g <= k * g)
            BY <1>1, <2>4, <4>1, Multiples
          <6> QED
            BY <1>1, <2>4, <4>1, <6>1
        <5>4. k * g < kt * g
          BY <2>3, <2>4, <4>1
        <5> QED
          BY <2>4, <4>1, <5>1, <5>3, <5>4
      <4> QED
        BY <1>1, <1>2, <1>4, <2>4, <3>1, <3>2, <4>1, <4>2
    <3> QED
      BY <1>3, <3>3, <3>4
  <2> QED
    BY <1>1, <1>4, <2>4, <2>5, <2>6
<1>7. kb + 1 \in Int /\ kb + q - 1 \in Int /\ q - 1 \in Nat /\ (kb + q - 1) - (kb + 1) + 1 <= q - 1
  BY <1>1, <1>4, <1>5
<1> HIDE DEF Later
<1>8. Cardinality(Later) <= q - 1
  BY <1>1, <1>6, <1>7, FewBuckets
<1>9. Cardinality(Later) \in Nat
  <2>1. IsFiniteSet(BucketsFetched) /\ Later \subseteq BucketsFetched
    BY FetchedBuckets DEF Later
  <2> QED
    BY <2>1, SmallerPart
<1>10. Cardinality(Later) < q
  BY <1>1, <1>8, <1>9
<1> QED
  BY <1>10 DEF Later, q

(* What was fetched and has a value is answered, unless it was to be cut.  *)
LEMMA FetchedIsAnswered ==
    ASSUME SeriesIInv, stage = "done", IsFiniteSet(DOMAIN fetched), NEW k \in DOMAIN fetched,
           ~ fetched[k].empty, ~ CutAway(fetched[k]), ~ TooLate(fetched[k])
    PROVE  \E i \in 1 .. len : array[i] = fetched[k]
<1> DEFINE r == fetched[k]
           was == {i \in DOMAIN fetched : fetched[i] = r}
           is == {i \in DOMAIN array : array[i] = r}
<1>1. r \in Range(fetched)
  BY DEF Range
<1>2. Cardinality(is) = Cardinality(was)
  BY <1>1 DEF SeriesIInv, SameValues, CountIn
<1>3. array \in Seq(AnyRow) /\ len \in 0 .. Len(array)
  BY DEF SeriesIInv, SeriesTypeOK
<1>4. DOMAIN array = 1 .. Len(array) /\ Len(array) \in Nat
  BY <1>3, LenProperties
<1>5. IsFiniteSet(was) /\ k \in was
  <2>1. was \subseteq DOMAIN fetched
    OBVIOUS
  <2> HIDE DEF was
  <2>2. IsFiniteSet(was)
    BY <2>1, SmallerPart
  <2> QED
    BY <2>2 DEF was
<1>6. Cardinality(was) # 0
  BY <1>5, FS_EmptySet
<1>7. is # {}
  BY <1>2, <1>6, FS_EmptySet
<1>8. PICK i \in DOMAIN array : array[i] = r
  BY <1>7
<1>9. i <= len
  BY <1>3, <1>4, <1>8 DEF SeriesIInv, BeyondIsCut
<1> QED
  BY <1>3, <1>4, <1>8, <1>9

(* The argument of AskedBucketsAreAnswered: selected, not cut off,         *)
(* answered.                                                               *)
LEMMA AskedAreAnswered == SeriesIInv /\ RowsOfQuery => AskedBucketsAreAnswered
<1> SUFFICES ASSUME SeriesIInv, RowsOfQuery, stage = "done", Grouped, Regular, NothingCutOff,
                    NEW b \in AskedBuckets, Full(b) # {}, b > element.group, Full(b - element.group) # {},
                    ~ CutAway([time |-> b, empty |-> FALSE])
             PROVE  Shown(b)
  BY DEF AskedBucketsAreAnswered
<1> DEFINE g == element.group
<1>1. /\ element \in Element /\ table \in TableContents /\ fetched = Executed(element, joined)
      /\ end \in EndsOriginal(element)
      /\ \E plan \in {"merge", "hash"} : joined = Joined(element, table, plan)
  BY DEF RowsOfQuery
<1>2. PICK plan \in {"merge", "hash"} : joined = Joined(element, table, plan)
  BY <1>1
<1>3. /\ b \in BucketsFetched /\ RowsIn(b) = Full(b)
      /\ b - g \in BucketsFetched /\ RowsIn(b - g) = Full(b - g)
  BY <1>1, AskedIsFetched
<1>4a. PICK n \in Nat : \E times \in [1 .. n -> BucketsFetched] : InOrderOfTime(n, times)
  BY <1>1, <1>2, RegularRows
<1>4b. PICK times \in [1 .. n -> BucketsFetched] : InOrderOfTime(n, times)
  BY <1>4a
<1>4. /\ \A c \in BucketsFetched : \E k \in 1 .. n : times[k] = c
      /\ \A i, j \in 1 .. n : i < j <=> times[i] < times[j]
      /\ DOMAIN joined = 1 .. n
      /\ \A i \in 1 .. n :
           /\ joined[i].time = times[i] /\ 1 \in DOMAIN joined[i].values
           /\ joined[i].values[1] = IF i = 1 THEN Null ELSE <<RowsIn(times[i]), RowsIn(times[i - 1])>>
  BY <1>4b DEF InOrderOfTime
<1>5. BucketsFetched \subseteq Nat \ {0} /\ IsFiniteSet(BucketsFetched) /\ g \in Nat \ {0} /\ BucketsFetched \subseteq BucketsWithRows
  BY <1>1, FetchedBuckets, ElementFacts
<1> HIDE DEF g
<1>6. PICK j \in 1 .. n : times[j] = b
  BY <1>3, <1>4
(* The row before it is that of the bucket before it.                      *)
<1>7. j # 1 /\ times[j - 1] = b - g
  <2>1. PICK i \in 1 .. n : times[i] = b - g
    BY <1>3, <1>4
  <2>2. i < j
    <3>1. times[i] < times[j] /\ b \in Nat
      BY <1>3, <1>5, <1>6, <2>1
    <3> QED
      BY <1>4, <3>1
  <2>3. j # 1 /\ j - 1 \in 1 .. n /\ j - 1 < j
    BY <2>2
  <2>4. times[j - 1] \in BucketsWithRows /\ b \in BucketsWithRows
    BY <1>3, <1>5, <2>3
  <2>5. times[j - 1] < b
    BY <1>4, <1>6, <2>3
  <2>6. times[j - 1] + g <= b
    <3>1. PICK h1 \in RowsAsked : times[j - 1] = Bucket(h1, g)
      BY <2>4 DEF BucketsWithRows, g
    <3>2. PICK h2 \in RowsAsked : b = Bucket(h2, g)
      BY <2>4 DEF BucketsWithRows, g
    <3>3. h1 \in Nat \ {0} /\ h2 \in Nat \ {0}
      BY <1>1, AskedHalves
    <3> QED
      BY <1>5, <2>5, <3>1, <3>2, <3>3, BucketsApart
  <2>7. ~ (times[i] < times[j - 1]) => i = j - 1
    <3>1. i < j - 1 <=> times[i] < times[j - 1]
      BY <1>4, <2>3
    <3> QED
      BY <2>2, <2>3, <3>1
  <2>8. ~ (times[i] < times[j - 1])
    <3>1. times[j - 1] \in Nat /\ b \in Nat /\ g \in Nat
      BY <1>3, <1>5, <2>3
    <3> QED
      BY ONLY <2>1, <2>6, <3>1
  <2>9. times[j - 1] = b - g
    BY ONLY <2>1, <2>7, <2>8
  <2> QED
    BY ONLY <2>3, <2>9
<1>8. joined[j].time = b /\ joined[j].values[1] = <<Full(b), Full(b - g)>>
  <2>1. /\ joined[j].time = times[j]
        /\ joined[j].values[1] = IF j = 1 THEN Null ELSE <<RowsIn(times[j]), RowsIn(times[j - 1])>>
    BY <1>4
  <2>2. joined[j].values[1] = <<RowsIn(b), RowsIn(b - g)>>
    BY ONLY <1>6, <1>7, <2>1
  <2> QED
    BY ONLY <1>3, <1>6, <2>1, <2>2
(* Its row is among the last, and has a value.                             *)
<1>9. n - j < OuterLimit(element)
  <2> DEFINE Later == {c \in BucketsFetched : c > b}
             f == [i \in j + 1 .. n |-> times[i]]
  <2>1. Cardinality(Later) < OuterLimit(element)
    BY <1>1, AskedIsNotCut
  <2>2. \A i \in j + 1 .. n : i \in 1 .. n /\ j < i
    OBVIOUS
  <2>3. \A i \in j + 1 .. n : times[i] \in Later
    BY <1>4, <1>6, <2>2
  <2>4. \A i, m \in 1 .. n : times[i] = times[m] => i = m
    <3> SUFFICES ASSUME NEW i \in 1 .. n, NEW m \in 1 .. n, times[i] = times[m] PROVE i = m
      OBVIOUS
    <3>1. times[i] \in Nat
      BY <1>5
    <3>2. ~ (i < m) /\ ~ (m < i)
      BY <1>4, <3>1
    <3> QED
      BY <3>2
  <2> HIDE DEF Later
  <2>5. f \in Injection(j + 1 .. n, Later)
    <3>1. f \in [j + 1 .. n -> Later]
      BY <2>3
    <3>2. \A i, m \in j + 1 .. n : f[i] = f[m] => i = m
      BY <2>2, <2>4
    <3> HIDE DEF f
    <3> QED
      BY <3>1, <3>2 DEF Injection, IsInjective
  <2>6. IsFiniteSet(Later) /\ Cardinality(Later) \in Nat
    <3>1. Later \subseteq BucketsFetched
      BY DEF Later
    <3> QED
      BY <1>5, <3>1, SmallerPart
  <2>7. Cardinality(j + 1 .. n) <= Cardinality(Later)
    BY <2>5, <2>6, FS_Injection
  <2>8. Cardinality(j + 1 .. n) = IF j + 1 > n THEN 0 ELSE n - (j + 1) + 1
    BY FS_Interval
  <2>9. OuterLimit(element) \in Nat
    BY <1>1, OuterLimitIsNatural
  <2> QED
    BY ONLY <2>1, <2>6, <2>7, <2>8, <2>9, n \in Nat, j \in 1 .. n
<1>10. PICK k \in DOMAIN fetched :
         fetched[k] = [time |-> b, empty |-> \A v \in Range(joined[j].values) : v = Null]
  <2>1. times \in [1 .. n -> Nat \ {0}]
    BY <1>5
  <2>2. \A i \in 1 .. n : joined[i].time = times[i]
    BY <1>4
  <2>3. IsFetched(joined[j])
    BY <1>1, <1>4, <1>9, <2>1, <2>2, RegularFetched, ZenonT(60)
  <2> QED
    BY <1>4, <1>6, <2>3 DEF IsFetched
<1>11. ~ fetched[k].empty /\ fetched[k].time = b
  <2>1. joined[j].values[1] \in Range(joined[j].values)
    BY <1>4 DEF Range
  <2>2. joined[j].values[1] # Null
    BY <1>8 DEF Null
  <2> QED
    BY <1>10, <2>1, <2>2
<1>11a. fetched[k] = [time |-> b, empty |-> FALSE]
  <2> DEFINE empty == \A v \in Range(joined[j].values) : v = Null
  <2>1. fetched[k] = [time |-> b, empty |-> empty] /\ empty \in BOOLEAN
    BY <1>10
  <2> HIDE DEF empty
  <2>2. ~ empty
    BY <1>11, <2>1
  <2>3. empty = FALSE
    BY <2>1, <2>2
  <2> QED
    BY <2>1, <2>3
(* The end that is looked at is that of the period, which it is before.    *)
<1>11b. ~ TooLate(fetched[k])
  <2>1. CASE element.form = "absolute"
    <3>1. end = element.end
      <4>1. Moves(element, Len(element.columns)) - 1 = 0
        BY DEF Regular
      <4>2. end \in {element.end, EndAfter(element, Moves(element, Len(element.columns)) - 1)}
        BY <1>1, <2>1 DEF EndsOriginal
      <4>3. end \in {element.end, EndAfter(element, 0)}
        BY <4>1, <4>2
      <4> QED
        BY <4>3 DEF EndAfter
    <3>2. b + element.group <= element.end /\ b \in Nat /\ element.group \in Nat \ {0} /\ element.end \in Nat
      BY <1>1, <1>3, <1>5, ElementFacts DEF AskedBuckets
    <3> QED
      BY <1>11, <3>1, <3>2 DEF TooLate
  <2>2. CASE element.form # "absolute"
    <3>1. end = NoTime
      BY <1>1, <2>2 DEF EndsOriginal
    <3> QED
      BY <3>1 DEF TooLate
  <2> QED
    BY <2>1, <2>2
<1>12. PICK i \in 1 .. len : array[i] = fetched[k]
  <2>1. IsFiniteSet(DOMAIN fetched)
    <3>1. fetched \in Seq(AnyRow)
      BY <1>1, <1>2, FetchedFacts
    <3>2. DOMAIN fetched = 1 .. Len(fetched) /\ Len(fetched) \in Nat
      BY <3>1, LenProperties
    <3> QED
      BY <3>2, FS_Interval
  <2> QED
    BY <1>11, <1>11a, <1>11b, <2>1, FetchedIsAnswered
<1> QED
  BY <1>4, <1>8, <1>11, <1>12 DEF Shown, g

-----------------------------------------------------------------------------
(* Where every bucket has rows.                                            *)

(* Every bucket that begins in the moved window has rows.                  *)
LEMMA BucketIsTouched ==
    ASSUME element \in Element, table \in TableContents, Regular,
           Touched(Window(element, 1)) = Touched(Window(element, 1) \cap table),
           NEW x \in Nat \ {0}, Bucket(x, element.group) = x,
           From - element.group <= x, x < Until
    PROVE  x \in BucketsWithRows
<1>1. 1 \in DOMAIN element.columns /\ element.end <= LastHalf /\ LastHalf \in Nat /\ element.end \in Nat
  BY ElementFacts
<1>2. x \in Half
  <2>1. Until <= element.end /\ Until \in Nat
    BY WholePeriod
  <2> QED
    BY <1>1, <2>1 DEF Half
<1>3. x \in Window(element, 1) /\ Window(element, 1) \cap table = RowsAsked
  BY <1>1, <1>2, RegularWindows
<1>4. x \in Touched(Window(element, 1))
  BY <1>3 DEF Touched
<1>5. x \in Touched(RowsAsked)
  BY <1>3, <1>4
<1> QED
  BY <1>5 DEF Touched, BucketsWithRows

(* The row before that of a bucket is then that of the bucket before.      *)
LEMMA BucketBefore ==
    ASSUME element \in Element, table \in TableContents, Regular,
           Touched(Window(element, 1)) = Touched(Window(element, 1) \cap table),
           NEW n \in Nat, NEW times \in [1 .. n -> BucketsFetched], InOrderOfTime(n, times),
           NEW j \in 2 .. n
    PROVE  times[j - 1] = times[j] - element.group
<1> DEFINE g == element.group
           b == times[j]
           p == times[j - 1]
           x == b - g
<1>1. /\ g \in Nat \ {0} /\ From \in Nat \ {0} /\ Until \in Nat \ {0}
      /\ BucketsFetched \subseteq BucketsWithRows
  BY ElementFacts, FetchedBuckets, WholePeriod
<1>2. /\ \A c \in BucketsFetched : \E k \in 1 .. n : times[k] = c
      /\ \A i, k \in 1 .. n : i < k <=> times[i] < times[k]
  BY DEF InOrderOfTime
<1>3. j \in 1 .. n /\ j - 1 \in 1 .. n /\ j - 1 < j
  OBVIOUS
<1>4. b \in BucketsFetched /\ p \in BucketsFetched /\ p < b
  BY <1>2, <1>3
<1> HIDE DEF b, p, g
<1>5. PICK h1 \in RowsAsked : p = Bucket(h1, g)
  BY <1>1, <1>4 DEF BucketsWithRows, g
<1>6. PICK h2 \in RowsAsked : b = Bucket(h2, g)
  BY <1>1, <1>4 DEF BucketsWithRows, g
<1>7. /\ h1 \in Nat \ {0} /\ From - g <= h1 /\ p \in 1 .. h1 /\ h1 < p + g
      /\ h2 \in Nat \ {0} /\ h2 < Until /\ b \in 1 .. h2
  <2>1. /\ h1 \in Nat \ {0} /\ From - g <= h1
        /\ h2 \in Nat \ {0} /\ h2 < Until
    BY AskedHalves DEF g
  <2> QED
    BY <1>1, <1>5, <1>6, <2>1, BucketFacts
<1>8. p + g <= b
  BY <1>1, <1>4, <1>5, <1>6, <1>7, BucketsApart
<1> SUFFICES ASSUME p < x PROVE FALSE
  <2>1. p = x
    BY ONLY <1>1, <1>7, <1>8, ~ (p < x) DEF x
  <2> QED
    BY <2>1 DEF p, x, b, g
<1>9. x \in Nat \ {0} /\ Bucket(x, g) = x
  <2> DEFINE k == (h2 - 1) \div g
  <2>1. k \in Nat /\ b = 1 + k * g
    BY <1>1, <1>6, <1>7, BucketFacts
  <2> HIDE DEF k
  <2>2. x \in Nat \ {0}
    BY <1>1, <1>7
  <2>3. k # 0
    <3>1. k = 0 => k * g = 0
      BY <1>1
    <3> QED
      BY ONLY <1>1, <2>1, <2>2, <3>1 DEF x
  <2>4. k - 1 \in Nat /\ (k - 1) * g = k * g - g /\ k * g \in Int
    BY ONLY <1>1, <2>1, <2>3
  <2>5. x = 1 + (k - 1) * g
    BY ONLY <1>1, <2>1, <2>4 DEF x
  <2>6. Bucket(1 + (k - 1) * g, g) = 1 + (k - 1) * g
    BY ONLY <1>1, <2>4, BucketOfStart
  <2> QED
    BY ONLY <2>2, <2>5, <2>6
<1>10. h1 < x
  <2>1. p + g <= x
    BY <1>1, <1>5, <1>7, <1>9, BucketsApart
  <2> QED
    BY ONLY <1>1, <1>7, <1>9, <2>1
<1>11. x < b /\ x < Until /\ From - g <= x
  BY ONLY <1>1, <1>7, <1>9, <1>10 DEF x
<1> HIDE DEF x
<1>12. x \in BucketsWithRows
  BY <1>9, <1>11, BucketIsTouched DEF g
<1>13. x \in BucketsFetched
  <2>1. IsFiniteSet(BucketsWithRows) /\ BucketsWithRows \subseteq Nat \ {0}
    BY FetchedBuckets
  <2>2. Earlier(BucketsWithRows, x) \subseteq Earlier(BucketsWithRows, b)
    <3>1. \A c \in Nat : c < x => c < b
      BY ONLY <1>7, <1>9, <1>11
    <3> QED
      BY ONLY <2>1, <3>1 DEF Earlier
  <2>3. IsFiniteSet(Earlier(BucketsWithRows, b))
    <3>1. Earlier(BucketsWithRows, b) \subseteq BucketsWithRows
      BY DEF Earlier
    <3> QED
      BY <2>1, <3>1, SmallerPart
  <2>4. /\ Cardinality(Earlier(BucketsWithRows, x)) \in Nat
        /\ Cardinality(Earlier(BucketsWithRows, b)) \in Nat
        /\ Cardinality(Earlier(BucketsWithRows, x)) <= Cardinality(Earlier(BucketsWithRows, b))
    BY <2>2, <2>3, SmallerPart
  <2>5. OuterLimit(element) \in Nat
    BY OuterLimitIsNatural
  <2>6. Cardinality(Earlier(BucketsWithRows, b)) < OuterLimit(element) + 2
    BY <1>4 DEF BucketsFetched
  <2> QED
    BY <1>12, <2>4, <2>5, <2>6 DEF BucketsFetched
<1>14. PICK m \in 1 .. n : times[m] = x
  BY <1>2, <1>13
<1>15. j - 1 < m /\ m < j
  BY <1>2, <1>3, <1>11, <1>14 DEF b, p
<1> QED
  BY ONLY <1>15, m \in 1 .. n, n \in Nat, j \in 2 .. n

(* Where the window has only a part of the bucket before, that of the row  *)
(* lies before the period, and as many buckets follow as the limit leaves. *)
LEMMA CutOffAfterPart ==
    ASSUME element \in Element, table \in TableContents, Regular,
           Touched(Window(element, 1)) = Touched(Window(element, 1) \cap table),
           NEW n \in Nat, NEW times \in [1 .. n -> BucketsFetched], InOrderOfTime(n, times),
           NEW j \in 1 .. n, NEW h \in table, h \notin RowsAsked,
           Bucket(h, element.group) = times[j] - element.group
    PROVE  n - j >= OuterLimit(element)
<1> DEFINE g == element.group
           s == From
           t == Until
           q == OuterLimit(element)
           b == times[j]
<1>1. /\ g \in Nat \ {0} /\ s \in Nat \ {0} /\ t \in Nat \ {0} /\ q \in Nat /\ q * g \in Nat
      /\ q * g <= t - s
  BY PeriodInBuckets
<1>2. /\ \A c \in BucketsFetched : \E k \in 1 .. n : times[k] = c
      /\ \A i, k \in 1 .. n : i < k <=> times[i] < times[k]
  BY DEF InOrderOfTime
<1>3. b \in BucketsWithRows
  BY FetchedBuckets
<1>4. PICK h2 \in RowsAsked : b = Bucket(h2, g)
  BY <1>3 DEF BucketsWithRows, g
<1>5. h2 \in Nat \ {0} /\ h2 < t /\ s - g <= h2
  BY AskedHalves DEF g, s, t
<1> DEFINE kb == (h2 - 1) \div g
<1>6. h \in Nat \ {0} /\ ~ (s - g <= h /\ h < t)
  <2>1. table \subseteq Half
    BY WindowAssumption
  <2> QED
    BY <2>1 DEF Half, RowsAsked, g, s, t
<1>7. Bucket(h, g) = b - g
  BY DEF b, g
<1> HIDE DEF g, s, t, q, b
<1>8. kb \in Nat /\ b = 1 + kb * g /\ kb * g \in Nat /\ b \in 1 .. h2 /\ h2 < b + g
  BY <1>1, <1>4, <1>5, BucketFacts
<1>9. b - g \in 1 .. h /\ h < b
  <2>1. Bucket(h, g) \in 1 .. h /\ h < Bucket(h, g) + g
    BY <1>1, <1>6, BucketFacts
  <2> QED
    BY <1>1, <1>7, <1>8, <2>1
<1> HIDE DEF kb
(* So the bucket begins before the period.                                 *)
<1>10. h < s - g /\ b < s
  BY ONLY <1>1, <1>5, <1>6, <1>8, <1>9
(* Those that follow it were fetched.                                      *)
<1>11. ASSUME NEW m \in 1 .. q PROVE b + m * g \in BucketsFetched /\ m * g \in Nat
  <2> DEFINE x == 1 + (kb + m) * g
  <2>1. /\ m \in Nat /\ kb + m \in Nat /\ m * g \in Nat
        /\ x = b + m * g /\ x \in Nat \ {0} /\ Bucket(x, g) = x
    <3>1. m \in Nat /\ kb + m \in Nat /\ m * g \in Nat /\ (kb + m) * g = kb * g + m * g
      BY <1>1, <1>8
    <3>2. 1 + (kb + m) * g \in Nat \ {0} /\ Bucket(1 + (kb + m) * g, g) = 1 + (kb + m) * g
      BY ONLY <1>1, <3>1, BucketOfStart
    <3> QED
      BY ONLY <1>8, <3>1, <3>2
  <2>2. g <= m * g /\ m * g <= q * g
    <3>1. 0 * g = 0 /\ (0 < m => 0 * g + g <= m * g)
      BY ONLY <1>1, <2>1, Multiples
    <3>2. m = q \/ (m < q => m * g + g <= q * g)
      BY ONLY <1>1, <2>1, Multiples
    <3> QED
      BY ONLY <1>1, <2>1, <3>1, <3>2, m \in 1 .. q
  <2>3. s - g <= x /\ x < t
    BY ONLY <1>1, <1>5, <1>8, <1>10, <2>1, <2>2
  <2> HIDE DEF x
  <2>4. x \in BucketsWithRows
    BY <2>1, <2>3, BucketIsTouched DEF g, s, t
  <2>5. ASSUME NEW c \in Earlier(BucketsWithRows, x)
        PROVE  \E k \in kb - 1 .. kb + m - 1 : c = 1 + k * g
    <3>1. PICK h3 \in RowsAsked : c = Bucket(h3, g) /\ c < x
      BY DEF Earlier, BucketsWithRows, g
    <3>2. h3 \in Nat \ {0} /\ s - g <= h3
      BY AskedHalves DEF g, s
    <3> DEFINE k == (h3 - 1) \div g
    <3>3. k \in Nat /\ c = 1 + k * g /\ k * g \in Nat /\ c \in 1 .. h3 /\ h3 < c + g
      BY <1>1, <3>1, <3>2, BucketFacts
    <3> HIDE DEF k
    <3>4. kb - 1 <= k
      <4>1. (kb - 1) * g = kb * g - g /\ kb - 1 \in Int
        BY ONLY <1>1, <1>8
      <4>2. (kb - 1) * g < k * g + g => kb - 1 <= k
        BY ONLY <1>1, <3>3, <4>1, Multiples
      <4> QED
        BY ONLY <1>1, <1>6, <1>8, <1>9, <1>10, <3>2, <3>3, <4>1, <4>2
    <3>5. k <= kb + m - 1
      <4>1. (kb + m) * g <= k * g \/ k < kb + m
        <5>1. kb + m = k \/ (kb + m < k => (kb + m) * g + g <= k * g)
          BY ONLY <1>1, <2>1, <3>3, Multiples, SMTT(30)
        <5>2. (kb + m) * g \in Nat
          BY ONLY <1>1, <2>1
        <5> QED
          BY ONLY <1>1, <2>1, <3>3, <5>1, <5>2
      <4>2. k * g < (kb + m) * g /\ (kb + m) * g \in Nat
        <5>1. (kb + m) * g \in Nat
          BY ONLY <1>1, <2>1
        <5> QED
          BY ONLY <3>1, <3>3, <5>1 DEF x
      <4> QED
        BY ONLY <1>8, <2>1, <3>3, <4>1, <4>2, SMTT(30)
    <3> QED
      BY ONLY <1>8, <2>1, <3>3, <3>4, <3>5
  <2>6. kb - 1 \in Int /\ kb + m - 1 \in Int /\ m + 1 \in Nat /\ (kb + m - 1) - (kb - 1) + 1 <= m + 1
    BY ONLY <1>8, <2>1
  <2>7. Cardinality(Earlier(BucketsWithRows, x)) <= m + 1
    BY <1>1, <2>5, <2>6, FewBuckets
  <2>8. Cardinality(Earlier(BucketsWithRows, x)) \in Nat
    <3>1. IsFiniteSet(BucketsWithRows) /\ Earlier(BucketsWithRows, x) \subseteq BucketsWithRows
      BY FetchedBuckets DEF Earlier
    <3> QED
      BY <3>1, SmallerPart
  <2>9. Cardinality(Earlier(BucketsWithRows, x)) < q + 2
    BY ONLY <1>1, <2>1, <2>7, <2>8, m \in 1 .. q
  <2> QED
    BY <2>1, <2>4, <2>9 DEF BucketsFetched, q
<1> DEFINE f == [m \in 1 .. q |-> CHOOSE k \in j + 1 .. n : times[k] = b + m * g]
<1>12. ASSUME NEW m \in 1 .. q PROVE f[m] \in j + 1 .. n /\ times[f[m]] = b + m * g
  <2>1. PICK k \in 1 .. n : times[k] = b + m * g
    BY <1>2, <1>11
  <2>2. b < b + m * g
    <3>1. m \in Nat /\ 0 * g = 0 /\ (0 < m => 0 * g + g <= m * g)
      BY ONLY <1>1, m \in 1 .. q, Multiples
    <3> QED
      BY ONLY <1>1, <1>8, <1>11, <3>1, m \in 1 .. q
  <2>3. j < k
    BY <1>2, <2>1, <2>2 DEF b
  <2>4. k \in j + 1 .. n
    BY ONLY <2>3, j \in 1 .. n, k \in 1 .. n, n \in Nat
  <2> QED
    BY <2>1, <2>4
<1>13. ASSUME NEW i \in 1 .. q, NEW m \in 1 .. q, f[i] = f[m] PROVE i = m
  <2>1. i * g = m * g /\ i \in Nat /\ m \in Nat /\ i * g \in Nat
    <3>1. b + i * g = b + m * g
      BY <1>12, <1>13
    <3>2. i \in Nat /\ m \in Nat /\ i * g \in Nat /\ m * g \in Nat
      BY <1>1, <1>11
    <3> QED
      BY ONLY <1>8, <3>1, <3>2
  <2>2. (i < m => i * g + g <= m * g) /\ (m < i => m * g + g <= i * g)
    BY ONLY <1>1, <2>1, Multiples
  <2> QED
    BY ONLY <1>1, <2>1, <2>2
<1>14. f \in [1 .. q -> j + 1 .. n]
  BY <1>12
<1> HIDE DEF f
<1>15. f \in Injection(1 .. q, j + 1 .. n)
  BY <1>13, <1>14 DEF Injection, IsInjective
<1>16. /\ IsFiniteSet(j + 1 .. n) /\ Cardinality(j + 1 .. n) = IF j + 1 > n THEN 0 ELSE n - (j + 1) + 1
       /\ Cardinality(1 .. q) = IF 1 > q THEN 0 ELSE q - 1 + 1
  BY <1>1, FS_Interval
<1>17. Cardinality(1 .. q) <= Cardinality(j + 1 .. n)
  BY <1>15, <1>16, FS_Injection
<1>18. n - j >= q
  BY ONLY <1>1, <1>16, <1>17, n \in Nat, j \in 1 .. n
<1> QED
  BY <1>18 DEF q

(* The argument of NoPartialPredecessor: a part would have been cut off.   *)
LEMMA NoPartialIsShown == SeriesIInv /\ RowsOfQuery => NoPartialPredecessor
<1> SUFFICES ASSUME SeriesIInv, RowsOfQuery, Grouped, Regular,
                    Touched(Window(element, 1)) = Touched(Window(element, 1) \cap table),
                    NEW i \in 1 .. len, array[i].time # NoTime, array[i].time > element.group,
                    NEW j \in DOMAIN joined, joined[j].time = array[i].time,
                    joined[j].values[1] # Null
             PROVE  joined[j].values[1][2] = Full(array[i].time - element.group)
  BY DEF NoPartialPredecessor
<1> DEFINE g == element.group
           b == array[i].time
<1>1. /\ element \in Element /\ table \in TableContents /\ fetched = Executed(element, joined)
      /\ \E plan \in {"merge", "hash"} : joined = Joined(element, table, plan)
  BY DEF RowsOfQuery
<1>2. PICK plan \in {"merge", "hash"} : joined = Joined(element, table, plan)
  BY <1>1
<1>3a. PICK n \in Nat : \E times \in [1 .. n -> BucketsFetched] : InOrderOfTime(n, times)
  BY <1>1, <1>2, RegularRows
<1>3b. PICK times \in [1 .. n -> BucketsFetched] : InOrderOfTime(n, times)
  BY <1>3a
<1>3. /\ \A k, m \in 1 .. n : k < m <=> times[k] < times[m]
      /\ DOMAIN joined = 1 .. n
      /\ \A k \in 1 .. n :
           /\ joined[k].time = times[k]
           /\ joined[k].values[1] = IF k = 1 THEN Null ELSE <<RowsIn(times[k]), RowsIn(times[k - 1])>>
  BY <1>3b DEF InOrderOfTime
<1>4. BucketsFetched \subseteq Nat \ {0}
  BY <1>1, FetchedBuckets
<1>5. j \in 1 .. n /\ times[j] = b
  BY <1>3
<1>6. j \in 2 .. n
  <2>1. j # 1
    BY <1>3, <1>5
  <2> QED
    BY <1>5, <2>1
<1>7. times[j - 1] = b - g
  BY <1>1, <1>3b, <1>5, <1>6, BucketBefore
<1>8. joined[j].values[1] = <<RowsIn(b), RowsIn(b - g)>>
  <2>1. joined[j].values[1] = IF j = 1 THEN Null ELSE <<RowsIn(times[j]), RowsIn(times[j - 1])>>
    BY <1>3, <1>5
  <2> HIDE DEF b, g
  <2> QED
    BY ONLY <1>5, <1>6, <1>7, <2>1
(* The row is among those the outer limit leaves.                          *)
<1>9. n - j < OuterLimit(element)
  <2>1. array[i] \in Range(fetched)
    <3>1. array \in Seq(AnyRow) /\ len \in 0 .. Len(array)
      BY DEF SeriesIInv, SeriesTypeOK
    <3>2. i \in DOMAIN array
      BY <3>1, LenProperties
    <3>3. array[i] # NilRow
      BY DEF NilRow, NoTime
    <3> QED
      BY <3>2, <3>3 DEF SeriesIInv, FetchedOrNil
  <2>2. PICK k \in DOMAIN fetched : array[i] = fetched[k]
    BY <2>1 DEF Range
  <2>3. times \in [1 .. n -> Nat \ {0}]
    BY <1>4
  <2>4. \A m \in 1 .. n : joined[m].time = times[m]
    BY <1>3
  <2>5. fetched[k] = NilRow \/ IsAmongLast(fetched[k].time, n, times)
    BY <1>1, <1>3, <2>3, <2>4, RegularFetched
  <2>6. PICK m \in 1 .. n : b = times[m] /\ n - m < OuterLimit(element)
    BY <2>2, <2>5 DEF IsAmongLast, NilRow, NoTime
  <2>7. m = j
    <3>1. times[m] = times[j] /\ times[j] \in Nat
      BY <1>4, <1>5, <2>6
    <3>2. ~ (times[m] < times[j]) /\ ~ (times[j] < times[m])
      BY <3>1
    <3>3. ~ (m < j) /\ ~ (j < m)
      BY <1>3, <1>5, <3>2
    <3> QED
      BY ONLY <1>5, <3>3, m \in 1 .. n, n \in Nat
  <2> QED
    BY <2>6, <2>7
<1>10. RowsIn(b - g) = Full(b - g)
  <2> SUFFICES ASSUME NEW h \in table, Bucket(h, g) = b - g PROVE h \in RowsAsked
    BY DEF RowsIn, Full, RowsAsked, g
  <2> SUFFICES ASSUME h \notin RowsAsked PROVE FALSE
    OBVIOUS
  <2>1. n - j >= OuterLimit(element)
    BY <1>1, <1>3b, <1>5, CutOffAfterPart
  <2>2. OuterLimit(element) \in Nat
    BY <1>1, OuterLimitIsNatural
  <2> QED
    BY ONLY <1>5, <1>9, <2>1, <2>2, n \in Nat
<1> QED
  BY <1>8, <1>10

-----------------------------------------------------------------------------
(* Every set of naturals that is not empty has a least one.                *)
LEMMA LeastNatural ==
    ASSUME NEW T, T \subseteq Nat, T # {}
    PROVE  \E x \in T : \A y \in T : x <= y
<1> DEFINE R == {ss \in Nat \X Nat : ss[1] < ss[2]}
<1>1. IsWellFoundedOn(R, Nat)
  BY NatLessThanWellFounded DEF OpToRel
<1>2. \A x, y \in Nat : <<y, x>> \in R <=> y < x
  OBVIOUS
<1> HIDE DEF R
<1>3. PICK x \in T : \A y \in T : ~ (<<y, x>> \in R)
  BY <1>1, WFMin
<1>4. ASSUME NEW y \in T PROVE x <= y
  <2>1. x \in Nat /\ y \in Nat
    OBVIOUS
  <2>2. ~ (y < x)
    BY <1>2, <1>3, <2>1
  <2> QED
    BY <2>1, <2>2
<1> QED
  BY <1>4

-----------------------------------------------------------------------------
(* The operators of the libraries as the format table has them.            *)

(* They are the same operators.                                            *)
LEMMA SameOperators ==
    /\ \A f : Merged!Range(f) = Range(f) /\ (Merged!IsInjective(f) <=> IsInjective(f))
    /\ \A S : Merged!Cardinality(S) = Cardinality(S) /\ Merged!SetToSeqs(S) = SetToSeqs(S)
<1>1. \A f : Merged!Range(f) = Range(f)
  BY DEF Merged!Range, Range
<1>2. \A f : Merged!IsInjective(f) <=> IsInjective(f)
  BY DEF Merged!IsInjective, IsInjective
<1>3. \A S : Merged!Cardinality(S) = Cardinality(S)
  BY DEF Merged!Cardinality, Cardinality
<1>4. \A S : Merged!SetToSeqs(S) = SetToSeqs(S)
  BY <1>3 DEF Merged!SetToSeqs, SetToSeqs
<1> QED
  BY <1>1, <1>2, <1>3, <1>4

LEMMA TablePermutations ==
    ASSUME NEW n \in Nat, NEW p \in Merged!SetToSeqs(1 .. n)
    PROVE  /\ p \in [1 .. n -> 1 .. n]
           /\ \A i, j \in 1 .. n : p[i] = p[j] => i = j
           /\ \A k \in 1 .. n : \E i \in 1 .. n : p[i] = k
<1>1. p \in SetToSeqs(1 .. n)
  BY SameOperators
<1> QED
  BY <1>1, PermutationsAreOnto

-----------------------------------------------------------------------------
(* Series, the search in them and the removal from them: table.            *)

(* The rows of a series have distinct times, or are the one of no data.    *)
LEMMA RowsFacts ==
    ASSUME NEW r \in Merged!Results \cup {<<>>}
    PROVE  /\ Len(r) \in Nat /\ DOMAIN r = 1 .. Len(r)
           /\ \A i, j \in DOMAIN r : r[i] = r[j] => i = j
           /\ r # Merged!NoData => Len(r) <= MaxTime /\ \A i \in DOMAIN r : r[i] \in Merged!Instant
           /\ r = Merged!NoData => Len(r) = 1 /\ r[1] = Merged!NoTime
<1>1. CASE r = Merged!NoData
  BY <1>1 DEF Merged!NoData, Merged!NoTime
<1>2. CASE r = <<>>
  BY <1>2, TablesAssumption DEF Merged!NoData
<1>3. CASE \E n \in 1 .. MaxTime : r \in [1 .. n -> Merged!Instant] /\ Merged!IsInjective(r)
  <2>1. PICK n \in 1 .. MaxTime : r \in [1 .. n -> Merged!Instant] /\ Merged!IsInjective(r)
    BY <1>3
  <2>2. n \in Nat /\ n <= MaxTime
    BY TablesAssumption
  <2>3. Len(r) = n /\ DOMAIN r = 1 .. n
    BY <2>1, <2>2, LenProperties, SeqDef
  <2>4. \A i \in 1 .. n : r[i] # Merged!NoTime
    BY <2>1 DEF Merged!Instant, Merged!NoTime
  <2> QED
    BY <2>1, <2>2, <2>3, <2>4 DEF Merged!IsInjective, Merged!NoData
<1> QED
  BY <1>1, <1>2, <1>3 DEF Merged!Results

LEMMA RowsIntro ==
    ASSUME NEW n \in 0 .. MaxTime, NEW r \in [1 .. n -> Merged!Instant], \A i, j \in 1 .. n : r[i] = r[j] => i = j
    PROVE  r \in Merged!Results \cup {<<>>}
<1>1. CASE n = 0
  <2>1. r = <<>>
    BY <1>1
  <2> QED
    BY <2>1
<1>2. CASE n # 0
  <2>1. n \in 1 .. MaxTime /\ Merged!IsInjective(r)
    BY <1>2, TablesAssumption DEF Merged!IsInjective
  <2> QED
    BY <2>1 DEF Merged!Results
<1> QED
  BY <1>1, <1>2

(* The step back ends at a row.                                            *)
LEMMA StepBackStaysInside ==
    ASSUME NEW rows, NEW mid \in Nat \ {0}
    PROVE  Merged!StepBack(rows, mid) \in 1 .. mid
<1> DEFINE Stops(k) == /\ k = 1 \/ rows[k] # rows[mid]
                       /\ \A j \in k + 1 .. mid : rows[j] = rows[mid]
           T == {d \in Nat : d < mid /\ (mid - d = 1 \/ rows[mid - d] # rows[mid])}
<1>1. mid - 1 \in T
  OBVIOUS
<1>2. PICK d \in T : \A y \in T : d <= y
  BY <1>1, LeastNatural
<1>3. mid - d \in 1 .. mid
  BY <1>2
<1>4. ASSUME NEW j \in mid - d + 1 .. mid PROVE rows[j] = rows[mid]
  <2>1. mid - j \in Nat /\ mid - j < d /\ mid - j < mid /\ mid - (mid - j) = j
    BY <1>3
  <2>2. mid - j \notin T
    BY <1>2, <2>1
  <2> QED
    BY <2>1, <2>2
<1>5. Stops(mid - d)
  BY <1>2, <1>4
<1>6. \E k \in 1 .. mid : Stops(k)
  BY <1>3, <1>5
<1> HIDE DEF Stops
<1>7. (CHOOSE k \in 1 .. mid : Stops(k)) \in 1 .. mid
  BY <1>6
<1> QED
  BY <1>7 DEF Merged!StepBack, Stops

(* The search calls itself on ever shorter intervals, so that it is a      *)
(* function of them.                                                       *)
LEMMA SearchUnfolds ==
    ASSUME NEW rows, Len(rows) \in Nat, NEW t,
           NEW left \in 1 .. Len(rows) + 1, NEW right \in 0 .. Len(rows)
    PROVE  LET mid == left + ((right - left) \div 2)
           IN  Merged!Search(rows, t)[<<left, right>>] =
                   IF left > right THEN Merged!NotFound
                   ELSE IF rows[mid] = Merged!NoTime THEN Merged!Panic
                   ELSE IF rows[mid] = t THEN Merged!StepBack(rows, mid)
                   ELSE IF rows[mid] < t THEN Merged!Search(rows, t)[<<left, mid - 1>>]
                   ELSE Merged!Search(rows, t)[<<mid + 1, right>>]
<1> DEFINE N == Len(rows)
           Spans == (1 .. N + 1) \X (0 .. N)
           Mid(span) == span[1] + ((span[2] - span[1]) \div 2)
           Turn(f, span) ==
               LET l   == span[1]
                   r   == span[2]
                   m   == l + ((r - l) \div 2)
               IN  IF l > r THEN Merged!NotFound
                   ELSE IF rows[m] = Merged!NoTime THEN Merged!Panic
                   ELSE IF rows[m] = t THEN Merged!StepBack(rows, m)
                   ELSE IF rows[m] < t THEN f[<<l, m - 1>>]
                   ELSE f[<<m + 1, r>>]
           Size(span) == span[2] - span[1] + 1
           Good(n) == \E f : \A span \in Spans : Size(span) <= n => f[span] = Turn(f, span)
           Whole(f) == f = [span \in Spans |-> Turn(f, span)]
<1>1. ASSUME NEW span \in Spans, span[1] <= span[2]
      PROVE  /\ <<span[1], Mid(span) - 1>> \in Spans /\ <<Mid(span) + 1, span[2]>> \in Spans
             /\ Size(<<span[1], Mid(span) - 1>>) < Size(span)
             /\ Size(<<Mid(span) + 1, span[2]>>) < Size(span)
             /\ Size(span) \in 1 .. N
  <2>1. span[1] \in 1 .. N + 1 /\ span[2] \in 0 .. N
    OBVIOUS
  <2>2. Mid(span) \in Int /\ span[1] <= Mid(span) /\ Mid(span) <= span[2]
    BY <1>1, <2>1
  <2> HIDE DEF Mid
  <2>3. Mid(span) - 1 \in 0 .. N /\ Mid(span) + 1 \in 1 .. N + 1
    BY <2>1, <2>2
  <2>4. <<span[1], Mid(span) - 1>> \in Spans /\ <<Mid(span) + 1, span[2]>> \in Spans
    BY <2>1, <2>3
  <2>5. /\ Size(<<span[1], Mid(span) - 1>>) = Mid(span) - span[1]
        /\ Size(<<Mid(span) + 1, span[2]>>) = span[2] - Mid(span)
    BY <2>1, <2>2
  <2>6. Size(span) = span[2] - span[1] + 1 /\ N \in Nat
    OBVIOUS
  <2> HIDE DEF Size, Spans, N
  <2>7. Size(<<span[1], Mid(span) - 1>>) < Size(span)
    BY ONLY <2>1, <2>2, <2>5, <2>6, SMTT(30)
  <2>8. Size(<<Mid(span) + 1, span[2]>>) < Size(span)
    BY ONLY <2>1, <2>2, <2>5, <2>6, SMTT(30)
  <2>9. Size(span) \in 1 .. N
    BY <1>1, <2>1, <2>6
  <2> QED
    BY <2>4, <2>7, <2>8, <2>9
(* The calls of f on shorter intervals are all that matters.               *)
<1>2. ASSUME NEW f, NEW g, NEW span \in Spans,
             \A other \in Spans : Size(other) < Size(span) => f[other] = g[other]
      PROVE  Turn(f, span) = Turn(g, span)
  <2>1. CASE span[1] > span[2]
    BY <2>1
  <2>2. CASE span[1] <= span[2]
    <3>1. /\ f[<<span[1], Mid(span) - 1>>] = g[<<span[1], Mid(span) - 1>>]
          /\ f[<<Mid(span) + 1, span[2]>>] = g[<<Mid(span) + 1, span[2]>>]
      BY <1>1, <1>2, <2>2
    <3> QED
      BY <3>1
  <2> QED
    BY <2>1, <2>2
<1>3. Good(0)
  <2> DEFINE f == [span \in Spans |-> Merged!NotFound]
  <2>1. ASSUME NEW span \in Spans, Size(span) <= 0 PROVE f[span] = Turn(f, span)
    BY <2>1
  <2> QED
    BY <2>1
<1>4. ASSUME NEW n \in Nat, Good(n) PROVE Good(n + 1)
  <2>1. PICK f : \A span \in Spans : Size(span) <= n => f[span] = Turn(f, span)
    BY <1>4
  <2> DEFINE g == [span \in Spans |-> Turn(f, span)]
  <2>2. ASSUME NEW span \in Spans, Size(span) <= n + 1
        PROVE  g[span] = Turn(g, span)
    <3>1. ASSUME NEW other \in Spans, Size(other) < Size(span) PROVE f[other] = g[other]
      <4>1. Size(other) <= n
        BY <2>2, <3>1
      <4> QED
        BY <2>1, <4>1
    <3> HIDE DEF Size, Turn, Spans
    <3>2. Turn(f, span) = Turn(g, span)
      BY <1>2, <3>1
    <3> QED
      BY <3>2
  <2> HIDE DEF g
  <2> QED
    BY <2>2
<1>5. Good(N)
  <2> HIDE DEF Good
  <2> DEFINE T == {n \in Nat : ~ Good(n)}
  <2>1. SUFFICES ASSUME T # {} PROVE FALSE
    OBVIOUS
  <2>2. PICK n \in T : \A y \in T : n <= y
    BY <2>1, LeastNatural
  <2>3. n # 0 /\ n - 1 \in Nat /\ n - 1 \notin T
    BY <1>3, <2>2
  <2>4. Good(n - 1) /\ (n - 1) + 1 = n
    BY <2>2, <2>3
  <2> QED
    BY <1>4, <2>2, <2>3, <2>4
<1>6. \E f : Whole(f)
  <2>1. PICK f : \A span \in Spans : Size(span) <= N => f[span] = Turn(f, span)
    BY <1>5
  <2> DEFINE g == [span \in Spans |-> Turn(f, span)]
  <2>2. \A span \in Spans : Size(span) <= N
    OBVIOUS
  <2>3. \A span \in Spans : f[span] = g[span]
    BY <2>1, <2>2
  <2> HIDE DEF Size, Spans
  <2>4. \A span \in Spans : Turn(f, span) = Turn(g, span)
    <3> HIDE DEF Turn, g
    <3> QED
      BY <1>2, <2>3
  <2>5. g = [span \in Spans |-> Turn(g, span)]
    <3> HIDE DEF Turn
    <3> QED
      BY <2>4
  <2> QED
    BY <2>5
<1> DEFINE F == CHOOSE f : Whole(f)
<1>7. Whole(F)
  <2> HIDE DEF Whole
  <2> QED
    BY <1>6
<1>8. Merged!Search(rows, t) = F
  BY Zenon DEF Merged!Search
<1>9. <<left, right>> \in Spans
  OBVIOUS
<1>10. F[<<left, right>>] = Turn(F, <<left, right>>)
  <2> HIDE DEF F, Turn, Spans
  <2> QED
    BY <1>7, <1>9
<1> HIDE DEF F
<1> QED
  BY <1>8, <1>10

(* The search ends at a row, finds none or panics.                         *)
LEMMA SearchStaysInside ==
    ASSUME NEW rows, Len(rows) \in Nat, NEW t,
           NEW left \in 1 .. Len(rows) + 1, NEW right \in 0 .. Len(rows)
    PROVE  Merged!Search(rows, t)[<<left, right>>] \in {Merged!NotFound, Merged!Panic} \cup 1 .. Len(rows)
<1> DEFINE N == Len(rows)
           Inside(l, r) == Merged!Search(rows, t)[<<l, r>>] \in {Merged!NotFound, Merged!Panic} \cup 1 .. N
           T == {d \in Nat : \E l \in 1 .. N + 1, r \in 0 .. N : l <= r /\ d = r - l /\ ~ Inside(l, r)}
<1>1. ASSUME NEW l \in 1 .. N + 1, NEW r \in 0 .. N, l > r PROVE Inside(l, r)
  <2> DEFINE m == l + ((r - l) \div 2)
  <2>1. Merged!Search(rows, t)[<<l, r>>] =
            IF l > r THEN Merged!NotFound
            ELSE IF rows[m] = Merged!NoTime THEN Merged!Panic
            ELSE IF rows[m] = t THEN Merged!StepBack(rows, m)
            ELSE IF rows[m] < t THEN Merged!Search(rows, t)[<<l, m - 1>>]
            ELSE Merged!Search(rows, t)[<<m + 1, r>>]
    BY SearchUnfolds, SMTT(30)
  <2> HIDE DEF m
  <2>2. Merged!Search(rows, t)[<<l, r>>] = Merged!NotFound
    BY <1>1, <2>1
  <2> QED
    BY <2>2
<1>2. SUFFICES ASSUME T # {} PROVE FALSE
  <2>1. CASE left > right
    BY <1>1, <2>1
  <2>2. CASE left <= right
    <3>1. right - left \in Nat
      BY <2>2
    <3> HIDE DEF Inside
    <3>2. Inside(left, right)
      BY <1>2, <2>2, <3>1
    <3> QED
      BY <3>2 DEF Inside
  <2> QED
    BY <2>1, <2>2
<1>3. PICK d \in T : \A y \in T : d <= y
  BY <1>2, LeastNatural
<1>4. PICK l \in 1 .. N + 1, r \in 0 .. N : l <= r /\ d = r - l /\ ~ Inside(l, r)
  BY <1>3
<1> DEFINE mid == l + ((r - l) \div 2)
<1>5. mid \in Int /\ l <= mid /\ mid <= r
  BY <1>4, SMTT(30)
<1>6. Merged!Search(rows, t)[<<l, r>>] =
          IF rows[mid] = Merged!NoTime THEN Merged!Panic
          ELSE IF rows[mid] = t THEN Merged!StepBack(rows, mid)
          ELSE IF rows[mid] < t THEN Merged!Search(rows, t)[<<l, mid - 1>>]
          ELSE Merged!Search(rows, t)[<<mid + 1, r>>]
  BY <1>4, SearchUnfolds, SMTT(30)
<1> HIDE DEF mid, N
<1>7. Merged!StepBack(rows, mid) \in 1 .. N
  <2>1. mid \in Nat \ {0} /\ N \in Nat /\ mid <= N
    BY <1>4, <1>5 DEF N
  <2>2. Merged!StepBack(rows, mid) \in 1 .. mid
    BY <2>1, StepBackStaysInside
  <2> QED
    BY <2>1, <2>2
<1>8. Inside(l, mid - 1)
  <2>1. l \in 1 .. N + 1 /\ mid - 1 \in 0 .. N /\ N \in Nat
    BY <1>4, <1>5 DEF N
  <2>2. CASE l > mid - 1
    BY <1>1, <2>1, <2>2
  <2>3. CASE l <= mid - 1
    <3>1. mid - 1 - l \in Nat /\ mid - 1 - l < d
      BY <1>4, <1>5, <2>3
    <3>2. mid - 1 - l \notin T
      <4> d \in Nat
        OBVIOUS
      <4> HIDE DEF T
      <4> QED
        BY <1>3, <3>1
    <3> HIDE DEF Inside
    <3> QED
      BY <2>1, <2>3, <3>1, <3>2
  <2> QED
    BY <2>1, <2>2, <2>3
<1>9. Inside(mid + 1, r)
  <2>1. mid + 1 \in 1 .. N + 1 /\ r \in 0 .. N /\ N \in Nat
    BY <1>4, <1>5 DEF N
  <2>2. CASE mid + 1 > r
    BY <1>1, <2>1, <2>2
  <2>3. CASE mid + 1 <= r
    <3>1. r - (mid + 1) \in Nat /\ r - (mid + 1) < d
      BY <1>4, <1>5, <2>3
    <3>2. r - (mid + 1) \notin T
      <4> d \in Nat
        OBVIOUS
      <4> HIDE DEF T
      <4> QED
        BY <1>3, <3>1
    <3> HIDE DEF Inside
    <3> QED
      BY <2>1, <2>3, <3>1, <3>2
  <2> QED
    BY <2>1, <2>2, <2>3
<1> QED
  BY <1>4, <1>6, <1>7, <1>8, <1>9

(* In rows that descend in time from t on, the search for t ends at the    *)
(* first.                                                                  *)
LEMMA SearchFindsTheFirst ==
    ASSUME NEW rows, Len(rows) \in Nat \ {0}, NEW t \in Nat \ {Merged!NoTime},
           \A i \in 1 .. Len(rows) : rows[i] \in Nat \ {Merged!NoTime},
           rows[1] = t, \A i \in 2 .. Len(rows) : rows[i] < t,
           NEW right \in 1 .. Len(rows)
    PROVE  Merged!Search(rows, t)[<<1, right>>] = 1
<1> DEFINE N == Len(rows)
           T == {r \in 1 .. N : Merged!Search(rows, t)[<<1, r>>] # 1}
<1>1. SUFFICES ASSUME T # {} PROVE FALSE
  OBVIOUS
<1>2. PICK r \in T : \A y \in T : r <= y
  <2>1. T \subseteq Nat
    OBVIOUS
  <2> HIDE DEF T
  <2> QED
    BY <1>1, <2>1, LeastNatural
<1> DEFINE mid == 1 + ((r - 1) \div 2)
<1>3. mid \in 1 .. N /\ mid <= r /\ (r > 1 => mid < r) /\ r \in 1 .. N
  BY <1>2
<1>4. Merged!Search(rows, t)[<<1, r>>] =
          IF rows[mid] = Merged!NoTime THEN Merged!Panic
          ELSE IF rows[mid] = t THEN Merged!StepBack(rows, mid)
          ELSE IF rows[mid] < t THEN Merged!Search(rows, t)[<<1, mid - 1>>]
          ELSE Merged!Search(rows, t)[<<mid + 1, r>>]
  <2>1. 1 \in 1 .. Len(rows) + 1 /\ r \in 0 .. Len(rows) /\ ~ (1 > r) /\ Len(rows) \in Nat
    BY ONLY <1>3, Len(rows) \in Nat \ {0}
  <2> QED
    BY ONLY <2>1, SearchUnfolds
<1> HIDE DEF mid
<1>5. CASE mid = 1
  <2>1. Merged!StepBack(rows, 1) \in 1 .. 1
    BY StepBackStaysInside
  <2>2. Merged!StepBack(rows, 1) = 1
    BY <2>1
  <2>3. rows[mid] # Merged!NoTime /\ rows[mid] = t
    BY <1>5
  <2> QED
    BY <1>2, <1>4, <1>5, <2>2, <2>3
<1>6. CASE mid # 1
  <2>1. rows[mid] < t /\ rows[mid] # Merged!NoTime /\ rows[mid] \in Nat
    BY <1>3, <1>6
  <2>2. mid - 1 \in 1 .. N /\ mid - 1 < r
    BY <1>3, <1>6
  <2>3. mid - 1 \notin T
    BY <1>2, <1>3, <2>2
  <2>4. Merged!Search(rows, t)[<<1, mid - 1>>] = 1
    BY <2>2, <2>3
  <2> QED
    BY <1>2, <1>4, <2>1, <2>4
<1> QED
  BY <1>5, <1>6

(* The time of a nil is asked for.                                         *)
LEMMA SearchOfNoDataPanics ==
    ASSUME NEW t PROVE Merged!findFirstElementIndex(Merged!NoData, t) = Merged!Panic
<1> DEFINE mid == 1 + ((1 - 1) \div 2)
<1>1. Len(Merged!NoData) = 1 /\ Merged!NoData[1] = Merged!NoTime
  BY DEF Merged!NoData
<1>2. Merged!Search(Merged!NoData, t)[<<1, 1>>] =
          IF 1 > 1 THEN Merged!NotFound
          ELSE IF Merged!NoData[mid] = Merged!NoTime THEN Merged!Panic
          ELSE IF Merged!NoData[mid] = t THEN Merged!StepBack(Merged!NoData, mid)
          ELSE IF Merged!NoData[mid] < t THEN Merged!Search(Merged!NoData, t)[<<1, mid - 1>>]
          ELSE Merged!Search(Merged!NoData, t)[<<mid + 1, 1>>]
  <2>1. Len(Merged!NoData) \in Nat /\ 1 \in 1 .. Len(Merged!NoData) + 1 /\ 1 \in 0 .. Len(Merged!NoData)
    BY <1>1
  <2> QED
    BY <2>1, SearchUnfolds
<1>3. mid = 1 /\ ~ (1 > 1)
  OBVIOUS
<1> HIDE DEF mid
<1>4. Merged!Search(Merged!NoData, t)[<<1, 1>>] = Merged!Panic
  BY <1>1, <1>2, <1>3
<1> QED
  BY <1>1, <1>4 DEF Merged!findFirstElementIndex

(* What the search finds is a row there is; on a series without data it    *)
(* panics.                                                                 *)
LEMMA FoundInRows ==
    ASSUME NEW r \in Merged!Results \cup {<<>>}, NEW t
    PROVE  /\ Merged!findFirstElementIndex(r, t) \in {Merged!NotFound, Merged!Panic} \cup DOMAIN r
           /\ Merged!findFirstElementIndex(r, t) # Merged!Panic => r # Merged!NoData
<1>1. Len(r) \in Nat /\ DOMAIN r = 1 .. Len(r)
  BY RowsFacts
<1>2. 1 \in 1 .. Len(r) + 1 /\ Len(r) \in 0 .. Len(r)
  BY <1>1
<1>3. Merged!Search(r, t)[<<1, Len(r)>>] \in {Merged!NotFound, Merged!Panic} \cup 1 .. Len(r)
  BY <1>1, <1>2, SearchStaysInside
<1> QED
  BY <1>1, <1>3, SearchOfNoDataPanics DEF Merged!findFirstElementIndex

(* The removal takes out the row found and no other, and leaves the rest   *)
(* with the latest first.                                                  *)
LEMMA RemoveAndSortFacts ==
    ASSUME NEW r \in Merged!Results, r # Merged!NoData, NEW k \in DOMAIN r, NEW new \in Merged!RemoveAndSort(r, k)
    PROVE  /\ new \in Merged!Results \cup {<<>>} /\ Merged!Descending(new)
           /\ Merged!Range(new) = Merged!Range(r) \ {r[k]}
<1> DEFINE n == Len(r) - 1
           rest == Merged!RemoveElementFrom2D(r, k)
<1>1. /\ Len(r) \in Nat /\ DOMAIN r = 1 .. Len(r) /\ Len(r) <= MaxTime
      /\ \A i, j \in DOMAIN r : r[i] = r[j] => i = j
      /\ \A i \in DOMAIN r : r[i] \in Merged!Instant
  BY RowsFacts
<1>2. n \in 0 .. MaxTime /\ n \in Nat /\ n + 1 = Len(r) /\ k \in 1 .. n + 1
  BY <1>1, TablesAssumption
<1>3. DOMAIN rest = 1 .. n /\ Len(rest) = n /\ \A i \in 1 .. n : rest[i] = IF i = k THEN r[n + 1] ELSE r[i]
  <2> DEFINE moved == [r EXCEPT ![k] = r[Len(r)]]
  <2>1. moved \in Seq(Merged!Instant) /\ Len(moved) = n + 1
    <3>1. moved = [i \in 1 .. n + 1 |-> IF i = k THEN r[Len(r)] ELSE r[i]]
      BY <1>1, <1>2
    <3>2. r[Len(r)] \in Merged!Instant /\ \A i \in 1 .. n + 1 : r[i] \in Merged!Instant
      BY <1>1, <1>2
    <3> HIDE DEF moved, n
    <3>3. moved \in [1 .. n + 1 -> Merged!Instant]
      BY <3>1, <3>2
    <3> QED
      BY <1>2, <3>3
  <2>2. \A i \in 1 .. n : moved[i] = IF i = k THEN r[n + 1] ELSE r[i]
    BY <1>1, <1>2
  <2>3. rest = SubSeq(moved, 1, n)
    BY DEF Merged!RemoveElementFrom2D
  <2> HIDE DEF moved, rest, n
  <2>4. rest = [i \in 1 .. n |-> moved[i]]
    BY <1>2, <2>1, <2>3
  <2>5. rest \in [1 .. n -> Merged!Instant]
    BY <1>1, <1>2, <2>2, <2>4
  <2> QED
    BY <1>2, <2>2, <2>4, <2>5
<1> HIDE DEF rest, n
<1>4. PICK p \in Merged!SetToSeqs(1 .. n) :
        /\ \A i, j \in 1 .. n : i < j => rest[p[i]] >= rest[p[j]]
        /\ new = [i \in 1 .. n |-> rest[p[i]]]
  BY <1>3 DEF Merged!RemoveAndSort, Merged!Sortings, rest
<1>5. /\ p \in [1 .. n -> 1 .. n]
      /\ \A i, j \in 1 .. n : p[i] = p[j] => i = j
      /\ \A m \in 1 .. n : \E i \in 1 .. n : p[i] = m
  BY <1>2, TablePermutations
<1>6. /\ \A i \in 1 .. n : rest[i] \in Merged!Instant
      /\ \A i, j \in 1 .. n : rest[i] = rest[j] => i = j
  BY <1>1, <1>2, <1>3
<1>7. new \in [1 .. n -> Merged!Instant] /\ \A i, j \in 1 .. n : new[i] = new[j] => i = j
  <2>1. \A i \in 1 .. n : p[i] \in 1 .. n /\ new[i] = rest[p[i]]
    BY <1>4, <1>5
  <2>2. new = [i \in 1 .. n |-> rest[p[i]]]
    BY <1>4
  <2>3. new \in [1 .. n -> Merged!Instant]
    BY ONLY <1>6, <2>1, <2>2
  <2>4. ASSUME NEW i \in 1 .. n, NEW j \in 1 .. n, new[i] = new[j] PROVE i = j
    <3>1. p[i] \in 1 .. n /\ p[j] \in 1 .. n /\ rest[p[i]] = rest[p[j]]
      BY <2>1, <2>4
    <3>2. p[i] = p[j]
      BY <1>6, <3>1
    <3> QED
      BY <1>5, <3>2
  <2> QED
    BY <2>3, <2>4
<1>8. new \in Merged!Results \cup {<<>>}
  BY <1>2, <1>7, RowsIntro
<1>9. Merged!Descending(new)
  <2>1. new # Merged!NoData
    <3> SUFFICES ASSUME new = Merged!NoData PROVE FALSE
      OBVIOUS
    <3>1. DOMAIN new = 1 .. n /\ DOMAIN Merged!NoData = {1} /\ Merged!NoData[1] = Merged!NoTime
      BY <1>7 DEF Merged!NoData
    <3>2. Merged!NoTime \in Merged!Instant
      BY <1>7, <3>1
    <3> QED
      BY <3>2 DEF Merged!Instant, Merged!NoTime
  <2>2. ASSUME NEW i \in 1 .. n, NEW j \in 1 .. n, i < j PROVE new[i] > new[j]
    <3>1. new[i] >= new[j] /\ new[i] # new[j]
      BY <1>4, <1>7, <2>2
    <3>2. new[i] \in Nat /\ new[j] \in Nat
      BY <1>7, TablesAssumption DEF Merged!Instant
    <3> QED
      BY <3>1, <3>2
  <2> QED
    BY <1>7, <2>1, <2>2 DEF Merged!Descending
<1>10. Merged!Range(new) = {rest[i] : i \in 1 .. n}
  <2>1. Merged!Range(new) = {new[i] : i \in 1 .. n}
    BY <1>7 DEF Merged!Range
  <2>2. \A i \in 1 .. n : p[i] \in 1 .. n /\ new[i] = rest[p[i]]
    BY <1>4, <1>5
  <2> HIDE DEF rest
  <2>3. \A m \in 1 .. n : \E i \in 1 .. n : new[i] = rest[m]
    BY <1>5, <2>2, SMTT(30)
  <2>4. \A i \in 1 .. n : new[i] \in {rest[m] : m \in 1 .. n}
    BY <2>2
  <2>5. \A m \in 1 .. n : rest[m] \in {new[i] : i \in 1 .. n}
    BY <2>3
  <2> QED
    BY <2>1, <2>4, <2>5
<1>11. {rest[i] : i \in 1 .. n} = Merged!Range(r) \ {r[k]}
  <2>1. ASSUME NEW i \in 1 .. n PROVE rest[i] \in Merged!Range(r) \ {r[k]}
    BY <1>1, <1>2, <1>3 DEF Merged!Range
  <2>2. ASSUME NEW j \in 1 .. n + 1, j # k PROVE \E i \in 1 .. n : rest[i] = r[j]
    <3>1. CASE j = n + 1
      <4>1. k \in 1 .. n
        BY <1>2, <2>2, <3>1
      <4> QED
        BY <1>3, <3>1, <4>1
    <3>2. CASE j # n + 1
      <4>1. j \in 1 .. n
        BY <1>2, <3>2
      <4> QED
        BY <1>3, <2>2, <4>1
    <3> QED
      BY <3>1, <3>2
  <2>3. Merged!Range(r) = {r[j] : j \in 1 .. n + 1}
    BY <1>1, <1>2 DEF Merged!Range
  <2> QED
    BY <2>1, <2>2, <2>3
<1> QED
  BY <1>8, <1>9, <1>10, <1>11

-----------------------------------------------------------------------------
(* The merge of the series keeps its invariant.                            *)

LEMMA PointFacts ==
    ASSUME NEW s \in Merged!SeriesIndex, NEW x
    PROVE  /\ Merged!Point(s, x) # Merged!Nothing => Merged!Point(s, x) = <<s, x>>
           /\ x \in Merged!Instant => Merged!Point(s, x) \in {Merged!Nothing} \cup (Merged!SeriesIndex \X Merged!Instant)
BY DEF Merged!Point, Merged!Nothing

LEMMA ResultIsNotEmpty ==
    ASSUME NEW r \in Merged!Results
    PROVE  r # <<>> /\ Len(r) >= 1
<1>1. CASE r = Merged!NoData
  BY <1>1 DEF Merged!NoData
<1>2. CASE r # Merged!NoData
  <2>1. PICK n \in 1 .. MaxTime : r \in [1 .. n -> Merged!Instant]
    BY <1>2 DEF Merged!Results
  <2>2. n \in Nat /\ n >= 1
    BY TablesAssumption
  <2>3. Len(r) = n
    BY <2>1, <2>2, LenProperties, SeqDef
  <2> QED
    BY <2>2, <2>3
<1> QED
  BY <1>1, <1>2

LEMMA TableBegins == Merged!Init => Merged!IInv
<1> SUFFICES ASSUME Merged!Init PROVE Merged!IInv
  OBVIOUS
<1>1. /\ stage = "rows" /\ given = results /\ series = 1 /\ row = 1 /\ formatted = <<>>
      /\ results \in [Merged!SeriesIndex -> Merged!Results]
  BY DEF Merged!Init
<1>2. 1 \in Merged!SeriesIndex /\ 1 \in 1 .. NumSeries + 1 /\ 1 <= NumSeries
  BY TablesAssumption DEF Merged!SeriesIndex
<1>3. \A s \in Merged!SeriesIndex :
        /\ results[s] \in Merged!Results /\ results[s] # <<>> /\ Len(results[s]) >= 1
        /\ Len(results[s]) \in Nat /\ DOMAIN results[s] = 1 .. Len(results[s])
  BY <1>1, ResultIsNotEmpty, RowsFacts
<1>4. Merged!TypeOK
  BY <1>1, <1>2 DEF Merged!TypeOK
<1>5. Merged!InPlace
  BY <1>1, <1>2, <1>3 DEF Merged!InPlace
<1>6. Merged!LeftOrPlaced
  <2> SUFFICES ASSUME NEW s \in Merged!SeriesIndex, NEW t \in Merged!Range(given[s]) PROVE t \in Merged!Left(s) /\ Merged!RowsWith(s, t) = {}
    BY DEF Merged!LeftOrPlaced
  <2>1. Merged!RowsWith(s, t) = {}
    BY <1>1 DEF Merged!RowsWith
  <2>2. Merged!Left(s) = Merged!Range(results[s])
    BY <1>1, <1>3, TablesAssumption DEF Merged!Left, Merged!SeriesIndex, Merged!Range
  <2> QED
    BY <1>1, <2>1, <2>2
<1>7. Merged!AlignedProgress
  <2> SUFFICES ASSUME Merged!Aligned PROVE Merged!AlignedProgress!2
    BY DEF Merged!AlignedProgress
  <2>1. DOMAIN formatted = {}
    BY <1>1
  <2>2. \A s \in Merged!SeriesIndex : Merged!Range(results[s]) = {given[1][k] : k \in row .. Len(given[1])}
    BY <1>1, <1>2, <1>3 DEF Merged!Aligned, Merged!Range
  <2>3. \A s \in Merged!SeriesIndex : Merged!Descending(results[s])
    BY <1>1 DEF Merged!Aligned
  <2> QED
    BY <1>1, <2>1, <2>2, <2>3
<1> QED
  BY <1>4, <1>5, <1>6, <1>7 DEF Merged!IInv

(* Where the loops are and what the series then hold.                      *)
LEMMA AtRow ==
    ASSUME Merged!IInv, stage = "rows"
    PROVE  /\ series \in Merged!SeriesIndex /\ row \in Nat \ {0} /\ NumSeries \in Nat
           /\ \A s \in Merged!SeriesIndex :
                /\ results[s] \in Merged!Results \cup {<<>>} /\ given[s] \in Merged!Results
                /\ Len(results[s]) \in Nat /\ DOMAIN results[s] = 1 .. Len(results[s])
                /\ \A i, j \in DOMAIN results[s] : results[s][i] = results[s][j] => i = j
           /\ results[series] = <<>> => row = 1
           /\ results[series] # <<>> => row \in DOMAIN results[series]
<1>1. /\ series \in 1 .. NumSeries + 1 /\ row \in Nat \ {0}
      /\ results \in [Merged!SeriesIndex -> Merged!Results \cup {<<>>}] /\ given \in [Merged!SeriesIndex -> Merged!Results]
  BY DEF Merged!IInv, Merged!TypeOK
<1>2. series \in Merged!SeriesIndex /\ NumSeries \in Nat
  BY <1>1, TablesAssumption DEF Merged!IInv, Merged!InPlace, Merged!SeriesIndex
<1>3. \A s \in Merged!SeriesIndex :
        /\ results[s] \in Merged!Results \cup {<<>>} /\ given[s] \in Merged!Results
        /\ Len(results[s]) \in Nat /\ DOMAIN results[s] = 1 .. Len(results[s])
        /\ \A i, j \in DOMAIN results[s] : results[s][i] = results[s][j] => i = j
  BY <1>1, RowsFacts
<1>4. /\ results[series] = <<>> => row = 1
      /\ results[series] # <<>> => row <= Len(results[series])
  BY DEF Merged!IInv, Merged!InPlace
<1> QED
  BY <1>1, <1>2, <1>3, <1>4

(* The loops end up in their place again.                                  *)
LEMMA AdvanceKeepsPlace ==
    ASSUME Merged!IInv, stage = "rows", Merged!Advance, NEW later, later = results', later \in [Merged!SeriesIndex -> Merged!Results \cup {<<>>}],
           later[series] = results[series]
    PROVE  Merged!InPlace' /\ stage' \in {"rows", "sort"} /\ series' \in 1 .. NumSeries + 1 /\ row' \in Nat \ {0}
<1>1. /\ series \in Merged!SeriesIndex /\ row \in Nat \ {0} /\ NumSeries \in Nat
      /\ results[series] = <<>> => row = 1
      /\ Len(results[series]) \in Nat
  BY AtRow
<1>2. \A s \in Merged!SeriesIndex : Len(later[s]) \in Nat /\ (later[s] # <<>> => Len(later[s]) >= 1)
  BY RowsFacts, ResultIsNotEmpty
<1>3. series \in 1 .. NumSeries
  BY <1>1 DEF Merged!SeriesIndex
<1>4. CASE row < Len(results[series])
  <2>1. row' = row + 1 /\ series' = series /\ stage' = "rows"
    BY <1>4 DEF Merged!Advance
  <2>2. results[series] # <<>>
    BY <1>1, <1>4
  <2>3. Merged!InPlace'
    BY <1>1, <1>3, <1>4, <2>1, <2>2 DEF Merged!InPlace
  <2> QED
    BY <1>1, <1>3, <2>1, <2>3
<1>5. CASE ~ (row < Len(results[series]))
  <2>1. row' = 1 /\ series' = series + 1 /\ stage' = IF series = NumSeries THEN "sort" ELSE "rows"
    BY <1>5 DEF Merged!Advance
  <2>2. CASE series = NumSeries
    BY <1>1, <1>3, <2>1, <2>2 DEF Merged!InPlace
  <2>3. CASE series # NumSeries
    <3>1. series + 1 \in Merged!SeriesIndex /\ series + 1 <= NumSeries
      BY <1>1, <1>3, <2>3 DEF Merged!SeriesIndex
    <3>2. Merged!InPlace'
      BY <1>1, <1>2, <1>3, <2>1, <2>3, <3>1 DEF Merged!InPlace
    <3> QED
      BY <1>1, <1>3, <2>1, <2>3, <3>2
  <2> QED
    BY <2>2, <2>3
<1> QED
  BY <1>4, <1>5

(* One row of one series is done with, and the rows taken from the series  *)
(* after it are no longer there.                                           *)
LEMMA AdvanceTakes ==
    ASSUME Merged!IInv, stage = "rows", Merged!Advance, NEW later, later = results', later \in [Merged!SeriesIndex -> Merged!Results \cup {<<>>}],
           later[series] = results[series], NEW s \in Merged!SeriesIndex
    PROVE  /\ s < series => (Merged!Left(s))' = Merged!Left(s)
           /\ s = series /\ results[s] = <<>> => (Merged!Left(s))' = Merged!Left(s)
           /\ s = series /\ results[s] # <<>> => (Merged!Left(s))' = Merged!Left(s) \ {results[s][row]}
           /\ s > series => Merged!Left(s) = Merged!Range(results[s]) /\ (Merged!Left(s))' = Merged!Range(later[s])
<1>1. /\ series \in Merged!SeriesIndex /\ row \in Nat \ {0} /\ NumSeries \in Nat
      /\ results[series] = <<>> => row = 1
      /\ results[series] # <<>> => row \in DOMAIN results[series]
      /\ \A i \in Merged!SeriesIndex :
            /\ Len(results[i]) \in Nat /\ DOMAIN results[i] = 1 .. Len(results[i])
            /\ \A k, j \in DOMAIN results[i] : results[i][k] = results[i][j] => k = j
  BY AtRow
<1>2. \A i \in Merged!SeriesIndex : Len(later[i]) \in Nat /\ DOMAIN later[i] = 1 .. Len(later[i])
  BY RowsFacts
<1>3. series \in Nat /\ s \in Nat
  BY <1>1 DEF Merged!SeriesIndex
<1>4. \/ row < Len(results[series]) /\ row' = row + 1 /\ series' = series
      \/ ~ (row < Len(results[series])) /\ row' = 1 /\ series' = series + 1
  BY DEF Merged!Advance
<1>5. CASE s < series
  BY <1>3, <1>4, <1>5 DEF Merged!Left
<1>6. CASE s > series
  <2>1. Merged!Left(s) = Merged!Range(results[s])
    BY <1>3, <1>6 DEF Merged!Left
  <2>2. CASE s = series'
    <3>1. row' = 1
      BY <1>3, <1>4, <1>6, <2>2
    <3>2. (Merged!Left(s))' = {later[s][k] : k \in 1 .. Len(later[s])}
      BY <1>3, <2>2, <3>1 DEF Merged!Left
    <3> QED
      BY <1>2, <1>3, <1>6, <2>1, <3>2 DEF Merged!Range
  <2>3. CASE s # series'
    <3>1. ~ (s < series')
      BY <1>3, <1>4, <1>6
    <3> QED
      BY <1>3, <1>6, <2>1, <2>3, <3>1 DEF Merged!Left
  <2> QED
    BY <2>2, <2>3
<1>7. CASE s = series
  <2>1. Merged!Left(s) = {results[s][k] : k \in row .. Len(results[s])}
    BY <1>3, <1>7 DEF Merged!Left
  <2>2. CASE row < Len(results[series])
    <3>1. row' = row + 1 /\ series' = series /\ results[s] # <<>>
      BY <1>1, <1>4, <1>7, <2>2
    <3>2. (Merged!Left(s))' = {results[s][k] : k \in row + 1 .. Len(results[s])}
      BY <1>3, <1>7, <3>1 DEF Merged!Left
    <3>3. \A k \in row .. Len(results[s]) : k = row \/ k \in row + 1 .. Len(results[s])
      BY <1>1, <1>7
    <3>4. \A k \in row + 1 .. Len(results[s]) : k \in row .. Len(results[s]) /\ results[s][k] # results[s][row]
      <4>1. \A k \in row + 1 .. Len(results[s]) : k \in DOMAIN results[s] /\ k # row
        BY <1>1
      <4> QED
        BY <1>1, <1>7, <3>1, <4>1
    <3> QED
      BY <1>3, <1>7, <2>1, <3>1, <3>2, <3>3, <3>4
  <2>3. CASE ~ (row < Len(results[series]))
    <3>1. (Merged!Left(s))' = {}
      BY <1>3, <1>4, <1>7, <2>3 DEF Merged!Left
    <3>2. CASE results[s] = <<>>
      <4>1. Merged!Left(s) = {}
        BY <1>1, <1>7, <2>1, <3>2
      <4> QED
        BY <1>3, <1>7, <3>1, <3>2, <4>1
    <3>3. CASE results[s] # <<>>
      <4>1. row = Len(results[s])
        BY <1>1, <1>7, <2>3, <3>3
      <4>2. Merged!Left(s) = {results[s][row]}
        BY <1>1, <2>1, <4>1
      <4> QED
        BY <1>3, <1>7, <3>1, <3>3, <4>2
    <3> QED
      BY <3>2, <3>3
  <2> QED
    BY <2>2, <2>3
<1> QED
  BY <1>3, <1>5, <1>6, <1>7

LEMMA SkipSeriesKeeps == Merged!IInv /\ Merged!SkipSeries => Merged!IInv'
<1> SUFFICES ASSUME Merged!IInv, Merged!SkipSeries PROVE Merged!IInv'
  OBVIOUS
<1>1. /\ stage = "rows" /\ results[series] = <<>> /\ Merged!Advance
      /\ results' = results /\ formatted' = formatted /\ given' = given
  BY DEF Merged!SkipSeries
<1>2. /\ series \in Merged!SeriesIndex /\ NumSeries \in Nat
      /\ \A s \in Merged!SeriesIndex : given[s] \in Merged!Results
  BY <1>1, AtRow
<1>3. results \in [Merged!SeriesIndex -> Merged!Results \cup {<<>>}]
  BY DEF Merged!IInv, Merged!TypeOK
<1>4. Merged!TypeOK' /\ Merged!InPlace'
  BY <1>1, <1>3, AdvanceKeepsPlace DEF Merged!IInv, Merged!TypeOK
<1>5. ASSUME NEW s \in Merged!SeriesIndex, NEW t \in Merged!Range(given[s]) \ {Merged!NoTime}, Merged!Point(s, t) # Merged!Nothing
      PROVE  (IF t \in Merged!Left(s) THEN Merged!RowsWith(s, t) = {}
              ELSE \E i \in DOMAIN formatted : Merged!RowsWith(s, t) = {i})'
  <2>1. (Merged!Left(s))' = Merged!Left(s)
    <3>1. s < series \/ s = series \/ s > series
      BY <1>2 DEF Merged!SeriesIndex
    <3> QED
      BY <1>1, <1>3, <3>1, AdvanceTakes
  <2>2. (Merged!RowsWith(s, t))' = Merged!RowsWith(s, t)
    BY <1>1 DEF Merged!RowsWith
  <2>3. IF t \in Merged!Left(s) THEN Merged!RowsWith(s, t) = {} ELSE \E i \in DOMAIN formatted : Merged!RowsWith(s, t) = {i}
    BY <1>5 DEF Merged!IInv, Merged!LeftOrPlaced
  <2> QED
    BY <1>1, <2>1, <2>2, <2>3
<1>6. Merged!LeftOrPlaced'
  BY <1>1, <1>5 DEF Merged!LeftOrPlaced
<1>7. ASSUME Merged!Aligned PROVE series # 1
  <2>1. results[1] = given[1] /\ 1 \in Merged!SeriesIndex
    BY <1>2, <1>7 DEF Merged!IInv, Merged!AlignedProgress, Merged!SeriesIndex
  <2> QED
    BY <1>1, <1>2, <2>1, ResultIsNotEmpty
<1>8. series' # 1 \/ series' = series
  BY <1>1, <1>2 DEF Merged!Advance, Merged!SeriesIndex
<1>9. Merged!AlignedProgress'
  <2> SUFFICES ASSUME Merged!Aligned PROVE Merged!AlignedProgress'
    BY <1>1 DEF Merged!AlignedProgress, Merged!Aligned
  <2>1. series # 1 /\ series' # 1
    BY <1>7, <1>8
  <2> QED
    BY <1>1, <2>1 DEF Merged!IInv, Merged!AlignedProgress, Merged!Points, Merged!Aligned
<1> QED
  BY <1>4, <1>6, <1>9 DEF Merged!IInv

LEMMA SkipNoDataKeeps == Merged!IInv /\ Merged!SkipNoData => Merged!IInv'
<1> SUFFICES ASSUME Merged!IInv, Merged!SkipNoData PROVE Merged!IInv'
  OBVIOUS
<1>1. /\ stage = "rows" /\ results[series] # <<>> /\ results[series][row] = Merged!NoTime /\ Merged!Advance
      /\ results' = results /\ formatted' = formatted /\ given' = given
  BY DEF Merged!SkipNoData
<1>2. /\ series \in Merged!SeriesIndex /\ NumSeries \in Nat /\ row \in DOMAIN results[series]
      /\ results[series] \in Merged!Results \cup {<<>>}
      /\ \A s \in Merged!SeriesIndex : given[s] \in Merged!Results
  BY <1>1, AtRow
<1>3. results \in [Merged!SeriesIndex -> Merged!Results \cup {<<>>}]
  BY DEF Merged!IInv, Merged!TypeOK
<1>4. Merged!TypeOK' /\ Merged!InPlace'
  BY <1>1, <1>3, AdvanceKeepsPlace DEF Merged!IInv, Merged!TypeOK
<1>5. results[series] = Merged!NoData
  BY <1>1, <1>2, RowsFacts DEF Merged!Instant, Merged!NoTime
<1>6. ASSUME NEW s \in Merged!SeriesIndex, NEW t \in Merged!Range(given[s]) \ {Merged!NoTime}, Merged!Point(s, t) # Merged!Nothing
      PROVE  (IF t \in Merged!Left(s) THEN Merged!RowsWith(s, t) = {}
              ELSE \E i \in DOMAIN formatted : Merged!RowsWith(s, t) = {i})'
  <2>1. (Merged!Left(s))' = Merged!Left(s) \/ (Merged!Left(s))' = Merged!Left(s) \ {Merged!NoTime}
    <3>1. s < series \/ s = series \/ s > series
      BY <1>2 DEF Merged!SeriesIndex
    <3> QED
      BY <1>1, <1>3, <3>1, AdvanceTakes
  <2>2. (Merged!RowsWith(s, t))' = Merged!RowsWith(s, t)
    BY <1>1 DEF Merged!RowsWith
  <2>3. IF t \in Merged!Left(s) THEN Merged!RowsWith(s, t) = {} ELSE \E i \in DOMAIN formatted : Merged!RowsWith(s, t) = {i}
    BY <1>6 DEF Merged!IInv, Merged!LeftOrPlaced
  <2> QED
    BY <1>1, <1>6, <2>1, <2>2, <2>3
<1>7. Merged!LeftOrPlaced'
  BY <1>1, <1>6 DEF Merged!LeftOrPlaced
<1>8. ASSUME Merged!Aligned PROVE series # 1
  <2>1. results[1] = given[1] /\ given[1] # Merged!NoData
    BY <1>8 DEF Merged!IInv, Merged!AlignedProgress, Merged!Aligned, Merged!Descending
  <2> QED
    BY <1>5, <2>1
<1>9. series' # 1 \/ series' = series
  BY <1>1, <1>2 DEF Merged!Advance, Merged!SeriesIndex
<1>10. Merged!AlignedProgress'
  <2> SUFFICES ASSUME Merged!Aligned PROVE Merged!AlignedProgress'
    BY <1>1 DEF Merged!AlignedProgress, Merged!Aligned
  <2>1. series # 1 /\ series' # 1
    BY <1>8, <1>9
  <2> QED
    BY <1>1, <2>1 DEF Merged!IInv, Merged!AlignedProgress, Merged!Points, Merged!Aligned
<1> QED
  BY <1>4, <1>7, <1>10 DEF Merged!IInv

LEMMA SearchPanicsKeeps == Merged!IInv /\ Merged!SearchPanics => Merged!IInv'
<1> SUFFICES ASSUME Merged!IInv, Merged!SearchPanics PROVE Merged!IInv'
  OBVIOUS
<1>1. stage = "rows" /\ stage' = "panic" /\ UNCHANGED <<results, series, row, formatted, direction, given>>
  BY DEF Merged!SearchPanics
<1>2. Merged!TypeOK' /\ Merged!InPlace'
  BY <1>1 DEF Merged!IInv, Merged!TypeOK, Merged!InPlace
<1>3. Merged!LeftOrPlaced'
  BY <1>1 DEF Merged!IInv, Merged!LeftOrPlaced, Merged!Left, Merged!RowsWith
<1>4. Merged!AlignedProgress'
  <2> SUFFICES ASSUME Merged!Aligned PROVE Merged!AlignedProgress'
    BY <1>1 DEF Merged!AlignedProgress, Merged!Aligned
  <2>1. Merged!AlignedProgress!2
    BY DEF Merged!IInv, Merged!AlignedProgress
  <2>2. Merged!AlignedProgress!2!1'
    BY <1>1, <2>1
  <2>5. Merged!AlignedProgress!2!2'
    <3>1. ({given[1][k] : k \in row .. Len(given[1])})' = {given[1][k] : k \in row .. Len(given[1])}
      BY <1>1
    <3> QED
      BY <1>1, <2>1, <3>1
  <2>6. Merged!AlignedProgress!2!3'
    BY <1>1, <2>1
  <2>3. Merged!AlignedProgress!2!4' /\ Merged!AlignedProgress!2!5'
    BY <1>1, <2>1 DEF Merged!Points
  <2> QED
    BY <2>2, <2>3, <2>5, <2>6 DEF Merged!AlignedProgress
<1> QED
  BY <1>2, <1>3, <1>4 DEF Merged!IInv

LEMMA SortTableKeeps == Merged!IInv /\ Merged!SortTable => Merged!IInv'
<1> SUFFICES ASSUME Merged!IInv, Merged!SortTable PROVE Merged!IInv'
  OBVIOUS
<1> DEFINE n == Len(formatted)
           RowType == [time : Merged!Instant, points : [Merged!SeriesIndex -> {Merged!Nothing} \cup (Merged!SeriesIndex \X Merged!Instant)]]
<1>1. formatted \in Seq(RowType)
  BY DEF Merged!IInv, Merged!TypeOK
<1>2. n \in Nat /\ DOMAIN formatted = 1 .. n /\ \A i \in 1 .. n : formatted[i] \in RowType
  BY <1>1, LenProperties, ElementOfSeq
<1> HIDE DEF RowType, n
<1>3. PICK p \in Merged!SetToSeqs(1 .. n) : formatted' = [i \in 1 .. n |-> formatted[p[i]]]
  BY <1>2 DEF Merged!SortTable
<1>4. stage = "sort" /\ stage' = "done" /\ UNCHANGED <<results, series, row, direction, given>>
  BY DEF Merged!SortTable
<1>5. /\ p \in [1 .. n -> 1 .. n]
      /\ \A i, j \in 1 .. n : p[i] = p[j] => i = j
      /\ \A k \in 1 .. n : \E i \in 1 .. n : p[i] = k
  BY <1>2, TablePermutations
<1>6. DOMAIN formatted' = 1 .. n /\ \A i \in 1 .. n : formatted'[i] = formatted[p[i]] /\ p[i] \in 1 .. n
  BY <1>3, <1>5
<1>7. Merged!TypeOK'
  <2>1. formatted' \in [1 .. n -> RowType]
    BY <1>2, <1>3, <1>5
  <2>2. formatted' \in Seq(RowType)
    BY <1>2, <2>1
  <2> QED
    BY <1>4, <2>2 DEF Merged!IInv, Merged!TypeOK, RowType
<1>8. Merged!InPlace'
  BY <1>4 DEF Merged!IInv, Merged!InPlace
<1>9. ASSUME NEW s \in Merged!SeriesIndex, NEW t
      PROVE  /\ Merged!RowsWith(s, t) = {} => (Merged!RowsWith(s, t))' = {}
             /\ (\E i \in DOMAIN formatted : Merged!RowsWith(s, t) = {i})
                => \E i \in 1 .. n : (Merged!RowsWith(s, t))' = {i}
  <2>1. (Merged!RowsWith(s, t))' = {i \in 1 .. n : p[i] \in Merged!RowsWith(s, t)}
    BY <1>2, <1>6 DEF Merged!RowsWith
  <2>2. ASSUME NEW i \in DOMAIN formatted, Merged!RowsWith(s, t) = {i}
        PROVE  \E j \in 1 .. n : (Merged!RowsWith(s, t))' = {j}
    <3>1. PICK j \in 1 .. n : p[j] = i
      BY <1>2, <1>5
    <3>2. (Merged!RowsWith(s, t))' = {j}
      BY <1>5, <2>1, <2>2, <3>1
    <3> QED
      BY <3>2
  <2> QED
    BY <2>1, <2>2
<1>10. Merged!LeftOrPlaced'
  <2> SUFFICES ASSUME NEW s \in Merged!SeriesIndex, NEW t \in Merged!Range(given[s]) \ {Merged!NoTime}, Merged!Point(s, t) # Merged!Nothing
               PROVE  (IF t \in Merged!Left(s) THEN Merged!RowsWith(s, t) = {}
                       ELSE \E i \in DOMAIN formatted : Merged!RowsWith(s, t) = {i})'
    BY <1>4 DEF Merged!LeftOrPlaced
  <2>1. (Merged!Left(s))' = Merged!Left(s)
    BY <1>4 DEF Merged!Left
  <2>2. IF t \in Merged!Left(s) THEN Merged!RowsWith(s, t) = {} ELSE \E i \in DOMAIN formatted : Merged!RowsWith(s, t) = {i}
    BY DEF Merged!IInv, Merged!LeftOrPlaced
  <2> QED
    BY <1>6, <1>9, <2>1, <2>2
<1>11. Merged!AlignedProgress'
  <2> SUFFICES ASSUME Merged!Aligned PROVE Merged!AlignedProgress'
    BY <1>4 DEF Merged!AlignedProgress, Merged!Aligned
  <2>1. /\ \A i, j \in 1 .. n : i # j => formatted[i].time # formatted[j].time
        /\ \A i \in 1 .. n : \A x \in Merged!Points(formatted[i]) : x[2] = formatted[i].time
    BY <1>2 DEF Merged!IInv, Merged!AlignedProgress
  <2>2. /\ \A i, j \in 1 .. n : i # j => formatted'[i].time # formatted'[j].time
        /\ \A i \in 1 .. n : \A x \in Merged!Points(formatted'[i]) : x[2] = formatted'[i].time
    <3>1. ASSUME NEW i \in 1 .. n, NEW j \in 1 .. n, i # j
          PROVE  formatted'[i].time # formatted'[j].time
      <4>1. p[i] \in 1 .. n /\ p[j] \in 1 .. n /\ p[i] # p[j]
        BY <1>5, <3>1
      <4>2. formatted[p[i]].time # formatted[p[j]].time
        BY <2>1, <4>1
      <4> QED
        BY <1>6, <4>2
    <3>2. ASSUME NEW i \in 1 .. n, NEW x \in Merged!Points(formatted'[i])
          PROVE  x[2] = formatted'[i].time
      <4>1. formatted'[i] = formatted[p[i]] /\ p[i] \in 1 .. n
        BY <1>6
      <4>2. x \in Merged!Points(formatted[p[i]])
        BY <4>1, <3>2
      <4> QED
        BY <2>1, <4>1, <4>2
    <3> QED
      BY <3>1, <3>2
  <2>3. series = 1 => \A i \in 1 .. n : \A k \in row .. Len(given[1]) : formatted'[i].time # given[1][k]
    BY <1>2, <1>6 DEF Merged!IInv, Merged!AlignedProgress
  <2>4. /\ results[1] = given[1]
        /\ \A s \in Merged!SeriesIndex \ {1} :
            IF series = 1 THEN /\ Merged!Descending(results[s])
                               /\ Merged!Range(results[s]) = {given[1][k] : k \in row .. Len(given[1])}
            ELSE results[s] = <<>>
    BY DEF Merged!IInv, Merged!AlignedProgress
  <2>5. \A i \in 1 .. n : Merged!Points(formatted'[i]) = (Merged!Range(formatted'[i].points) \ {Merged!Nothing})
    BY DEF Merged!Points
  <2>6. /\ results'[1] = given'[1]
        /\ \A s \in Merged!SeriesIndex \ {1} :
            IF series' = 1 THEN /\ Merged!Descending(results'[s])
                                /\ Merged!Range(results'[s]) = {given'[1][k] : k \in row' .. Len(given'[1])}
            ELSE results'[s] = <<>>
    BY <1>4, <2>4
  <2>7. series' = 1 => \A i \in DOMAIN formatted' : \A k \in row' .. Len(given'[1]) : formatted'[i].time # given'[1][k]
    BY <1>4, <1>6, <2>3
  <2>8. DOMAIN formatted' = 1 .. n
    BY <1>6
  <2> QED
    BY <2>2, <2>6, <2>7, <2>8 DEF Merged!AlignedProgress, Merged!Descending, Merged!Points, Merged!Range
<1> QED
  BY <1>7, <1>8, <1>10, <1>11 DEF Merged!IInv

(* With the loops at their end, nothing is left and all is placed.         *)
LEMMA TableInvImplies == Merged!IInv => Merged!EveryPointOnce /\ Merged!AlignedSeriesMerge
<1> SUFFICES ASSUME Merged!IInv PROVE Merged!EveryPointOnce /\ Merged!AlignedSeriesMerge
  OBVIOUS
<1>1. Merged!EveryPointOnce
  <2> SUFFICES ASSUME stage \in {"sort", "done"}, NEW s \in Merged!SeriesIndex, NEW t \in Merged!Range(given[s]) \ {Merged!NoTime},
                      Merged!Point(s, t) # Merged!Nothing
               PROVE  Merged!Cardinality(Merged!RowsWith(s, t)) = 1
    BY DEF Merged!EveryPointOnce
  <2>1. s < series
    <3>1. series \in Int /\ ~ (series <= NumSeries) /\ s \in 1 .. NumSeries /\ NumSeries \in Nat
      BY TablesAssumption DEF Merged!IInv, Merged!TypeOK, Merged!InPlace, Merged!SeriesIndex
    <3> QED
      BY <3>1
  <2>2. Merged!Left(s) = {}
    BY <2>1 DEF Merged!Left
  <2>3. PICK i \in DOMAIN formatted : Merged!RowsWith(s, t) = {i}
    BY <2>2 DEF Merged!IInv, Merged!LeftOrPlaced
  <2> QED
    BY <2>3, FS_Singleton, SameOperators
<1>2. Merged!AlignedSeriesMerge
  BY DEF Merged!IInv, Merged!AlignedProgress, Merged!AlignedSeriesMerge, Merged!Range
<1> QED
  BY <1>1, <1>2

(* What one turn takes: a row of the series gone through, and one row at   *)
(* most of each series after it.                                           *)
LEMMA RowTakes ==
    ASSUME Merged!IInv, stage = "rows", results[series] # <<>>, NEW t, t = results[series][row], t # Merged!NoTime,
           NEW found, found = Merged!Found(series, t), \A s \in Merged!SeriesIndex : found[s] # Merged!Panic,
           NEW later \in [Merged!SeriesIndex -> Merged!Results \cup {<<>>}], later = results',
           \A s \in Merged!SeriesIndex : later[s] \in IF found[s] = Merged!NotFound THEN {results[s]}
                                               ELSE Merged!RemoveAndSort(results[s], found[s]),
           Merged!Advance
    PROVE  /\ t \in Merged!Instant /\ series \in Merged!SeriesIndex /\ row \in DOMAIN results[series]
           /\ found[series] = Merged!NotFound /\ later[series] = results[series]
           /\ \A s \in Merged!SeriesIndex : s # series /\ found[s] = Merged!NotFound => (Merged!Left(s))' = Merged!Left(s)
           /\ \A s \in Merged!SeriesIndex : found[s] # Merged!NotFound =>
                /\ s > series
                /\ results[s] \in Merged!Results /\ found[s] \in DOMAIN results[s]
                /\ results[s][found[s]] \in Merged!Instant /\ results[s][found[s]] \in Merged!Left(s)
                /\ (Merged!Left(s))' = Merged!Left(s) \ {results[s][found[s]]}
                /\ Merged!Descending(later[s]) /\ Merged!Range(later[s]) = Merged!Range(results[s]) \ {results[s][found[s]]}
           /\ \A s \in Merged!SeriesIndex : s = series => t \in Merged!Left(s) /\ (Merged!Left(s))' = Merged!Left(s) \ {t}
<1>1. /\ series \in Merged!SeriesIndex /\ row \in DOMAIN results[series] /\ row \in Nat
      /\ \A s \in Merged!SeriesIndex :
            /\ results[s] \in Merged!Results \cup {<<>>}
            /\ Len(results[s]) \in Nat /\ DOMAIN results[s] = 1 .. Len(results[s])
  BY AtRow
<1>2. found[series] = Merged!NotFound
  BY <1>1 DEF Merged!Found, Merged!SeriesIndex
<1>3. later[series] = results[series]
  BY <1>1, <1>2
<1>4. t \in Merged!Instant
  BY <1>1, RowsFacts
<1>5. ASSUME NEW s \in Merged!SeriesIndex, s # series, found[s] = Merged!NotFound PROVE (Merged!Left(s))' = Merged!Left(s)
  <2>1. later[s] = results[s]
    BY <1>5
  <2>2. s < series \/ s > series
    BY <1>1, <1>5 DEF Merged!SeriesIndex
  <2> QED
    BY <1>3, <2>1, <2>2, AdvanceTakes
<1>6. ASSUME NEW s \in Merged!SeriesIndex, found[s] # Merged!NotFound
      PROVE  /\ s > series
             /\ results[s] \in Merged!Results /\ found[s] \in DOMAIN results[s]
             /\ results[s][found[s]] \in Merged!Instant /\ results[s][found[s]] \in Merged!Left(s)
             /\ (Merged!Left(s))' = Merged!Left(s) \ {results[s][found[s]]}
             /\ Merged!Descending(later[s]) /\ Merged!Range(later[s]) = Merged!Range(results[s]) \ {results[s][found[s]]}
  <2>1. s > series /\ found[s] = Merged!findFirstElementIndex(results[s], t)
    BY <1>1, <1>6 DEF Merged!Found
  <2>2. found[s] \in DOMAIN results[s] /\ results[s] # Merged!NoData
    BY <1>1, <1>6, <2>1, FoundInRows
  <2>3. results[s] # <<>>
    BY <2>2
  <2>4. results[s] \in Merged!Results
    BY <1>1, <2>3
  <2>5. results[s][found[s]] \in Merged!Instant
    BY <2>2, <2>4, RowsFacts
  <2>6. later[s] \in Merged!RemoveAndSort(results[s], found[s])
    BY <1>6
  <2>7. Merged!Descending(later[s]) /\ Merged!Range(later[s]) = Merged!Range(results[s]) \ {results[s][found[s]]}
    BY <2>2, <2>4, <2>6, RemoveAndSortFacts
  <2>8. Merged!Left(s) = Merged!Range(results[s]) /\ (Merged!Left(s))' = Merged!Range(later[s])
    BY <1>3, <2>1, AdvanceTakes
  <2>9. results[s][found[s]] \in Merged!Left(s)
    BY <2>2, <2>8 DEF Merged!Range
  <2> QED
    BY <2>1, <2>2, <2>4, <2>5, <2>7, <2>8, <2>9
<1>7. ASSUME NEW s \in Merged!SeriesIndex, s = series PROVE t \in Merged!Left(s) /\ (Merged!Left(s))' = Merged!Left(s) \ {t}
  <2>1. (Merged!Left(s))' = Merged!Left(s) \ {t}
    BY <1>3, <1>7, AdvanceTakes
  <2>2. Merged!Left(s) = {results[s][k] : k \in row .. Len(results[s])}
    BY <1>1, <1>7 DEF Merged!Left, Merged!SeriesIndex
  <2>3. row \in row .. Len(results[s])
    BY <1>1, <1>7
  <2> QED
    BY <1>7, <2>1, <2>2, <2>3
<1> QED
  BY <1>1, <1>2, <1>3, <1>4, <1>5, <1>6, <1>7

LEMMA PlaceRowKeeps == Merged!IInv /\ Merged!PlaceRow => Merged!IInv'
<1> SUFFICES ASSUME Merged!IInv, Merged!PlaceRow PROVE Merged!IInv'
  OBVIOUS
<1> DEFINE n == Len(formatted)
           RowType == [time : Merged!Instant, points : [Merged!SeriesIndex -> {Merged!Nothing} \cup (Merged!SeriesIndex \X Merged!Instant)]]
<1>1. PICK t, found, placed, later :
        /\ t = results[series][row] /\ t # Merged!NoTime
        /\ found = Merged!Found(series, t) /\ \A s \in Merged!SeriesIndex : found[s] # Merged!Panic
        /\ placed = [time   |-> t,
                     points |-> [s \in Merged!SeriesIndex |->
                           IF s = series THEN Merged!Point(s, t)
                           ELSE IF found[s] = Merged!NotFound THEN Merged!Nothing
                           ELSE Merged!Point(s, results[s][found[s]])]]
        /\ later = results' /\ DOMAIN later = Merged!SeriesIndex /\ later = [s \in Merged!SeriesIndex |-> later[s]]
        /\ \A s \in Merged!SeriesIndex : later[s] \in IF found[s] = Merged!NotFound THEN {results[s]}
                                               ELSE Merged!RemoveAndSort(results[s], found[s])
        /\ formatted' = IF placed = Merged!Emptied(t) THEN formatted ELSE Append(formatted, placed)
  BY DEF Merged!PlaceRow
<1>2. stage = "rows" /\ results[series] # <<>> /\ Merged!Advance /\ direction' = direction /\ given' = given
  BY DEF Merged!PlaceRow
<1>3. /\ series \in Merged!SeriesIndex /\ NumSeries \in Nat
      /\ \A s \in Merged!SeriesIndex :
            /\ results[s] \in Merged!Results \cup {<<>>} /\ given[s] \in Merged!Results
            /\ Len(results[s]) \in Nat /\ DOMAIN results[s] = 1 .. Len(results[s])
  BY <1>2, AtRow
<1>4. later \in [Merged!SeriesIndex -> Merged!Results \cup {<<>>}]
  <2> SUFFICES ASSUME NEW s \in Merged!SeriesIndex, found[s] # Merged!NotFound PROVE later[s] \in Merged!Results \cup {<<>>}
    BY <1>1, <1>3
  <2>1. found[s] = Merged!findFirstElementIndex(results[s], t)
    BY <1>1 DEF Merged!Found
  <2>2. found[s] \in DOMAIN results[s] /\ results[s] # Merged!NoData
    <3>1. found[s] # Merged!Panic
      BY <1>1
    <3>2. results[s] \in Merged!Results \cup {<<>>}
      BY <1>3
    <3>3. found[s] \notin {Merged!NotFound, Merged!Panic}
      BY <3>1
    <3> QED
      BY ONLY <2>1, <3>2, <3>3, FoundInRows
  <2>3. results[s] # <<>>
    BY <2>2
  <2>4. later[s] \in Merged!RemoveAndSort(results[s], found[s])
    BY <1>1
  <2> QED
    BY <1>3, <2>2, <2>3, <2>4, RemoveAndSortFacts
<1>5. /\ t \in Merged!Instant /\ row \in DOMAIN results[series]
      /\ found[series] = Merged!NotFound /\ later[series] = results[series]
      /\ \A s \in Merged!SeriesIndex : s # series /\ found[s] = Merged!NotFound => (Merged!Left(s))' = Merged!Left(s)
      /\ \A s \in Merged!SeriesIndex : found[s] # Merged!NotFound =>
           /\ s > series
           /\ results[s] \in Merged!Results /\ found[s] \in DOMAIN results[s]
           /\ results[s][found[s]] \in Merged!Instant /\ results[s][found[s]] \in Merged!Left(s)
           /\ (Merged!Left(s))' = Merged!Left(s) \ {results[s][found[s]]}
           /\ Merged!Descending(later[s]) /\ Merged!Range(later[s]) = Merged!Range(results[s]) \ {results[s][found[s]]}
      /\ \A s \in Merged!SeriesIndex : s = series => t \in Merged!Left(s) /\ (Merged!Left(s))' = Merged!Left(s) \ {t}
  <2>1. /\ stage = "rows" /\ results[series] # <<>> /\ Merged!Advance
        /\ t = results[series][row] /\ t # Merged!NoTime
        /\ found = Merged!Found(series, t) /\ \A s \in Merged!SeriesIndex : found[s] # Merged!Panic
        /\ later = results' /\ later \in [Merged!SeriesIndex -> Merged!Results \cup {<<>>}]
    BY <1>1, <1>2, <1>4
  <2>2. \A s \in Merged!SeriesIndex : later[s] \in IF found[s] = Merged!NotFound THEN {results[s]}
                                             ELSE Merged!RemoveAndSort(results[s], found[s])
    BY <1>1
  <2> HIDE DEF RowType, n
  <2> QED
    BY <2>1, <2>2, RowTakes, SMTT(30)
<1> DEFINE taken(s) == IF s = series THEN {t} ELSE IF found[s] = Merged!NotFound THEN {} ELSE {results[s][found[s]]}
<1>6. \A s \in Merged!SeriesIndex : (Merged!Left(s))' = Merged!Left(s) \ taken(s) /\ taken(s) \subseteq Merged!Left(s)
  BY <1>5
<1>7. placed \in RowType /\ placed.time = t
  BY <1>1, <1>5, PointFacts
<1>8. ASSUME NEW s \in Merged!SeriesIndex, NEW x, Merged!Point(s, x) # Merged!Nothing
      PROVE  placed.points[s] = Merged!Point(s, x) <=> x \in taken(s)
  <2>1. Merged!Point(s, x) = <<s, x>>
    BY <1>8, PointFacts
  <2>2. placed.points[s] = IF s = series THEN Merged!Point(s, t)
                           ELSE IF found[s] = Merged!NotFound THEN Merged!Nothing ELSE Merged!Point(s, results[s][found[s]])
    BY <1>1
  <2>3. \A y : Merged!Point(s, y) = <<s, x>> <=> y = x
    BY <1>8, <2>1, PointFacts
  <2> QED
    BY <1>8, <2>1, <2>2, <2>3
<1>9. /\ formatted \in Seq(RowType) /\ n \in Nat /\ DOMAIN formatted = 1 .. n
      /\ \A i \in 1 .. n : formatted[i] \in RowType
  <2>1. formatted \in Seq(RowType)
    BY DEF Merged!IInv, Merged!TypeOK
  <2> QED
    BY <2>1, LenProperties, ElementOfSeq
<1> HIDE DEF RowType, n
<1>10. /\ formatted' \in Seq(RowType) /\ \A i \in 1 .. n : formatted'[i] = formatted[i]
       /\ \/ DOMAIN formatted' = 1 .. n /\ \A s \in Merged!SeriesIndex : placed.points[s] = Merged!Nothing
          \/ DOMAIN formatted' = 1 .. n + 1 /\ formatted'[n + 1] = placed
  <2>1. CASE placed = Merged!Emptied(t)
    <3>1. formatted' = formatted
      BY <1>1, <2>1
    <3>2. \A s \in Merged!SeriesIndex : placed.points[s] = Merged!Nothing
      BY <2>1 DEF Merged!Emptied
    <3> QED
      BY <1>9, <3>1, <3>2
  <2>2. CASE placed # Merged!Emptied(t)
    <3>1. formatted' = Append(formatted, placed)
      BY <1>1, <2>2
    <3>2. Len(formatted) = n
      BY DEF n
    <3> QED
      BY <1>7, <1>9, <3>1, <3>2, AppendProperties
  <2> QED
    BY <2>1, <2>2
<1>11. ASSUME NEW s \in Merged!SeriesIndex, NEW x, Merged!Point(s, x) # Merged!Nothing
       PROVE  /\ x \in taken(s) => /\ (Merged!RowsWith(s, x))' = Merged!RowsWith(s, x) \cup {n + 1}
                                   /\ n + 1 \in DOMAIN formatted'
              /\ x \notin taken(s) => (Merged!RowsWith(s, x))' = Merged!RowsWith(s, x)
  <2>1. Merged!RowsWith(s, x) = {i \in 1 .. n : formatted[i].points[s] = Merged!Point(s, x)}
    BY <1>9 DEF Merged!RowsWith
  <2>2. (Merged!RowsWith(s, x))' = {i \in DOMAIN formatted' : formatted'[i].points[s] = Merged!Point(s, x)}
    BY DEF Merged!RowsWith
  <2>3. placed.points[s] = Merged!Point(s, x) <=> x \in taken(s)
    BY <1>8, <1>11
  <2> HIDE DEF taken
  <2>4. CASE DOMAIN formatted' = 1 .. n /\ \A i \in Merged!SeriesIndex : placed.points[i] = Merged!Nothing
    <3>1. x \notin taken(s)
      BY <1>11, <2>3, <2>4
    <3> QED
      BY <1>10, <2>1, <2>2, <2>4, <3>1
  <2>5. CASE DOMAIN formatted' = 1 .. n + 1 /\ formatted'[n + 1] = placed
    <3>1. (Merged!RowsWith(s, x))' = {i \in 1 .. n + 1 : formatted'[i].points[s] = Merged!Point(s, x)}
      BY <2>2, <2>5
    <3>2. \A i \in 1 .. n + 1 : i = n + 1 \/ i \in 1 .. n
      BY <1>9
    <3>3. \A i \in 1 .. n : i \in 1 .. n + 1 /\ i # n + 1
      BY <1>9
    <3>4. n + 1 \in 1 .. n + 1
      BY <1>9
    <3> QED
      BY <1>10, <2>1, <2>3, <2>5, <3>1, <3>2, <3>3, <3>4
  <2> QED
    BY <1>10, <2>4, <2>5
<1>12. Merged!TypeOK' /\ Merged!InPlace'
  <2>1. later = results' /\ later[series] = results[series]
    BY <1>1, <1>5
  <2>2. Merged!InPlace' /\ stage' \in {"rows", "sort"} /\ series' \in 1 .. NumSeries + 1 /\ row' \in Nat \ {0}
    BY <1>2, <1>4, <2>1, AdvanceKeepsPlace
  <2> QED
    BY <1>2, <1>4, <1>10, <2>1, <2>2 DEF Merged!IInv, Merged!TypeOK, RowType
<1>13. Merged!LeftOrPlaced'
  <2> SUFFICES ASSUME NEW s \in Merged!SeriesIndex, NEW x \in Merged!Range(given[s]) \ {Merged!NoTime}, Merged!Point(s, x) # Merged!Nothing
               PROVE  (IF x \in Merged!Left(s) THEN Merged!RowsWith(s, x) = {}
                       ELSE \E i \in DOMAIN formatted : Merged!RowsWith(s, x) = {i})'
    BY <1>2 DEF Merged!LeftOrPlaced
  <2>1. IF x \in Merged!Left(s) THEN Merged!RowsWith(s, x) = {} ELSE \E i \in DOMAIN formatted : Merged!RowsWith(s, x) = {i}
    BY DEF Merged!IInv, Merged!LeftOrPlaced
  <2> HIDE DEF taken
  <2>2. CASE x \in taken(s)
    <3>1. x \in Merged!Left(s) /\ x \notin (Merged!Left(s))'
      BY <1>6, <2>2
    <3>2. (Merged!RowsWith(s, x))' = {n + 1} /\ n + 1 \in DOMAIN formatted'
      BY <1>11, <2>1, <2>2, <3>1
    <3> QED
      BY <3>1, <3>2
  <2>3. CASE x \notin taken(s)
    <3>1. x \in (Merged!Left(s))' <=> x \in Merged!Left(s)
      BY <1>6, <2>3
    <3>2. (Merged!RowsWith(s, x))' = Merged!RowsWith(s, x)
      BY <1>11, <2>3
    <3>3. DOMAIN formatted \subseteq DOMAIN formatted'
      BY <1>9, <1>10
    <3> QED
      BY <2>1, <3>1, <3>2, <3>3
  <2> QED
    BY <2>2, <2>3
<1>14. Merged!AlignedProgress'
  <2> SUFFICES ASSUME Merged!Aligned PROVE Merged!AlignedProgress'
    BY <1>2 DEF Merged!AlignedProgress, Merged!Aligned
  <2> DEFINE first == given[1]
             L == Len(first)
  <2>1. /\ results[1] = first
        /\ \A s \in Merged!SeriesIndex \ {1} :
            IF series = 1 THEN Merged!Descending(results[s]) /\ Merged!Range(results[s]) = {first[k] : k \in row .. L}
            ELSE results[s] = <<>>
        /\ series = 1 => \A i \in 1 .. n : \A k \in row .. L : formatted[i].time # first[k]
        /\ \A i, j \in 1 .. n : i # j => formatted[i].time # formatted[j].time
        /\ \A i \in 1 .. n : \A p \in Merged!Points(formatted[i]) : p[2] = formatted[i].time
    BY <1>9 DEF Merged!IInv, Merged!AlignedProgress
  <2>2. series = 1 /\ 1 \in Merged!SeriesIndex
    BY <1>2, <1>3, <2>1, TablesAssumption DEF Merged!SeriesIndex
  <2>3. /\ Merged!Descending(first) /\ first # Merged!NoData /\ first \in Merged!Results
        /\ L \in Nat /\ DOMAIN first = 1 .. L /\ \A k \in 1 .. L : first[k] \in Merged!Instant
        /\ \A i, j \in 1 .. L : first[i] = first[j] => i = j
        /\ \A i, j \in 1 .. L : i < j => first[i] > first[j]
    BY <1>3, <2>2, RowsFacts DEF Merged!Aligned, Merged!Descending
  <2>4. row \in 1 .. L /\ t = first[row]
    BY <1>1, <1>5, <2>1, <2>2, <2>3
  <2> HIDE DEF first, L
  <2>5. ASSUME NEW s \in Merged!SeriesIndex, s # 1
        PROVE  found[s] = 1 /\ results[s] # <<>> /\ results[s][1] = t
    <3>1. Merged!Descending(results[s]) /\ Merged!Range(results[s]) = {first[k] : k \in row .. L}
      BY <2>1, <2>2, <2>5
    <3>2. /\ results[s] # Merged!NoData /\ Len(results[s]) \in Nat /\ DOMAIN results[s] = 1 .. Len(results[s])
          /\ \A i \in DOMAIN results[s] : results[s][i] \in Merged!Instant
      BY <1>3, <3>1, RowsFacts DEF Merged!Descending
    <3>3. t \in Merged!Range(results[s])
      <4>1. row \in row .. L
        BY <2>3, <2>4
      <4> QED
        BY <2>4, <3>1, <4>1
    <3>4. PICK j \in 1 .. Len(results[s]) : results[s][j] = t
      BY <3>2, <3>3 DEF Merged!Range
    <3>5. 1 \in 1 .. Len(results[s])
      BY <3>2, <3>4
    <3>6. PICK k \in row .. L : results[s][1] = first[k]
      <4>1. results[s][1] \in Merged!Range(results[s])
        BY <3>2, <3>5 DEF Merged!Range
      <4> QED
        BY <3>1, <4>1
    <3>7. k = row \/ (k \in 1 .. L /\ row < k)
      BY <2>3, <2>4
    <3>8. first[k] <= t
      BY <2>3, <2>4, <3>7 DEF Merged!Instant
    <3>9. results[s][1] = t
      <4>1. CASE j = 1
        BY <3>4, <4>1
      <4>2. CASE j # 1
        <5>1. results[s][1] > results[s][j]
          BY <3>1, <3>2, <3>5, <4>2 DEF Merged!Descending
        <5> QED
          BY <2>3, <2>4, <3>4, <3>6, <3>7, <3>8, <5>1 DEF Merged!Instant
      <4> QED
        BY <4>1, <4>2
    <3>10. \A i \in 2 .. Len(results[s]) : results[s][i] < t
      <4> SUFFICES ASSUME NEW i \in 2 .. Len(results[s]) PROVE results[s][i] < t
        OBVIOUS
      <4>1. i \in DOMAIN results[s] /\ 1 \in DOMAIN results[s] /\ 1 < i
        BY <3>2, <3>5
      <4>2. results[s][1] > results[s][i]
        BY <3>1, <4>1 DEF Merged!Descending
      <4>3. results[s][i] \in Int /\ results[s][1] \in Int
        BY <3>2, <4>1 DEF Merged!Instant
      <4> QED
        BY <3>9, <4>2, <4>3
    <3>11. /\ t \in Nat \ {Merged!NoTime} /\ Len(results[s]) \in Nat \ {0} /\ Len(results[s]) \in 1 .. Len(results[s])
           /\ \A i \in 1 .. Len(results[s]) : results[s][i] \in Nat \ {Merged!NoTime}
      BY <1>5, <3>2, <3>5, TablesAssumption DEF Merged!Instant, Merged!NoTime
    <3>12. Merged!Search(results[s], t)[<<1, Len(results[s])>>] = 1
      BY <3>9, <3>10, <3>11, SearchFindsTheFirst
    <3>13. s > series
      BY <2>2, <2>5 DEF Merged!SeriesIndex
    <3>14. Merged!findFirstElementIndex(results[s], t) = 1
      BY ONLY <3>12 DEF Merged!findFirstElementIndex
    <3>15. found[s] = 1
      BY ONLY <1>1, <2>5, <3>13, <3>14 DEF Merged!Found
    <3>16. results[s] # <<>>
      BY ONLY <3>2, <3>4
    <3> QED
      BY ONLY <3>9, <3>15, <3>16
  <2>6. \A s \in Merged!SeriesIndex : placed.points[s] = Merged!Point(s, t)
    <3> SUFFICES ASSUME NEW s \in Merged!SeriesIndex PROVE placed.points[s] = Merged!Point(s, t)
      OBVIOUS
    <3>1. placed.points[s] = IF s = series THEN Merged!Point(s, t)
                             ELSE IF found[s] = Merged!NotFound THEN Merged!Nothing
                             ELSE Merged!Point(s, results[s][found[s]])
      BY <1>1
    <3>2. CASE s = 1
      BY ONLY <2>2, <3>1, <3>2
    <3>3. CASE s # 1
      <4>1. found[s] = 1 /\ results[s][1] = t
        BY <2>5, <3>3
      <4>2. found[s] # Merged!NotFound
        BY ONLY <4>1 DEF Merged!NotFound
      <4> QED
        BY ONLY <2>2, <3>1, <3>3, <4>1, <4>2
    <3> QED
      BY <3>2, <3>3
  <2>7. \A p \in Merged!Points(placed) : p[2] = t
    <3> SUFFICES ASSUME NEW p \in Merged!Points(placed) PROVE p[2] = t
      OBVIOUS
    <3>1. PICK s \in Merged!SeriesIndex : p = placed.points[s] /\ p # Merged!Nothing
      BY <1>1 DEF Merged!Points, Merged!Range
    <3>2. p = <<s, t>>
      BY <2>6, <3>1, PointFacts
    <3> QED
      BY <3>2
  <2>8. ASSUME NEW s \in Merged!SeriesIndex, s # 1
        PROVE  Merged!Descending(later[s]) /\ Merged!Range(later[s]) = {first[k] : k \in row + 1 .. L}
    <3>1. Merged!Range(later[s]) = {first[k] : k \in row .. L} \ {first[row]} /\ Merged!Descending(later[s])
      <4>1. found[s] # Merged!NotFound /\ results[s][found[s]] = first[row]
        BY <2>4, <2>5, <2>8 DEF Merged!NotFound
      <4>2. Merged!Descending(later[s]) /\ Merged!Range(later[s]) = Merged!Range(results[s]) \ {results[s][found[s]]}
        BY <1>5, <4>1
      <4>3. Merged!Range(results[s]) = {first[k] : k \in row .. L}
        BY <2>1, <2>2, <2>8
      <4> QED
        BY <4>1, <4>2, <4>3
    <3>2. \A k \in row .. L : k = row \/ k \in row + 1 .. L
      BY <2>3, <2>4
    <3>3. \A k \in row + 1 .. L : k \in row .. L /\ first[k] # first[row]
      <4>1. \A k \in row + 1 .. L : k \in 1 .. L /\ k \in row .. L /\ k # row
        BY <2>3, <2>4
      <4> QED
        BY <2>3, <2>4, <4>1
    <3> QED
      BY <3>1, <3>2, <3>3
  <2>9. \A i \in DOMAIN formatted' : i \in 1 .. n \/ (i = n + 1 /\ formatted'[i] = placed)
    BY <1>9, <1>10
  <2>10. \A i \in 1 .. n : formatted'[i].time # t
    <3>1. row \in row .. L
      BY <2>3, <2>4
    <3> QED
      BY <1>10, <2>1, <2>2, <2>4, <3>1
  <2>11. \A i, j \in DOMAIN formatted' : i # j => formatted'[i].time # formatted'[j].time
    BY <1>7, <1>10, <2>1, <2>9, <2>10
  <2>12. \A i \in DOMAIN formatted' : \A p \in Merged!Points(formatted'[i]) : p[2] = formatted'[i].time
    BY <1>7, <1>10, <2>1, <2>7, <2>9
  <2>13. CASE row < L
    <3>1. series' = 1 /\ row' = row + 1
      BY <1>2, <2>1, <2>2, <2>13 DEF Merged!Advance, L
    <3>2. ASSUME NEW i \in DOMAIN formatted', NEW k \in row + 1 .. L PROVE formatted'[i].time # first[k]
      <4>1. k \in row .. L /\ k \in 1 .. L /\ k # row
        BY <2>3, <2>4
      <4>2. first[k] # t
        BY <2>3, <2>4, <4>1
      <4> QED
        BY <1>7, <1>10, <2>1, <2>2, <2>9, <4>1, <4>2
    <3>3. given'[1] = first /\ results'[1] = first
      BY <1>1, <1>2, <1>5, <2>1, <2>2 DEF first
    <3>4. \A i \in DOMAIN formatted' : \A k \in row' .. Len(given'[1]) : formatted'[i].time # given'[1][k]
      BY <3>1, <3>2, <3>3 DEF L
    <3>5. \A s \in Merged!SeriesIndex \ {1} : /\ Merged!Descending(results'[s])
                                       /\ Merged!Range(results'[s]) = {given'[1][k] : k \in row' .. Len(given'[1])}
      BY <1>1, <2>8, <3>1, <3>3 DEF L
    <3> QED
      BY <2>11, <2>12, <3>1, <3>3, <3>4, <3>5 DEF Merged!AlignedProgress, Merged!Points
  <2>14. CASE ~ (row < L)
    <3>1. series' = 2 /\ row = L
      <4>1. ~ (row < Len(results[series]))
        BY <2>1, <2>2, <2>14 DEF L
      <4>2. series' = series + 1
        BY <1>2, <4>1 DEF Merged!Advance
      <4> QED
        BY <2>2, <2>3, <2>4, <2>14, <4>2
    <3>2. ASSUME NEW s \in Merged!SeriesIndex, s # 1 PROVE results'[s] = <<>>
      <4>1. Merged!Range(later[s]) = {}
        BY <2>3, <2>8, <3>1, <3>2
      <4>2. later[s] \notin Merged!Results
        <5> SUFFICES ASSUME later[s] \in Merged!Results PROVE FALSE
          OBVIOUS
        <5>1. 1 \in DOMAIN later[s]
          BY ResultIsNotEmpty, RowsFacts
        <5> QED
          BY <4>1, <5>1 DEF Merged!Range
      <4> QED
        BY <1>1, <1>4, <4>2
    <3>3. given'[1] = results'[1]
      BY <1>1, <1>2, <1>5, <2>1, <2>2 DEF first
    <3> QED
      BY <2>11, <2>12, <3>1, <3>2, <3>3 DEF Merged!AlignedProgress, Merged!Points
  <2> QED
    BY <2>13, <2>14
<1> QED
  BY <1>12, <1>13, <1>14 DEF Merged!IInv

-----------------------------------------------------------------------------
(* The response of a request, in whichever format.                         *)

(* A grouped query begins with the rows its SQL gives.                     *)
LEMMA WindowBegins == WindowInit => SeriesIInv /\ RowsOfQuery
<1> SUFFICES ASSUME WindowInit PROVE SeriesIInv /\ RowsOfQuery
  OBVIOUS
<1>1. /\ element \in Element /\ table \in TableContents
      /\ stage = "trim" /\ limit = element.limit /\ direction \in {"asc", "desc"}
      /\ end \in EndsOriginal(element)
      /\ fetched = Executed(element, joined) /\ len = Len(fetched) /\ array \in Backing(fetched)
      /\ \E plan \in {"merge", "hash"} : joined = Joined(element, table, plan)
  BY DEF WindowInit
<1>2. fetched \in Seq(AnyRow) /\ limit \in Nat \cup {NoLimit}
  BY <1>1, FetchedFacts, ElementFacts
<1>3. end \in Nat
  <2> DEFINE n == Len(element.columns)
             moves == Moves(element, n) - 1
  <2>1. n \in DOMAIN element.columns /\ \E i \in 1 .. n : element.columns[i] = "difference"
    BY <1>1, ElementFacts
  <2>2. Moves(element, n) \in Nat /\ Moves(element, n) >= 1
    BY <1>1, <2>1, MovesFacts
  <2>3. moves \in Nat
    BY <2>2
  <2>4. EndsOriginal(element) = IF element.form = "absolute"
                                THEN {element.end, EndAfter(element, moves)} ELSE {NoTime}
    BY DEF EndsOriginal
  <2> HIDE DEF moves
  <2>5. EndAfter(element, moves) \in Nat
    BY <1>1, <2>3, BoundsFacts
  <2>6. element.end \in Nat
    BY <1>1, ElementFacts
  <2> QED
    BY <1>1, <2>4, <2>5, <2>6 DEF NoTime
<1>4. SeriesIInv
  BY <1>1, <1>2, <1>3, SeriesBegins
<1> QED
  BY <1>1, <1>4 DEF RowsOfQuery

(* One that is not grouped begins with rows of any kind.                   *)
LEMMA PlainBegins == PlainInit => SeriesIInv /\ RowsOfQuery
<1> SUFFICES ASSUME PlainInit PROVE SeriesIInv /\ RowsOfQuery
  OBVIOUS
<1>1. /\ stage = "trim" /\ limit \in Limits /\ direction \in {"asc", "desc"} /\ end \in Time \cup {NoTime}
      /\ fetched \in Results(limit, end) /\ len = Len(fetched) /\ array \in Backing(fetched)
      /\ element = <<>>
  BY DEF PlainInit, SeriesInit
<1>2. limit \in Nat \cup {NoLimit} /\ end \in Nat /\ Row \subseteq AnyRow /\ MaxRows \in Nat
  <2>1. MaxRows \in Nat /\ Time \subseteq Nat /\ Limits \subseteq Nat \cup {NoLimit}
    BY SeriesFormatAssumption
  <2>2. limit \in Nat \cup {NoLimit} /\ end \in Nat
    BY <1>1, <2>1 DEF NoTime
  <2>3. Row \subseteq AnyRow
    <3>1. Time \cup {NoTime} \subseteq Nat
      BY <2>1 DEF NoTime
    <3> QED
      BY <3>1, Zenon DEF Row, AnyRow
  <2> QED
    BY <2>1, <2>2, <2>3
<1>3. fetched \in Seq(AnyRow)
  <2>1. CASE fetched = <<NilRow>>
    <3>1. NilRow \in AnyRow
      BY DEF NilRow, AnyRow, NoTime
    <3> QED
      BY <2>1, <3>1
  <2>2. CASE fetched # <<NilRow>>
    <3>1. PICK n \in 1 .. MaxRows : fetched \in [1 .. n -> Row]
      BY <1>1, <2>2 DEF Results
    <3>2. fetched \in [1 .. n -> AnyRow] /\ n \in Nat
      BY <1>2, <3>1
    <3> QED
      BY <3>2
  <2> QED
    BY <2>1, <2>2
<1>4. SeriesIInv
  BY <1>1, <1>2, <1>3, SeriesBegins
<1> QED
  BY <1>1, <1>4 DEF RowsOfQuery, Grouped

LEMMA ResponseBegins == ResponseInit => ResponseIInv
  BY WindowBegins, PlainBegins, TableBegins DEF ResponseInit, ResponseIInv, NoSeries

(* The query, the table and what was fetched stay.                         *)
LEMMA QueryStays == RowsOfQuery /\ UNCHANGED <<windowVars, fetched, end>> => RowsOfQuery'
  BY DEF RowsOfQuery, Grouped, windowVars

(* Without a step, both invariants stay as they are.                       *)
LEMMA SeriesStays == SeriesIInv /\ UNCHANGED seriesVars => SeriesIInv'
<1> SUFFICES ASSUME SeriesIInv, UNCHANGED seriesVars PROVE SeriesIInv'
  OBVIOUS
<1> USE DEF seriesVars
<1>1. SeriesTypeOK' /\ RowsOfDatabase' /\ RowsSorted' /\ BeyondIsCut'
  BY DEF SeriesIInv, SeriesTypeOK, RowsOfDatabase, RowsSorted, BeyondIsCut, InOrder, CutAway, TooLate
<1>2. FetchedOrNil' /\ SameValues' /\ ValuesSorted'
  BY DEF SeriesIInv, FetchedOrNil, SameValues, ValuesSorted, InOrder
<1> QED
  BY <1>1, <1>2 DEF SeriesIInv

LEMMA TableStays ==
    Merged!IInv /\ UNCHANGED <<stage, direction, results, series, row, formatted, given>> => Merged!IInv'
  BY DEF Merged!IInv, Merged!TypeOK, Merged!InPlace, Merged!LeftOrPlaced, Merged!RowsWith, Merged!Left,
         Merged!AlignedProgress, Merged!Aligned

(* One step of the function for each format.                               *)
LEMMA ResponseStep == ResponseIInv /\ [formatResponse]_responseVars => ResponseIInv'
<1> SUFFICES ASSUME ResponseIInv, [formatResponse]_responseVars PROVE ResponseIInv'
  OBVIOUS
<1>1. ASSUME format = "per_query", SeriesIInv', UNCHANGED <<format, windowVars, fetched, end>> PROVE ResponseIInv'
  <2>1. RowsOfQuery
    BY <1>1 DEF ResponseIInv
  <2> QED
    BY <1>1, <2>1, QueryStays DEF ResponseIInv
<1>2. ASSUME format = "table", Merged!IInv', UNCHANGED <<format, array, len, fetched, element>> PROVE ResponseIInv'
  BY <1>2 DEF ResponseIInv, NoSeries
<1>3. CASE format = "per_query"
  <2>1. SeriesIInv
    BY <1>3 DEF ResponseIInv
  <2>2. CASE AsPerQuery(Trim)
    <3>1. SeriesIInv' /\ UNCHANGED <<format, windowVars, fetched, end>>
      BY <2>1, <2>2, TrimKeeps DEF AsPerQuery, Trim
    <3> QED
      BY <1>1, <1>3, <3>1
  <2>3. CASE AsPerQuery(Sort2D)
    <3>1. SeriesIInv' /\ UNCHANGED <<format, windowVars, fetched, end>>
      BY <2>1, <2>3, SortKeeps DEF AsPerQuery, Sort2D
    <3> QED
      BY <1>1, <1>3, <3>1
  <2>4. CASE AsPerQuery(Limit)
    <3>1. SeriesIInv' /\ UNCHANGED <<format, windowVars, fetched, end>>
      BY <2>1, <2>4, LimitKeeps DEF AsPerQuery, Limit
    <3> QED
      BY <1>1, <1>3, <3>1
  <2>5. CASE AsPerQuery(LimitPanics)
    <3>1. SeriesIInv' /\ UNCHANGED <<format, windowVars, fetched, end>>
      BY <2>1, <2>5, LimitPanicsKeeps DEF AsPerQuery, LimitPanics
    <3> QED
      BY <1>1, <1>3, <3>1
  <2>6. CASE AsPerQuery(FilterEnd)
    <3>1. SeriesIInv' /\ UNCHANGED <<format, windowVars, fetched, end>>
      BY <2>1, <2>6, FilterEndKeeps DEF AsPerQuery, FilterEnd
    <3> QED
      BY <1>1, <1>3, <3>1
  <2>7. CASE UNCHANGED responseVars
    <3>1. SeriesIInv' /\ UNCHANGED <<format, windowVars, fetched, end>>
      BY <2>1, <2>7, SeriesStays DEF responseVars, perQueryVars, seriesVars, windowVars
    <3> QED
      BY <1>1, <1>3, <3>1
  <2> QED
    BY <1>3, <2>2, <2>3, <2>4, <2>5, <2>6, <2>7 DEF formatResponse, AsTable
<1>4. CASE format = "table"
  <2>1. Merged!IInv
    BY <1>4 DEF ResponseIInv
  <2>2. ASSUME NEW step, AsTable(step) PROVE UNCHANGED <<format, array, len, fetched, element>>
    BY <2>2 DEF AsTable, perQueryVars
  <2>3. CASE AsTable(Merged!SkipSeries)
    <3>1. Merged!IInv'
      BY <2>1, <2>3, SkipSeriesKeeps DEF AsTable
    <3> QED
      BY <1>2, <1>4, <2>3, <3>1 DEF AsTable, perQueryVars
  <2>4. CASE AsTable(Merged!SkipNoData)
    <3>1. Merged!IInv'
      BY <2>1, <2>4, SkipNoDataKeeps DEF AsTable
    <3> QED
      BY <1>2, <1>4, <2>4, <3>1 DEF AsTable, perQueryVars
  <2>5. CASE AsTable(Merged!PlaceRow)
    <3>1. Merged!IInv'
      BY <2>1, <2>5, PlaceRowKeeps DEF AsTable
    <3> QED
      BY <1>2, <1>4, <2>5, <3>1 DEF AsTable, perQueryVars
  <2>6. CASE AsTable(Merged!SearchPanics)
    <3>1. Merged!IInv'
      BY <2>1, <2>6, SearchPanicsKeeps DEF AsTable
    <3> QED
      BY <1>2, <1>4, <2>6, <3>1 DEF AsTable, perQueryVars
  <2>7. CASE AsTable(Merged!SortTable)
    <3>1. Merged!IInv'
      BY <2>1, <2>7, SortTableKeeps DEF AsTable
    <3> QED
      BY <1>2, <1>4, <2>7, <3>1 DEF AsTable, perQueryVars
  <2>8. CASE UNCHANGED responseVars
    <3>1. /\ UNCHANGED <<stage, direction, results, series, row, formatted, given>>
          /\ UNCHANGED <<format, array, len, fetched, element>>
      BY <2>8 DEF responseVars, perQueryVars, tableVars
    <3>2. Merged!IInv'
      BY <2>1, <3>1, TableStays
    <3> QED
      BY <1>2, <1>4, <3>1, <3>2
  <2> QED
    BY <1>4, <2>3, <2>4, <2>5, <2>6, <2>7, <2>8 DEF formatResponse, AsPerQuery
<1> QED
  BY <1>3, <1>4 DEF ResponseIInv

(* A table has no series that could break what is said of them.            *)
LEMMA NoSeriesImplies ==
    NoSeries => NoValueLost /\ ValuesInOrder /\ AskedBucketsAreAnswered /\ NoPartialPredecessor
<1> SUFFICES ASSUME NoSeries
             PROVE  NoValueLost /\ ValuesInOrder /\ AskedBucketsAreAnswered /\ NoPartialPredecessor
  OBVIOUS
<1>1. ~ Grouped
  BY DEF NoSeries, Grouped
<1>2. Answer = <<>> /\ Range(Answer) = {} /\ Range(fetched) = {}
  BY DEF NoSeries, Answer, Range
<1>3. NoValueLost
  BY <1>2 DEF NoValueLost
<1>4. ValuesInOrder
  BY DEF NoSeries, ValuesInOrder
<1> QED
  BY <1>1, <1>3, <1>4 DEF AskedBucketsAreAnswered, NoPartialPredecessor

LEMMA ResponseInvImplies ==
    ResponseIInv => /\ NoValueLost /\ ValuesInOrder /\ AskedBucketsAreAnswered /\ NoPartialPredecessor
                    /\ EveryPointOnce /\ AlignedSeriesMerge
<1>1. CASE format = "per_query" /\ SeriesIInv /\ RowsOfQuery
  BY <1>1, SeriesInvImplies, AskedAreAnswered, NoPartialIsShown DEF EveryPointOnce, AlignedSeriesMerge
<1>2. CASE format = "table" /\ Merged!IInv /\ NoSeries
  BY <1>2, NoSeriesImplies, TableInvImplies DEF EveryPointOnce, AlignedSeriesMerge
<1> QED
  BY <1>1, <1>2 DEF ResponseIInv

(* The inductive invariant of formatResponse: what the slices and their    *)
(* backing arrays hold, where the loops of the format table are and what   *)
(* of the series is left.                                                  *)
THEOREM ResponseInvariance == ResponseSpec => []ResponseIInv
  BY ResponseBegins, ResponseStep, PTL DEF ResponseSpec

(* Whatever trimming, limit and the end of the period cut off or expose,   *)
(* no row with a value is doubled, and none is lost but to a limit that    *)
(* was already taken by others, or to the end of the period.               *)
THEOREM NoValueIsLost == ResponseSpec => []NoValueLost
  BY ResponseInvariance, ResponseInvImplies, PTL

(* Rows with values stay in the requested order: those that a limit        *)
(* exposes after the sort do not get between them.                         *)
THEOREM ValuesStayInOrder == ResponseSpec => []ValuesInOrder
  BY ResponseInvariance, ResponseInvImplies, PTL

(* The rewritten query of differences, its two limits and the trimming     *)
(* leave every bucket asked for in the answer, with the difference of two  *)
(* whole buckets, wherever the period begins and ends, within a second     *)
(* too; only a limit of the element's own may leave it out, behind others. *)
THEOREM NoAskedBucketIsLost == ResponseSpec => []AskedBucketsAreAnswered
  BY ResponseInvariance, ResponseInvImplies, PTL

(* Where no bucket is without rows, the differences to a bucket that the   *)
(* moved window has only a part of are cut off by the outer limit.         *)
THEOREM NoPartIsShown == ResponseSpec => []NoPartialPredecessor
  BY ResponseInvariance, ResponseInvImplies, PTL

(* A table has every value once, whichever rows the binary search finds.   *)
THEOREM TablesKeepPoints == ResponseSpec => []EveryPointOnce
  BY ResponseInvariance, ResponseInvImplies, PTL

(* Aligned series become one row per time, with the values of that time.   *)
THEOREM AlignedTablesMerge == ResponseSpec => []AlignedSeriesMerge
  BY ResponseInvariance, ResponseInvImplies, PTL
=============================================================================
