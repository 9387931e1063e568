------------------------------ MODULE Queries ------------------------------
(***************************************************************************)
(* The handler of POST /queries (pkg/api/queries.go): verify the access to *)
(* all elements, ask the last-message cache for each in a goroutine of its *)
(* own, generate and execute SQL for those the cache could not answer, and *)
(* put both kinds of rows back in the order of the request.  A panic in    *)
(* such a goroutine is outside gin's recovery and ends the process.        *)
(***************************************************************************)
EXTENDS QueryData

CONSTANT MaxElements   \* bound: elements of one request
ASSUME QueriesAssumption == MaxElements \in Nat

VARIABLES pc,                \* where the handler stands
          req,               \* the sources of requestElements
          ownerUserIds,      \* the owners VerifyAccess returned
          gpc,               \* where the cache goroutine of each element stands
          raw,               \* the result slots
          dbRequestElements, \* the elements the cache did not answer, ...
          dbRequestIndices,  \* ... and their positions in the request
          queries, data,     \* the generated SQL and what the database returned
          status, response

vars == <<pc, req, ownerUserIds, gpc, raw, dbRequestElements, dbRequestIndices,
          queries, data, status, response>>

Index == 1 .. MaxElements
Pc == {"idle", "verify", "cache", "generate", "execute", "merge", "format", "crashed"}
GoroutineState == {"unused", "lookup", "lock", "done"}

TypeOK ==
    /\ pc \in Pc
    /\ req \in Requests(MaxElements)
    /\ ownerUserIds \in [Index -> User \cup {NoUser}]
    /\ gpc \in [Index -> GoroutineState]
    /\ raw \in [Index -> Rows \cup {Nil}]
    /\ dbRequestElements \in Seq(Source)
    /\ dbRequestIndices \in Seq(Index)
    /\ queries \in Seq(Table)
    /\ data \in Seq(Rows)
    /\ status \in {NoRequest, Pending, 200} \cup FailureStatus
    /\ response \in UNION {[1 .. n -> Rows \cup {Nil}] : n \in 0 .. MaxElements}

Init ==
    /\ pc = "idle"
    /\ req = <<>>
    /\ ownerUserIds = [i \in Index |-> NoUser]
    /\ gpc = [i \in Index |-> "unused"]
    /\ raw = [i \in Index |-> Nil]
    /\ dbRequestElements = <<>> /\ dbRequestIndices = <<>>
    /\ queries = <<>> /\ data = <<>>
    /\ status = NoRequest
    /\ response = <<>>

-----------------------------------------------------------------------------
(* A request arrives; its elements are decoded.                            *)
Receive(es) ==
    /\ pc = "idle"
    /\ pc' = "verify"
    /\ req' = es
    /\ status' = Pending
    /\ response' = <<>>
    /\ ownerUserIds' = [i \in Index |-> NoUser]
    /\ gpc' = [i \in Index |-> "unused"]
    /\ raw' = [i \in Index |-> Nil]
    /\ dbRequestElements' = <<>> /\ dbRequestIndices' = <<>>
    /\ queries' = <<>> /\ data' = <<>>

(* c.Error(...) and return: the middleware writes the status.              *)
Fail(code) ==
    /\ pc' = "idle"
    /\ status' = code
    /\ UNCHANGED <<req, ownerUserIds, gpc, raw, dbRequestElements, dbRequestIndices,
                   queries, data, response>>

(* Query parameters, Valid() and the ban on device groups: 400.            *)
RejectBody == pc = "verify" /\ Fail(400)

(* queriesVerify: a token or upstream error is a 500, a denial a 404.      *)
VerifyFails == pc = "verify" /\ \E code \in {500, 404} : Fail(code)

(* VerifyAccess grants (its contract: owners in the order of the elements) *)
(* and queriesGetFromCache starts its goroutines.                          *)
VerifyGrants ==
    /\ pc = "verify"
    /\ pc' = "cache"
    /\ ownerUserIds' = [i \in Index |-> IF i \in DOMAIN req THEN OwnerOf[req[i]] ELSE NoUser]
    /\ gpc' = [i \in Index |-> IF i \in DOMAIN req THEN "lookup" ELSE "unused"]
    /\ UNCHANGED <<req, raw, dbRequestElements, dbRequestIndices, queries, data,
                   status, response>>

(* GetLastValuesFromCache answers: raw[i] is the cached row, err is nil.   *)
CacheHit(i) ==
    /\ pc = "cache" /\ gpc[i] = "lookup"
    /\ req[i] \in Cachable
    /\ raw' = [raw EXCEPT ![i] = CachedRow(req[i])]
    /\ gpc' = [gpc EXCEPT ![i] = "done"]
    /\ UNCHANGED <<pc, req, ownerUserIds, dbRequestElements, dbRequestIndices, queries,
                   data, status, response>>

(* getDeepEntry indexes a list of the cached message by the next part of a *)
(* column name, child[n], without regard to its length: beyond the list it *)
(* panics, and with it the process ends.                                   *)
CachePanics(i) ==
    /\ pc = "cache" /\ gpc[i] = "lookup"
    /\ req[i] \in Cachable
    /\ pc' = "crashed"
    /\ UNCHANGED <<req, ownerUserIds, gpc, raw, dbRequestElements, dbRequestIndices,
                   queries, data, status, response>>

(* The process is started anew; nobody answers the request it had.         *)
Restart ==
    /\ pc = "crashed"
    /\ pc' = "idle"
    /\ status' = NoRequest
    /\ UNCHANGED <<req, ownerUserIds, gpc, raw, dbRequestElements, dbRequestIndices,
                   queries, data, response>>

(* Mutant of CacheMiss: err is shared and a sibling's hit overwrites it.   *)
CacheMissMasked(i) ==
    /\ pc = "cache" /\ gpc[i] = "lookup"
    /\ gpc' = [gpc EXCEPT ![i] =
                IF \E j \in Index : gpc[j] = "done" /\ raw[j] # Nil THEN "done" ELSE "lock"]
    /\ UNCHANGED <<pc, req, ownerUserIds, raw, dbRequestElements, dbRequestIndices,
                   queries, data, status, response>>

(* It cannot or fails: err is the goroutine's own variable.                *)
CacheMiss(i) ==
    /\ pc = "cache" /\ gpc[i] = "lookup"
    /\ gpc' = [gpc EXCEPT ![i] = "lock"]
    /\ UNCHANGED <<pc, req, ownerUserIds, raw, dbRequestElements, dbRequestIndices,
                   queries, data, status, response>>

(* Under the mutex both lists grow, in the order the goroutines get there. *)
Append2DbRequest(i) ==
    /\ pc = "cache" /\ gpc[i] = "lock"
    /\ dbRequestElements' = Append(dbRequestElements, req[i])
    /\ dbRequestIndices' = Append(dbRequestIndices, i)
    /\ gpc' = [gpc EXCEPT ![i] = "done"]
    /\ UNCHANGED <<pc, req, ownerUserIds, raw, queries, data, status, response>>

(* wg.Wait().                                                              *)
CacheDone ==
    /\ pc = "cache"
    /\ \A i \in Index : gpc[i] \in {"unused", "done"}
    /\ pc' = "generate"
    /\ UNCHANGED <<req, ownerUserIds, gpc, raw, dbRequestElements, dbRequestIndices,
                   queries, data, status, response>>

(* Mutant of OwnersForDb: the owners stay in the order of the request.     *)
OwnersNotRearranged == [k \in DOMAIN dbRequestElements |-> ownerUserIds[k]]

(* The owners are rearranged to the elements the database is asked for.    *)
OwnersForDb == [k \in DOMAIN dbRequestElements |-> ownerUserIds[dbRequestIndices[k]]]

(* GenerateQueries: one query per element, from the table of tableName or  *)
(* a view of it, which may be found or not; what it selects, filters and   *)
(* groups is left out.                                                     *)
GenerateQueries ==
    /\ pc = "generate"
    /\ \A k \in DOMAIN dbRequestElements : dbRequestElements[k] \notin Location
    /\ pc' = "execute"
    /\ \E found \in [DOMAIN dbRequestElements -> BOOLEAN] :
        queries' = [k \in DOMAIN dbRequestElements |->
                        tableName(dbRequestElements[k], OwnersForDb[k], found[k])]
    /\ UNCHANGED <<req, ownerUserIds, gpc, raw, dbRequestElements, dbRequestIndices,
                   data, status, response>>

(* It fails on an id that is no UUID or a column without a group type; an  *)
(* element with a location id passes Valid() and the ban on device groups, *)
(* and tableName dereferences its nil DeviceId.  Both end in a 500.        *)
GenerateFails ==
    /\ pc = "generate"
    /\ dbRequestElements # <<>>
    /\ Fail(500)

ExecuteQueries ==
    /\ pc = "execute"
    /\ ~ NoSuchTable(queries)
    /\ data' = ExecData(queries)
    /\ pc' = "merge"
    /\ UNCHANGED <<req, ownerUserIds, gpc, raw, dbRequestElements, dbRequestIndices,
                   queries, status, response>>

(* Mutant of ExecuteFails: the queries are tried again until they succeed. *)
ExecuteRetries ==
    /\ pc = "execute"
    /\ pc' = "generate"
    /\ UNCHANGED <<req, ownerUserIds, gpc, raw, dbRequestElements, dbRequestIndices,
                   queries, data, status, response>>

ExecuteFails ==
    /\ pc = "execute"
    /\ \E code \in ExecErrors(queries) : Fail(GetStatusCode(code))

(* Mutant of Merge: the k-th database result goes to the k-th slot.        *)
MergeInDbOrder ==
    /\ pc = "merge"
    /\ pc' = "format"
    /\ raw' = [i \in Index |-> IF i \in DOMAIN data THEN data[i] ELSE raw[i]]
    /\ UNCHANGED <<req, ownerUserIds, gpc, dbRequestElements, dbRequestIndices, queries,
                   data, status, response>>

(* for i := range data { raw[dbRequestIndices[i]] = data[i] }              *)
Merge ==
    /\ pc = "merge"
    /\ pc' = "format"
    /\ raw' = [i \in Index |->
                IF \E k \in DOMAIN data : dbRequestIndices[k] = i
                THEN data[CHOOSE k \in DOMAIN data : dbRequestIndices[k] = i]
                ELSE raw[i]]
    /\ UNCHANGED <<req, ownerUserIds, gpc, dbRequestElements, dbRequestIndices, queries,
                   data, status, response>>

(* formatResponse works on each series in place and the answer is written. *)
Respond ==
    /\ pc = "format"
    /\ pc' = "idle"
    /\ status' = 200
    /\ response' = [i \in DOMAIN req |-> raw[i]]
    /\ UNCHANGED <<req, ownerUserIds, gpc, raw, dbRequestElements, dbRequestIndices,
                   queries, data>>

(* formatResponse: a conversion, a lookup or a limit it cannot honour      *)
(* fails the request.                                                      *)
FormatFails == pc = "format" /\ req # <<>> /\ Fail(500)

-----------------------------------------------------------------------------
Goroutine(i) == CacheHit(i) \/ CacheMiss(i) \/ CachePanics(i) \/ Append2DbRequest(i)

Handler ==
    \/ RejectBody \/ VerifyFails \/ VerifyGrants \/ CacheDone
    \/ GenerateQueries \/ GenerateFails \/ ExecuteQueries \/ ExecuteFails
    \/ Merge \/ Respond \/ FormatFails

Next ==
    \/ \E es \in Requests(MaxElements) : Receive(es)
    \/ \E i \in Index : Goroutine(i)
    \/ Handler
    \/ Restart

Spec == Init /\ [][Next]_vars

(* The scheduler runs the handler and its goroutines, and upstream calls   *)
(* end; no client is obliged to send a request, and nobody to start the    *)
(* process again.                                                          *)
FairSpec == Spec /\ WF_vars(Handler) /\ \A i \in Index : WF_vars(Goroutine(i))
-----------------------------------------------------------------------------
(* Every query reads the table of its own element under that element's     *)
(* owner, although the lists were filled in an order the scheduler chose.  *)
OnlyOwnTables ==
    \A k \in DOMAIN queries :
        k \in DOMAIN dbRequestIndices /\ IsOwnTable(queries[k], req[dbRequestIndices[k]])

(* When the goroutines have ended every element has been answered by the   *)
(* cache or is asked of the database, exactly once and not both.           *)
Asked(i) == {k \in DOMAIN dbRequestIndices : dbRequestIndices[k] = i}
EachElementOnce ==
    pc \in {"generate", "execute", "merge"} =>
        \A i \in DOMAIN req :
            \/ raw[i] = CachedRow(req[i]) /\ Asked(i) = {}
            \/ raw[i] = Nil /\ \E k \in DOMAIN dbRequestIndices : Asked(i) = {k}

(* Every request is answered while the process lives: no goroutine is      *)
(* waited for in vain and no failure of a stage leaves the handler without *)
(* an answer.  A panic of a cache goroutine ends the process (CachePanics) *)
(* and is the only way for a request to be left without one.               *)
AnsweredOrCrashed == status = Pending ~> status \in {200} \cup FailureStatus \/ pc = "crashed"

Service == INSTANCE QueryService
(* The handler implements the service: whatever the cache hits and the     *)
(* order of the goroutines, a 200 carries each element's own rows in the   *)
(* order of the request.                                                   *)
ImplementsService == Service!SSpec

-----------------------------------------------------------------------------
(* The strengthening that makes them inductive.                            *)

GoroutinesMatchRequest ==
    pc \notin {"idle", "verify"} =>
        \A i \in Index :
            /\ i \in DOMAIN req <=> gpc[i] # "unused"
            /\ i \in DOMAIN req => ownerUserIds[i] = OwnerOf[req[i]]

FreshUntilVerified ==
    /\ pc = "verify" => /\ raw = [i \in Index |-> Nil]
                        /\ dbRequestElements = <<>> /\ dbRequestIndices = <<>>
    /\ pc \in {"verify", "cache", "generate"} => queries = <<>>

(* The two lists speak of the same elements, each of them once.            *)
DbListsMatch ==
    /\ DOMAIN dbRequestElements = DOMAIN dbRequestIndices
    /\ \A k \in DOMAIN dbRequestIndices :
        /\ dbRequestIndices[k] \in DOMAIN req
        /\ gpc[dbRequestIndices[k]] = "done"
        /\ dbRequestElements[k] = req[dbRequestIndices[k]]
    /\ \A k, l \in DOMAIN dbRequestIndices :
        dbRequestIndices[k] = dbRequestIndices[l] => k = l

HitXorAsked ==
    pc \in {"cache", "generate", "execute", "merge"} =>
        \A i \in DOMAIN req :
            /\ gpc[i] # "done" => raw[i] = Nil
            /\ gpc[i] = "done" =>
                \/ raw[i] = CachedRow(req[i]) /\ req[i] \in Cachable /\ Asked(i) = {}
                \/ raw[i] = Nil /\ Asked(i) # {}

AllDoneAfterCache ==
    pc \in {"generate", "execute", "merge"} => \A i \in DOMAIN req : gpc[i] = "done"

QueriesMatch ==
    /\ DOMAIN queries \subseteq DOMAIN dbRequestElements
    /\ \A k \in DOMAIN queries : IsOwnTable(queries[k], dbRequestElements[k])
    /\ pc \in {"execute", "merge"} => DOMAIN queries = DOMAIN dbRequestElements
    /\ pc = "merge" => data = [k \in DOMAIN queries |-> DbRows(queries[k].source)]

MergedIsComplete == pc = "format" => \A i \in DOMAIN req : raw[i] \in RowsFor(req[i])

OpenWhileWorking == pc # "idle" <=> status = Pending
ResponseOnlyAfter == pc # "idle" => response = <<>>

IInv ==
    /\ TypeOK
    /\ GoroutinesMatchRequest
    /\ FreshUntilVerified
    /\ DbListsMatch
    /\ HitXorAsked
    /\ AllDoneAfterCache
    /\ QueriesMatch
    /\ MergedIsComplete
    /\ OpenWhileWorking
    /\ ResponseOnlyAfter

-----------------------------------------------------------------------------
(* Not kept by the code: every request is answered.  getDeepEntry panics   *)
(* in a goroutine nobody recovers, and all requests of the process are     *)
(* lost with it.                                                           *)
EveryRequestAnswered == status = Pending ~> status \in {200} \cup FailureStatus
=============================================================================
