----------------------------- MODULE LastValues -----------------------------
(***************************************************************************)
(* The handler of POST /last-values and GET /raw-value                     *)
(* (pkg/api/last-values.go, pkg/api/raw-value.go).  Requested              *)
(* columns are grouped by source into full request elements, whose order   *)
(* is that of Go map iterations; the cache goroutines of these elements    *)
(* assign one err variable they share; the values go back to the places    *)
(* outputIndexToInputIndex remembers.                                      *)
(***************************************************************************)
EXTENDS QueryData, Functions

CONSTANTS MaxElements,   \* bound: elements of one request
          Column,        \* columns a client asks for
          MathColumn     \* those with a math expression, never cached

ASSUME LastValuesAssumption == MaxElements \in Nat \ {0} /\ MathColumn \subseteq Column

VARIABLES pc,
          req,                      \* requestElements: a source and a column each
          columnMap,                \* the two column maps: the elements that ask for a source
          fullRequestElements,      \* a source and its columns each
          outputIndexToInputIndex,
          turn, col, inserted,      \* of the loops: the element, its column, the columns so far
          ownerUserIds,             \* the owners, by fullRequestElements
          gpc,                      \* the cache goroutine of each full element
          sharedErr,                \* err, one variable for all goroutines
          raw,
          dbRequestElements, dbRequestIndices,   \* filled under the mutex
          queries, data,
          status, response

grouped == <<columnMap, fullRequestElements, outputIndexToInputIndex>>
loop    == <<turn, col, inserted>>
fetched == <<ownerUserIds, gpc, sharedErr, raw, dbRequestElements, dbRequestIndices, queries, data>>
vars == <<pc, req, grouped, loop, fetched, status, response>>

RequestElement == [source : Source, column : Column]
FullElement == [source : Source, columns : Seq(Column)]
Bodies == UNION {[1 .. n -> RequestElement] : n \in 0 .. MaxElements}
Value == [rows : Rows \cup {Nil}, column : Column]
NoValue == [rows |-> Nil, column |-> NoUser]   \* the zero LastValuesResponseElement

TypeOK ==
    /\ pc \in {"idle", "fill", "group", "verify", "cache", "generate", "execute", "merge",
               "format", "respond", "crashed"}
    /\ req \in Bodies
    /\ columnMap \in [Source -> Seq(DOMAIN req)]
    /\ fullRequestElements \in Seq(FullElement)
    /\ outputIndexToInputIndex \in Seq(DOMAIN req)
    /\ turn \in Nat \ {0} /\ col \in Nat \ {0} /\ inserted \in Nat
    /\ ownerUserIds \in Seq(User \cup {NoUser})
    /\ gpc \in Seq({"lookup", "check", "lock", "done"})
    /\ sharedErr \in BOOLEAN
    /\ raw \in Seq(Rows \cup {Nil})
    /\ dbRequestElements \in Seq(Source)
    /\ dbRequestIndices \in Seq(DOMAIN fullRequestElements)
    /\ queries \in Seq(Table) /\ data \in Seq(Rows)
    /\ status \in {NoRequest, Pending, 200} \cup FailureStatus
    /\ response \in Seq(Value \cup {NoValue})

NothingGrouped ==
    /\ columnMap' = [s \in Source |-> <<>>]
    /\ fullRequestElements' = <<>> /\ outputIndexToInputIndex' = <<>>
NothingFetched ==
    /\ ownerUserIds' = <<>> /\ gpc' = <<>> /\ sharedErr' = FALSE /\ raw' = <<>>
    /\ dbRequestElements' = <<>> /\ dbRequestIndices' = <<>>
    /\ queries' = <<>> /\ data' = <<>>

Init ==
    /\ pc = "idle" /\ status = NoRequest
    /\ req = <<>> /\ columnMap = [s \in Source |-> <<>>]
    /\ fullRequestElements = <<>> /\ outputIndexToInputIndex = <<>>
    /\ turn = 1 /\ col = 1 /\ inserted = 0
    /\ ownerUserIds = <<>> /\ gpc = <<>> /\ sharedErr = FALSE /\ raw = <<>>
    /\ dbRequestElements = <<>> /\ dbRequestIndices = <<>>
    /\ queries = <<>> /\ data = <<>> /\ response = <<>>

-----------------------------------------------------------------------------
Receive(es) ==
    /\ pc = "idle"
    /\ pc' = "fill" /\ status' = Pending
    /\ req' = es
    /\ NothingGrouped /\ NothingFetched
    /\ turn' = 1 /\ col' = 1 /\ inserted' = 0
    /\ response' = <<>>

(* GET /raw-value: the element in the URL becomes the body, its value the  *)
(* answer.                                                                 *)
RawValue(e) == Receive(<<e>>)

Fail(code) ==
    /\ pc' = "idle" /\ status' = code
    /\ UNCHANGED <<req, grouped, loop, fetched, response>>

(* An undecodable body, an element that is neither an export nor a         *)
(* device's service, an invalid column or an unusable token: 400.          *)
RejectBody == pc \in {"fill", "group"} /\ Fail(400)

(* One element of the loop over requestElements.                           *)
fillColumnMap ==
    /\ pc = "fill" /\ turn <= Len(req)
    /\ columnMap' = [columnMap EXCEPT ![req[turn].source] = Append(@, turn)]
    /\ turn' = turn + 1
    /\ UNCHANGED <<pc, req, fullRequestElements, outputIndexToInputIndex, col, inserted, fetched,
                   status, response>>

Filled ==
    /\ pc = "fill" /\ turn > Len(req)
    /\ pc' = "group"
    /\ UNCHANGED <<req, grouped, loop, fetched, status, response>>

(* What prepColumns appends to the columns output so far.                  *)
OutputInTurn(s) ==    \* mutant: grouping is forgotten, values come back in turn
    [j \in DOMAIN columnMap[s] |-> Len(outputIndexToInputIndex) + j]
OutputOrder(s) == columnMap[s]

(* One turn of the loops over the two maps: of all exports, then of all    *)
(* devices, each in an order the runtime chooses.                          *)
Ungrouped ==
    {s \in Source : columnMap[s] # <<>>
        /\ \A k \in DOMAIN fullRequestElements : fullRequestElements[k].source # s}
Group(s) ==
    /\ pc = "group" /\ s \in Ungrouped
    /\ s \in Export \/ Ungrouped \cap Export = {}
    /\ fullRequestElements' = Append(fullRequestElements,
            [source |-> s, columns |-> [j \in DOMAIN columnMap[s] |-> req[columnMap[s][j]].column]])
    /\ outputIndexToInputIndex' = outputIndexToInputIndex \o OutputOrder(s)
    /\ UNCHANGED <<pc, req, columnMap, loop, fetched, status, response>>

Grouped ==
    /\ pc = "group" /\ Ungrouped = {}
    /\ pc' = "verify"
    /\ UNCHANGED <<req, grouped, loop, fetched, status, response>>

VerifyFails == pc = "verify" /\ \E code \in {500, 404} : Fail(code)

VerifyGrants ==
    /\ pc = "verify"
    /\ pc' = "cache"
    /\ ownerUserIds' = [k \in DOMAIN fullRequestElements |-> OwnerOf[fullRequestElements[k].source]]
    /\ gpc' = [k \in DOMAIN fullRequestElements |-> "lookup"]
    /\ raw' = [k \in DOMAIN fullRequestElements |-> Nil]
    /\ UNCHANGED <<req, grouped, loop, sharedErr, dbRequestElements, dbRequestIndices, queries,
                   data, status, response>>

IsCachable(element) ==
    element.source \in Cachable /\ Range(element.columns) \cap MathColumn = {}

(* raw[i], err = remoteCache.GetLastValuesFromCache(...), a hit or a miss. *)
Lookup(k) ==
    /\ pc = "cache" /\ gpc[k] = "lookup"
    /\ \/ /\ IsCachable(fullRequestElements[k])
          /\ raw' = [raw EXCEPT ![k] = CachedRow(fullRequestElements[k].source)]
          /\ sharedErr' = FALSE
       \/ /\ sharedErr' = TRUE
          /\ UNCHANGED raw
    /\ gpc' = [gpc EXCEPT ![k] = "check"]
    /\ UNCHANGED <<pc, req, grouped, loop, ownerUserIds, dbRequestElements, dbRequestIndices,
                   queries, data, status, response>>

(* As in Queries, getDeepEntry panics beyond a list of the message and     *)
(* ends the process.                                                       *)
LookupPanics(k) ==
    /\ pc = "cache" /\ gpc[k] = "lookup"
    /\ IsCachable(fullRequestElements[k])
    /\ pc' = "crashed"
    /\ UNCHANGED <<req, grouped, loop, fetched, status, response>>

Restart ==
    /\ pc = "crashed"
    /\ pc' = "idle" /\ status' = NoRequest
    /\ UNCHANGED <<req, grouped, loop, fetched, response>>

(* if err != nil: by now err may be a sibling's.                           *)
CheckErr(k) ==
    /\ pc = "cache" /\ gpc[k] = "check"
    /\ gpc' = [gpc EXCEPT ![k] = IF sharedErr THEN "lock" ELSE "done"]
    /\ UNCHANGED <<pc, req, grouped, loop, ownerUserIds, sharedErr, raw, dbRequestElements,
                   dbRequestIndices, queries, data, status, response>>

Append2DbRequest(k) ==
    /\ pc = "cache" /\ gpc[k] = "lock"
    /\ dbRequestElements' = Append(dbRequestElements, fullRequestElements[k].source)
    /\ dbRequestIndices' = Append(dbRequestIndices, k)
    /\ gpc' = [gpc EXCEPT ![k] = "done"]
    /\ UNCHANGED <<pc, req, grouped, loop, ownerUserIds, sharedErr, raw, queries, data, status,
                   response>>

CacheDone ==
    /\ pc = "cache"
    /\ \A k \in DOMAIN gpc : gpc[k] = "done"
    /\ pc' = "generate"
    /\ UNCHANGED <<req, grouped, loop, fetched, status, response>>

(* GenerateQueries pairs dbRequestElements[k] with ownerUserIds[k], which  *)
(* still are in the order of fullRequestElements.  The elements have no    *)
(* group time: no view is looked for.                                      *)
GenerateQueries ==
    /\ pc = "generate"
    /\ pc' = "execute"
    /\ queries' = [k \in DOMAIN dbRequestElements |->
                        tableName(dbRequestElements[k], ownerUserIds[k], FALSE)]
    /\ UNCHANGED <<req, grouped, loop, ownerUserIds, gpc, sharedErr, raw, dbRequestElements,
                   dbRequestIndices, data, status, response>>

GenerateFails == pc = "generate" /\ dbRequestElements # <<>> /\ Fail(500)

ExecuteQueries ==
    /\ pc = "execute"
    /\ ~ NoSuchTable(queries)
    /\ data' = ExecData(queries)
    /\ pc' = "merge"
    /\ UNCHANGED <<req, grouped, loop, ownerUserIds, gpc, sharedErr, raw, dbRequestElements,
                   dbRequestIndices, queries, status, response>>

ExecuteFails ==
    /\ pc = "execute"
    /\ \E code \in ExecErrors(queries) : Fail(GetStatusCode(code))

Merge ==
    /\ pc = "merge"
    /\ pc' = "format"
    /\ raw' = [k \in DOMAIN raw |->
                IF k \in Range(dbRequestIndices)
                THEN data[CHOOSE n \in DOMAIN data : dbRequestIndices[n] = k]
                ELSE raw[k]]
    /\ UNCHANGED <<req, grouped, loop, ownerUserIds, gpc, sharedErr, dbRequestElements,
                   dbRequestIndices, queries, data, status, response>>

(* formatResponse cuts every series to its limit of one row, which a       *)
(* fetched series always has; then responseElements is made.               *)
FormatResponse ==
    /\ pc = "format"
    /\ \A k \in DOMAIN raw : raw[k] # Nil
    /\ pc' = "respond"
    /\ response' = [i \in DOMAIN req |-> NoValue]
    /\ turn' = 1 /\ col' = 1 /\ inserted' = 0
    /\ UNCHANGED <<req, grouped, fetched, status>>

(* nil[:1] panics and is recovered; conversions may fail.  Both are a 500. *)
FormatFails == pc = "format" /\ req # <<>> /\ Fail(500)

(* One turn of the inner loop: a value goes to its place.  The only row of *)
(* a series has the columns of its full element.                           *)
PutValue ==
    /\ pc = "respond" /\ turn <= Len(fullRequestElements)
    /\ col <= Len(fullRequestElements[turn].columns)
    /\ response' = [response EXCEPT ![outputIndexToInputIndex[inserted + 1]] =
            [rows |-> raw[turn], column |-> fullRequestElements[turn].columns[col]]]
    /\ col' = col + 1 /\ inserted' = inserted + 1
    /\ UNCHANGED <<pc, req, grouped, turn, fetched, status>>

NextSeries ==
    /\ pc = "respond" /\ turn <= Len(fullRequestElements)
    /\ col > Len(fullRequestElements[turn].columns)
    /\ turn' = turn + 1 /\ col' = 1
    /\ UNCHANGED <<pc, req, grouped, inserted, fetched, status, response>>

Respond ==
    /\ pc = "respond" /\ turn > Len(fullRequestElements)
    /\ pc' = "idle" /\ status' = 200
    /\ UNCHANGED <<req, grouped, loop, fetched, response>>

-----------------------------------------------------------------------------
Goroutine(k) == Lookup(k) \/ LookupPanics(k) \/ CheckErr(k) \/ Append2DbRequest(k)

Handler ==
    \/ RejectBody \/ fillColumnMap \/ Filled \/ Grouped \/ VerifyFails \/ VerifyGrants
    \/ CacheDone \/ GenerateQueries \/ GenerateFails \/ ExecuteQueries \/ ExecuteFails
    \/ Merge \/ FormatResponse \/ FormatFails \/ PutValue \/ NextSeries \/ Respond

Next ==
    \/ \E e \in RequestElement : RawValue(e)
    \/ \E es \in Bodies : Receive(es)
    \/ \E s \in Source : Group(s)
    \/ \E k \in DOMAIN gpc : Goroutine(k)
    \/ Handler
    \/ Restart

Spec == Init /\ [][Next]_vars

-----------------------------------------------------------------------------
(* A 200 carries, at the position of every request element, a value of its *)
(* own source and column: the two reorderings (map iteration, goroutines)  *)
(* are undone, and the races on err can only make the request fail.  A     *)
(* computed column (math) never comes from the cache, which holds raw      *)
(* values, although its element may share a source with raw columns.       *)
ValuesInPlace ==
    status = 200 =>
        /\ DOMAIN response = DOMAIN req
        /\ \A i \in DOMAIN req :
            /\ response[i].column = req[i].column
            /\ response[i].rows \in RowsFor(req[i].source)
            /\ req[i].column \in MathColumn => response[i].rows = DbRows(req[i].source)

Service == INSTANCE ValueService WITH answer <- IF status = 200 THEN response ELSE <<>>
(* The handler implements the service: values put at their places one by   *)
(* one, in groups and in any order, are one answer to the client, given    *)
(* once, and a request that fails half way shows none of them.             *)
ImplementsService == Service!SSpec

-----------------------------------------------------------------------------
(* The strengthening that makes ValuesInPlace inductive.                   *)

(* The status is written at the end, when the request has been handled;    *)
(* what a stage fills is empty before it and as long as the full elements  *)
(* after it.                                                               *)
Before == {"fill", "group", "verify"}
Running == {"cache", "generate", "execute", "merge", "format", "respond"}
Stages ==
    /\ pc # "idle" <=> status = Pending
    /\ pc = "fill" => fullRequestElements = <<>>
    /\ pc \in Before =>
        raw = <<>> /\ gpc = <<>> /\ dbRequestElements = <<>> /\ dbRequestIndices = <<>>
    /\ pc \in Running => Len(raw) = Len(fullRequestElements) /\ Len(gpc) = Len(fullRequestElements)
    /\ pc \in {"cache", "generate"} => Len(ownerUserIds) = Len(fullRequestElements)

(* The map holds, under each source, the elements that ask for it.         *)
ColumnMapFilled ==
    /\ \A s \in Source : \A j \in DOMAIN columnMap[s] : req[columnMap[s][j]].source = s
    /\ pc = "fill" => turn <= Len(req) + 1
    /\ pc \in {"fill", "group"} => \A i \in DOMAIN req :
        (pc = "fill" => i < turn) => i \in Range(columnMap[req[i].source])

(* Column j of full element k is output at places[k] + j, and this was     *)
(* asked for by the request element remembered there.                      *)
Outputs(places) ==
    /\ places[1] = 0
    /\ places[Len(fullRequestElements) + 1] = Len(outputIndexToInputIndex)
    /\ \A k \in DOMAIN fullRequestElements :
        /\ places[k + 1] = places[k] + Len(fullRequestElements[k].columns)
        /\ \A j \in DOMAIN fullRequestElements[k].columns :
            /\ places[k] + j \in DOMAIN outputIndexToInputIndex
            /\ req[outputIndexToInputIndex[places[k] + j]] =
                    [source |-> fullRequestElements[k].source,
                     column |-> fullRequestElements[k].columns[j]]
    /\ pc = "respond" =>
        /\ turn <= Len(fullRequestElements) + 1
        /\ turn <= Len(fullRequestElements) => col <= Len(fullRequestElements[turn].columns) + 1
        /\ turn > Len(fullRequestElements) => col = 1
        /\ inserted + 1 = places[turn] + col
ElementsInPlace ==
    \E places \in [1 .. Len(fullRequestElements) + 1 -> 0 .. Len(outputIndexToInputIndex)] :
        Outputs(places)
NothingUngrouped ==
    /\ \A k \in DOMAIN fullRequestElements :
        Range(columnMap[fullRequestElements[k].source]) \subseteq Range(outputIndexToInputIndex)
    /\ pc \in {"verify"} \cup Running => DOMAIN req \subseteq Range(outputIndexToInputIndex)

(* An element is asked of the database once, and what is asked, queried    *)
(* and fetched at a position is of one source.                             *)
DbRequests ==
    /\ Len(dbRequestElements) = Len(dbRequestIndices)
    /\ \A n \in DOMAIN dbRequestElements :
        dbRequestElements[n] = fullRequestElements[dbRequestIndices[n]].source
    /\ \A m, n \in DOMAIN dbRequestIndices : dbRequestIndices[m] = dbRequestIndices[n] => m = n
    /\ pc = "cache" => \A n \in DOMAIN dbRequestIndices : gpc[dbRequestIndices[n]] = "done"
    /\ pc \in {"execute", "merge"} =>
        /\ Len(queries) = Len(dbRequestElements)
        /\ \A n \in DOMAIN queries : queries[n].source = dbRequestElements[n]
    /\ pc = "merge" => data = ExecData(queries)

(* Rows are those of their element, from the cache if it may answer it.    *)
RowsOfElements ==
    \A k \in DOMAIN raw : k \in DOMAIN fullRequestElements =>
        \/ raw[k] = DbRows(fullRequestElements[k].source)
        \/ raw[k] = Nil /\ pc # "respond"
        \/ /\ raw[k] = CachedRow(fullRequestElements[k].source)
           /\ IsCachable(fullRequestElements[k])

InPlace(i) ==
    /\ response[i].column = req[i].column
    /\ response[i].rows \in RowsFor(req[i].source)
    /\ req[i].column \in MathColumn => response[i].rows = DbRows(req[i].source)
PutSoFar ==
    pc = "respond" =>
        /\ Len(response) = Len(req)
        /\ \A n \in 1 .. inserted : InPlace(outputIndexToInputIndex[n])

IInv ==
    /\ TypeOK /\ Stages /\ ColumnMapFilled /\ ElementsInPlace /\ NothingUngrouped
    /\ DbRequests /\ RowsOfElements /\ PutSoFar /\ ValuesInPlace

-----------------------------------------------------------------------------
(* Stated by comments, docs or tests, and not kept by the code.            *)

(* The table of a query is named after the owner of its own element.       *)
OnlyOwnTables == \A k \in DOMAIN queries : IsOwnTable(queries[k], dbRequestElements[k])

(* What is not asked of the database was got from the cache, as the debug  *)
(* line after wg.Wait() reports.                                           *)
NotAskedIsCached ==
    pc = "generate" => \A k \in DOMAIN fullRequestElements :
        k \in Range(dbRequestIndices) \/ raw[k] # Nil
=============================================================================
