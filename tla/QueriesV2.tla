------------------------------ MODULE QueriesV2 ------------------------------
(***************************************************************************)
(* The handler of POST /queries/v2 (pkg/api/queries_v2.go).  One goroutine *)
(* per element the cache did not answer expands its columns into matches   *)
(* (for a device group or a location one per device, service and column),  *)
(* queries them and merges the series into the shared response.  Errors,   *)
(* owners and the response are shared under one mutex; the list of owners  *)
(* is indexed by each goroutine's own positions.  The cache stage is that  *)
(* of module Queries and is one step here.                                 *)
(***************************************************************************)
EXTENDS QueryData, FiniteSets, Functions

CONSTANTS MaxElements,   \* bound: elements of one request
          Column,        \* columns of exports and devices; criteria of groups
          ColumnLists,   \* bound: the column lists clients send
          Group,         \* device groups and locations
          DeviceOf,      \* the device of a source that is a device's service
          GroupDevices,  \* the devices of a group
          Selectables    \* GetSelectables for a group and a criterion: a
                         \* sequence of [device, services]
ASSUME QueriesV2Assumption ==
    /\ MaxElements \in Nat
    /\ ColumnLists \subseteq Seq(Column) \ {<<>>}
    /\ Group \cap Source = {}
    /\ \A g \in Group, c \in Column : \A n \in DOMAIN Selectables[g][c] :
        n \in Nat \ {0} /\ Selectables[g][c][n].services \subseteq Source

VARIABLES pc,            \* "idle", "verify", "cache", "run", "crashed"
          req,           \* requestElements: a target and its columns
          ownerUserIds,  \* shared: one owner per match of any goroutine
          gpc,           \* the goroutine of each element
          mux,           \* the goroutine that holds the mutex for more than a step
          matches,       \* its dbRequestElements and columnMatch
          queries,       \* the tables it reads
          merged,        \* the turns its merging loop has taken
          raised,        \* raisedErr: the statuses joined in it
          response, status

vars == <<pc, req, ownerUserIds, gpc, mux, matches, queries, merged, raised, response, status>>

Index == 1 .. MaxElements
Nobody == 0   \* the mutex is free
Element == [target : Source \cup Group, columns : ColumnLists]
Bodies == UNION {[1 .. n -> Element] : n \in 0 .. MaxElements}

(* A single-column query: what it reads and where its series belongs.      *)
Match == [source : Source, column : Column, colIdx : Nat, selIdx : Nat]
Series(m) == [source |-> m.source, column |-> m.column]
EmptySeries == [source |-> NoUser, column |-> NoUser]
AllColumns == [from |-> "all columns"]  \* the one series of a cached row
AnySeries == [source : Source \cup {NoUser}, column : Column \cup {NoUser}] \cup {AllColumns}
ResponseElement ==
    [requestIndex : Index, source : Source \cup {NoUser}, selIdx : {0}, data : Seq(AnySeries)]

Init ==
    /\ pc = "idle" /\ status = NoRequest /\ req = <<>>
    /\ ownerUserIds = <<>>
    /\ gpc = [i \in Index |-> "unused"]
    /\ matches = [i \in Index |-> <<>>]
    /\ queries = [i \in Index |-> <<>>]
    /\ mux = Nobody /\ merged = [i \in Index |-> 0]
    /\ raised = {} /\ response = <<>>

TypeOK ==
    /\ pc \in {"idle", "verify", "cache", "run", "crashed"}
    /\ req \in Bodies
    /\ ownerUserIds \in Seq(User \cup {NoUser})
    /\ gpc \in [Index -> {"unused", "cached", "collect", "execute", "merge", "merging", "done"}]
    /\ mux \in Index \cup {Nobody}
    /\ matches \in [Index -> Seq(Match)]
    /\ queries \in [Index -> Seq(Table)]
    /\ merged \in [Index -> Nat]
    /\ raised \subseteq FailureStatus
    /\ response \in Seq(ResponseElement)
    /\ \A k \in DOMAIN response : response[k].requestIndex \in DOMAIN req
    /\ status \in {NoRequest, Pending, 200} \cup FailureStatus

-----------------------------------------------------------------------------
Receive(es) ==
    /\ pc = "idle"
    /\ pc' = "verify" /\ status' = Pending
    /\ req' = es
    /\ ownerUserIds' = <<>>
    /\ gpc' = [i \in Index |-> "unused"]
    /\ matches' = [i \in Index |-> <<>>]
    /\ queries' = [i \in Index |-> <<>>]
    /\ mux' = Nobody /\ merged' = [i \in Index |-> 0]
    /\ raised' = {} /\ response' = <<>>

Fail(code) ==
    /\ pc' = "idle" /\ status' = code
    /\ UNCHANGED <<req, ownerUserIds, gpc, mux, matches, queries, merged, raised, response>>

(* Bad parameters, body or elements; an upstream error; a denial.          *)
Refuse == pc = "verify" /\ \E code \in FailureStatus : Fail(code)

VerifyGrants ==
    /\ pc = "verify" /\ pc' = "cache"
    /\ UNCHANGED <<req, ownerUserIds, gpc, mux, matches, queries, merged, raised, response, status>>

(* queriesGetFromCache, then the cached rows open the response, then a     *)
(* goroutine starts for each of the other elements.                        *)
FromCache(i) == [requestIndex |-> i, source |-> NoUser, selIdx |-> 0, data |-> <<AllColumns>>]
ReadCache ==
    /\ pc = "cache"
    /\ \E hits \in SUBSET {i \in DOMAIN req : req[i].target \in Cachable} :
        /\ \E order \in [1 .. Cardinality(hits) -> hits] :
            /\ \A a, b \in DOMAIN order : a < b => order[a] < order[b]
            /\ response' = [k \in DOMAIN order |-> FromCache(order[k])]
        /\ gpc' = [i \in Index |-> IF i \notin DOMAIN req THEN "unused"
                                   ELSE IF i \in hits THEN "cached" ELSE "collect"]
    /\ pc' = "run"
    /\ UNCHANGED <<req, ownerUserIds, mux, matches, queries, merged, raised, status>>

(* A cache goroutine panics in getDeepEntry, as in Queries.                *)
CachePanics ==
    /\ pc = "cache"
    /\ \E i \in DOMAIN req : req[i].target \in Cachable
    /\ pc' = "crashed"
    /\ UNCHANGED <<req, ownerUserIds, gpc, mux, matches, queries, merged, raised, response, status>>

(* locate_lat or locate_lon is no number.                                  *)
BadLocation == pc = "cache" /\ Fail(400)

-----------------------------------------------------------------------------
At(i, state) == pc = "run" /\ gpc[i] = state
Goto(i, state) == gpc' = [gpc EXCEPT ![i] = state]

(* What the loops over columns, selectables and services run through; a    *)
(* selectable whose device is not in the group is skipped but counted.     *)
MatchesOf(e) ==
    IF e.target \in Source
    THEN {[source |-> e.target, column |-> e.columns[c], colIdx |-> c, selIdx |-> 0] :
            c \in DOMAIN e.columns}
    ELSE UNION {UNION {
            LET sel == Selectables[e.target][e.columns[c]][n]
            IN  {[source |-> s, column |-> e.columns[c], colIdx |-> c, selIdx |-> n - 1] :
                    s \in {x \in sel.services : sel.device \in GroupDevices[e.target]}} :
            n \in DOMAIN Selectables[e.target][e.columns[c]]} : c \in DOMAIN e.columns}

Missing(i) == MatchesOf(req[i]) \ Range(matches[i])
ComesBefore(m, n) == m.colIdx < n.colIdx \/ (m.colIdx = n.colIdx /\ m.selIdx < n.selIdx)

OwnerOfElement(i) == IF req[i].target \in Source THEN OwnerOf[req[i].target] ELSE NoUser

(* The mutex is taken and given back within a step, or held from Lock on.  *)
MutexIsFree == mux = Nobody

CollectOwnerOnce(i) ==    \* mutant: one owner per element, not per match
    /\ At(i, "collect") /\ MutexIsFree
    /\ \E m \in Missing(i) :
        /\ \A n \in Missing(i) : ~ ComesBefore(n, m)
        /\ matches' = [matches EXCEPT ![i] = Append(@, m)]
    /\ ownerUserIds' = IF matches[i] = <<>> THEN Append(ownerUserIds, OwnerOfElement(i))
                       ELSE ownerUserIds
    /\ UNCHANGED <<pc, req, gpc, mux, queries, merged, raised, response, status>>

(* Under the mutex: the next match and, in the shared list, its owner.     *)
(* Services of a device come in the order of a map iteration.              *)
Collect(i) ==
    /\ At(i, "collect") /\ MutexIsFree
    /\ \E m \in Missing(i) :
        /\ \A n \in Missing(i) : ~ ComesBefore(n, m)
        /\ matches' = [matches EXCEPT ![i] = Append(@, m)]
    /\ ownerUserIds' = Append(ownerUserIds, OwnerOfElement(i))
    /\ UNCHANGED <<pc, req, gpc, mux, queries, merged, raised, response, status>>

(* GenerateQueries(dbRequestElements, userId, ownerUserIds, ...).  The     *)
(* list is read outside the mutex; a slice header torn between two appends *)
(* still holds the entries read here, which are older than both.           *)
Generate(i) ==
    /\ At(i, "collect")
    /\ Missing(i) = {}
    /\ \E found \in [DOMAIN matches[i] -> BOOLEAN] :
        queries' = [queries EXCEPT ![i] =
            [j \in DOMAIN matches[i] |->
                tableName(matches[i][j].source, ownerUserIds[j], found[j])]]
    /\ Goto(i, "execute")
    /\ UNCHANGED <<pc, req, ownerUserIds, mux, matches, merged, raised, response, status>>

ExecuteQueries(i) ==
    /\ At(i, "execute")
    /\ ~ NoSuchTable(queries[i])
    /\ Goto(i, "merge")
    /\ UNCHANGED <<pc, req, ownerUserIds, mux, matches, queries, merged, raised, response, status>>

RaiseUnrecorded(i) ==    \* mutant: an error ends the goroutine only
    /\ At(i, "execute")
    /\ Goto(i, "done")
    /\ UNCHANGED <<pc, req, ownerUserIds, mux, matches, queries, merged, raised, response, status>>

(* raiseError and return: a filter of an import that cannot be made (400), *)
(* a device, group, function or selectable that cannot be got, a query     *)
(* that fails, a series that cannot be formatted.                          *)
Raise(i) ==
    /\ MutexIsFree
    /\ \/ At(i, "collect") /\ raised' \in {raised \cup {code} : code \in FailureStatus}
       \/ At(i, "execute") /\ raised' \in {raised \cup {GetStatusCode(code)} :
                                                code \in ExecErrors(queries[i])}
       \/ At(i, "merge") /\ matches[i] # <<>> /\ raised' = raised \cup {500}
    /\ Goto(i, "done")
    /\ UNCHANGED <<pc, req, ownerUserIds, mux, matches, queries, merged, response, status>>

(* The series are formatted; the whole merging loop holds the mutex.       *)
Lock(i) ==
    /\ At(i, "merge") /\ MutexIsFree
    /\ mux' = i
    /\ Goto(i, "merging")
    /\ UNCHANGED <<pc, req, ownerUserIds, matches, queries, merged, raised, response, status>>

(* The response elements of this request index whose SelIdx, which nothing *)
(* ever sets, is the match's.                                              *)
BelongsToAnyRequest(r, i, m) == r.selIdx = m.selIdx    \* mutant: request index ignored
Belongs(r, i, m) == r.requestIndex = i /\ r.selIdx = m.selIdx
Candidates(i, m) == {k \in DOMAIN response : Belongs(response[k], i, m)}
PutSeries(data, m) ==
    [c \in 1 .. (IF Len(data) < m.colIdx THEN m.colIdx ELSE Len(data)) |->
        IF c = m.colIdx THEN Series(m) ELSE IF c \in DOMAIN data THEN data[c] ELSE EmptySeries]
NewElement(i, m) ==
    [requestIndex |-> i, source |-> m.source, selIdx |-> 0, data |-> PutSeries(<<>>, m)]

(* One turn of the merging loop: the first of these takes the series, or a *)
(* new one is made.                                                        *)
MergeOne(i) ==
    /\ At(i, "merging") /\ merged[i] < Len(matches[i])
    /\ LET m == matches[i][merged[i] + 1]
       IN  \/ /\ Candidates(i, m) = {}
              /\ response' = Append(response, NewElement(i, m))
           \/ \E k \in Candidates(i, m) :
                /\ \A n \in Candidates(i, m) : k <= n
                /\ response' = [response EXCEPT ![k].data = PutSeries(@, m)]
    /\ merged' = [merged EXCEPT ![i] = @ + 1]
    /\ UNCHANGED <<pc, req, ownerUserIds, gpc, mux, matches, queries, raised, status>>

(* defer mux.Unlock(), which runs before wg.Done().                        *)
Unlock(i) ==
    /\ At(i, "merging") /\ merged[i] = Len(matches[i])
    /\ mux' = Nobody
    /\ Goto(i, "done")
    /\ UNCHANGED <<pc, req, ownerUserIds, matches, queries, merged, raised, response, status>>

(* formatResponse panics (a limit beyond the rows it got) in a goroutine   *)
(* nothing recovers: the process ends, and is started anew.                *)
Panic(i) ==
    /\ At(i, "merge")
    /\ matches[i] # <<>>
    /\ pc' = "crashed"
    /\ UNCHANGED <<req, ownerUserIds, gpc, mux, matches, queries, merged, raised, response, status>>

Restart ==
    /\ pc = "crashed" /\ pc' = "idle"
    /\ status' = NoRequest
    /\ UNCHANGED <<req, ownerUserIds, gpc, mux, matches, queries, merged, raised, response>>

(* wg.Wait(), then raisedErr or the response; 400 takes precedence over    *)
(* 500 and 500 over 404 in a joined error.                                 *)
JoinedStatus(codes) == IF 400 \in codes THEN 400 ELSE IF 500 \in codes THEN 500 ELSE 404
Finish ==
    /\ pc = "run"
    /\ \A i \in Index : gpc[i] \in {"unused", "cached", "done"}
    /\ pc' = "idle"
    /\ status' = IF raised = {} THEN 200 ELSE JoinedStatus(raised)
    /\ UNCHANGED <<req, ownerUserIds, gpc, mux, matches, queries, merged, raised, response>>

-----------------------------------------------------------------------------
Goroutine(i) ==
    \/ Collect(i) \/ Generate(i) \/ ExecuteQueries(i) \/ Raise(i)
    \/ Lock(i) \/ MergeOne(i) \/ Unlock(i) \/ Panic(i)
Handler == Refuse \/ VerifyGrants \/ ReadCache \/ CachePanics \/ BadLocation \/ Finish

Next ==
    \/ \E es \in Bodies : Receive(es)
    \/ \E i \in Index : Goroutine(i)
    \/ Handler
    \/ Restart

Spec == Init /\ [][Next]_vars

-----------------------------------------------------------------------------
Answered(i) == {k \in DOMAIN response : response[k].requestIndex = i}

(* A 200 is complete for every export and device it was asked for: one     *)
(* response element, with the series of each column at its column, though  *)
(* goroutines of other elements fail, merge and append in between.         *)
PlainElementsComplete ==
    status = 200 => \A i \in DOMAIN req :
        req[i].target \in Source /\ gpc[i] # "cached" =>
            \E k \in DOMAIN response :
                /\ Answered(i) = {k}
                /\ response[k].source = req[i].target
                /\ response[k].data = [c \in DOMAIN req[i].columns |->
                        [source |-> req[i].target, column |-> req[i].columns[c]]]

(* No series ends up under the request index of an element that did not    *)
(* ask for it.                                                             *)
NoForeignSeries ==
    \A k \in DOMAIN response : \A d \in Range(response[k].data) \ {EmptySeries, AllColumns} :
        d \in {Series(m) : m \in MatchesOf(req[response[k].requestIndex])}

(* A goroutine never indexes beyond the shared list of owners, although it *)
(* grows while others read it: that would end the process.                 *)
OwnersCoverMatches == \A i \in Index : Len(matches[i]) <= Len(ownerUserIds)

-----------------------------------------------------------------------------
(* The strengthening that makes the invariants inductive.                  *)

(* The goroutines start with the cached rows; an answer is that of all.    *)
GoroutinesStarted ==
    /\ pc \in {"verify", "cache"} => response = <<>> /\ \A i \in Index : gpc[i] = "unused"
    /\ pc = "run" => \A i \in DOMAIN req : gpc[i] # "unused"
    /\ pc \in {"verify", "cache", "run"} => status = Pending
    /\ status = 200 => raised = {} /\ \A i \in DOMAIN req : gpc[i] \in {"cached", "done"}

(* A goroutine collects what its element asks for; of an export or device  *)
(* one match per column, in turn.                                          *)
Plain(i) == req[i].target \in Source
PlainMatch(i, c) ==
    [source |-> req[i].target, column |-> req[i].columns[c], colIdx |-> c, selIdx |-> 0]
MatchesInTurn ==
    \A i \in Index :
        /\ gpc[i] \in {"unused", "cached"} => matches[i] = <<>>
        /\ gpc[i] # "unused" => i \in DOMAIN req
        /\ i \in DOMAIN req =>
            /\ Range(matches[i]) \subseteq MatchesOf(req[i])
            /\ Plain(i) => matches[i] = [c \in 1 .. Len(matches[i]) |-> PlainMatch(i, c)]

(* It queries and merges all of them, unless it fails.                     *)
NothingIsMissing ==
    \A i \in DOMAIN req :
        /\ gpc[i] \in {"execute", "merge", "merging"} => Missing(i) = {}
        /\ gpc[i] = "done" /\ raised = {} => Missing(i) = {} /\ merged[i] = Len(matches[i])
MergedInTurn ==
    \A i \in Index :
        /\ merged[i] <= Len(matches[i])
        /\ merged[i] > 0 => gpc[i] \in {"merging", "done"}

(* What is merged of an export or device is one response element.          *)
PlainAnswer(i) ==
    IF merged[i] = 0 THEN Answered(i) = {}
    ELSE \E k \in DOMAIN response :
            /\ Answered(i) = {k}
            /\ response[k].source = req[i].target
            /\ response[k].data = [c \in 1 .. merged[i] |-> Series(PlainMatch(i, c))]
PlainAnswers == \A i \in DOMAIN req : Plain(i) /\ gpc[i] # "cached" => PlainAnswer(i)

IInv ==
    /\ TypeOK /\ GoroutinesStarted /\ MatchesInTurn /\ NothingIsMissing /\ MergedInTurn
    /\ PlainAnswers /\ OwnersCoverMatches /\ NoForeignSeries

-----------------------------------------------------------------------------
(* Stated by comments, docs or tests, and not kept by the code.            *)

(* The table of a query is named after the owner of its own element.       *)
OnlyOwnTables ==
    \A i \in Index : \A j \in DOMAIN queries[i] : IsOwnTable(queries[i][j], matches[i][j].source)

(* "If a device group is requested, each device will return its own time   *)
(* series": no response element mixes two devices.                         *)
OneDevicePerElement ==
    \A k \in DOMAIN response : \A d \in Range(response[k].data) \ {EmptySeries, AllColumns} :
        DeviceOf[d.source] = DeviceOf[response[k].source]

(* "... all matching values will be part of the time series": every match  *)
(* of a group is in the response.                                          *)
NoMatchLost ==
    status = 200 => \A i \in DOMAIN req : \A m \in MatchesOf(req[i]) :
        gpc[i] = "cached" \/ \E k \in Answered(i) : Series(m) \in Range(response[k].data)

(* "If multiple columns are requested, each will be return as a time       *)
(* series within the data field."                                          *)
OneSeriesPerColumn ==
    status = 200 => \A k \in DOMAIN response :
        req[response[k].requestIndex].target \in Source =>
            Len(response[k].data) = Len(req[response[k].requestIndex].columns)
=============================================================================
