------------------------- MODULE LastValues_proofs -------------------------
(***************************************************************************)
(* What POST /last-values promises, for every number of elements, every    *)
(* order the runtime gives to maps and goroutines and every cache: a value *)
(* comes back at the position of the element that asked for it, and all   *)
(* of them are one answer, given once, as ValueService promises.           *)
(***************************************************************************)
EXTENDS LastValues, TLAPS, FiniteSetTheorems, SequenceTheorems

-----------------------------------------------------------------------------
(* Requests, and sequences that are built entry by entry.                  *)

LEMMA BodiesAreSequences ==
    ASSUME NEW es \in Bodies
    PROVE  es \in Seq(RequestElement) /\ Len(es) \in Nat /\ DOMAIN es = 1 .. Len(es)
<1>1. PICK n \in 0 .. MaxElements : es \in [1 .. n -> RequestElement]
    BY DEF Bodies
<1>2. n \in Nat
    BY <1>1, LastValuesAssumption
<1> QED
    BY <1>1, <1>2, SeqDef, LenProperties

LEMMA RequestTypes ==
    ASSUME TypeOK
    PROVE  /\ Len(req) \in Nat /\ DOMAIN req = 1 .. Len(req)
           /\ \A i \in DOMAIN req : /\ req[i] \in RequestElement
                                    /\ req[i].source \in Source /\ req[i].column \in Column
<1>1. req \in Seq(RequestElement) /\ Len(req) \in Nat /\ DOMAIN req = 1 .. Len(req)
    BY BodiesAreSequences DEF TypeOK
<1>2. \A i \in DOMAIN req : req[i] \in RequestElement
    BY <1>1, ElementOfSeq
<1> QED
    BY <1>1, <1>2 DEF RequestElement

LEMMA ColumnMapTypes ==
    ASSUME TypeOK, NEW s \in Source
    PROVE  /\ columnMap[s] \in Seq(DOMAIN req) /\ Len(columnMap[s]) \in Nat
           /\ DOMAIN columnMap[s] = 1 .. Len(columnMap[s])
           /\ \A j \in DOMAIN columnMap[s] : columnMap[s][j] \in DOMAIN req
<1>1. columnMap[s] \in Seq(DOMAIN req)
    BY DEF TypeOK
<1> HIDE DEF TypeOK
<1> QED
    BY <1>1, LenProperties, ElementOfSeq

LEMMA FullElementTypes ==
    ASSUME TypeOK
    PROVE  /\ Len(fullRequestElements) \in Nat
           /\ DOMAIN fullRequestElements = 1 .. Len(fullRequestElements)
           /\ \A k \in DOMAIN fullRequestElements :
                /\ fullRequestElements[k] \in FullElement
                /\ fullRequestElements[k].source \in Source
                /\ fullRequestElements[k].columns \in Seq(Column)
                /\ Len(fullRequestElements[k].columns) \in Nat
                /\ DOMAIN fullRequestElements[k].columns =
                        1 .. Len(fullRequestElements[k].columns)
<1>1. fullRequestElements \in Seq(FullElement)
    BY DEF TypeOK
<1>2. \A k \in DOMAIN fullRequestElements : fullRequestElements[k] \in FullElement
    BY <1>1, LenProperties, ElementOfSeq
<1>3. \A k \in DOMAIN fullRequestElements :
        /\ fullRequestElements[k].source \in Source
        /\ fullRequestElements[k].columns \in Seq(Column)
    BY <1>2 DEF FullElement
<1> QED
    BY <1>1, <1>2, <1>3, LenProperties

LEMMA OutputTypes ==
    ASSUME TypeOK
    PROVE  /\ Len(outputIndexToInputIndex) \in Nat
           /\ DOMAIN outputIndexToInputIndex = 1 .. Len(outputIndexToInputIndex)
           /\ \A n \in DOMAIN outputIndexToInputIndex : outputIndexToInputIndex[n] \in DOMAIN req
<1>1. outputIndexToInputIndex \in Seq(DOMAIN req)
    BY DEF TypeOK
<1> QED
    BY <1>1, LenProperties, ElementOfSeq

(* What a function on the first n numbers adds up to.                      *)
LEMMA FunctionsAreSequences ==
    ASSUME NEW S, NEW n \in Nat, NEW f \in [1 .. n -> S]
    PROVE  f \in Seq(S) /\ Len(f) = n /\ DOMAIN f = 1 .. n
BY SeqDef, LenProperties

LEMMA AppendBehind ==
    ASSUME NEW S, NEW s \in Seq(S), NEW e \in S
    PROVE  /\ Append(s, e) \in Seq(S) /\ Len(Append(s, e)) = Len(s) + 1
           /\ DOMAIN Append(s, e) = 1 .. Len(s) + 1
           /\ \A i \in 1 .. Len(s) : Append(s, e)[i] = s[i]
           /\ Append(s, e)[Len(s) + 1] = e
           /\ Range(Append(s, e)) = Range(s) \cup {e}
<1>1. /\ Append(s, e) \in Seq(S) /\ Len(Append(s, e)) = Len(s) + 1 /\ Len(s) \in Nat
      /\ \A i \in 1 .. Len(s) : Append(s, e)[i] = s[i]
      /\ Append(s, e)[Len(s) + 1] = e
    BY AppendProperties, LenProperties
<1>2. DOMAIN Append(s, e) = 1 .. Len(s) + 1 /\ DOMAIN s = 1 .. Len(s)
    BY <1>1, LenProperties
<1>3. \A i \in 1 .. Len(s) + 1 : i \in 1 .. Len(s) \/ i = Len(s) + 1
    BY <1>1
<1>4. Range(Append(s, e)) = Range(s) \cup {e}
    BY <1>1, <1>2, <1>3 DEF Range
<1> QED
    BY <1>1, <1>2, <1>4

LEMMA ConcatRange ==
    ASSUME NEW S, NEW s \in Seq(S), NEW t \in Seq(S)
    PROVE  Range(s \o t) = Range(s) \cup Range(t)
<1>1. /\ s \o t \in Seq(S) /\ Len(s \o t) = Len(s) + Len(t)
      /\ \A i \in 1 .. Len(s) + Len(t) :
            (s \o t)[i] = IF i <= Len(s) THEN s[i] ELSE t[i - Len(s)]
    BY ConcatProperties
<1>2. Len(s) \in Nat /\ Len(t) \in Nat /\ DOMAIN s = 1 .. Len(s) /\ DOMAIN t = 1 .. Len(t)
    BY LenProperties
<1>3. DOMAIN (s \o t) = 1 .. Len(s) + Len(t)
    BY <1>1, LenProperties
<1>4. ASSUME NEW i \in 1 .. Len(s) + Len(t) PROVE (s \o t)[i] \in Range(s) \cup Range(t)
    <2>1. CASE i <= Len(s)
        BY <1>1, <1>2, <2>1 DEF Range
    <2>2. CASE i > Len(s)
        <3>1. i - Len(s) \in DOMAIN t
            BY <1>2, <2>2
        <3> QED
            BY <1>1, <1>2, <2>2, <3>1 DEF Range
    <2> QED
        BY <1>2, <2>1, <2>2
<1>5. ASSUME NEW i \in DOMAIN s PROVE s[i] \in Range(s \o t)
    BY <1>1, <1>2, <1>3 DEF Range
<1>6. ASSUME NEW i \in DOMAIN t PROVE t[i] \in Range(s \o t)
    <2>1. Len(s) + i \in 1 .. Len(s) + Len(t) /\ ~ (Len(s) + i <= Len(s)) /\ (Len(s) + i) - Len(s) = i
        BY <1>2
    <2>2. (s \o t)[Len(s) + i] = t[i]
        BY <1>1, <2>1
    <2> QED
        BY <1>3, <2>1, <2>2 DEF Range
<1> QED
    BY <1>3, <1>4, <1>5, <1>6 DEF Range

-----------------------------------------------------------------------------
(* What a step keeps by leaving the variables of a conjunct alone.         *)

LEMMA KeepsColumns ==
    ASSUME ColumnMapFilled, UNCHANGED <<req, columnMap>>,
           \/ pc' = pc /\ turn' = turn
           \/ pc' \notin {"fill", "group"}
    PROVE  ColumnMapFilled'
BY DEF ColumnMapFilled

LEMMA KeepsElements ==
    ASSUME ElementsInPlace, UNCHANGED <<req, fullRequestElements, outputIndexToInputIndex>>,
           pc' # "respond"
    PROVE  ElementsInPlace'
<1>1. PICK places \in [1 .. Len(fullRequestElements) + 1 -> 0 .. Len(outputIndexToInputIndex)] :
        Outputs(places)
    BY DEF ElementsInPlace
<1>2. Outputs(places)'
    BY <1>1 DEF Outputs
<1> QED
    BY <1>1, <1>2 DEF ElementsInPlace

LEMMA KeepsGrouping ==
    ASSUME NothingUngrouped, UNCHANGED <<req, columnMap, fullRequestElements,
                                         outputIndexToInputIndex>>,
           pc' \in {"verify"} \cup Running => pc \in {"verify"} \cup Running
    PROVE  NothingUngrouped'
BY DEF NothingUngrouped

LEMMA KeepsDbRequests ==
    ASSUME DbRequests, UNCHANGED <<fullRequestElements, dbRequestElements, dbRequestIndices>>,
           pc' \notin {"cache", "execute", "merge"}
    PROVE  DbRequests'
BY DEF DbRequests

LEMMA KeepsRows ==
    ASSUME RowsOfElements, UNCHANGED <<fullRequestElements, raw>>, pc' = "respond" => pc = "respond"
    PROVE  RowsOfElements'
BY DEF RowsOfElements, IsCachable

LEMMA KeepsValues ==
    ASSUME ValuesInPlace, UNCHANGED <<req, response>>, status' # 200 \/ status' = status
    PROVE  ValuesInPlace'
BY DEF ValuesInPlace

-----------------------------------------------------------------------------
LEMMA InitIInv == Init => IInv
<1> SUFFICES ASSUME Init PROVE IInv
    OBVIOUS
<1>1. req \in Bodies /\ DOMAIN req = {} /\ Len(req) = 0
    BY LastValuesAssumption DEF Init, Bodies
<1>2. TypeOK
    <2>1. \A S : <<>> \in Seq(S)
        BY EmptySeq
    <2>2. columnMap \in [Source -> Seq(DOMAIN req)]
        BY <2>1 DEF Init
    <2>3. /\ fullRequestElements \in Seq(FullElement) /\ outputIndexToInputIndex \in Seq(DOMAIN req)
          /\ ownerUserIds \in Seq(User \cup {NoUser}) /\ raw \in Seq(Rows \cup {Nil})
          /\ gpc \in Seq({"lookup", "check", "lock", "done"})
          /\ dbRequestElements \in Seq(Source)
          /\ dbRequestIndices \in Seq(DOMAIN fullRequestElements)
          /\ queries \in Seq(Table) /\ data \in Seq(Rows) /\ response \in Seq(Value \cup {NoValue})
        BY <2>1 DEF Init
    <2>4. sharedErr \in BOOLEAN
        BY Zenon DEF Init
    <2>5. /\ pc = "idle" /\ status = NoRequest /\ turn \in Nat \ {0} /\ col \in Nat \ {0}
          /\ inserted \in Nat
        BY DEF Init
    <2> QED
        BY <1>1, <2>2, <2>3, <2>4, <2>5 DEF TypeOK
<1>3. Stages /\ ColumnMapFilled /\ NothingUngrouped /\ RowsOfElements /\ PutSoFar
    BY <1>1 DEF Init, Stages, Before, Running, ColumnMapFilled, NothingUngrouped, RowsOfElements,
                PutSoFar, NoRequest, Pending
<1>4. DbRequests
    BY DEF Init, DbRequests
<1>5. ElementsInPlace
    <2> DEFINE places == [n \in 1 .. 0 + 1 |-> 0]
    <2>1. places \in [1 .. 0 + 1 -> 0 .. 0] /\ places[1] = 0 /\ places[0 + 1] = 0
        OBVIOUS
    <2> HIDE DEF places
    <2>2. Len(fullRequestElements) = 0 /\ Len(outputIndexToInputIndex) = 0
          /\ DOMAIN fullRequestElements = {} /\ pc # "respond"
        BY DEF Init
    <2>3. Outputs(places)
        BY <2>1, <2>2 DEF Outputs
    <2> QED
        BY <2>1, <2>2, <2>3 DEF ElementsInPlace
<1>6. ValuesInPlace
    BY DEF Init, ValuesInPlace, NoRequest
<1> QED
    BY <1>2, <1>3, <1>4, <1>5, <1>6 DEF IInv

(* A new request begins with nothing.                                      *)
LEMMA ReceiveKeeps ==
    ASSUME IInv, NEW es \in Bodies, Receive(es)
    PROVE  IInv'
<1>1. /\ pc' = "fill" /\ status' = Pending /\ req' = es /\ turn' = 1 /\ col' = 1 /\ inserted' = 0
      /\ columnMap' = [s \in Source |-> <<>>] /\ fullRequestElements' = <<>>
      /\ outputIndexToInputIndex' = <<>> /\ response' = <<>>
    BY DEF Receive, NothingGrouped
<1>2. /\ ownerUserIds' = <<>> /\ gpc' = <<>> /\ sharedErr' = FALSE /\ raw' = <<>>
      /\ dbRequestElements' = <<>> /\ dbRequestIndices' = <<>> /\ queries' = <<>> /\ data' = <<>>
    BY DEF Receive, NothingFetched
<1>3. Len(es) \in Nat /\ DOMAIN es = 1 .. Len(es)
    BY BodiesAreSequences
<1>4. TypeOK'
    <2>1. \A S : <<>> \in Seq(S)
        BY EmptySeq
    <2>2. columnMap' \in [Source -> Seq(DOMAIN req')]
        BY <1>1, <2>1
    <2>3. /\ fullRequestElements' \in Seq(FullElement) /\ outputIndexToInputIndex' \in Seq(DOMAIN req')
          /\ ownerUserIds' \in Seq(User \cup {NoUser}) /\ raw' \in Seq(Rows \cup {Nil})
          /\ gpc' \in Seq({"lookup", "check", "lock", "done"})
          /\ dbRequestElements' \in Seq(Source)
          /\ dbRequestIndices' \in Seq(DOMAIN fullRequestElements')
          /\ queries' \in Seq(Table) /\ data' \in Seq(Rows)
          /\ response' \in Seq(Value \cup {NoValue})
        BY <1>1, <1>2, <2>1
    <2>4. sharedErr' \in BOOLEAN
        BY <1>2, Zenon
    <2>5. turn' \in Nat \ {0} /\ col' \in Nat \ {0} /\ inserted' \in Nat
        BY <1>1
    <2> QED
        BY <1>1, <2>2, <2>3, <2>4, <2>5 DEF TypeOK
<1>5. Stages' /\ NothingUngrouped' /\ RowsOfElements' /\ PutSoFar' /\ DbRequests'
    BY <1>1, <1>2 DEF Stages, Before, Running, NothingUngrouped, RowsOfElements, PutSoFar,
                      DbRequests
<1>6. ColumnMapFilled'
    BY <1>1, <1>3 DEF ColumnMapFilled
<1>7. ElementsInPlace'
    <2> DEFINE places == [n \in 1 .. 0 + 1 |-> 0]
    <2>1. places \in [1 .. 0 + 1 -> 0 .. 0] /\ places[1] = 0 /\ places[0 + 1] = 0
        OBVIOUS
    <2> HIDE DEF places
    <2>2. Len(fullRequestElements') = 0 /\ Len(outputIndexToInputIndex') = 0
          /\ DOMAIN fullRequestElements' = {} /\ pc' # "respond"
        BY <1>1
    <2>3. Outputs(places)'
        BY <2>1, <2>2 DEF Outputs
    <2> QED
        BY <2>1, <2>2, <2>3 DEF ElementsInPlace
<1>8. ValuesInPlace'
    BY <1>1 DEF ValuesInPlace, Pending
<1> QED
    BY <1>4, <1>5, <1>6, <1>7, <1>8 DEF IInv

(* A request that fails leaves everything but its status.                  *)
LEMMA FailKeeps ==
    ASSUME IInv, NEW code \in FailureStatus, Fail(code)
    PROVE  IInv'
<1>1. pc' = "idle" /\ status' = code /\ code # 200 /\ code # Pending
    BY DEF Fail, FailureStatus, Pending
<1>2. UNCHANGED <<req, columnMap, fullRequestElements, outputIndexToInputIndex, turn, col, inserted,
                  ownerUserIds, gpc, sharedErr, raw, dbRequestElements, dbRequestIndices, queries,
                  data, response>>
    BY DEF Fail, grouped, loop, fetched
<1>3. TypeOK'
    BY <1>1, <1>2 DEF IInv, TypeOK
<1>4. Stages' /\ PutSoFar'
    BY <1>1 DEF Stages, Before, Running, PutSoFar
<1>5. ColumnMapFilled' /\ ElementsInPlace' /\ NothingUngrouped'
    BY <1>1, <1>2, KeepsColumns, KeepsElements, KeepsGrouping DEF IInv, Running
<1>6. DbRequests' /\ RowsOfElements' /\ ValuesInPlace'
    BY <1>1, <1>2, KeepsDbRequests, KeepsRows, KeepsValues DEF IInv
<1> QED
    BY <1>3, <1>4, <1>5, <1>6 DEF IInv

(* The process ends in a cache goroutine, and is started anew.             *)
LEMMA CrashKeeps ==
    ASSUME IInv, (\E k \in DOMAIN gpc : LookupPanics(k)) \/ Restart
    PROVE  IInv'
<1>1. \/ pc' = "crashed" /\ pc # "idle" /\ status' = status
      \/ pc' = "idle" /\ status' = NoRequest
    BY DEF LookupPanics, Restart
<1>2. UNCHANGED <<req, columnMap, fullRequestElements, outputIndexToInputIndex, turn, col, inserted,
                  ownerUserIds, gpc, sharedErr, raw, dbRequestElements, dbRequestIndices, queries,
                  data, response>>
    BY DEF LookupPanics, Restart, grouped, loop, fetched
<1>3. \/ pc' = "crashed" /\ status' = Pending
      \/ pc' = "idle" /\ status' = NoRequest
    BY <1>1 DEF IInv, Stages
<1>4. TypeOK'
    BY <1>2, <1>3 DEF IInv, TypeOK
<1>5. Stages' /\ PutSoFar'
    BY <1>3 DEF Stages, Before, Running, PutSoFar, NoRequest, Pending
<1>6. ColumnMapFilled' /\ ElementsInPlace' /\ NothingUngrouped'
    BY <1>2, <1>3, KeepsColumns, KeepsElements, KeepsGrouping DEF IInv, Running
<1>7. status' # 200
    BY <1>3 DEF NoRequest, Pending
<1>8. DbRequests' /\ RowsOfElements' /\ ValuesInPlace'
    BY <1>2, <1>3, <1>7, KeepsDbRequests, KeepsRows, KeepsValues DEF IInv
<1> QED
    BY <1>4, <1>5, <1>6, <1>8 DEF IInv

-----------------------------------------------------------------------------
(* The loops that group the columns by source.                             *)

LEMMA fillColumnMapKeeps ==
    ASSUME IInv, fillColumnMap
    PROVE  IInv'
<1>1. /\ pc = "fill" /\ pc' = "fill" /\ turn <= Len(req) /\ turn' = turn + 1
      /\ columnMap' = [columnMap EXCEPT ![req[turn].source] = Append(@, turn)]
    BY DEF fillColumnMap
<1>2. UNCHANGED <<req, fullRequestElements, outputIndexToInputIndex, col, inserted, ownerUserIds,
                  gpc, sharedErr, raw, dbRequestElements, dbRequestIndices, queries, data, status,
                  response>>
    BY DEF fillColumnMap, fetched
<1>3. /\ TypeOK /\ turn \in Nat \ {0} /\ turn \in DOMAIN req
      /\ columnMap \in [Source -> Seq(DOMAIN req)]
    <2>1. TypeOK /\ turn \in Nat \ {0} /\ columnMap \in [Source -> Seq(DOMAIN req)]
        BY DEF IInv, TypeOK
    <2> QED
        BY <1>1, <2>1, RequestTypes
<1> DEFINE src == req[turn].source
<1>4. src \in Source
    BY <1>3, RequestTypes
<1>5. columnMap[src] \in Seq(DOMAIN req)
    BY <1>3, <1>4
<1> HIDE DEF src
<1>6. columnMap'[src] = Append(columnMap[src], turn)
      /\ \A s \in Source : s # src => columnMap'[s] = columnMap[s]
    BY <1>1, <1>3, <1>4 DEF src
<1>7. /\ columnMap'[src] \in Seq(DOMAIN req)
      /\ DOMAIN columnMap'[src] = 1 .. Len(columnMap[src]) + 1
      /\ \A j \in 1 .. Len(columnMap[src]) : columnMap'[src][j] = columnMap[src][j]
      /\ columnMap'[src][Len(columnMap[src]) + 1] = turn
      /\ Range(columnMap'[src]) = Range(columnMap[src]) \cup {turn}
    BY <1>3, <1>5, <1>6, AppendBehind
<1>8. columnMap' \in [Source -> Seq(DOMAIN req)]
    BY <1>1, <1>3, <1>4, <1>6, <1>7
<1>9. TypeOK'
    <2>1. turn' \in Nat \ {0}
        BY <1>1, <1>3
    <2> QED
        BY <1>1, <1>2, <1>8, <2>1 DEF IInv, TypeOK
<1>10. Stages' /\ PutSoFar'
    BY <1>1, <1>2 DEF IInv, Stages, Before, Running, PutSoFar
<1>11. ColumnMapFilled'
    <2>1. ASSUME NEW s \in Source, NEW j \in DOMAIN columnMap'[s]
          PROVE  req[columnMap'[s][j]].source = s
        <3>1. CASE s # src
            BY <1>6, <3>1 DEF IInv, ColumnMapFilled
        <3>2. CASE s = src /\ j \in 1 .. Len(columnMap[src])
            <4>1. j \in DOMAIN columnMap[src]
                BY <1>3, <1>4, <3>2, ColumnMapTypes
            <4> QED
                BY <1>4, <1>7, <3>2, <4>1 DEF IInv, ColumnMapFilled
        <3>3. CASE s = src /\ j = Len(columnMap[src]) + 1
            BY <1>7, <3>3 DEF src
        <3> QED
            BY <1>3, <1>4, <1>7, <3>1, <3>2, <3>3, ColumnMapTypes
    <2>2. turn' <= Len(req) + 1
        BY <1>1, <1>3, RequestTypes
    <2>3. ASSUME NEW i \in DOMAIN req, i < turn + 1
          PROVE  i \in Range(columnMap'[req[i].source])
        <3>1. req[i].source \in Source /\ i \in Nat
            BY <1>3, RequestTypes
        <3>2. CASE i = turn
            BY <1>7, <3>2 DEF src
        <3>3. CASE i # turn
            <4>1. i < turn
                BY <1>3, <2>3, <3>1, <3>3
            <4>2. i \in Range(columnMap[req[i].source])
                BY <1>1, <4>1 DEF IInv, ColumnMapFilled
            <4> QED
                BY <1>6, <1>7, <3>1, <4>2
        <3> QED
            BY <3>2, <3>3
    <2> QED
        BY <1>1, <1>2, <2>1, <2>2, <2>3 DEF ColumnMapFilled
<1>12. ElementsInPlace' /\ DbRequests' /\ RowsOfElements' /\ ValuesInPlace'
    BY <1>1, <1>2, KeepsElements, KeepsDbRequests, KeepsRows, KeepsValues DEF IInv
<1>13. NothingUngrouped'
    <2>1. DOMAIN fullRequestElements = {}
        BY <1>1 DEF IInv, Stages
    <2> QED
        BY <1>1, <1>2, <2>1 DEF NothingUngrouped, Running
<1> QED
    BY <1>9, <1>10, <1>11, <1>12, <1>13 DEF IInv

(* The columns of a source become a full element behind those grouped so   *)
(* far, and their positions are output behind theirs.                      *)
LEMMA GroupKeeps ==
    ASSUME IInv, NEW s \in Source, Group(s)
    PROVE  IInv'
<1> DEFINE full == fullRequestElements
           outs == outputIndexToInputIndex
           asked == columnMap[s]
           e == [source |-> s, columns |-> [j \in DOMAIN asked |-> req[asked[j]].column]]
           K == Len(full)
<1>1. /\ pc = "group" /\ pc' = "group"
      /\ full' = Append(full, e) /\ outs' = outs \o asked
    BY DEF Group, OutputOrder
<1>2. UNCHANGED <<req, columnMap, turn, col, inserted, ownerUserIds, gpc, sharedErr, raw,
                  dbRequestElements, dbRequestIndices, queries, data, status, response>>
    BY DEF Group, loop, fetched
<1>3. /\ asked \in Seq(DOMAIN req) /\ Len(asked) \in Nat /\ DOMAIN asked = 1 .. Len(asked)
      /\ \A j \in DOMAIN asked : asked[j] \in DOMAIN req /\ req[asked[j]].source = s
                                 /\ req[asked[j]].column \in Column
                                 /\ req[asked[j]] \in RequestElement
    <2>1. TypeOK /\ ColumnMapFilled
        BY DEF IInv
    <2>2. /\ asked \in Seq(DOMAIN req) /\ Len(asked) \in Nat /\ DOMAIN asked = 1 .. Len(asked)
          /\ \A j \in DOMAIN asked : asked[j] \in DOMAIN req
        BY <2>1, ColumnMapTypes
    <2> QED
        BY <2>1, <2>2, RequestTypes DEF ColumnMapFilled
<1>4. /\ e.source = s /\ Len(e.columns) = Len(asked) /\ DOMAIN e.columns = 1 .. Len(asked)
      /\ \A j \in 1 .. Len(asked) : e.columns[j] = req[asked[j]].column
      /\ e \in FullElement
    <2>1. e.columns \in [1 .. Len(asked) -> Column]
        BY <1>3
    <2>2. e.columns \in Seq(Column) /\ Len(e.columns) = Len(asked)
        BY <1>3, <2>1, FunctionsAreSequences
    <2> QED
        BY <1>3, <2>2 DEF FullElement
<1>5. /\ TypeOK /\ full \in Seq(FullElement) /\ outs \in Seq(DOMAIN req)
      /\ K \in Nat /\ DOMAIN full = 1 .. K /\ Len(outs) \in Nat /\ DOMAIN outs = 1 .. Len(outs)
    BY FullElementTypes, OutputTypes DEF IInv, TypeOK
<1> HIDE DEF full, outs, asked, e, K
<1>6. /\ full' \in Seq(FullElement) /\ Len(full') = K + 1 /\ DOMAIN full' = 1 .. K + 1
      /\ \A k \in 1 .. K : full'[k] = full[k]
      /\ full'[K + 1] = e
    BY <1>1, <1>4, <1>5, AppendBehind DEF K
<1>7. /\ outs' \in Seq(DOMAIN req) /\ Len(outs') = Len(outs) + Len(asked)
      /\ DOMAIN outs' = 1 .. Len(outs) + Len(asked)
      /\ \A i \in 1 .. Len(outs) : outs'[i] = outs[i]
      /\ \A j \in 1 .. Len(asked) : outs'[Len(outs) + j] = asked[j]
      /\ Range(outs') = Range(outs) \cup Range(asked)
    <2>1. /\ outs' \in Seq(DOMAIN req) /\ Len(outs') = Len(outs) + Len(asked)
          /\ \A i \in 1 .. Len(outs) + Len(asked) :
                outs'[i] = IF i <= Len(outs) THEN outs[i] ELSE asked[i - Len(outs)]
        BY <1>1, <1>3, <1>5, ConcatProperties
    <2>2. DOMAIN outs' = 1 .. Len(outs) + Len(asked)
        BY <2>1, LenProperties
    <2>3. \A i \in 1 .. Len(outs) : outs'[i] = outs[i]
        BY <1>3, <1>5, <2>1
    <2>4. ASSUME NEW j \in 1 .. Len(asked) PROVE outs'[Len(outs) + j] = asked[j]
        <3>1. /\ Len(outs) + j \in 1 .. Len(outs) + Len(asked) /\ ~ (Len(outs) + j <= Len(outs))
              /\ (Len(outs) + j) - Len(outs) = j
            BY <1>3, <1>5
        <3> QED
            BY <2>1, <3>1
    <2>5. Range(outs') = Range(outs) \cup Range(asked)
        BY <1>1, <1>3, <1>5, ConcatRange
    <2> QED
        BY <2>1, <2>2, <2>3, <2>4, <2>5
<1>8. TypeOK'
    <2>1. dbRequestIndices' = <<>>
        BY <1>1, <1>2 DEF IInv, Stages, Before
    <2>2. dbRequestIndices' \in Seq(DOMAIN full')
        BY <2>1, EmptySeq
    <2> QED
        BY <1>1, <1>2, <1>6, <1>7, <2>2 DEF IInv, TypeOK, full, outs
<1>9. Stages' /\ PutSoFar'
    BY <1>1, <1>2 DEF IInv, Stages, Before, Running, PutSoFar
<1>10. ColumnMapFilled'
    BY <1>1, <1>2, KeepsColumns DEF IInv
<1>11. ElementsInPlace'
    <2>1. PICK places \in [1 .. K + 1 -> 0 .. Len(outs)] : Outputs(places)
        BY DEF IInv, ElementsInPlace, K, full, outs
    <2>2. PICK next \in [1 .. K + 1 + 1 -> 0 .. Len(outs) + Len(asked)] :
            /\ \A n \in 1 .. K + 1 : next[n] = places[n]
            /\ next[K + 1 + 1] = Len(outs) + Len(asked)
        <3> DEFINE f == [n \in 1 .. K + 1 + 1 |-> IF n = K + 1 + 1 THEN Len(outs) + Len(asked)
                                                  ELSE places[n]]
        <3>1. /\ f \in [1 .. K + 1 + 1 -> 0 .. Len(outs) + Len(asked)]
              /\ \A n \in 1 .. K + 1 : f[n] = places[n]
              /\ f[K + 1 + 1] = Len(outs) + Len(asked)
            BY <1>3, <1>5, <2>1
        <3> QED
            BY <3>1
    <2>3. /\ places[1] = 0 /\ places[K + 1] = Len(outs)
          /\ \A k \in 1 .. K :
                /\ places[k + 1] = places[k] + Len(full[k].columns)
                /\ \A j \in DOMAIN full[k].columns :
                    /\ places[k] + j \in DOMAIN outs
                    /\ req[outs[places[k] + j]] =
                            [source |-> full[k].source, column |-> full[k].columns[j]]
        BY <1>5, <2>1 DEF Outputs, K, full, outs
    <2>4. next[1] = 0
        BY <1>5, <2>2, <2>3
    <2>5. ASSUME NEW k \in 1 .. K
          PROVE  /\ next[k + 1] = next[k] + Len(full'[k].columns)
                 /\ \A j \in DOMAIN full'[k].columns :
                        /\ next[k] + j \in DOMAIN outs'
                        /\ req[outs'[next[k] + j]] =
                                [source |-> full'[k].source, column |-> full'[k].columns[j]]
        <3>1. k \in 1 .. K + 1 /\ k + 1 \in 1 .. K + 1
            BY <1>5
        <3>2. next[k] = places[k] /\ next[k + 1] = places[k + 1] /\ full'[k] = full[k]
            BY <1>6, <2>2, <3>1
        <3>3. \A n \in DOMAIN outs : n \in DOMAIN outs' /\ outs'[n] = outs[n]
            BY <1>3, <1>5, <1>7
        <3>4. /\ places[k + 1] = places[k] + Len(full[k].columns)
              /\ \A j \in DOMAIN full[k].columns :
                    /\ places[k] + j \in DOMAIN outs
                    /\ req[outs[places[k] + j]] =
                            [source |-> full[k].source, column |-> full[k].columns[j]]
            BY <2>3
        <3> QED
            BY <3>2, <3>3, <3>4
    <2>6. /\ next[K + 1 + 1] = next[K + 1] + Len(full'[K + 1].columns)
          /\ \A j \in DOMAIN full'[K + 1].columns :
                /\ next[K + 1] + j \in DOMAIN outs'
                /\ req[outs'[next[K + 1] + j]] =
                        [source |-> full'[K + 1].source, column |-> full'[K + 1].columns[j]]
        <3>1. next[K + 1] = Len(outs) /\ full'[K + 1] = e
            BY <1>5, <1>6, <2>2, <2>3
        <3>2. next[K + 1 + 1] = next[K + 1] + Len(full'[K + 1].columns)
            BY <1>4, <2>2, <3>1
        <3>3. ASSUME NEW j \in 1 .. Len(asked)
              PROVE  /\ Len(outs) + j \in DOMAIN outs'
                     /\ req[outs'[Len(outs) + j]] =
                            [source |-> e.source, column |-> e.columns[j]]
            <4>1. Len(outs) + j \in DOMAIN outs' /\ outs'[Len(outs) + j] = asked[j]
                BY <1>3, <1>5, <1>7
            <4>2. /\ req[asked[j]] \in RequestElement /\ req[asked[j]].source = e.source
                  /\ req[asked[j]].column = e.columns[j]
                BY <1>3, <1>4
            <4>3. req[asked[j]] = [source |-> e.source, column |-> e.columns[j]]
                BY <4>2 DEF RequestElement
            <4> QED
                BY <4>1, <4>3
        <3> QED
            BY <1>4, <3>1, <3>2, <3>3
    <2>7. \A k \in 1 .. K + 1 : k \in 1 .. K \/ k = K + 1
        BY <1>5
    <2>8. Outputs(next)'
        <3>1. req' = req /\ pc' # "respond"
            BY <1>1, <1>2
        <3>2. next[Len(full') + 1] = Len(outs')
            BY <1>6, <1>7, <2>2
        <3>3. \A k \in DOMAIN full' :
                /\ next[k + 1] = next[k] + Len(full'[k].columns)
                /\ \A j \in DOMAIN full'[k].columns :
                    /\ next[k] + j \in DOMAIN outs'
                    /\ req[outs'[next[k] + j]] =
                            [source |-> full'[k].source, column |-> full'[k].columns[j]]
            BY <1>6, <2>5, <2>6, <2>7
        <3> QED
            BY <2>4, <3>1, <3>2, <3>3 DEF Outputs, full, outs
    <2>9. next \in [1 .. Len(full') + 1 -> 0 .. Len(outs')]
        BY <1>6, <1>7, <2>2
    <2> QED
        BY <2>8, <2>9 DEF ElementsInPlace, full, outs
<1>12. NothingUngrouped'
    <2>1. \A k \in 1 .. K : Range(columnMap[full[k].source]) \subseteq Range(outs)
        BY <1>5 DEF IInv, NothingUngrouped, full, outs
    <2>2. \A k \in 1 .. K + 1 : Range(columnMap[full'[k].source]) \subseteq Range(outs')
        <3> SUFFICES ASSUME NEW k \in 1 .. K + 1
                     PROVE  Range(columnMap[full'[k].source]) \subseteq Range(outs')
            OBVIOUS
        <3>1. CASE k \in 1 .. K
            BY <1>6, <1>7, <2>1, <3>1
        <3>2. CASE k = K + 1
            <4>1. columnMap[full'[k].source] = asked
                BY <1>4, <1>6, <3>2 DEF asked
            <4> QED
                BY <1>7, <4>1
        <3> QED
            BY <1>5, <3>1, <3>2
    <2> QED
        BY <1>1, <1>2, <1>6, <2>2 DEF NothingUngrouped, Running, full, outs
<1>13. DbRequests' /\ RowsOfElements' /\ ValuesInPlace'
    <2>1. /\ dbRequestElements' = <<>> /\ dbRequestIndices' = <<>> /\ raw' = <<>>
        BY <1>1, <1>2 DEF IInv, Stages, Before
    <2>2. DbRequests' /\ RowsOfElements'
        BY <1>1, <2>1 DEF DbRequests, RowsOfElements
    <2> QED
        BY <1>2, <2>2, KeepsValues DEF IInv
<1> QED
    BY <1>8, <1>9, <1>10, <1>11, <1>12, <1>13 DEF IInv

(* The stages that only go on: all elements are in the column map, all     *)
(* sources are grouped, all goroutines have ended.                         *)
LEMMA FilledKeeps ==
    ASSUME IInv, Filled
    PROVE  IInv'
<1>1. pc = "fill" /\ pc' = "group" /\ turn > Len(req)
    BY DEF Filled
<1>2. UNCHANGED <<req, columnMap, fullRequestElements, outputIndexToInputIndex, turn, col, inserted,
                  ownerUserIds, gpc, sharedErr, raw, dbRequestElements, dbRequestIndices, queries,
                  data, status, response>>
    BY DEF Filled, grouped, loop, fetched
<1>3. TypeOK'
    BY <1>1, <1>2 DEF IInv, TypeOK
<1>4. Stages' /\ PutSoFar'
    BY <1>1, <1>2 DEF IInv, Stages, Before, Running, PutSoFar
<1>5. ColumnMapFilled'
    <2>1. \A i \in DOMAIN req : i < turn
        <3>1. TypeOK /\ turn \in Nat
            BY DEF IInv, TypeOK
        <3> QED
            BY <1>1, <3>1, RequestTypes
    <2> QED
        BY <1>1, <1>2, <2>1 DEF IInv, ColumnMapFilled
<1>6. ElementsInPlace' /\ NothingUngrouped'
    BY <1>1, <1>2, KeepsElements, KeepsGrouping DEF IInv, Running
<1>7. DbRequests' /\ RowsOfElements' /\ ValuesInPlace'
    BY <1>1, <1>2, KeepsDbRequests, KeepsRows, KeepsValues DEF IInv
<1> QED
    BY <1>3, <1>4, <1>5, <1>6, <1>7 DEF IInv

LEMMA GroupedKeeps ==
    ASSUME IInv, Grouped
    PROVE  IInv'
<1>1. pc = "group" /\ pc' = "verify" /\ Ungrouped = {}
    BY DEF Grouped
<1>2. UNCHANGED <<req, columnMap, fullRequestElements, outputIndexToInputIndex, turn, col, inserted,
                  ownerUserIds, gpc, sharedErr, raw, dbRequestElements, dbRequestIndices, queries,
                  data, status, response>>
    BY DEF Grouped, grouped, loop, fetched
<1>3. TypeOK'
    BY <1>1, <1>2 DEF IInv, TypeOK
<1>4. Stages' /\ PutSoFar'
    BY <1>1, <1>2 DEF IInv, Stages, Before, Running, PutSoFar
<1>5. ColumnMapFilled' /\ ElementsInPlace'
    BY <1>1, <1>2, KeepsColumns, KeepsElements DEF IInv
<1>6. NothingUngrouped'
    <2>1. ASSUME NEW i \in DOMAIN req PROVE i \in Range(outputIndexToInputIndex)
        <3> DEFINE s == req[i].source
        <3>1. s \in Source /\ i \in Range(columnMap[s])
            BY <1>1, RequestTypes DEF IInv, ColumnMapFilled
        <3>2. columnMap[s] # <<>>
            BY <3>1 DEF Range
        <3>3. s \notin Ungrouped
            BY <1>1
        <3>4. PICK k \in DOMAIN fullRequestElements : fullRequestElements[k].source = s
            BY <3>1, <3>2, <3>3 DEF Ungrouped
        <3> QED
            BY <3>1, <3>4 DEF IInv, NothingUngrouped
    <2> QED
        BY <1>2, <2>1 DEF IInv, NothingUngrouped
<1>7. DbRequests' /\ RowsOfElements' /\ ValuesInPlace'
    BY <1>1, <1>2, KeepsDbRequests, KeepsRows, KeepsValues DEF IInv
<1> QED
    BY <1>3, <1>4, <1>5, <1>6, <1>7 DEF IInv

-----------------------------------------------------------------------------
(* The cache and the database.  None of these steps touches what is        *)
(* grouped or the response.                                                *)

LEMMA FetchingKeeps ==
    ASSUME IInv, pc \in {"verify"} \cup Running, pc' \in Running \ {"respond"},
           UNCHANGED <<req, columnMap, fullRequestElements, outputIndexToInputIndex, status, response>>,
           (TypeOK /\ Stages /\ DbRequests /\ RowsOfElements)'
    PROVE  IInv'
<1>1. pc' \notin {"fill", "group", "respond"}
    BY DEF Running
<1>2. ColumnMapFilled' /\ ElementsInPlace' /\ NothingUngrouped'
    BY <1>1, KeepsColumns, KeepsElements, KeepsGrouping DEF IInv
<1>3. PutSoFar' /\ ValuesInPlace'
    BY <1>1, KeepsValues DEF IInv, PutSoFar
<1> QED
    BY <1>2, <1>3 DEF IInv

LEMMA VerifyGrantsKeeps ==
    ASSUME IInv, VerifyGrants
    PROVE  IInv'
<1> DEFINE K == Len(fullRequestElements)
<1>1. /\ pc = "verify" /\ pc' = "cache"
      /\ ownerUserIds' = [k \in DOMAIN fullRequestElements |-> OwnerOf[fullRequestElements[k].source]]
      /\ gpc' = [k \in DOMAIN fullRequestElements |-> "lookup"]
      /\ raw' = [k \in DOMAIN fullRequestElements |-> Nil]
    BY DEF VerifyGrants
<1>2. UNCHANGED <<req, columnMap, fullRequestElements, outputIndexToInputIndex, turn, col, inserted,
                  sharedErr, dbRequestElements, dbRequestIndices, queries, data, status, response>>
    BY DEF VerifyGrants, grouped, loop
<1>3. /\ K \in Nat /\ DOMAIN fullRequestElements = 1 .. K
      /\ \A k \in DOMAIN fullRequestElements : fullRequestElements[k].source \in Source
    BY FullElementTypes DEF IInv
<1>4. /\ dbRequestElements = <<>> /\ dbRequestIndices = <<>> /\ status = Pending
    BY <1>1 DEF IInv, Stages, Before
<1> HIDE DEF K
<1>5. ownerUserIds' \in Seq(User \cup {NoUser}) /\ Len(ownerUserIds') = K
    <2>1. ownerUserIds' \in [1 .. K -> User \cup {NoUser}]
        BY <1>1, <1>3, QueryDataAssumption
    <2> QED
        BY <1>3, <2>1, FunctionsAreSequences
<1>6. gpc' \in Seq({"lookup", "check", "lock", "done"}) /\ Len(gpc') = K
    <2>1. gpc' \in [1 .. K -> {"lookup", "check", "lock", "done"}]
        BY <1>1, <1>3
    <2> QED
        BY <1>3, <2>1, FunctionsAreSequences
<1>7. raw' \in Seq(Rows \cup {Nil}) /\ Len(raw') = K /\ DOMAIN raw' = 1 .. K
    <2>1. raw' \in [1 .. K -> Rows \cup {Nil}]
        BY <1>1, <1>3
    <2> QED
        BY <1>3, <2>1, FunctionsAreSequences
<1>8. TypeOK'
    BY <1>1, <1>2, <1>5, <1>6, <1>7 DEF IInv, TypeOK
<1>9. Stages'
    BY <1>1, <1>2, <1>4, <1>5, <1>6, <1>7 DEF Stages, Before, K
<1>10. DbRequests' /\ RowsOfElements'
    <2>1. \A k \in DOMAIN raw' : raw'[k] = Nil
        BY <1>1, <1>3, <1>7
    <2> QED
        BY <1>1, <1>2, <1>4, <2>1 DEF DbRequests, RowsOfElements
<1> QED
    BY <1>1, <1>2, <1>8, <1>9, <1>10, FetchingKeeps DEF Running

(* What a goroutine finds of its own element when it runs.                 *)
LEMMA GoroutineContext ==
    ASSUME IInv, pc = "cache", NEW k \in DOMAIN gpc
    PROVE  /\ k \in DOMAIN fullRequestElements /\ k \in DOMAIN raw
           /\ fullRequestElements[k].source \in Source
           /\ gpc \in Seq({"lookup", "check", "lock", "done"}) /\ DOMAIN gpc = 1 .. Len(gpc)
           /\ raw \in Seq(Rows \cup {Nil}) /\ DOMAIN raw = 1 .. Len(raw)
           /\ \A n \in DOMAIN dbRequestIndices : dbRequestIndices[n] \in DOMAIN gpc
<1>1. TypeOK /\ Len(raw) = Len(fullRequestElements) /\ Len(gpc) = Len(fullRequestElements)
    BY DEF IInv, Stages, Running
<1>2. gpc \in Seq({"lookup", "check", "lock", "done"}) /\ raw \in Seq(Rows \cup {Nil})
    BY <1>1 DEF TypeOK
<1>3. DOMAIN gpc = 1 .. Len(gpc) /\ DOMAIN raw = 1 .. Len(raw)
    BY <1>2, LenProperties
<1>4. DOMAIN gpc = DOMAIN fullRequestElements
    BY <1>1, <1>3, FullElementTypes
<1>5. dbRequestIndices \in Seq(DOMAIN fullRequestElements)
    BY <1>1 DEF TypeOK
<1>6. \A n \in DOMAIN dbRequestIndices : dbRequestIndices[n] \in DOMAIN fullRequestElements
    BY <1>5, LenProperties, ElementOfSeq
<1> QED
    BY <1>1, <1>2, <1>3, <1>4, <1>6, FullElementTypes

LEMMA LookupKeeps ==
    ASSUME IInv, NEW k \in DOMAIN gpc, Lookup(k)
    PROVE  IInv'
<1> DEFINE src == fullRequestElements[k].source
<1>1. /\ pc = "cache" /\ pc' = "cache" /\ gpc[k] = "lookup" /\ gpc' = [gpc EXCEPT ![k] = "check"]
      /\ \/ /\ IsCachable(fullRequestElements[k])
            /\ raw' = [raw EXCEPT ![k] = CachedRow(src)]
         \/ raw' = raw
    BY DEF Lookup
<1>2. UNCHANGED <<req, columnMap, fullRequestElements, outputIndexToInputIndex, turn, col, inserted,
                  ownerUserIds, dbRequestElements, dbRequestIndices, queries, data, status, response>>
    BY DEF Lookup, grouped, loop
<1>3. /\ k \in DOMAIN fullRequestElements /\ k \in 1 .. Len(raw) /\ k \in 1 .. Len(gpc)
      /\ src \in Source
      /\ gpc \in Seq({"lookup", "check", "lock", "done"}) /\ DOMAIN gpc = 1 .. Len(gpc)
      /\ raw \in Seq(Rows \cup {Nil}) /\ DOMAIN raw = 1 .. Len(raw)
    BY <1>1, GoroutineContext
<1> HIDE DEF src
<1>4. sharedErr' \in BOOLEAN
    BY Zenon DEF Lookup
<1>5. /\ gpc' \in Seq({"lookup", "check", "lock", "done"}) /\ Len(gpc') = Len(gpc)
      /\ \A n \in DOMAIN gpc : n # k => gpc'[n] = gpc[n]
    BY <1>1, <1>3, ExceptSeq
<1>6. /\ raw' \in Seq(Rows \cup {Nil}) /\ Len(raw') = Len(raw) /\ DOMAIN raw' = DOMAIN raw
      /\ \A n \in DOMAIN raw :
            \/ raw'[n] = raw[n]
            \/ n = k /\ raw'[k] = CachedRow(src) /\ IsCachable(fullRequestElements[k])
    <2>1. CASE raw' = raw
        BY <1>3, <2>1
    <2>2. CASE IsCachable(fullRequestElements[k]) /\ raw' = [raw EXCEPT ![k] = CachedRow(src)]
        <3>1. CachedRow(src) \in Rows \cup {Nil}
            BY <1>3 DEF CachedRow, Rows
        <3>2. /\ raw' \in Seq(Rows \cup {Nil}) /\ Len(raw') = Len(raw)
              /\ \A n \in 1 .. Len(raw) : raw'[n] = IF n = k THEN CachedRow(src) ELSE raw[n]
            BY <1>3, <2>2, <3>1, ExceptSeq
        <3> QED
            BY <1>3, <2>2, <3>2, LenProperties
    <2> QED
        BY <1>1, <2>1, <2>2
<1>7. TypeOK'
    BY <1>1, <1>2, <1>4, <1>5, <1>6 DEF IInv, TypeOK
<1>8. Stages'
    BY <1>1, <1>2, <1>5, <1>6 DEF IInv, Stages, Before, Running
<1>9. DbRequests'
    <2>1. \A n \in DOMAIN dbRequestIndices : gpc[dbRequestIndices[n]] = "done"
        BY <1>1 DEF IInv, DbRequests
    <2>2. \A n \in DOMAIN dbRequestIndices : dbRequestIndices[n] \in DOMAIN gpc
        BY <1>1, GoroutineContext
    <2>3. \A n \in DOMAIN dbRequestIndices : gpc'[dbRequestIndices[n]] = "done"
        BY <1>1, <1>5, <2>1, <2>2
    <2> QED
        BY <1>1, <1>2, <2>3 DEF IInv, DbRequests
<1>10. RowsOfElements'
    BY <1>1, <1>2, <1>6 DEF IInv, RowsOfElements, IsCachable, src
<1> QED
    BY <1>1, <1>2, <1>7, <1>8, <1>9, <1>10, FetchingKeeps DEF Running

LEMMA CheckErrKeeps ==
    ASSUME IInv, NEW k \in DOMAIN gpc, CheckErr(k)
    PROVE  IInv'
<1>1. /\ pc = "cache" /\ pc' = "cache" /\ gpc[k] = "check"
      /\ gpc' = [gpc EXCEPT ![k] = IF sharedErr THEN "lock" ELSE "done"]
    BY DEF CheckErr
<1>2. UNCHANGED <<req, columnMap, fullRequestElements, outputIndexToInputIndex, turn, col, inserted,
                  ownerUserIds, sharedErr, raw, dbRequestElements, dbRequestIndices, queries, data,
                  status, response>>
    BY DEF CheckErr, grouped, loop
<1>3. /\ k \in 1 .. Len(gpc) /\ DOMAIN gpc = 1 .. Len(gpc)
      /\ gpc \in Seq({"lookup", "check", "lock", "done"})
    BY <1>1, GoroutineContext
<1>4. /\ gpc' \in Seq({"lookup", "check", "lock", "done"}) /\ Len(gpc') = Len(gpc)
      /\ \A n \in DOMAIN gpc : n # k => gpc'[n] = gpc[n]
    <2>1. PICK g \in {"lock", "done"} : gpc' = [gpc EXCEPT ![k] = g]
        BY <1>1
    <2> QED
        BY <1>3, <2>1, ExceptSeq
<1>5. TypeOK'
    BY <1>1, <1>2, <1>4 DEF IInv, TypeOK
<1>6. Stages'
    BY <1>1, <1>2, <1>4 DEF IInv, Stages, Before, Running
<1>7. DbRequests'
    <2>1. \A n \in DOMAIN dbRequestIndices : gpc[dbRequestIndices[n]] = "done"
        BY <1>1 DEF IInv, DbRequests
    <2>2. \A n \in DOMAIN dbRequestIndices : dbRequestIndices[n] \in DOMAIN gpc
        BY <1>1, GoroutineContext
    <2>3. \A n \in DOMAIN dbRequestIndices : gpc'[dbRequestIndices[n]] = "done"
        BY <1>1, <1>4, <2>1, <2>2
    <2> QED
        BY <1>1, <1>2, <2>3 DEF IInv, DbRequests
<1>8. RowsOfElements'
    BY <1>1, <1>2, KeepsRows DEF IInv
<1> QED
    BY <1>1, <1>2, <1>5, <1>6, <1>7, <1>8, FetchingKeeps DEF Running

(* Under the mutex: an element that is not done yet joins both lists.      *)
LEMMA Append2DbRequestKeeps ==
    ASSUME IInv, NEW k \in DOMAIN gpc, Append2DbRequest(k)
    PROVE  IInv'
<1> DEFINE elems == dbRequestElements
           inds == dbRequestIndices
           src == fullRequestElements[k].source
           L == Len(inds)
<1>1. /\ pc = "cache" /\ pc' = "cache" /\ gpc[k] = "lock" /\ gpc' = [gpc EXCEPT ![k] = "done"]
      /\ elems' = Append(elems, src) /\ inds' = Append(inds, k)
    BY DEF Append2DbRequest
<1>2. UNCHANGED <<req, columnMap, fullRequestElements, outputIndexToInputIndex, turn, col, inserted,
                  ownerUserIds, sharedErr, raw, queries, data, status, response>>
    BY DEF Append2DbRequest, grouped, loop
<1>3. /\ k \in DOMAIN fullRequestElements /\ k \in 1 .. Len(gpc) /\ src \in Source
      /\ gpc \in Seq({"lookup", "check", "lock", "done"}) /\ DOMAIN gpc = 1 .. Len(gpc)
      /\ \A n \in DOMAIN inds : inds[n] \in DOMAIN gpc
    BY <1>1, GoroutineContext
<1>4. /\ elems \in Seq(Source) /\ inds \in Seq(DOMAIN fullRequestElements)
      /\ L \in Nat /\ Len(elems) = L /\ DOMAIN elems = 1 .. L /\ DOMAIN inds = 1 .. L
    <2>1. elems \in Seq(Source) /\ inds \in Seq(DOMAIN fullRequestElements) /\ Len(elems) = L
        BY DEF IInv, TypeOK, DbRequests
    <2> QED
        BY <2>1, LenProperties
<1>5. /\ \A n \in 1 .. L : elems[n] = fullRequestElements[inds[n]].source
      /\ \A m, n \in 1 .. L : inds[m] = inds[n] => m = n
      /\ \A n \in 1 .. L : gpc[inds[n]] = "done"
    BY <1>1, <1>4 DEF IInv, DbRequests
<1> HIDE DEF elems, inds, src, L
<1>6. /\ elems' \in Seq(Source) /\ Len(elems') = L + 1 /\ DOMAIN elems' = 1 .. L + 1
      /\ \A n \in 1 .. L : elems'[n] = elems[n]
      /\ elems'[L + 1] = src
    BY <1>1, <1>3, <1>4, AppendBehind
<1>7. /\ inds' \in Seq(DOMAIN fullRequestElements) /\ Len(inds') = L + 1
      /\ DOMAIN inds' = 1 .. L + 1
      /\ \A n \in 1 .. L : inds'[n] = inds[n]
      /\ inds'[L + 1] = k
    BY <1>1, <1>3, <1>4, AppendBehind DEF L
<1>8. /\ gpc' \in Seq({"lookup", "check", "lock", "done"}) /\ Len(gpc') = Len(gpc)
      /\ gpc'[k] = "done" /\ \A n \in DOMAIN gpc : n # k => gpc'[n] = gpc[n]
    BY <1>1, <1>3, ExceptSeq
<1>9. TypeOK'
    BY <1>1, <1>2, <1>6, <1>7, <1>8 DEF IInv, TypeOK, elems, inds
<1>10. Stages'
    BY <1>1, <1>2, <1>8 DEF IInv, Stages, Before, Running
<1>11. DbRequests'
    <2>0. \A n \in 1 .. L + 1 : n \in 1 .. L \/ n = L + 1
        BY <1>4
    <2>1. \A n \in 1 .. L : inds[n] # k
        BY <1>1, <1>5
    <2>2. \A n \in DOMAIN elems' : elems'[n] = fullRequestElements[inds'[n]].source
        BY <1>5, <1>6, <1>7, <2>0 DEF src
    <2>3. \A m, n \in DOMAIN inds' : inds'[m] = inds'[n] => m = n
        BY <1>5, <1>7, <2>0, <2>1
    <2>4. \A n \in DOMAIN inds' : gpc'[inds'[n]] = "done"
        BY <1>3, <1>4, <1>5, <1>7, <1>8, <2>0
    <2> QED
        BY <1>1, <1>2, <1>6, <1>7, <2>2, <2>3, <2>4 DEF DbRequests, elems, inds
<1>12. RowsOfElements'
    BY <1>1, <1>2, KeepsRows DEF IInv
<1> QED
    BY <1>1, <1>2, <1>9, <1>10, <1>11, <1>12, FetchingKeeps DEF Running

LEMMA CacheDoneKeeps ==
    ASSUME IInv, CacheDone
    PROVE  IInv'
<1>1. pc = "cache" /\ pc' = "generate"
    BY DEF CacheDone
<1>2. UNCHANGED <<req, columnMap, fullRequestElements, outputIndexToInputIndex, turn, col, inserted,
                  ownerUserIds, gpc, sharedErr, raw, dbRequestElements, dbRequestIndices, queries,
                  data, status, response>>
    BY DEF CacheDone, grouped, loop, fetched
<1>3. TypeOK'
    BY <1>1, <1>2 DEF IInv, TypeOK
<1>4. Stages'
    BY <1>1, <1>2 DEF IInv, Stages, Before, Running
<1>5. DbRequests' /\ RowsOfElements'
    BY <1>1, <1>2, KeepsDbRequests, KeepsRows DEF IInv
<1> QED
    BY <1>1, <1>2, <1>3, <1>4, <1>5, FetchingKeeps DEF Running

(* Each element is asked for once, so there are no more of them than       *)
(* owners: GenerateQueries never indexes beyond ownerUserIds.              *)
LEMMA OwnersSuffice ==
    ASSUME IInv, pc = "generate"
    PROVE  /\ dbRequestElements \in Seq(Source) /\ Len(dbRequestElements) \in Nat
           /\ DOMAIN dbRequestElements = 1 .. Len(dbRequestElements)
           /\ \A n \in DOMAIN dbRequestElements : /\ dbRequestElements[n] \in Source
                                                  /\ ownerUserIds[n] \in User \cup {NoUser}
<1> DEFINE L == Len(dbRequestElements)
           K == Len(fullRequestElements)
<1>1. /\ TypeOK /\ dbRequestElements \in Seq(Source) /\ Len(dbRequestIndices) = L
      /\ dbRequestIndices \in Seq(DOMAIN fullRequestElements)
      /\ ownerUserIds \in Seq(User \cup {NoUser}) /\ Len(ownerUserIds) = K
      /\ \A m, n \in DOMAIN dbRequestIndices : dbRequestIndices[m] = dbRequestIndices[n] => m = n
    BY DEF IInv, TypeOK, Stages, DbRequests
<1>2. /\ L \in Nat /\ DOMAIN dbRequestElements = 1 .. L /\ DOMAIN dbRequestIndices = 1 .. L
      /\ \A n \in 1 .. L : dbRequestElements[n] \in Source
      /\ dbRequestIndices \in [1 .. L -> DOMAIN fullRequestElements]
    BY <1>1, LenProperties, ElementOfSeq
<1>3. K \in Nat /\ DOMAIN fullRequestElements = 1 .. K
    BY <1>1, FullElementTypes
<1> HIDE DEF L, K
<1>4. L <= K
    <2> SUFFICES ASSUME L > K PROVE FALSE
        BY <1>2, <1>3
    <2>1. /\ IsFiniteSet(1 .. L) /\ Cardinality(1 .. L) = L
          /\ IsFiniteSet(1 .. K) /\ Cardinality(1 .. K) = K
        BY <1>2, <1>3, FS_Interval
    <2>2. \E m, n \in 1 .. L : m # n /\ dbRequestIndices[m] = dbRequestIndices[n]
        BY <1>2, <1>3, <2>1, FS_PigeonHole
    <2> QED
        BY <1>1, <1>2, <2>2
<1>5. \A n \in 1 .. L : n \in 1 .. Len(ownerUserIds)
    BY <1>1, <1>2, <1>3, <1>4 DEF K
<1>6. \A n \in 1 .. L : ownerUserIds[n] \in User \cup {NoUser}
    BY <1>1, <1>5, ElementOfSeq
<1> QED
    BY <1>1, <1>2, <1>6 DEF L

LEMMA GenerateQueriesKeeps ==
    ASSUME IInv, GenerateQueries
    PROVE  IInv'
<1> DEFINE L == Len(dbRequestElements)
<1>1. /\ pc = "generate" /\ pc' = "execute"
      /\ queries' = [n \in DOMAIN dbRequestElements |->
                        tableName(dbRequestElements[n], ownerUserIds[n], FALSE)]
    BY DEF GenerateQueries
<1>2. UNCHANGED <<req, columnMap, fullRequestElements, outputIndexToInputIndex, turn, col, inserted,
                  ownerUserIds, gpc, sharedErr, raw, dbRequestElements, dbRequestIndices, data,
                  status, response>>
    BY DEF GenerateQueries, grouped, loop
<1>3. /\ L \in Nat /\ DOMAIN dbRequestElements = 1 .. L
      /\ \A n \in 1 .. L : /\ dbRequestElements[n] \in Source
                           /\ ownerUserIds[n] \in User \cup {NoUser}
    BY <1>1, OwnersSuffice
<1> HIDE DEF L
<1>4. \A n \in 1 .. L : /\ tableName(dbRequestElements[n], ownerUserIds[n], FALSE) \in Table
                        /\ tableName(dbRequestElements[n], ownerUserIds[n], FALSE).source
                                = dbRequestElements[n]
    BY <1>3 DEF tableName, Table
<1>5. queries' \in Seq(Table) /\ Len(queries') = L /\ DOMAIN queries' = 1 .. L
    <2>1. queries' \in [1 .. L -> Table]
        BY <1>1, <1>3, <1>4
    <2> QED
        BY <1>3, <2>1, FunctionsAreSequences
<1>6. \A n \in DOMAIN queries' : queries'[n].source = dbRequestElements[n]
    BY <1>1, <1>3, <1>4, <1>5
<1>7. TypeOK'
    BY <1>1, <1>2, <1>5 DEF IInv, TypeOK
<1>8. Stages'
    BY <1>1, <1>2 DEF IInv, Stages, Before, Running
<1>9. DbRequests'
    BY <1>1, <1>2, <1>5, <1>6 DEF IInv, DbRequests, L
<1>10. RowsOfElements'
    BY <1>1, <1>2, KeepsRows DEF IInv
<1> QED
    BY <1>1, <1>2, <1>7, <1>8, <1>9, <1>10, FetchingKeeps DEF Running

LEMMA ExecuteQueriesKeeps ==
    ASSUME IInv, ExecuteQueries
    PROVE  IInv'
<1>1. pc = "execute" /\ pc' = "merge" /\ data' = ExecData(queries)
    BY DEF ExecuteQueries
<1>2. UNCHANGED <<req, columnMap, fullRequestElements, outputIndexToInputIndex, turn, col, inserted,
                  ownerUserIds, gpc, sharedErr, raw, dbRequestElements, dbRequestIndices, queries,
                  status, response>>
    BY DEF ExecuteQueries, grouped, loop
<1>3. queries \in Seq(Table) /\ Len(queries) \in Nat /\ DOMAIN queries = 1 .. Len(queries)
    BY LenProperties DEF IInv, TypeOK
<1>4. \A n \in DOMAIN queries : DbRows(queries[n].source) \in Rows
    <2>1. \A n \in DOMAIN queries : queries[n] \in Table
        BY <1>3, ElementOfSeq
    <2> QED
        BY <2>1 DEF Table, DbRows, Rows
<1>5. data' \in Seq(Rows)
    <2>1. data' \in [1 .. Len(queries) -> Rows]
        BY <1>1, <1>3, <1>4 DEF ExecData
    <2> QED
        BY <1>3, <2>1, FunctionsAreSequences
<1>6. TypeOK'
    BY <1>1, <1>2, <1>5 DEF IInv, TypeOK
<1>7. Stages'
    BY <1>1, <1>2 DEF IInv, Stages, Before, Running
<1>8. DbRequests'
    BY <1>1, <1>2 DEF IInv, DbRequests
<1>9. RowsOfElements'
    BY <1>1, <1>2, KeepsRows DEF IInv
<1> QED
    BY <1>1, <1>2, <1>6, <1>7, <1>8, <1>9, FetchingKeeps DEF Running

LEMMA MergeKeeps ==
    ASSUME IInv, Merge
    PROVE  IInv'
<1> DEFINE Fetched(k) == data[CHOOSE n \in DOMAIN data : dbRequestIndices[n] = k]
           Src(k) == fullRequestElements[k].source
<1>1. /\ pc = "merge" /\ pc' = "format"
      /\ raw' = [k \in DOMAIN raw |->
                    IF k \in Range(dbRequestIndices) THEN Fetched(k) ELSE raw[k]]
    BY DEF Merge
<1>2. UNCHANGED <<req, columnMap, fullRequestElements, outputIndexToInputIndex, turn, col, inserted,
                  ownerUserIds, gpc, sharedErr, dbRequestElements, dbRequestIndices, queries, data,
                  status, response>>
    BY DEF Merge, grouped, loop
<1>3. /\ raw \in Seq(Rows \cup {Nil}) /\ Len(raw) \in Nat /\ DOMAIN raw = 1 .. Len(raw)
      /\ \A k \in DOMAIN raw : raw[k] \in Rows \cup {Nil}
    BY LenProperties, ElementOfSeq DEF IInv, TypeOK
<1>4. /\ DOMAIN dbRequestIndices = DOMAIN data /\ DOMAIN queries = DOMAIN data
      /\ DOMAIN dbRequestElements = DOMAIN data
    <2>1. /\ queries \in Seq(Table) /\ dbRequestElements \in Seq(Source)
          /\ dbRequestIndices \in Seq(DOMAIN fullRequestElements)
          /\ Len(queries) = Len(dbRequestElements)
          /\ Len(dbRequestElements) = Len(dbRequestIndices)
          /\ data = ExecData(queries)
        BY <1>1 DEF IInv, TypeOK, DbRequests
    <2> QED
        BY <2>1, LenProperties DEF ExecData
<1>5. ASSUME NEW n \in DOMAIN data
      PROVE  data[n] = DbRows(Src(dbRequestIndices[n]))
    BY <1>1, <1>4 DEF IInv, DbRequests, ExecData
<1> HIDE DEF Src
<1>6. ASSUME NEW k \in Range(dbRequestIndices)
      PROVE  Fetched(k) = DbRows(Src(k)) /\ Fetched(k) \in Rows
    <2>1. \E n \in DOMAIN data : dbRequestIndices[n] = k
        BY <1>4 DEF Range
    <2>2. Fetched(k) = DbRows(Src(k)) /\ \E n \in DOMAIN data : Fetched(k) = data[n]
        BY <1>5, <2>1
    <2>3. data \in Seq(Rows)
        BY DEF IInv, TypeOK
    <2> QED
        BY <2>2, <2>3, LenProperties, ElementOfSeq
<1> HIDE DEF Fetched
<1>7. /\ raw' \in Seq(Rows \cup {Nil}) /\ Len(raw') = Len(raw) /\ DOMAIN raw' = DOMAIN raw
      /\ \A k \in DOMAIN raw : raw'[k] = raw[k] \/ raw'[k] = DbRows(Src(k))
    <2>1. raw' \in [1 .. Len(raw) -> Rows \cup {Nil}]
        BY <1>1, <1>3, <1>6
    <2>2. raw' \in Seq(Rows \cup {Nil}) /\ Len(raw') = Len(raw) /\ DOMAIN raw' = DOMAIN raw
        BY <1>3, <2>1, FunctionsAreSequences
    <2> QED
        BY <1>1, <1>6, <2>2
<1>8. TypeOK'
    BY <1>1, <1>2, <1>7 DEF IInv, TypeOK
<1>9. Stages'
    BY <1>1, <1>2, <1>7 DEF IInv, Stages, Before, Running
<1>10. DbRequests'
    BY <1>1, <1>2, KeepsDbRequests DEF IInv
<1>11. RowsOfElements'
    BY <1>1, <1>2, <1>7 DEF IInv, RowsOfElements, IsCachable, Src
<1> QED
    BY <1>1, <1>2, <1>8, <1>9, <1>10, <1>11, FetchingKeeps DEF Running

-----------------------------------------------------------------------------
(* The loops that put the values in place.                                 *)

LEMMA FormatResponseKeeps ==
    ASSUME IInv, FormatResponse
    PROVE  IInv'
<1> DEFINE K == Len(fullRequestElements)
<1>1. /\ pc = "format" /\ pc' = "respond" /\ turn' = 1 /\ col' = 1 /\ inserted' = 0
      /\ \A k \in DOMAIN raw : raw[k] # Nil
      /\ response' = [i \in DOMAIN req |-> NoValue]
    BY DEF FormatResponse
<1>2. UNCHANGED <<req, columnMap, fullRequestElements, outputIndexToInputIndex, ownerUserIds, gpc,
                  sharedErr, raw, dbRequestElements, dbRequestIndices, queries, data, status>>
    BY DEF FormatResponse, grouped, fetched
<1>3. /\ Len(req) \in Nat /\ DOMAIN req = 1 .. Len(req)
      /\ K \in Nat /\ DOMAIN fullRequestElements = 1 .. K
      /\ \A k \in 1 .. K : Len(fullRequestElements[k].columns) \in Nat
    BY RequestTypes, FullElementTypes DEF IInv
<1> HIDE DEF K
<1>4. response' \in Seq(Value \cup {NoValue}) /\ Len(response') = Len(req)
    <2>1. response' \in [1 .. Len(req) -> Value \cup {NoValue}]
        BY <1>1, <1>3
    <2> QED
        BY <1>3, <2>1, FunctionsAreSequences
<1>5. TypeOK'
    BY <1>1, <1>2, <1>4 DEF IInv, TypeOK
<1>6. Stages' /\ PutSoFar'
    <2>1. Stages'
        BY <1>1, <1>2 DEF IInv, Stages, Before, Running
    <2>2. 1 .. 0 = {}
        OBVIOUS
    <2> QED
        BY <1>1, <1>2, <1>4, <2>1, <2>2 DEF PutSoFar
<1>7. ColumnMapFilled' /\ NothingUngrouped'
    BY <1>1, <1>2, KeepsColumns, KeepsGrouping DEF IInv, Running
<1>8. ElementsInPlace'
    <2>1. PICK places \in [1 .. K + 1 -> 0 .. Len(outputIndexToInputIndex)] : Outputs(places)
        BY DEF IInv, ElementsInPlace, K
    <2>2. /\ 1 <= K + 1
          /\ 1 <= K => 1 <= Len(fullRequestElements[1].columns) + 1
          /\ 0 + 1 = places[1] + 1
        BY <1>3, <2>1 DEF Outputs
    <2>3. Outputs(places)'
        BY <1>1, <1>2, <2>1, <2>2 DEF Outputs, K
    <2> QED
        BY <1>2, <2>1, <2>3 DEF ElementsInPlace, K
<1>9. DbRequests' /\ ValuesInPlace'
    <2>1. status' = Pending
        BY <1>1, <1>2 DEF IInv, Stages
    <2> QED
        BY <1>1, <1>2, <2>1, KeepsDbRequests DEF IInv, ValuesInPlace, Pending
<1>10. RowsOfElements'
    BY <1>1, <1>2 DEF IInv, RowsOfElements, IsCachable
<1> QED
    BY <1>5, <1>6, <1>7, <1>8, <1>9, <1>10 DEF IInv

(* Rows of a full element are right for every column in it: from the cache *)
(* they only come when none of the columns is computed.                    *)
LEMMA RowsFitColumns ==
    ASSUME IInv, pc = "respond", NEW k \in DOMAIN fullRequestElements,
           NEW j \in DOMAIN fullRequestElements[k].columns
    PROVE  /\ raw[k] \in RowsFor(fullRequestElements[k].source)
           /\ fullRequestElements[k].columns[j] \in MathColumn
                => raw[k] = DbRows(fullRequestElements[k].source)
           /\ raw[k] \in Rows /\ fullRequestElements[k].columns[j] \in Column
<1> DEFINE src == fullRequestElements[k].source
<1>1. /\ TypeOK /\ raw \in Seq(Rows \cup {Nil}) /\ Len(raw) = Len(fullRequestElements)
    BY DEF IInv, TypeOK, Stages, Running
<1>2. k \in DOMAIN raw /\ src \in Source /\ fullRequestElements[k].columns \in Seq(Column)
    BY <1>1, FullElementTypes, LenProperties
<1>3. \/ raw[k] = DbRows(src)
      \/ raw[k] = CachedRow(src) /\ IsCachable(fullRequestElements[k])
    BY <1>2 DEF IInv, RowsOfElements
<1>4. fullRequestElements[k].columns[j] \in Range(fullRequestElements[k].columns)
    BY DEF Range
<1>5. fullRequestElements[k].columns[j] \in Column
    BY <1>2, LenProperties, ElementOfSeq
<1>6. raw[k] \in Rows
    BY <1>2, <1>3 DEF Rows, DbRows, CachedRow
<1> QED
    BY <1>3, <1>4, <1>5, <1>6 DEF IsCachable, RowsFor

LEMMA PutValueKeeps ==
    ASSUME IInv, PutValue
    PROVE  IInv'
<1> DEFINE K == Len(fullRequestElements)
           full == fullRequestElements
           outs == outputIndexToInputIndex
           at == outs[inserted + 1]
           value == [rows |-> raw[turn], column |-> full[turn].columns[col]]
<1>1. /\ pc = "respond" /\ pc' = "respond" /\ turn <= K /\ col <= Len(full[turn].columns)
      /\ response' = [response EXCEPT ![at] = value]
      /\ turn' = turn /\ col' = col + 1 /\ inserted' = inserted + 1
    BY DEF PutValue
<1>2. UNCHANGED <<req, columnMap, fullRequestElements, outputIndexToInputIndex, ownerUserIds, gpc,
                  sharedErr, raw, dbRequestElements, dbRequestIndices, queries, data, status>>
    BY DEF PutValue, grouped, fetched
<1>3. /\ TypeOK /\ turn \in Nat \ {0} /\ col \in Nat \ {0} /\ inserted \in Nat
      /\ response \in Seq(Value \cup {NoValue}) /\ Len(response) = Len(req)
    BY <1>1 DEF IInv, TypeOK, PutSoFar
<1>4. /\ turn \in DOMAIN full /\ col \in DOMAIN full[turn].columns
      /\ Len(full[turn].columns) \in Nat /\ K \in Nat
    BY <1>1, <1>3, FullElementTypes
<1>5. PICK places \in [1 .. K + 1 -> 0 .. Len(outs)] : Outputs(places)
    BY DEF IInv, ElementsInPlace
<1>6. /\ inserted + 1 = places[turn] + col
      /\ places[turn] + col \in DOMAIN outs
      /\ req[outs[places[turn] + col]] =
            [source |-> full[turn].source, column |-> full[turn].columns[col]]
    BY <1>1, <1>4, <1>5 DEF Outputs
<1>7. /\ inserted + 1 \in DOMAIN outs /\ at \in DOMAIN req
      /\ req[at].source = full[turn].source /\ req[at].column = full[turn].columns[col]
    <2>1. inserted + 1 \in DOMAIN outs
        BY <1>6
    <2>2. at \in DOMAIN req
        BY <1>3, <2>1, OutputTypes
    <2>3. req[at] = [source |-> full[turn].source, column |-> full[turn].columns[col]]
        BY <1>6
    <2> QED
        BY <2>1, <2>2, <2>3
<1>8. /\ raw[turn] \in RowsFor(full[turn].source)
      /\ full[turn].columns[col] \in MathColumn => raw[turn] = DbRows(full[turn].source)
      /\ value \in Value \cup {NoValue}
    <2>1. /\ raw[turn] \in RowsFor(full[turn].source)
          /\ full[turn].columns[col] \in MathColumn => raw[turn] = DbRows(full[turn].source)
          /\ raw[turn] \in Rows /\ full[turn].columns[col] \in Column
        BY <1>1, <1>4, RowsFitColumns
    <2>2. value \in Value
        BY <2>1 DEF Value
    <2> QED
        BY <2>1, <2>2
<1>9. value.rows = raw[turn] /\ value.column = full[turn].columns[col]
    OBVIOUS
<1>10. at \in 1 .. Len(response)
    BY <1>3, <1>7, RequestTypes
<1>11. \A n \in 1 .. inserted : outs[n] \in 1 .. Len(response)
    <2>1. \A n \in 1 .. inserted : n \in DOMAIN outs
        BY <1>3, <1>7, OutputTypes
    <2> QED
        BY <1>3, <2>1, OutputTypes, RequestTypes
<1> HIDE DEF K, full, outs, at, value
<1>12. /\ response' \in Seq(Value \cup {NoValue}) /\ Len(response') = Len(response)
       /\ \A i \in 1 .. Len(response) : response'[i] = IF i = at THEN value ELSE response[i]
    BY <1>1, <1>3, <1>8, <1>10, ExceptSeq
<1>13. TypeOK'
    <2>1. turn' \in Nat \ {0} /\ col' \in Nat \ {0} /\ inserted' \in Nat
        BY <1>1, <1>3
    <2> QED
        BY <1>1, <1>2, <1>3, <1>12, <2>1 DEF TypeOK
<1>14. Stages'
    BY <1>1, <1>2 DEF IInv, Stages, Before, Running
<1>15. ColumnMapFilled' /\ NothingUngrouped'
    BY <1>1, <1>2, KeepsColumns, KeepsGrouping DEF IInv
<1>16. ElementsInPlace'
    <2>0. places[turn] \in Nat
        <3>1. turn \in 1 .. K + 1 /\ Len(outs) \in Nat
            BY <1>1, <1>3, <1>4, OutputTypes DEF outs
        <3> QED
            BY <1>5, <3>1
    <2>1. /\ turn <= K /\ col + 1 <= Len(full[turn].columns) + 1
          /\ inserted + 1 + 1 = places[turn] + (col + 1)
        BY <1>1, <1>3, <1>4, <1>6, <2>0
    <2>2. turn <= K + 1 /\ ~ (turn > K)
        BY <1>1, <1>3, <1>4
    <2>3. Outputs(places)'
        <3>1. /\ places[1] = 0 /\ places[K + 1] = Len(outs)
              /\ \A k \in DOMAIN full :
                    /\ places[k + 1] = places[k] + Len(full[k].columns)
                    /\ \A j \in DOMAIN full[k].columns :
                        /\ places[k] + j \in DOMAIN outs
                        /\ req[outs[places[k] + j]] =
                                [source |-> full[k].source, column |-> full[k].columns[j]]
            BY <1>5 DEF Outputs, K, full, outs
        <3>2. full' = full /\ outs' = outs /\ K' = K /\ req' = req
            BY <1>2 DEF full, outs, K
        <3> QED
            BY <1>1, <2>1, <2>2, <3>1, <3>2 DEF Outputs, K, full, outs
    <2> QED
        BY <1>2, <1>5, <2>3 DEF ElementsInPlace, K, outs
<1>17. PutSoFar'
    <2>1. \A n \in 1 .. inserted : InPlace(outs[n])
        BY <1>1 DEF IInv, PutSoFar, outs
    <2>2. ASSUME NEW i \in 1 .. Len(response), i # at, InPlace(i)
          PROVE  InPlace(i)'
        <3>1. response'[i] = response[i] /\ req' = req
            BY <1>2, <1>12, <2>2
        <3> QED
            BY <2>2, <3>1 DEF InPlace
    <2>3. /\ response'[at].column = req[at].column
          /\ response'[at].rows \in RowsFor(req[at].source)
          /\ req[at].column \in MathColumn => response'[at].rows = DbRows(req[at].source)
        <3>1. response'[at] = value
            BY <1>10, <1>12
        <3> QED
            BY <1>7, <1>8, <1>9, <3>1
    <2>4. ASSUME NEW n \in 1 .. inserted + 1
          PROVE  /\ response'[outs[n]].column = req[outs[n]].column
                 /\ response'[outs[n]].rows \in RowsFor(req[outs[n]].source)
                 /\ req[outs[n]].column \in MathColumn
                        => response'[outs[n]].rows = DbRows(req[outs[n]].source)
        <3>1. CASE outs[n] = at
            BY <2>3, <3>1
        <3>2. CASE outs[n] # at
            <4>1. n \in 1 .. inserted
                BY <1>3, <3>2 DEF at
            <4>2. InPlace(outs[n]) /\ response'[outs[n]] = response[outs[n]]
                BY <1>11, <1>12, <2>1, <3>2, <4>1
            <4> QED
                BY <4>2 DEF InPlace
        <3> QED
            BY <3>1, <3>2
    <2> QED
        BY <1>1, <1>2, <1>3, <1>12, <2>4 DEF PutSoFar, InPlace, outs
<1>18. DbRequests' /\ RowsOfElements'
    BY <1>1, <1>2, KeepsDbRequests, KeepsRows DEF IInv
<1>19. ValuesInPlace'
    <2>1. status' = Pending
        BY <1>1, <1>2 DEF IInv, Stages
    <2> QED
        BY <2>1 DEF ValuesInPlace, Pending
<1> QED
    BY <1>13, <1>14, <1>15, <1>16, <1>17, <1>18, <1>19 DEF IInv

LEMMA NextSeriesKeeps ==
    ASSUME IInv, NextSeries
    PROVE  IInv'
<1> DEFINE K == Len(fullRequestElements)
           full == fullRequestElements
           outs == outputIndexToInputIndex
<1>1. /\ pc = "respond" /\ pc' = "respond" /\ turn <= K /\ col > Len(full[turn].columns)
      /\ turn' = turn + 1 /\ col' = 1
    BY DEF NextSeries
<1>2. UNCHANGED <<req, columnMap, fullRequestElements, outputIndexToInputIndex, inserted,
                  ownerUserIds, gpc, sharedErr, raw, dbRequestElements, dbRequestIndices, queries,
                  data, status, response>>
    BY DEF NextSeries, grouped, fetched
<1>3. /\ TypeOK /\ turn \in Nat \ {0} /\ col \in Nat \ {0} /\ inserted \in Nat
    BY DEF IInv, TypeOK
<1>4. /\ turn \in DOMAIN full /\ K \in Nat /\ DOMAIN full = 1 .. K
      /\ \A k \in DOMAIN full : Len(full[k].columns) \in Nat
    BY <1>1, <1>3, FullElementTypes
<1>5. PICK places \in [1 .. K + 1 -> 0 .. Len(outs)] : Outputs(places)
    BY DEF IInv, ElementsInPlace
<1>6. /\ places[1] = 0 /\ places[K + 1] = Len(outs)
      /\ \A k \in DOMAIN full :
            /\ places[k + 1] = places[k] + Len(full[k].columns)
            /\ \A j \in DOMAIN full[k].columns :
                /\ places[k] + j \in DOMAIN outs
                /\ req[outs[places[k] + j]] =
                        [source |-> full[k].source, column |-> full[k].columns[j]]
      /\ col <= Len(full[turn].columns) + 1 /\ inserted + 1 = places[turn] + col
    BY <1>1, <1>5 DEF Outputs
<1>7. places[turn] \in Nat /\ places[turn + 1] \in Nat
    <2>1. turn \in 1 .. K + 1 /\ turn + 1 \in 1 .. K + 1
        BY <1>4
    <2>2. Len(outs) \in Nat
        BY <1>3, OutputTypes
    <2> QED
        BY <1>5, <2>1, <2>2
<1> HIDE DEF K, full, outs
<1>8. /\ turn + 1 <= K + 1
      /\ turn + 1 <= K => 1 <= Len(full[turn + 1].columns) + 1
      /\ inserted + 1 = places[turn + 1] + 1
    <2>0. /\ Len(full[turn].columns) \in Nat
          /\ places[turn + 1] = places[turn] + Len(full[turn].columns)
        BY <1>4, <1>6
    <2>1. col = Len(full[turn].columns) + 1
        BY <1>1, <1>3, <1>6, <2>0
    <2>2. inserted + 1 = places[turn + 1] + 1
        <3>1. inserted + 1 = places[turn] + col
            BY <1>6
        <3> QED
            BY <1>3, <1>7, <2>0, <2>1, <3>1
    <2>3. turn + 1 <= K => turn + 1 \in DOMAIN full
        BY <1>3, <1>4
    <2> QED
        BY <1>1, <1>3, <1>4, <2>2, <2>3
<1>9. TypeOK'
    BY <1>1, <1>2, <1>3 DEF TypeOK
<1>10. Stages' /\ PutSoFar'
    BY <1>1, <1>2 DEF IInv, Stages, Before, Running, PutSoFar, InPlace
<1>11. ColumnMapFilled' /\ NothingUngrouped'
    BY <1>1, <1>2, KeepsColumns, KeepsGrouping DEF IInv
<1>12. ElementsInPlace'
    <2>1. full' = full /\ outs' = outs /\ K' = K /\ req' = req /\ inserted' = inserted
        BY <1>2 DEF full, outs, K
    <2>2. Outputs(places)'
        BY <1>1, <1>6, <1>8, <2>1 DEF Outputs, K, full, outs
    <2> QED
        BY <1>2, <1>5, <2>2 DEF ElementsInPlace, K, outs
<1>13. DbRequests' /\ RowsOfElements' /\ ValuesInPlace'
    BY <1>1, <1>2, KeepsDbRequests, KeepsRows, KeepsValues DEF IInv
<1> QED
    BY <1>9, <1>10, <1>11, <1>12, <1>13 DEF IInv

(* The answer is given when all columns are inserted, and all elements of  *)
(* the request are among their places.                                     *)
LEMMA RespondKeeps ==
    ASSUME IInv, Respond
    PROVE  IInv'
<1> DEFINE K == Len(fullRequestElements)
           outs == outputIndexToInputIndex
<1>1. pc = "respond" /\ pc' = "idle" /\ status' = 200 /\ turn > K
    BY DEF Respond
<1>2. UNCHANGED <<req, columnMap, fullRequestElements, outputIndexToInputIndex, turn, col, inserted,
                  ownerUserIds, gpc, sharedErr, raw, dbRequestElements, dbRequestIndices, queries,
                  data, response>>
    BY DEF Respond, grouped, loop, fetched
<1>3. TypeOK'
    BY <1>1, <1>2 DEF IInv, TypeOK
<1>4. Stages' /\ PutSoFar'
    BY <1>1 DEF Stages, Before, Running, PutSoFar, Pending
<1>5. ColumnMapFilled' /\ ElementsInPlace' /\ NothingUngrouped'
    BY <1>1, <1>2, KeepsColumns, KeepsElements, KeepsGrouping DEF IInv, Running
<1>6. DbRequests' /\ RowsOfElements'
    BY <1>1, <1>2, KeepsDbRequests, KeepsRows DEF IInv
<1>7. ValuesInPlace'
    <2>1. TypeOK /\ turn \in Nat /\ inserted \in Nat /\ K \in Nat
        BY FullElementTypes DEF IInv, TypeOK
    <2>2. PICK places \in [1 .. K + 1 -> 0 .. Len(outs)] : Outputs(places)
        BY DEF IInv, ElementsInPlace
    <2>3. turn = K + 1 /\ inserted + 1 = Len(outs) + 1
        <3>1. turn <= K + 1
            BY <1>1, <2>2 DEF Outputs
        <3>2. turn = K + 1
            BY <1>1, <2>1, <3>1
        <3>3. inserted + 1 = places[turn] + col /\ col = 1 /\ places[K + 1] = Len(outs)
            BY <1>1, <2>2 DEF Outputs
        <3> QED
            BY <3>2, <3>3
    <2>4. Len(outs) \in Nat /\ DOMAIN outs = 1 .. Len(outs)
        BY <2>1, OutputTypes
    <2>5. DOMAIN outs = 1 .. inserted
        <3> DEFINE n == Len(outs)
        <3>1. n \in Nat /\ inserted \in Nat /\ inserted + 1 = n + 1
            BY <2>1, <2>3, <2>4
        <3> HIDE DEF n
        <3>2. inserted = n
            BY <3>1
        <3>3. inserted = Len(outs)
            BY <3>2 DEF n
        <3> QED
            BY <2>4, <3>3
    <2>6. \A i \in DOMAIN req : InPlace(i)
        <3> SUFFICES ASSUME NEW i \in DOMAIN req PROVE InPlace(i)
            OBVIOUS
        <3>1. i \in Range(outs)
            BY <1>1 DEF IInv, NothingUngrouped, Running
        <3>2. PICK n \in DOMAIN outs : outs[n] = i
            BY <3>1 DEF Range
        <3> QED
            BY <1>1, <2>5, <3>2 DEF IInv, PutSoFar
    <2>7. DOMAIN response = DOMAIN req
        <3>1. response \in Seq(Value \cup {NoValue}) /\ Len(response) = Len(req)
            BY <1>1 DEF IInv, TypeOK, PutSoFar
        <3> QED
            BY <2>1, <3>1, RequestTypes, LenProperties
    <2> QED
        BY <1>2, <2>6, <2>7 DEF ValuesInPlace, InPlace
<1> QED
    BY <1>3, <1>4, <1>5, <1>6, <1>7 DEF IInv

LEMMA StutteringKeeps ==
    ASSUME IInv, UNCHANGED vars
    PROVE  IInv'
<1>1. UNCHANGED <<pc, req, columnMap, fullRequestElements, outputIndexToInputIndex, turn, col,
                  inserted, ownerUserIds, gpc, sharedErr, raw, dbRequestElements, dbRequestIndices,
                  queries, data, status, response>>
    BY DEF vars, grouped, loop, fetched
<1>2. TypeOK' /\ Stages' /\ ColumnMapFilled' /\ NothingUngrouped'
    BY <1>1 DEF IInv, TypeOK, Stages, ColumnMapFilled, NothingUngrouped
<1>3. ElementsInPlace'
    <2>1. PICK places \in [1 .. Len(fullRequestElements) + 1 -> 0 .. Len(outputIndexToInputIndex)] :
            Outputs(places)
        BY DEF IInv, ElementsInPlace
    <2>2. Outputs(places)'
        BY <1>1, <2>1 DEF Outputs
    <2> QED
        BY <1>1, <2>1, <2>2 DEF ElementsInPlace
<1>4. DbRequests' /\ RowsOfElements' /\ PutSoFar' /\ ValuesInPlace'
    BY <1>1, KeepsRows, KeepsValues DEF IInv, DbRequests, PutSoFar, InPlace
<1> QED
    BY <1>2, <1>3, <1>4 DEF IInv

-----------------------------------------------------------------------------
LEMMA OneIsABody ==
    ASSUME NEW e \in RequestElement
    PROVE  <<e>> \in Bodies
<1>1. <<e>> \in [1 .. 1 -> RequestElement] /\ 1 \in 0 .. MaxElements
    BY LastValuesAssumption
<1> QED
    BY <1>1 DEF Bodies

LEMMA RequestsKeep ==
    ASSUME IInv,
           \/ \E e \in RequestElement : RawValue(e)
           \/ \E es \in Bodies : Receive(es)
    PROVE  IInv'
BY OneIsABody, ReceiveKeeps DEF RawValue

(* The middleware answers every failure with a status of an error.         *)
LEMMA FailureCodes ==
    ASSUME RejectBody \/ VerifyFails \/ GenerateFails \/ ExecuteFails \/ FormatFails
    PROVE  \E code \in FailureStatus : Fail(code) /\ pc # "idle"
<1>1. ASSUME NEW code \in ExecErrors(queries) PROVE GetStatusCode(code) \in FailureStatus
    BY DEF ExecErrors, DbErrorCode, GetStatusCode, FailureStatus
<1>2. CASE ExecuteFails
    BY <1>1, <1>2 DEF ExecuteFails
<1>3. CASE RejectBody \/ VerifyFails \/ GenerateFails \/ FormatFails
    BY <1>3 DEF RejectBody, VerifyFails, GenerateFails, FormatFails, FailureStatus
<1> QED
    BY <1>2, <1>3

LEMMA FailuresKeep ==
    ASSUME IInv,
           RejectBody \/ VerifyFails \/ GenerateFails \/ ExecuteFails \/ FormatFails
    PROVE  IInv'
BY FailureCodes, FailKeeps

(* The inductive invariant of the handler: the columns of the full         *)
(* elements, one behind the other, are the columns of the request in the   *)
(* order outputIndexToInputIndex remembers, and rows, lists and values     *)
(* belong to the sources at their positions.                               *)
THEOREM Invariance == Spec => []IInv
<1>1. Init => IInv
    BY InitIInv
<1>2. IInv /\ [Next]_vars => IInv'
    <2> SUFFICES ASSUME IInv, [Next]_vars PROVE IInv'
        OBVIOUS
    <2>1. CASE \/ \E e \in RequestElement : RawValue(e)
               \/ \E es \in Bodies : Receive(es)
        BY <2>1, RequestsKeep
    <2>2. CASE \E s \in Source : Group(s)
        BY <2>2, GroupKeeps
    <2>3. CASE \E k \in DOMAIN gpc : Goroutine(k)
        BY <2>3, LookupKeeps, CrashKeeps, CheckErrKeeps, Append2DbRequestKeeps DEF Goroutine
    <2>4. CASE RejectBody \/ VerifyFails \/ GenerateFails \/ ExecuteFails \/ FormatFails
        BY <2>4, FailuresKeep
    <2>5. CASE fillColumnMap \/ Filled \/ Grouped \/ VerifyGrants \/ CacheDone
        BY <2>5, fillColumnMapKeeps, FilledKeeps, GroupedKeeps, VerifyGrantsKeeps, CacheDoneKeeps
    <2>6. CASE GenerateQueries \/ ExecuteQueries \/ Merge
        BY <2>6, GenerateQueriesKeeps, ExecuteQueriesKeeps, MergeKeeps
    <2>7. CASE FormatResponse \/ PutValue \/ NextSeries \/ Respond
        BY <2>7, FormatResponseKeeps, PutValueKeeps, NextSeriesKeeps, RespondKeeps
    <2>8. CASE Restart
        BY <2>8, CrashKeeps
    <2>9. CASE UNCHANGED vars
        BY <2>9, StutteringKeeps
    <2> QED
        BY <2>1, <2>2, <2>3, <2>4, <2>5, <2>6, <2>7, <2>8, <2>9 DEF Next, Handler
<1> QED
    BY <1>1, <1>2, PTL DEF Spec

(* A 200 carries, at the position of every request element, a value of its *)
(* own source and column (prepColumns and the last loop of the handler,    *)
(* last-values.go).                                                        *)
THEOREM ValuesComeBackInPlace == Spec => []ValuesInPlace
<1>1. IInv => ValuesInPlace
    BY DEF IInv
<1> QED
    BY <1>1, Invariance, PTL

-----------------------------------------------------------------------------
(* The handler implements ValueService, of whose variables it shares req   *)
(* and status; the answer is the response once the status is 200.          *)
LEMMA ServiceInit == Init => Service!SInit
BY DEF Init, NoRequest, Service!SInit, Service!NoRequest

LEMMA RequestIsReceived ==
    ASSUME IInv, NEW es \in Bodies, Receive(es)
    PROVE  Service!SReceive
<1>1. status # Pending /\ req' = es /\ status' = Pending
    BY DEF Receive, IInv, Stages
<1>2. req' \in Service!Asked
    BY <1>1 DEF Bodies, RequestElement, Service!Asked
<1> QED
    BY <1>1, <1>2 DEF Service!SReceive, Pending, Service!Pending

LEMMA FailureIsShown ==
    ASSUME IInv, NEW code \in FailureStatus, Fail(code), pc # "idle"
    PROVE  Service!SFail
<1>1. status = Pending /\ status' = code /\ UNCHANGED <<req, response>>
    BY DEF Fail, IInv, Stages
<1> QED
    BY <1>1 DEF Service!SFail, FailureStatus, Service!FailureStatus, Pending, Service!Pending

LEMMA ValuesAreShown ==
    ASSUME IInv, Respond
    PROVE  Service!SAnswer
<1>1. status = Pending /\ status' = 200 /\ UNCHANGED <<req, response>>
    BY DEF Respond, IInv, Stages
<1>2. ValuesInPlace'
    BY RespondKeeps DEF IInv
<1>3. DOMAIN response = DOMAIN req /\ \A i \in DOMAIN req : Service!Answers(req[i], response[i])
    BY <1>1, <1>2 DEF ValuesInPlace, Service!Answers, RowsFor, Service!RowsFor, DbRows,
                      Service!DbRows, CachedRow, Service!CachedRow
<1> QED
    BY <1>1, <1>3 DEF Service!SAnswer, Pending, Service!Pending

(* Between reception and answer the client sees nothing of the work.       *)
LEMMA WorkIsHidden ==
    ASSUME IInv, pc # "idle", UNCHANGED <<req, status>>
    PROVE  UNCHANGED Service!svars
<1>1. status = Pending
    BY DEF IInv, Stages
<1> QED
    BY <1>1 DEF Service!svars, Pending

LEMMA ServiceStep == IInv /\ [Next]_vars => [Service!SNext]_(Service!svars)
<1> SUFFICES ASSUME IInv, [Next]_vars
             PROVE  Service!SNext \/ UNCHANGED Service!svars
    OBVIOUS
<1>1. CASE \/ \E e \in RequestElement : RawValue(e)
           \/ \E es \in Bodies : Receive(es)
    <2>1. \E es \in Bodies : Receive(es)
        BY <1>1, OneIsABody DEF RawValue
    <2> QED
        BY <2>1, RequestIsReceived DEF Service!SNext
<1>2. CASE RejectBody \/ VerifyFails \/ GenerateFails \/ ExecuteFails \/ FormatFails
    <2>1. \E code \in FailureStatus : Fail(code) /\ pc # "idle"
        BY <1>2, FailureCodes
    <2> QED
        BY <2>1, FailureIsShown DEF Service!SNext
<1>3. CASE Respond
    BY <1>3, ValuesAreShown DEF Service!SNext
<1>4. CASE \E s \in Source : Group(s)
    <2>1. pc # "idle" /\ UNCHANGED <<req, status>>
        BY <1>4 DEF Group
    <2> QED
        BY <2>1, WorkIsHidden
<1>5. CASE \E k \in DOMAIN gpc : Goroutine(k)
    <2>1. pc # "idle" /\ UNCHANGED <<req, status>>
        BY <1>5 DEF Goroutine, Lookup, LookupPanics, CheckErr, Append2DbRequest
    <2> QED
        BY <2>1, WorkIsHidden
<1>6. CASE fillColumnMap \/ Filled \/ Grouped \/ VerifyGrants \/ CacheDone
    <2>1. pc # "idle" /\ UNCHANGED <<req, status>>
        BY <1>6 DEF fillColumnMap, Filled, Grouped, VerifyGrants, CacheDone
    <2> QED
        BY <2>1, WorkIsHidden
<1>7. CASE GenerateQueries \/ ExecuteQueries \/ Merge
    <2>1. pc # "idle" /\ UNCHANGED <<req, status>>
        BY <1>7 DEF GenerateQueries, ExecuteQueries, Merge
    <2> QED
        BY <2>1, WorkIsHidden
<1>8. CASE FormatResponse \/ PutValue \/ NextSeries
    <2>1. pc # "idle" /\ UNCHANGED <<req, status>>
        BY <1>8 DEF FormatResponse, PutValue, NextSeries
    <2> QED
        BY <2>1, WorkIsHidden
<1>9. CASE Restart
    <2>1. status = Pending /\ status' = NoRequest /\ req' = req
        BY <1>9 DEF Restart, IInv, Stages
    <2> QED
        BY <2>1 DEF Service!SLost, Service!SNext, Pending, NoRequest, Service!Pending,
                    Service!NoRequest
<1>10. CASE UNCHANGED vars
    BY <1>10 DEF vars, Service!svars
<1> QED
    BY <1>1, <1>2, <1>3, <1>4, <1>5, <1>6, <1>7, <1>8, <1>9, <1>10 DEF Next, Handler

(* POST /last-values implements ValueService: whatever order the runtime   *)
(* gives to maps and goroutines, a client sees one answer to its request,  *)
(* all values at their places or an error without values.                  *)
THEOREM RefinesService == Spec => ImplementsService
<1>1. Init => Service!SInit
    BY ServiceInit
<1>2. IInv /\ [Next]_vars => [Service!SNext]_(Service!svars)
    BY ServiceStep
<1> QED
    BY <1>1, <1>2, Invariance, PTL DEF Spec, ImplementsService, Service!SSpec
=============================================================================
