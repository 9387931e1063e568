-------------------------- MODULE QueriesV2_proofs --------------------------
(***************************************************************************)
(* What POST /queries/v2 promises, for every number of elements, every     *)
(* list of columns and every device group: the goroutines share owners and *)
(* response, and still each answers its own element as a whole.            *)
(***************************************************************************)
EXTENDS QueriesV2, TLAPS, FiniteSetTheorems, SequenceTheorems

-----------------------------------------------------------------------------
(* Requests and what is collected for them.                                *)

LEMMA BodiesAreIndexed ==
    ASSUME NEW es \in Bodies
    PROVE  DOMAIN es \subseteq Index
<1>1. PICK n \in 0 .. MaxElements : es \in [1 .. n -> Element]
    BY DEF Bodies
<1> QED
    BY <1>1, QueriesV2Assumption DEF Index

LEMMA RequestTypes ==
    ASSUME TypeOK, NEW i \in DOMAIN req
    PROVE  /\ i \in Index /\ i \in Nat \ {0}
           /\ req[i] \in Element
           /\ req[i].target \in Source \cup Group
           /\ req[i].columns \in Seq(Column) /\ Len(req[i].columns) \in Nat \ {0}
           /\ DOMAIN req[i].columns = 1 .. Len(req[i].columns)
           /\ \A c \in DOMAIN req[i].columns : req[i].columns[c] \in Column
<1>1. PICK n \in 0 .. MaxElements : req \in [1 .. n -> Element]
    BY DEF TypeOK, Bodies
<1>2. i \in Index /\ i \in Nat \ {0} /\ req[i] \in Element
    BY <1>1, QueriesV2Assumption DEF Index
<1>3. req[i].target \in Source \cup Group /\ req[i].columns \in ColumnLists
    BY <1>2 DEF Element
<1>4. req[i].columns \in Seq(Column) /\ req[i].columns # <<>>
    BY <1>3, QueriesV2Assumption
<1>5. /\ Len(req[i].columns) \in Nat \ {0}
      /\ DOMAIN req[i].columns = 1 .. Len(req[i].columns)
    BY <1>4, LenProperties, EmptySeq
<1> QED
    BY <1>2, <1>3, <1>4, <1>5, ElementOfSeq

LEMMA MatchesAreTyped ==
    ASSUME TypeOK, NEW i \in DOMAIN req
    PROVE  MatchesOf(req[i]) \subseteq Match
<1> DEFINE e == req[i]
<1>1. e.target \in Source \cup Group /\ DOMAIN e.columns \subseteq Nat
      /\ \A c \in DOMAIN e.columns : e.columns[c] \in Column
    BY RequestTypes
<1> HIDE DEF e
<1>2. CASE e.target \in Source
    <2> SUFFICES ASSUME NEW c \in DOMAIN e.columns
                 PROVE  [source |-> e.target, column |-> e.columns[c], colIdx |-> c, selIdx |-> 0]
                            \in Match
        BY <1>2 DEF MatchesOf, e
    <2> QED
        BY <1>1, <1>2 DEF Match
<1>3. CASE e.target \notin Source
    <2> SUFFICES ASSUME NEW c \in DOMAIN e.columns,
                        NEW n \in DOMAIN Selectables[e.target][e.columns[c]],
                        NEW s \in Selectables[e.target][e.columns[c]][n].services
                 PROVE  [source |-> s, column |-> e.columns[c], colIdx |-> c, selIdx |-> n - 1]
                            \in Match
        BY <1>3 DEF MatchesOf, e
    <2>1. e.target \in Group /\ e.columns[c] \in Column /\ c \in Nat
        BY <1>1, <1>3
    <2>2. n \in Nat \ {0} /\ s \in Source
        BY <2>1, QueriesV2Assumption
    <2>3. n - 1 \in Nat
        BY <2>2
    <2> QED
        BY <2>1, <2>2, <2>3 DEF Match
<1> QED
    BY <1>2, <1>3 DEF e

LEMMA PlainMatchesOf ==
    ASSUME NEW i \in DOMAIN req, Plain(i)
    PROVE  MatchesOf(req[i]) = {PlainMatch(i, c) : c \in DOMAIN req[i].columns}
BY DEF Plain, MatchesOf, PlainMatch

LEMMA PlainMatchFields ==
    ASSUME NEW i, NEW c
    PROVE  /\ PlainMatch(i, c).source = req[i].target
           /\ PlainMatch(i, c).column = req[i].columns[c]
           /\ PlainMatch(i, c).colIdx = c /\ PlainMatch(i, c).selIdx = 0
BY DEF PlainMatch

LEMMA NobodyIsNoIndex == Nobody \notin Index /\ Index \subseteq Nat
BY QueriesV2Assumption DEF Nobody, Index

-----------------------------------------------------------------------------
LEMMA InitIInv == Init => IInv
<1> SUFFICES ASSUME Init PROVE IInv
    OBVIOUS
<1>1. req \in Bodies /\ DOMAIN req = {}
    BY QueriesV2Assumption DEF Init, Bodies
<1>2. TypeOK
    BY <1>1, EmptySeq DEF Init, TypeOK
<1>3. \A i \in Index : matches[i] = <<>> /\ merged[i] = 0 /\ gpc[i] = "unused"
    BY DEF Init
<1>4. GoroutinesStarted
    BY DEF Init, GoroutinesStarted, NoRequest, Pending
<1>5. MatchesInTurn /\ MergedInTurn /\ OwnersCoverMatches
    BY <1>1, <1>3 DEF Init, MatchesInTurn, MergedInTurn, OwnersCoverMatches
<1>6. NothingIsMissing /\ PlainAnswers /\ NoForeignSeries
    BY <1>1 DEF Init, NothingIsMissing, PlainAnswers, NoForeignSeries
<1> QED
    BY <1>2, <1>4, <1>5, <1>6 DEF IInv

(* A new request begins with nothing.                                      *)
LEMMA ReceiveKeeps ==
    ASSUME IInv, NEW es \in Bodies, Receive(es)
    PROVE  IInv'
<1>1. TypeOK'
    BY EmptySeq DEF IInv, TypeOK, Receive
<1>2. GoroutinesStarted'
    BY DEF Receive, GoroutinesStarted, Pending
<1>3. \A i \in Index : matches'[i] = <<>> /\ merged'[i] = 0 /\ gpc'[i] = "unused"
    BY DEF Receive
<1>4. \A i \in DOMAIN req' : i \in Index
    BY BodiesAreIndexed DEF Receive
<1>5. Range(<<>>) = {}
    BY DEF Range
<1>6. MatchesInTurn'
    <2> SUFFICES ASSUME NEW i \in Index, i \in DOMAIN req'
                 PROVE  <<>> = [c \in 1 .. Len(<<>>) |-> PlainMatch(i, c)']
        BY <1>3, <1>5 DEF MatchesInTurn
    <2> QED
        OBVIOUS
<1>7. MergedInTurn' /\ OwnersCoverMatches'
    BY <1>3 DEF Receive, MergedInTurn, OwnersCoverMatches
<1>8. NothingIsMissing'
    BY <1>3, <1>4 DEF NothingIsMissing
<1>9. PlainAnswers' /\ NoForeignSeries'
    BY <1>3, <1>4 DEF Receive, PlainAnswers, PlainAnswer, Answered, NoForeignSeries
<1> QED
    BY <1>1, <1>2, <1>6, <1>7, <1>8, <1>9 DEF IInv

(* Steps that leave goroutines and response alone.                         *)
LEMMA FrozenKeeps ==
    ASSUME IInv,
           UNCHANGED <<req, ownerUserIds, gpc, mux, matches, queries, merged, raised, response>>,
           (TypeOK /\ GoroutinesStarted)'
    PROVE  IInv'
<1>1. /\ req' = req /\ ownerUserIds' = ownerUserIds /\ gpc' = gpc /\ matches' = matches
      /\ merged' = merged /\ raised' = raised /\ response' = response
    OBVIOUS
<1>2. MatchesInTurn'
    BY <1>1 DEF IInv, MatchesInTurn, Plain, PlainMatch
<1>3. NothingIsMissing' /\ MergedInTurn' /\ OwnersCoverMatches'
    BY <1>1 DEF IInv, NothingIsMissing, Missing, MergedInTurn, OwnersCoverMatches
<1>4. PlainAnswers'
    BY <1>1 DEF IInv, PlainAnswers, PlainAnswer, Plain, PlainMatch, Answered
<1>5. NoForeignSeries'
    BY <1>1 DEF IInv, NoForeignSeries
<1> QED
    BY <1>2, <1>3, <1>4, <1>5 DEF IInv

LEMMA HandlerKeeps ==
    ASSUME IInv,
           \/ Refuse \/ VerifyGrants \/ CachePanics \/ BadLocation
           \/ Finish \/ Restart \/ UNCHANGED vars
    PROVE  IInv'
<1>1. UNCHANGED <<req, ownerUserIds, gpc, mux, matches, queries, merged, raised, response>>
    BY DEF Refuse, VerifyGrants, CachePanics, BadLocation, Finish, Restart, Fail, vars
<1>2. /\ pc' \in {"idle", "verify", "cache", "run", "crashed"}
      /\ status' \in {NoRequest, Pending, 200} \cup FailureStatus
    BY DEF IInv, TypeOK, Refuse, VerifyGrants, CachePanics, BadLocation, Finish, JoinedStatus,
           Restart, Fail, vars, FailureStatus
<1>3. TypeOK'
    BY <1>1, <1>2 DEF IInv, TypeOK
<1>4. GoroutinesStarted'
    <2>1. CASE Refuse \/ BadLocation
        <3>1. pc' = "idle" /\ status' \in FailureStatus
            BY <2>1 DEF Refuse, BadLocation, Fail, FailureStatus
        <3> QED
            BY <3>1 DEF GoroutinesStarted, FailureStatus
    <2>2. CASE VerifyGrants
        BY <1>1, <2>2 DEF VerifyGrants, IInv, GoroutinesStarted
    <2>3. CASE Restart
        BY <2>3 DEF Restart, GoroutinesStarted, NoRequest
    <2>4. CASE Finish
        <3>1. pc' = "idle" /\ \A i \in DOMAIN req : gpc[i] \in {"cached", "done"}
            BY <2>4, RequestTypes DEF Finish, IInv, GoroutinesStarted
        <3>2. status' = 200 => raised = {}
            BY <2>4 DEF Finish, JoinedStatus
        <3> QED
            BY <1>1, <3>1, <3>2 DEF GoroutinesStarted
    <2>5. CASE CachePanics
        BY <1>1, <2>5 DEF CachePanics, IInv, GoroutinesStarted, Pending
    <2>6. CASE UNCHANGED vars
        BY <2>6 DEF vars, IInv, GoroutinesStarted
    <2> QED
        BY <2>1, <2>2, <2>3, <2>4, <2>5, <2>6
<1> QED
    BY <1>1, <1>3, <1>4, FrozenKeeps

(* The cached rows open the response; every other element of the request   *)
(* gets a goroutine.                                                       *)
LEMMA ReadCacheKeeps ==
    ASSUME IInv, ReadCache
    PROVE  IInv'
<1>0. PICK hits \in SUBSET {i \in DOMAIN req : req[i].target \in Cachable} :
        /\ \E order \in [1 .. Cardinality(hits) -> hits] :
            /\ \A a, b \in DOMAIN order : a < b => order[a] < order[b]
            /\ response' = [k \in DOMAIN order |-> FromCache(order[k])]
        /\ gpc' = [i \in Index |-> IF i \notin DOMAIN req THEN "unused"
                                   ELSE IF i \in hits THEN "cached" ELSE "collect"]
    BY DEF ReadCache
<1>1. PICK order \in [1 .. Cardinality(hits) -> hits] :
        /\ response' = [k \in DOMAIN order |-> FromCache(order[k])]
        /\ gpc' = [i \in Index |-> IF i \notin DOMAIN req THEN "unused"
                                   ELSE IF i \in hits THEN "cached" ELSE "collect"]
    BY <1>0
<1>2. /\ pc = "cache" /\ pc' = "run" /\ req' = req /\ ownerUserIds' = ownerUserIds
      /\ mux' = mux /\ matches' = matches /\ queries' = queries /\ merged' = merged
      /\ raised' = raised /\ status' = status
    BY DEF ReadCache
<1>3. \A i \in Index : gpc[i] = "unused" /\ matches[i] = <<>> /\ merged[i] = 0
    BY <1>2, EmptySeq DEF IInv, TypeOK, GoroutinesStarted, MatchesInTurn, MergedInTurn
<1>4. \A i \in DOMAIN req : i \in Index
    BY BodiesAreIndexed DEF IInv, TypeOK
<1>5. \A k \in DOMAIN response' : response'[k] = FromCache(order[k]) /\ order[k] \in hits
    BY <1>1
<1>6. response' \in Seq(ResponseElement)
    <2>1. ASSUME NEW h \in hits PROVE FromCache(h) \in ResponseElement
        <3>1. h \in Index
            BY <1>4
        <3>2. <<AllColumns>> \in Seq(AnySeries)
            BY DEF AnySeries
        <3> QED
            BY <3>1, <3>2 DEF FromCache, ResponseElement
    <2>2. IsFiniteSet(hits)
        <3>1. IsFiniteSet(Index)
            BY FS_Interval, QueriesV2Assumption DEF Index
        <3>2. hits \in SUBSET Index
            BY <1>4
        <3> QED
            BY <3>1, <3>2, FS_Subset
    <2>3. Cardinality(hits) \in Nat
        BY <2>2, FS_CardinalityType
    <2>4. response' \in [1 .. Cardinality(hits) -> ResponseElement]
        BY <1>1, <2>1
    <2> QED
        BY <2>3, <2>4, SeqDef
<1>7. gpc' \in [Index -> {"unused", "cached", "collect"}]
    BY <1>1
<1>8. TypeOK'
    <2>1. \A k \in DOMAIN response' : response'[k].requestIndex \in DOMAIN req'
        BY <1>1, <1>2, <1>5 DEF FromCache
    <2> QED
        BY <1>2, <1>6, <1>7, <2>1 DEF IInv, TypeOK
<1>9. GoroutinesStarted'
    <2>1. \A i \in DOMAIN req : gpc'[i] # "unused"
        BY <1>1, <1>4
    <2>2. status' = Pending
        BY <1>2 DEF IInv, GoroutinesStarted
    <2> QED
        BY <1>2, <2>1, <2>2 DEF GoroutinesStarted, Pending
<1>10. MatchesInTurn'
    <2>1. \A i \in Index : gpc'[i] # "unused" => i \in DOMAIN req
        BY <1>1
    <2> QED
        BY <1>2, <1>3, <2>1 DEF IInv, MatchesInTurn, Plain, PlainMatch
<1>11. NothingIsMissing'
    BY <1>2, <1>4, <1>7 DEF NothingIsMissing
<1>12. MergedInTurn' /\ OwnersCoverMatches'
    BY <1>2, <1>3 DEF IInv, MergedInTurn, OwnersCoverMatches
<1>13. PlainAnswers'
    <2> SUFFICES ASSUME NEW i \in DOMAIN req, gpc'[i] # "cached"
                 PROVE  PlainAnswer(i)'
        BY <1>2 DEF PlainAnswers
    <2>1. i \notin hits
        BY <1>1, <1>4
    <2>2. Answered(i)' = {}
        BY <1>5, <2>1 DEF Answered, FromCache
    <2> QED
        BY <1>2, <1>3, <1>4, <2>2 DEF PlainAnswer
<1>14. NoForeignSeries'
    <2>1. \A h : Range(FromCache(h).data) = {AllColumns}
        BY DEF FromCache, Range
    <2> QED
        BY <1>5, <2>1 DEF NoForeignSeries
<1> QED
    BY <1>8, <1>9, <1>10, <1>11, <1>12, <1>13, <1>14 DEF IInv

(* What PlainAnswers and NoForeignSeries speak of.                         *)
LEMMA ResponseFrame ==
    ASSUME IInv, UNCHANGED <<req, merged, response>>,
           \A i \in DOMAIN req : gpc'[i] = "cached" <=> gpc[i] = "cached"
    PROVE  PlainAnswers' /\ NoForeignSeries'
<1>1. req' = req /\ merged' = merged /\ response' = response
    OBVIOUS
<1> QED
    BY <1>1 DEF IInv, PlainAnswers, PlainAnswer, Plain, PlainMatch, Answered, NoForeignSeries

(* The next match of an export or device is that of the next column: no    *)
(* other comes first.                                                      *)
LEMMA NextPlainMatch ==
    ASSUME IInv, NEW i \in DOMAIN req, Plain(i), NEW m \in Missing(i),
           \A n \in Missing(i) : ~ ComesBefore(n, m)
    PROVE  m = PlainMatch(i, Len(matches[i]) + 1)
<1> DEFINE L == Len(matches[i])
<1>1. i \in Index /\ DOMAIN req[i].columns = 1 .. Len(req[i].columns)
      /\ Len(req[i].columns) \in Nat
    BY RequestTypes DEF IInv
<1>2. matches[i] = [c \in 1 .. L |-> PlainMatch(i, c)] /\ L \in Nat
    BY <1>1, LenProperties DEF IInv, TypeOK, MatchesInTurn
<1> HIDE DEF L
<1>3. Range(matches[i]) = {PlainMatch(i, c) : c \in 1 .. L}
    BY <1>2 DEF Range
<1>4. Missing(i) = {PlainMatch(i, c) : c \in DOMAIN req[i].columns}
                        \ {PlainMatch(i, c) : c \in 1 .. L}
    BY <1>3, PlainMatchesOf DEF Missing
<1>5. PICK c \in DOMAIN req[i].columns : m = PlainMatch(i, c)
    BY <1>4
<1>6. c \notin 1 .. L
    BY <1>4, <1>5
<1>7. c >= L + 1
    BY <1>1, <1>2, <1>6
<1>8. CASE c > L + 1
    <2>1. L + 1 \in DOMAIN req[i].columns /\ L + 1 \notin 1 .. L
        BY <1>1, <1>2, <1>8
    <2>2. PlainMatch(i, L + 1) \notin {PlainMatch(i, d) : d \in 1 .. L}
        BY <2>1, PlainMatchFields
    <2>3. PlainMatch(i, L + 1) \in Missing(i)
        BY <1>4, <2>1, <2>2
    <2>4. ComesBefore(PlainMatch(i, L + 1), m)
        BY <1>5, <1>8, PlainMatchFields DEF ComesBefore
    <2> QED
        BY <2>3, <2>4
<1>9. CASE c = L + 1
    BY <1>5, <1>9 DEF L
<1> QED
    BY <1>1, <1>2, <1>7, <1>8, <1>9

LEMMA CollectKeeps ==
    ASSUME IInv, NEW i \in Index, Collect(i)
    PROVE  IInv'
<1>1. PICK m \in Missing(i) :
        /\ \A n \in Missing(i) : ~ ComesBefore(n, m)
        /\ matches' = [matches EXCEPT ![i] = Append(@, m)]
    BY DEF Collect
<1>2. /\ gpc[i] = "collect" /\ ownerUserIds' = Append(ownerUserIds, OwnerOfElement(i))
      /\ pc' = pc /\ req' = req /\ gpc' = gpc /\ mux' = mux /\ queries' = queries
      /\ merged' = merged /\ raised' = raised /\ response' = response /\ status' = status
    BY DEF Collect, At
<1>3. i \in DOMAIN req
    BY <1>2 DEF IInv, MatchesInTurn
<1>4. m \in MatchesOf(req[i]) /\ m \in Match
    BY <1>3, MatchesAreTyped DEF Missing, IInv
<1>5. /\ matches[i] \in Seq(Match) /\ Len(matches[i]) \in Nat
      /\ DOMAIN matches[i] = 1 .. Len(matches[i])
    BY LenProperties DEF IInv, TypeOK
<1> DEFINE new == Append(matches[i], m)
<1>6. /\ new \in Seq(Match) /\ Len(new) = Len(matches[i]) + 1
      /\ DOMAIN new = 1 .. Len(matches[i]) + 1
      /\ \A c \in DOMAIN new : new[c] = IF c = Len(matches[i]) + 1 THEN m ELSE matches[i][c]
    BY <1>4, <1>5
<1> HIDE DEF new
<1>7. matches'[i] = new /\ \A j \in Index : j # i => matches'[j] = matches[j]
    BY <1>1 DEF IInv, TypeOK, new
<1>8. TypeOK'
    <2>1. matches' \in [Index -> Seq(Match)]
        BY <1>1, <1>6 DEF IInv, TypeOK, new
    <2>2. OwnerOfElement(i) \in User \cup {NoUser}
        BY QueryDataAssumption DEF OwnerOfElement
    <2>3. ownerUserIds' \in Seq(User \cup {NoUser})
        BY <1>2, <2>2 DEF IInv, TypeOK
    <2> QED
        BY <1>2, <2>1, <2>3 DEF IInv, TypeOK
<1>9. GoroutinesStarted'
    BY <1>2 DEF IInv, GoroutinesStarted
<1>10. Range(new) \subseteq Range(matches[i]) \cup {m}
    BY <1>5, <1>6 DEF Range
<1>11. ASSUME Plain(i) PROVE new = [c \in 1 .. Len(new) |-> PlainMatch(i, c)]
    <2>1. matches[i] = [c \in 1 .. Len(matches[i]) |-> PlainMatch(i, c)]
        BY <1>3, <1>11 DEF IInv, MatchesInTurn
    <2>2. m = PlainMatch(i, Len(matches[i]) + 1)
        BY <1>1, <1>3, <1>11, NextPlainMatch
    <2>3. \A c \in DOMAIN new : new[c] = PlainMatch(i, c)
        BY <1>5, <1>6, <2>1, <2>2
    <2>4. new = [c \in DOMAIN new |-> new[c]]
        BY <1>6, LenProperties
    <2> QED
        BY <1>6, <2>3, <2>4
<1>12. MatchesInTurn'
    <2> SUFFICES ASSUME NEW j \in Index
                 PROVE  /\ gpc[j] \in {"unused", "cached"} => matches'[j] = <<>>
                        /\ gpc[j] # "unused" => j \in DOMAIN req
                        /\ j \in DOMAIN req =>
                            /\ Range(matches'[j]) \subseteq MatchesOf(req[j])
                            /\ Plain(j) => matches'[j] =
                                    [c \in 1 .. Len(matches'[j]) |-> PlainMatch(j, c)]
        <3>1. \A j : /\ Plain(j)' = Plain(j)
                     /\ \A c : PlainMatch(j, c)' = PlainMatch(j, c)
            BY <1>2 DEF Plain, PlainMatch
        <3>2. \A j, n : [c \in 1 .. n |-> PlainMatch(j, c)'] = [c \in 1 .. n |-> PlainMatch(j, c)]
            BY <3>1
        <3> QED
            BY <1>2, <3>1, <3>2 DEF MatchesInTurn
    <2>1. CASE j = i
        BY <1>2, <1>3, <1>4, <1>7, <1>10, <1>11, <2>1 DEF IInv, MatchesInTurn
    <2>2. CASE j # i
        BY <1>7, <2>2 DEF IInv, MatchesInTurn
    <2> QED
        BY <2>1, <2>2
<1>13. NothingIsMissing'
    <2> SUFFICES ASSUME NEW j \in DOMAIN req
                 PROVE  /\ gpc[j] \in {"execute", "merge", "merging"} =>
                            MatchesOf(req[j]) \ Range(matches'[j]) = {}
                        /\ gpc[j] = "done" /\ raised = {} =>
                            /\ MatchesOf(req[j]) \ Range(matches'[j]) = {}
                            /\ merged[j] = Len(matches'[j])
        BY <1>2 DEF NothingIsMissing, Missing
    <2>1. j \in Index
        BY BodiesAreIndexed DEF IInv, TypeOK
    <2>2. CASE j = i
        BY <1>2, <2>2
    <2>3. CASE j # i
        BY <1>7, <2>1, <2>3 DEF IInv, NothingIsMissing, Missing
    <2> QED
        BY <2>2, <2>3
<1>14. MergedInTurn'
    <2> SUFFICES ASSUME NEW j \in Index
                 PROVE  /\ merged[j] <= Len(matches'[j])
                        /\ merged[j] > 0 => gpc[j] \in {"merging", "done"}
        BY <1>2 DEF MergedInTurn
    <2>1. merged[j] <= Len(matches[j]) /\ merged[j] \in Nat
        BY DEF IInv, TypeOK, MergedInTurn
    <2>2. merged[j] > 0 => gpc[j] \in {"merging", "done"}
        BY DEF IInv, MergedInTurn
    <2> QED
        BY <1>5, <1>6, <1>7, <2>1, <2>2
<1>15. OwnersCoverMatches'
    <2>1. Len(ownerUserIds') = Len(ownerUserIds) + 1 /\ Len(ownerUserIds) \in Nat
        BY <1>2, QueryDataAssumption DEF IInv, TypeOK, OwnerOfElement
    <2> SUFFICES ASSUME NEW j \in Index PROVE Len(matches'[j]) <= Len(ownerUserIds')
        BY DEF OwnersCoverMatches
    <2>2. Len(matches[j]) <= Len(ownerUserIds) /\ Len(matches[j]) \in Nat
        BY LenProperties DEF IInv, TypeOK, OwnersCoverMatches
    <2> QED
        BY <1>6, <1>7, <2>1, <2>2
<1>16. PlainAnswers' /\ NoForeignSeries'
    BY <1>2, ResponseFrame
<1> QED
    BY <1>8, <1>9, <1>12, <1>13, <1>14, <1>15, <1>16 DEF IInv

(* A goroutine goes on without collecting or merging: it must have all its *)
(* matches, and when it ends all of them merged or an error raised.        *)
LEMMA MoveKeeps ==
    ASSUME IInv, NEW i \in Index, NEW state \in {"execute", "merge", "merging", "done"},
           pc = "run", gpc[i] \in {"collect", "execute", "merge", "merging"},
           UNCHANGED <<pc, req, ownerUserIds, matches, merged, response, status>>,
           Goto(i, state), TypeOK',
           raised' = {} => raised = {},
           state # "done" => Missing(i) = {},
           state = "done" /\ raised' = {} => Missing(i) = {} /\ merged[i] = Len(matches[i]),
           merged[i] > 0 => state \in {"merging", "done"}
    PROVE  IInv'
<1>1. /\ pc' = pc /\ req' = req /\ ownerUserIds' = ownerUserIds /\ matches' = matches
      /\ merged' = merged /\ response' = response /\ status' = status
    OBVIOUS
<1>2. gpc'[i] = state /\ \A j \in Index : j # i => gpc'[j] = gpc[j]
    BY DEF Goto, IInv, TypeOK
<1>3. \A j \in DOMAIN req : j \in Index
    BY BodiesAreIndexed DEF IInv, TypeOK
<1>4. GoroutinesStarted'
    <2>1. status = Pending /\ status # 200
        BY DEF IInv, GoroutinesStarted, Pending
    <2>2. \A j \in DOMAIN req : gpc'[j] # "unused"
        BY <1>2, <1>3 DEF IInv, GoroutinesStarted
    <2> QED
        BY <1>1, <2>1, <2>2 DEF GoroutinesStarted
<1>5. MatchesInTurn'
    <2>1. \A j \in Index : /\ gpc'[j] \in {"unused", "cached"} => gpc[j] \in {"unused", "cached"}
                           /\ gpc'[j] # "unused" => gpc[j] # "unused"
        BY <1>2
    <2>2. \A j : /\ Plain(j)' = Plain(j)
                 /\ \A c : PlainMatch(j, c)' = PlainMatch(j, c)
        BY <1>1 DEF Plain, PlainMatch
    <2>3. \A j, n : [c \in 1 .. n |-> PlainMatch(j, c)'] = [c \in 1 .. n |-> PlainMatch(j, c)]
        BY <2>2
    <2> SUFFICES ASSUME NEW j \in Index
                 PROVE  /\ gpc'[j] \in {"unused", "cached"} => matches'[j] = <<>>
                        /\ gpc'[j] # "unused" => j \in DOMAIN req
                        /\ j \in DOMAIN req =>
                            /\ Range(matches'[j]) \subseteq MatchesOf(req[j])
                            /\ Plain(j) => matches'[j] =
                                    [c \in 1 .. Len(matches'[j]) |-> PlainMatch(j, c)]
        BY <1>1, <2>2, <2>3 DEF MatchesInTurn
    <2> QED
        BY <1>1, <2>1 DEF IInv, MatchesInTurn
<1>6. NothingIsMissing'
    <2> SUFFICES ASSUME NEW j \in DOMAIN req
                 PROVE  /\ gpc'[j] \in {"execute", "merge", "merging"} => Missing(j) = {}
                        /\ gpc'[j] = "done" /\ raised' = {} =>
                            Missing(j) = {} /\ merged[j] = Len(matches[j])
        BY <1>1 DEF NothingIsMissing, Missing
    <2>1. CASE j = i
        BY <1>2, <2>1
    <2>2. CASE j # i
        BY <1>2, <1>3, <2>2 DEF IInv, NothingIsMissing
    <2> QED
        BY <2>1, <2>2
<1>7. MergedInTurn' /\ OwnersCoverMatches'
    BY <1>1, <1>2 DEF IInv, MergedInTurn, OwnersCoverMatches
<1>8. PlainAnswers' /\ NoForeignSeries'
    <2>1. \A j \in DOMAIN req : gpc'[j] = "cached" <=> gpc[j] = "cached"
        BY <1>2, <1>3
    <2> QED
        BY <2>1, ResponseFrame
<1> QED
    BY <1>4, <1>5, <1>6, <1>7, <1>8 DEF IInv

(* The owners are as many as the matches: GenerateQueries never reads one  *)
(* that is not there.                                                      *)
LEMMA GenerateKeeps ==
    ASSUME IInv, NEW i \in Index, Generate(i)
    PROVE  IInv'
<1> PICK found \in [DOMAIN matches[i] -> BOOLEAN] :
        queries' = [queries EXCEPT ![i] =
            [j \in DOMAIN matches[i] |->
                tableName(matches[i][j].source, ownerUserIds[j], found[j])]]
    BY DEF Generate
<1> DEFINE tables == [j \in DOMAIN matches[i] |->
                        tableName(matches[i][j].source, ownerUserIds[j], found[j])]
<1>1. /\ pc = "run" /\ gpc[i] = "collect" /\ Missing(i) = {} /\ Goto(i, "execute")
      /\ queries' = [queries EXCEPT ![i] = tables]
      /\ UNCHANGED <<pc, req, ownerUserIds, mux, matches, merged, raised, response, status>>
    BY DEF Generate, At
<1>2. /\ matches[i] \in Seq(Match) /\ Len(matches[i]) \in Nat
      /\ DOMAIN matches[i] = 1 .. Len(matches[i])
      /\ Len(ownerUserIds) \in Nat /\ Len(matches[i]) <= Len(ownerUserIds)
      /\ \A j \in 1 .. Len(ownerUserIds) : ownerUserIds[j] \in User \cup {NoUser}
    BY LenProperties, ElementOfSeq DEF IInv, TypeOK, OwnersCoverMatches
<1>3. ASSUME NEW j \in DOMAIN matches[i]
      PROVE  tableName(matches[i][j].source, ownerUserIds[j], found[j]) \in Table
    <2>1. matches[i][j].source \in Source
        <3>1. matches[i][j] \in Match
            BY <1>2, ElementOfSeq
        <3> QED
            BY <3>1 DEF Match
    <2>2. ownerUserIds[j] \in User \cup {NoUser}
        BY <1>2
    <2> QED
        BY <2>1, <2>2 DEF tableName, Table
<1>4. tables \in Seq(Table)
    BY <1>2, <1>3, SeqDef
<1> HIDE DEF tables
<1>5. TypeOK'
    <2>1. queries' \in [Index -> Seq(Table)]
        BY <1>1, <1>4 DEF IInv, TypeOK, tables
    <2>2. gpc' \in [Index -> {"unused", "cached", "collect", "execute", "merge", "merging", "done"}]
        BY <1>1 DEF IInv, TypeOK, Goto
    <2> QED
        BY <1>1, <2>1, <2>2 DEF IInv, TypeOK
<1>6. ~ (merged[i] > 0)
    BY <1>1 DEF IInv, MergedInTurn
<1> QED
    BY <1>1, <1>5, <1>6, MoveKeeps

LEMMA ExecuteAndLockKeep ==
    ASSUME IInv, NEW i \in Index, ExecuteQueries(i) \/ Lock(i) \/ Unlock(i)
    PROVE  IInv'
<1>1. PICK state \in {"merge", "merging", "done"} :
        /\ Goto(i, state) /\ pc = "run"
        /\ gpc[i] \in {"execute", "merge", "merging"} /\ mux' \in {mux, i, Nobody}
        /\ UNCHANGED <<pc, req, ownerUserIds, matches, queries, merged, raised, response, status>>
        /\ state = "merge" => gpc[i] = "execute"
        /\ state = "done" => merged[i] = Len(matches[i])
    BY DEF ExecuteQueries, Lock, Unlock, At
<1>2. TypeOK'
    <2>1. gpc' \in [Index -> {"unused", "cached", "collect", "execute", "merge", "merging", "done"}]
        BY <1>1 DEF IInv, TypeOK, Goto
    <2>2. mux' \in Index \cup {Nobody}
        BY <1>1 DEF IInv, TypeOK
    <2> QED
        BY <1>1, <2>1, <2>2 DEF IInv, TypeOK
<1>3. i \in DOMAIN req /\ Missing(i) = {}
    BY <1>1 DEF IInv, MatchesInTurn, NothingIsMissing
<1>4. merged[i] > 0 => state # "merge"
    BY <1>1 DEF IInv, MergedInTurn
<1> QED
    BY <1>1, <1>2, <1>3, <1>4, MoveKeeps

LEMMA RaiseKeeps ==
    ASSUME IInv, NEW i \in Index, Raise(i)
    PROVE  IInv'
<1>1. /\ pc = "run" /\ gpc[i] \in {"collect", "execute", "merge"} /\ Goto(i, "done")
      /\ UNCHANGED <<pc, req, ownerUserIds, mux, matches, queries, merged, response, status>>
    BY DEF Raise, At
<1>2. PICK code : raised' = raised \cup {code} /\ code \in FailureStatus
    <2>1. \A code \in DbErrorCode : GetStatusCode(code) \in FailureStatus
        BY DEF GetStatusCode, FailureStatus, DbErrorCode
    <2>2. 500 \in FailureStatus
        BY DEF FailureStatus
    <2>3. \/ \E code \in FailureStatus : raised' = raised \cup {code}
          \/ \E code \in DbErrorCode : raised' = raised \cup {GetStatusCode(code)}
          \/ raised' = raised \cup {500}
        BY DEF Raise, ExecErrors, DbErrorCode
    <2> QED
        BY <2>1, <2>2, <2>3
<1>3. TypeOK'
    <2>1. gpc' \in [Index -> {"unused", "cached", "collect", "execute", "merge", "merging", "done"}]
        BY <1>1 DEF IInv, TypeOK, Goto
    <2> QED
        BY <1>1, <1>2, <2>1 DEF IInv, TypeOK
<1> QED
    BY <1>1, <1>2, <1>3, MoveKeeps

-----------------------------------------------------------------------------
(* The merging loop.                                                       *)

(* PutSeries grows a response element up to the column and sets it.        *)
LEMMA PutSeriesProperties ==
    ASSUME NEW data \in Seq(AnySeries), NEW m \in Match
    PROVE  /\ PutSeries(data, m) \in Seq(AnySeries)
           /\ Range(PutSeries(data, m)) \subseteq Range(data) \cup {Series(m), EmptySeries}
           /\ m.colIdx = Len(data) + 1 =>
                PutSeries(data, m) = [c \in 1 .. Len(data) + 1 |->
                                        IF c = Len(data) + 1 THEN Series(m) ELSE data[c]]
<1> DEFINE n == IF Len(data) < m.colIdx THEN m.colIdx ELSE Len(data)
           Entry(c) == IF c = m.colIdx THEN Series(m)
                     ELSE IF c \in DOMAIN data THEN data[c] ELSE EmptySeries
<1>1. Len(data) \in Nat /\ DOMAIN data = 1 .. Len(data) /\ m.colIdx \in Nat /\ n \in Nat
    BY LenProperties DEF Match
<1>2. PutSeries(data, m) = [c \in 1 .. n |-> Entry(c)]
    BY DEF PutSeries
<1>3. Series(m) \in AnySeries /\ EmptySeries \in AnySeries
    BY DEF Match, Series, EmptySeries, AnySeries
<1>4. \A c \in DOMAIN data : data[c] \in AnySeries
    BY <1>1, ElementOfSeq
<1>5. ASSUME m.colIdx = Len(data) + 1
      PROVE  PutSeries(data, m) = [c \in 1 .. Len(data) + 1 |->
                                        IF c = Len(data) + 1 THEN Series(m) ELSE data[c]]
    <2>1. n = Len(data) + 1
        BY <1>1, <1>5
    <2>2. \A c \in 1 .. Len(data) + 1 :
                Entry(c) = IF c = Len(data) + 1 THEN Series(m) ELSE data[c]
        BY <1>1, <1>5
    <2> HIDE DEF n, Entry
    <2> QED
        BY <1>2, <2>1, <2>2
<1>6. \A c \in 1 .. n : Entry(c) \in AnySeries
    BY <1>3, <1>4
<1>7. \A c \in 1 .. n : Entry(c) \in Range(data) \cup {Series(m), EmptySeries}
    BY DEF Range
<1> HIDE DEF n, Entry
<1>8. PutSeries(data, m) \in Seq(AnySeries)
    <2>1. [c \in 1 .. n |-> Entry(c)] \in [1 .. n -> AnySeries]
        BY <1>6
    <2> QED
        BY <1>1, <1>2, <2>1, SeqDef
<1>9. Range(PutSeries(data, m)) \subseteq Range(data) \cup {Series(m), EmptySeries}
    BY <1>2, <1>7 DEF Range
<1> QED
    BY <1>5, <1>8, <1>9

(* What a turn changes of the response: one element k of this request      *)
(* index is new, or its series; the others stay.                           *)
TurnOf(i, m, k) ==
    /\ DOMAIN response' = DOMAIN response \cup {k}
    /\ \A o \in DOMAIN response : o # k => response'[o] = response[o]
    /\ response'[k].requestIndex = i
    /\ \/ /\ k \notin DOMAIN response /\ Candidates(i, m) = {}
          /\ response'[k].source = m.source
          /\ response'[k].data = PutSeries(<<>>, m)
       \/ /\ k \in Candidates(i, m)
          /\ response'[k].source = response[k].source
          /\ response'[k].data = PutSeries(response[k].data, m)

LEMMA MergeOneTurn ==
    ASSUME IInv, NEW i \in Index, MergeOne(i)
    PROVE  LET m == matches[i][merged[i] + 1]
           IN  /\ m \in Match /\ merged[i] + 1 \in DOMAIN matches[i]
               /\ response' \in Seq(ResponseElement)
               /\ \E k \in DOMAIN response' : TurnOf(i, m, k)
<1> DEFINE m == matches[i][merged[i] + 1]
<1>1. /\ gpc[i] = "merging" /\ merged[i] < Len(matches[i])
      /\ \/ /\ Candidates(i, m) = {}
            /\ response' = Append(response, NewElement(i, m))
         \/ \E k \in Candidates(i, m) :
                response' = [response EXCEPT ![k].data = PutSeries(@, m)]
    BY DEF MergeOne, At
<1>2. /\ merged[i] \in Nat /\ matches[i] \in Seq(Match) /\ Len(matches[i]) \in Nat
      /\ DOMAIN matches[i] = 1 .. Len(matches[i])
    BY LenProperties DEF IInv, TypeOK
<1>3. merged[i] + 1 \in DOMAIN matches[i]
    BY <1>1, <1>2
<1>4. m \in Match
    BY <1>2, <1>3, ElementOfSeq
<1>5. /\ response \in Seq(ResponseElement) /\ Len(response) \in Nat
      /\ DOMAIN response = 1 .. Len(response)
    BY LenProperties DEF IInv, TypeOK
<1> HIDE DEF m
<1>6. CASE Candidates(i, m) = {} /\ response' = Append(response, NewElement(i, m))
    <2> DEFINE k == Len(response) + 1
    <2>1. NewElement(i, m) \in ResponseElement
        <3>1. <<>> \in Seq(AnySeries)
            BY EmptySeq
        <3>2. PutSeries(<<>>, m) \in Seq(AnySeries)
            BY <1>4, <3>1, PutSeriesProperties
        <3> QED
            BY <1>4, <3>2 DEF NewElement, ResponseElement, Match
    <2>2. /\ response' \in Seq(ResponseElement) /\ DOMAIN response' = 1 .. Len(response) + 1
          /\ response'[k] = NewElement(i, m)
          /\ \A o \in DOMAIN response : response'[o] = response[o]
        BY <1>5, <1>6, <2>1
    <2>3. DOMAIN response' = DOMAIN response \cup {k} /\ k \notin DOMAIN response
        BY <1>5, <2>2
    <2>4. TurnOf(i, m, k)
        BY <1>6, <2>2, <2>3 DEF TurnOf, NewElement
    <2> QED
        BY <1>3, <1>4, <2>2, <2>3, <2>4 DEF m
<1>7. ASSUME NEW k \in Candidates(i, m),
             response' = [response EXCEPT ![k].data = PutSeries(@, m)]
      PROVE  response' \in Seq(ResponseElement) /\ k \in DOMAIN response' /\ TurnOf(i, m, k)
    <2>1. k \in DOMAIN response /\ response[k].requestIndex = i
        BY DEF Candidates, Belongs
    <2>2. response[k] \in ResponseElement
        BY <1>5, <2>1, ElementOfSeq
    <2>3. PutSeries(response[k].data, m) \in Seq(AnySeries)
        BY <1>4, <2>2, PutSeriesProperties DEF ResponseElement
    <2>4. response' = [response EXCEPT ![k] = [response[k] EXCEPT !.data = PutSeries(@, m)]]
        BY <1>7
    <2> DEFINE r == [response[k] EXCEPT !.data = PutSeries(@, m)]
    <2>5. r \in ResponseElement
        BY <2>2, <2>3 DEF ResponseElement
    <2>6. /\ r.requestIndex = i /\ r.source = response[k].source
          /\ r.data = PutSeries(response[k].data, m)
        BY <2>1, <2>2 DEF ResponseElement
    <2> HIDE DEF r
    <2>7. response' = [response EXCEPT ![k] = r]
        BY <2>4 DEF r
    <2>8. response' \in Seq(ResponseElement) /\ DOMAIN response' = DOMAIN response
        BY <1>5, <2>1, <2>5, <2>7, ExceptSeq
    <2>9. /\ response'[k] = r
          /\ \A o \in DOMAIN response : o # k => response'[o] = response[o]
        BY <1>5, <2>1, <2>7
    <2> QED
        BY <2>1, <2>6, <2>8, <2>9 DEF TurnOf
<1> QED
    BY <1>1, <1>3, <1>4, <1>6, <1>7 DEF m

LEMMA MergeOneKeeps ==
    ASSUME IInv, NEW i \in Index, MergeOne(i)
    PROVE  IInv'
<1> DEFINE m == matches[i][merged[i] + 1]
<1>1. /\ gpc[i] = "merging" /\ merged[i] < Len(matches[i])
      /\ merged' = [merged EXCEPT ![i] = @ + 1]
      /\ pc' = pc /\ req' = req /\ ownerUserIds' = ownerUserIds /\ gpc' = gpc /\ mux' = mux
      /\ matches' = matches /\ queries' = queries /\ raised' = raised /\ status' = status
    BY DEF MergeOne, At
<1>2. pc = "run"
    BY DEF MergeOne, At
<1>3. i \in DOMAIN req /\ \A j \in DOMAIN req : j \in Index
    BY <1>1, BodiesAreIndexed DEF IInv, TypeOK, MatchesInTurn
<1>4. /\ m \in Match /\ merged[i] + 1 \in DOMAIN matches[i]
      /\ response' \in Seq(ResponseElement)
    BY MergeOneTurn
<1>5. PICK k \in DOMAIN response' : TurnOf(i, m, k)
    BY MergeOneTurn
<1>6. m \in MatchesOf(req[i])
    BY <1>3, <1>4 DEF IInv, MatchesInTurn, Range
<1>7. merged[i] \in Nat /\ Len(matches[i]) \in Nat
    BY LenProperties DEF IInv, TypeOK
<1>8. merged'[i] = merged[i] + 1 /\ \A j \in Index : j # i => merged'[j] = merged[j]
    BY <1>1 DEF IInv, TypeOK
<1>9. /\ \A o \in DOMAIN response : response[o] \in ResponseElement
      /\ \A o \in DOMAIN response' : response'[o] \in ResponseElement
    BY <1>4, LenProperties, ElementOfSeq DEF IInv, TypeOK
<1> HIDE DEF m
<1>10. TypeOK'
    <2>1. merged' \in [Index -> Nat]
        BY <1>1, <1>7 DEF IInv, TypeOK
    <2>2. \A o \in DOMAIN response' : response'[o].requestIndex \in DOMAIN req
        BY <1>3, <1>5 DEF TurnOf, IInv, TypeOK
    <2> QED
        BY <1>1, <1>4, <2>1, <2>2 DEF IInv, TypeOK
<1>11. GoroutinesStarted'
    BY <1>1, <1>2 DEF IInv, GoroutinesStarted, Pending
<1>12. MatchesInTurn'
    BY <1>1 DEF IInv, MatchesInTurn, Plain, PlainMatch
<1>13. NothingIsMissing'
    <2> SUFFICES ASSUME NEW j \in DOMAIN req
                 PROVE  /\ gpc[j] \in {"execute", "merge", "merging"} => Missing(j) = {}
                        /\ gpc[j] = "done" /\ raised = {} =>
                            Missing(j) = {} /\ merged'[j] = Len(matches[j])
        BY <1>1 DEF NothingIsMissing, Missing
    <2>1. gpc[j] = "done" => merged'[j] = merged[j]
        BY <1>1, <1>3, <1>8
    <2> QED
        BY <2>1 DEF IInv, NothingIsMissing
<1>14. MergedInTurn'
    <2> SUFFICES ASSUME NEW j \in Index
                 PROVE  /\ merged'[j] <= Len(matches[j])
                        /\ merged'[j] > 0 => gpc[j] \in {"merging", "done"}
        BY <1>1 DEF MergedInTurn
    <2>1. CASE j = i
        BY <1>1, <1>7, <1>8, <2>1
    <2>2. CASE j # i
        BY <1>8, <2>2 DEF IInv, MergedInTurn
    <2> QED
        BY <2>1, <2>2
<1>15. OwnersCoverMatches'
    BY <1>1 DEF IInv, OwnersCoverMatches
<1>16. NoForeignSeries'
    <2> SUFFICES ASSUME NEW o \in DOMAIN response', NEW d \in Range(response'[o].data),
                        d # EmptySeries, d # AllColumns
                 PROVE  d \in {Series(x) : x \in MatchesOf(req[response'[o].requestIndex])}
        BY <1>1 DEF NoForeignSeries
    <2>1. CASE o # k
        BY <1>5, <2>1 DEF TurnOf, IInv, NoForeignSeries
    <2>2. CASE o = k
        <3>1. response'[k].requestIndex = i
            BY <1>5 DEF TurnOf
        <3>2. CASE response'[k].data = PutSeries(<<>>, m)
            <4>1. <<>> \in Seq(AnySeries) /\ Range(<<>>) = {}
                BY EmptySeq DEF Range
            <4>2. Range(PutSeries(<<>>, m)) \subseteq {Series(m), EmptySeries}
                BY <1>4, <4>1, PutSeriesProperties
            <4> QED
                BY <1>6, <2>2, <3>1, <3>2, <4>2
        <3>3. CASE k \in Candidates(i, m) /\ response'[k].data = PutSeries(response[k].data, m)
            <4>1. k \in DOMAIN response /\ response[k].requestIndex = i
                BY <3>3 DEF Candidates, Belongs
            <4>2. response[k].data \in Seq(AnySeries)
                BY <1>9, <4>1 DEF ResponseElement
            <4>3. Range(PutSeries(response[k].data, m))
                        \subseteq Range(response[k].data) \cup {Series(m), EmptySeries}
                BY <1>4, <4>2, PutSeriesProperties
            <4>4. d = Series(m) \/ d \in Range(response[k].data)
                BY <2>2, <3>3, <4>3
            <4>5. d \in Range(response[k].data) => d \in {Series(x) : x \in MatchesOf(req[i])}
                BY <4>1 DEF IInv, NoForeignSeries
            <4> QED
                BY <1>6, <2>2, <3>1, <4>4, <4>5
        <3> QED
            BY <1>5, <3>2, <3>3 DEF TurnOf
    <2> QED
        BY <2>1, <2>2
<1>17. PlainAnswers'
    <2> SUFFICES ASSUME NEW j \in DOMAIN req, Plain(j), gpc[j] # "cached"
                 PROVE  IF merged'[j] = 0 THEN Answered(j)' = {}
                        ELSE \E o \in DOMAIN response' :
                                /\ Answered(j)' = {o}
                                /\ response'[o].source = req[j].target
                                /\ response'[o].data =
                                        [c \in 1 .. merged'[j] |-> Series(PlainMatch(j, c))]
        BY <1>1 DEF PlainAnswers, PlainAnswer, Plain, PlainMatch
    <2>1. PlainAnswer(j)
        BY DEF IInv, PlainAnswers
    <2>2. Answered(j)' = {o \in DOMAIN response' : response'[o].requestIndex = j}
        BY DEF Answered
    <2>3. CASE j # i
        <3>1. Answered(j)' = Answered(j) /\ k \notin Answered(j)
            <4>1. \A o \in DOMAIN response' : response'[o].requestIndex = j =>
                        o # k /\ o \in DOMAIN response /\ response'[o] = response[o]
                BY <1>5, <2>3 DEF TurnOf
            <4>2. k \notin DOMAIN response \/ response[k].requestIndex = i
                BY <1>5 DEF TurnOf, Candidates, Belongs
            <4>3. \A o \in DOMAIN response : response[o].requestIndex = j =>
                        o # k /\ o \in DOMAIN response' /\ response'[o] = response[o]
                BY <1>5, <2>3, <4>2 DEF TurnOf
            <4> QED
                BY <2>2, <2>3, <4>1, <4>2, <4>3 DEF Answered
        <3>2. \A o \in Answered(j) : o \in DOMAIN response' /\ response'[o] = response[o]
            BY <1>5, <3>1 DEF Answered, TurnOf
        <3>3. merged'[j] = merged[j]
            BY <1>3, <1>8, <2>3
        <3> QED
            BY <2>1, <3>1, <3>2, <3>3 DEF PlainAnswer
    <2>4. CASE j = i
        <3>1. m = PlainMatch(i, merged[i] + 1)
            <4>1. matches[i] = [c \in 1 .. Len(matches[i]) |-> PlainMatch(i, c)]
                BY <1>3, <2>4 DEF IInv, MatchesInTurn
            <4>2. merged[i] + 1 \in 1 .. Len(matches[i])
                BY <1>1, <1>7
            <4> QED
                BY <4>1, <4>2 DEF m
        <3>2. m.colIdx = merged[i] + 1 /\ m.selIdx = 0 /\ m.source = req[i].target
            BY <3>1, PlainMatchFields
        <3>3. Candidates(i, m) = Answered(i)
            BY <1>9, <3>2 DEF Candidates, Belongs, Answered, ResponseElement
        <3>4. CASE merged[i] = 0
            <4>1. Answered(i) = {}
                BY <2>1, <2>4, <3>4 DEF PlainAnswer
            <4>2. /\ response'[k].source = m.source
                  /\ response'[k].data = PutSeries(<<>>, m)
                BY <1>5, <3>3, <4>1 DEF TurnOf
            <4>3. Answered(i)' = {k}
                BY <1>5, <2>2, <2>4, <4>1 DEF Answered, TurnOf
            <4>4. <<>> \in Seq(AnySeries) /\ Len(<<>>) = 0
                BY EmptySeq
            <4>5. PutSeries(<<>>, m) = [c \in 1 .. 0 + 1 |->
                                            IF c = 0 + 1 THEN Series(m) ELSE <<>>[c]]
                BY <1>4, <3>2, <3>4, <4>4, PutSeriesProperties
            <4>6. response'[k].data = [c \in 1 .. 1 |-> Series(PlainMatch(i, c))]
                BY <3>1, <3>4, <4>2, <4>5
            <4> QED
                BY <1>8, <2>4, <3>2, <3>4, <4>2, <4>3, <4>6
        <3>5. CASE merged[i] # 0
            <4>1. PICK o \in DOMAIN response :
                    /\ Answered(i) = {o}
                    /\ response[o].source = req[i].target
                    /\ response[o].data = [c \in 1 .. merged[i] |-> Series(PlainMatch(i, c))]
                BY <2>1, <2>4, <3>5 DEF PlainAnswer
            <4>2. o = k /\ response'[k].source = response[k].source
                  /\ response'[k].data = PutSeries(response[k].data, m)
                BY <1>5, <3>3, <4>1 DEF TurnOf
            <4>3. Answered(i)' = {k}
                BY <1>5, <2>2, <2>4, <4>1, <4>2 DEF Answered, TurnOf
            <4>4. response[k].data \in Seq(AnySeries)
                BY <1>9, <4>1, <4>2 DEF ResponseElement
            <4>5. Len(response[k].data) = merged[i]
                BY <1>7, <4>1, <4>2
            <4> DEFINE d == response[k].data
            <4>6. PutSeries(d, m) = [c \in 1 .. merged[i] + 1 |->
                        IF c = merged[i] + 1 THEN Series(m) ELSE d[c]]
                <5>1. d \in Seq(AnySeries) /\ m.colIdx = Len(d) + 1
                    BY <3>2, <4>4, <4>5
                <5> HIDE DEF d
                <5>2. PutSeries(d, m) = [c \in 1 .. Len(d) + 1 |->
                            IF c = Len(d) + 1 THEN Series(m) ELSE d[c]]
                    BY <1>4, <5>1, PutSeriesProperties
                <5>3. Len(d) = merged[i]
                    BY <4>5 DEF d
                <5> QED
                    BY <5>2, <5>3
            <4>7. \A c \in 1 .. merged[i] + 1 :
                    (IF c = merged[i] + 1 THEN Series(m) ELSE response[k].data[c])
                        = Series(PlainMatch(i, c))
                BY <1>7, <3>1, <4>1, <4>2
            <4>8. response'[k].data = [c \in 1 .. merged[i] + 1 |-> Series(PlainMatch(i, c))]
                BY <4>2, <4>6, <4>7
            <4>9. merged[i] + 1 # 0
                BY <1>7
            <4> QED
                BY <1>8, <2>4, <4>1, <4>2, <4>3, <4>8, <4>9
        <3> QED
            BY <3>4, <3>5
    <2> QED
        BY <2>3, <2>4
<1> QED
    BY <1>10, <1>11, <1>12, <1>13, <1>14, <1>15, <1>16, <1>17 DEF IInv

LEMMA PanicKeeps ==
    ASSUME IInv, NEW i \in Index, Panic(i)
    PROVE  IInv'
<1>1. /\ pc = "run" /\ pc' = "crashed" /\ status' = status
      /\ UNCHANGED <<req, ownerUserIds, gpc, mux, matches, queries, merged, raised, response>>
    BY DEF Panic, At
<1>2. TypeOK'
    BY <1>1 DEF IInv, TypeOK
<1>3. GoroutinesStarted'
    BY <1>1 DEF IInv, GoroutinesStarted, Pending
<1> QED
    BY <1>1, <1>2, <1>3, FrozenKeeps

-----------------------------------------------------------------------------
(* The inductive invariant holds in every state: types, what each          *)
(* goroutine has collected and merged, and what is in the response for it. *)
THEOREM Invariance == Spec => []IInv
<1>1. Init => IInv
    BY InitIInv
<1>2. IInv /\ [Next]_vars => IInv'
    <2> SUFFICES ASSUME IInv, [Next]_vars PROVE IInv'
        OBVIOUS
    <2>1. ASSUME NEW es \in Bodies, Receive(es) PROVE IInv'
        BY <2>1, ReceiveKeeps
    <2>2. ASSUME NEW i \in Index, Goroutine(i) PROVE IInv'
        BY <2>2, CollectKeeps, GenerateKeeps, ExecuteAndLockKeep, RaiseKeeps, MergeOneKeeps,
           PanicKeeps DEF Goroutine
    <2>3. CASE ReadCache
        BY <2>3, ReadCacheKeeps
    <2>4. CASE \/ Refuse \/ VerifyGrants \/ CachePanics \/ BadLocation
               \/ Finish \/ Restart \/ UNCHANGED vars
        BY <2>4, HandlerKeeps
    <2> QED
        BY <2>1, <2>2, <2>3, <2>4 DEF Next, Handler
<1> QED
    BY <1>1, <1>2, PTL DEF Spec

(* A goroutine never indexes beyond the shared list of owners (the appends *)
(* to ownerUserIds, queries_v2.go).                                        *)
THEOREM OwnersSuffice == Spec => []OwnersCoverMatches
<1>1. IInv => OwnersCoverMatches
    BY DEF IInv
<1> QED
    BY <1>1, Invariance, PTL

(* No series ends up under the request index of an element that did not    *)
(* ask for it (the merging loop, queries_v2.go).                           *)
THEOREM SeriesAreAskedFor == Spec => []NoForeignSeries
<1>1. IInv => NoForeignSeries
    BY DEF IInv
<1> QED
    BY <1>1, Invariance, PTL

(* A 200 is complete for every export and device: when wg.Wait() returns   *)
(* and no error was raised, every goroutine has merged all its columns.    *)
THEOREM PlainAnswersAreWhole == Spec => []PlainElementsComplete
<1>1. IInv => PlainElementsComplete
    <2> SUFFICES ASSUME IInv, status = 200, NEW i \in DOMAIN req, Plain(i), gpc[i] # "cached"
                 PROVE  \E k \in DOMAIN response :
                            /\ Answered(i) = {k}
                            /\ response[k].source = req[i].target
                            /\ response[k].data = [c \in DOMAIN req[i].columns |->
                                    [source |-> req[i].target, column |-> req[i].columns[c]]]
        BY DEF PlainElementsComplete, Plain
    <2> DEFINE n == Len(req[i].columns)
    <2>1. /\ i \in Index /\ n \in Nat \ {0} /\ DOMAIN req[i].columns = 1 .. n
        BY RequestTypes DEF IInv
    <2>2. raised = {} /\ gpc[i] = "done"
        BY DEF IInv, GoroutinesStarted
    <2>3. Missing(i) = {} /\ merged[i] = Len(matches[i])
        BY <2>2 DEF IInv, NothingIsMissing
    <2>4. /\ matches[i] = [c \in 1 .. Len(matches[i]) |-> PlainMatch(i, c)]
          /\ Range(matches[i]) \subseteq MatchesOf(req[i]) /\ Len(matches[i]) \in Nat
        BY <2>1, LenProperties DEF IInv, TypeOK, MatchesInTurn
    <2>5. Range(matches[i]) = {PlainMatch(i, c) : c \in 1 .. Len(matches[i])}
        BY <2>4 DEF Range
    <2>6. MatchesOf(req[i]) = {PlainMatch(i, c) : c \in 1 .. n}
        BY <2>1, PlainMatchesOf
    <2> HIDE DEF n
    <2>7. \A c \in 1 .. n : c \in 1 .. Len(matches[i])
        <3> SUFFICES ASSUME NEW c \in 1 .. n PROVE c \in 1 .. Len(matches[i])
            OBVIOUS
        <3>1. PlainMatch(i, c) \in Range(matches[i])
            BY <2>3, <2>6 DEF Missing
        <3>2. PICK b \in 1 .. Len(matches[i]) : PlainMatch(i, c) = PlainMatch(i, b)
            BY <2>5, <3>1
        <3> QED
            BY <3>2, PlainMatchFields
    <2>8. \A c \in 1 .. Len(matches[i]) : c \in 1 .. n
        BY <2>4, <2>5, <2>6, PlainMatchFields
    <2>9. merged[i] = n
        BY <2>1, <2>3, <2>4, <2>7, <2>8
    <2>10. PICK k \in DOMAIN response :
                /\ Answered(i) = {k}
                /\ response[k].source = req[i].target
                /\ response[k].data = [c \in 1 .. n |-> Series(PlainMatch(i, c))]
        BY <2>1, <2>9 DEF IInv, PlainAnswers, PlainAnswer
    <2> QED
        BY <2>1, <2>10 DEF Series, PlainMatch
<1> QED
    BY <1>1, Invariance, PTL

=============================================================================
