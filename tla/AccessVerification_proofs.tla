---------------------- MODULE AccessVerification_proofs ----------------------
(***************************************************************************)
(* Proofs about AccessVerification, for every set of users, identifiers,   *)
(* concurrent calls, request length and cache lifetime.                    *)
(***************************************************************************)
EXTENDS AccessVerification, TLAPS

(* Requests are functions from an initial segment of the goroutine indices *)
(* to elements.                                                            *)
LEMMA ElementListFacts ==
    /\ <<>> \in ElementLists
    /\ \A es \in ElementLists :
        /\ DOMAIN es \subseteq Worker
        /\ \A i \in DOMAIN es : es[i] \in Element /\ es[i].id \in Id /\ es[i].kind \in Kind
<1>1. <<>> \in [1 .. 0 -> Element]
  OBVIOUS
<1>2. <<>> \in ElementLists
  BY <1>1, VerificationAssumption DEF ElementLists
<1>3. ASSUME NEW es \in ElementLists
      PROVE  /\ DOMAIN es \subseteq Worker
             /\ \A i \in DOMAIN es : es[i] \in Element
  <2>1. PICK n \in 0 .. MaxElements : es \in [1 .. n -> Element]
    BY DEF ElementLists
  <2>2. 1 .. n \subseteq 1 .. MaxElements
    BY VerificationAssumption
  <2> QED
    BY <2>1, <2>2 DEF Worker
<1>4. \A e \in Element : e.id \in Id /\ e.kind \in Kind
  BY AccessAssumption
<1> QED
  BY <1>2, <1>3, <1>4

(* Ageing keeps entries within their lifetime and changes nothing else.    *)
LEMMA AgeFacts ==
    ASSUME NEW es \in SUBSET CacheEntry
    PROVE  /\ Age(es) \in SUBSET CacheEntry
           /\ \A x \in Age(es) : \E y \in es : x.entry = y.entry
<1>1. ASSUME NEW y \in es, y.left > 1
      PROVE  /\ [y EXCEPT !.left = @ - 1] \in CacheEntry
             /\ [y EXCEPT !.left = @ - 1].entry = y.entry
  BY <1>1, VerificationAssumption DEF CacheEntry
<1> QED
  BY <1>1 DEF Age

-----------------------------------------------------------------------------
(* The type invariant.                                                     *)

(* Types alone are not inductive: a goroutine that runs must have an       *)
(* element to run for.                                                     *)
LEMMA TypeInit == Init => TypeOK /\ OneGoroutinePerElement
  BY ElementListFacts, VerificationAssumption
  DEF Init, TypeOK, OneGoroutinePerElement, Worker, WorkerState, VerifierCacheEntry, Denied

LEMMA GoroutineStep ==
    OneGoroutinePerElement /\ TypeOK /\ [Next]_vars => OneGoroutinePerElement'
<1> SUFFICES ASSUME OneGoroutinePerElement, TypeOK, [Next]_vars
             PROVE  OneGoroutinePerElement'
  OBVIOUS
<1> USE DEF OneGoroutinePerElement
<1>0. /\ elems \in [Call -> ElementLists]
      /\ wpc \in [Call -> [Worker -> WorkerState]]
  BY DEF TypeOK
<1>1. ASSUME NEW c \in Call, NEW u \in User, NEW es \in ElementLists, VerifyAccess(c, u, es)
      PROVE  OneGoroutinePerElement'
  BY <1>0, <1>1 DEF VerifyAccess
<1>2. ASSUME NEW c \in Call, NEW i \in Worker, Goroutine(c, i)
      PROVE  OneGoroutinePerElement'
  <2>1. wpc[c][i] # "unused" /\ elems' = elems
    BY <1>2 DEF Goroutine, CacheHit, CacheMiss, CheckPermission, GetInstance,
                UpstreamError, CacheSet, Report, At
  <2>2. \E state \in WorkerState \ {"unused"} : Goto(c, i, state)
    BY <1>2 DEF Goroutine, CacheHit, CacheMiss, CheckPermission, GetInstance,
                UpstreamError, CacheSet, Report, WorkerState
  <2> QED
    BY <1>0, <2>1, <2>2 DEF Goto
<1>3. CASE UNCHANGED <<elems, wpc>>
  BY <1>3
<1> QED
  BY <1>1, <1>2, <1>3 DEF Next, vars, Return, Tick, Evict, ChangeRights

LEMMA TypeStep == OneGoroutinePerElement /\ TypeOK /\ [Next]_vars => TypeOK'
<1> SUFFICES ASSUME OneGoroutinePerElement, TypeOK, [Next]_vars PROVE TypeOK'
  OBVIOUS
<1> USE DEF TypeOK
<1>1. ASSUME NEW c \in Call, NEW u \in User, NEW es \in ElementLists, VerifyAccess(c, u, es)
      PROVE  TypeOK'
  BY <1>1 DEF VerifyAccess, WorkerState, VerifierCacheEntry, Denied
<1>2. ASSUME NEW c \in Call, NEW i \in Worker, Goroutine(c, i)
      PROVE  TypeOK'
  <2>0. /\ wpc[c] \in [Worker -> WorkerState]
        /\ result[c] \in [Worker -> VerifierCacheEntry]
        /\ KeyOf(c, i) = <<user[c], elems[c][i].id>>
    BY DEF KeyOf, CacheKey
  <2>1. ASSUME NEW state \in WorkerState, Goto(c, i, state)
        PROVE  wpc' \in [Call -> [Worker -> WorkerState]]
    BY <2>0, <2>1 DEF Goto
  <2>2. ASSUME NEW r \in VerifierCacheEntry, SetResult(c, i, r)
        PROVE  result' \in [Call -> [Worker -> VerifierCacheEntry]]
    BY <2>0, <2>2 DEF SetResult
  <2>3. ASSUME phase[c] = "running", wpc[c][i] # "unused"
        PROVE  /\ i \in DOMAIN elems[c]
               /\ user[c] \in User /\ elems[c][i] \in Element
               /\ elems[c][i].id \in Id /\ KeyOf(c, i) \in User \X Id
    BY <2>0, <2>3, ElementListFacts DEF OneGoroutinePerElement
  <2>4. {"report", "ask", "store", "instance", "failed", "done"} \subseteq WorkerState
    BY DEF WorkerState
  <2>5. CASE CacheHit(c, i)
    <3>1. PICK hit \in cache[KeyOf(c, i)] : SetResult(c, i, hit.entry)
      BY <2>5 DEF CacheHit
    <3>2. cache[KeyOf(c, i)] \subseteq CacheEntry
      BY <2>3, <2>5 DEF CacheHit, At
    <3>3. hit.entry \in VerifierCacheEntry
      BY <3>1, <3>2 DEF CacheEntry
    <3> QED
      BY <2>1, <2>2, <2>4, <2>5, <3>1, <3>3 DEF CacheHit
  <2>6. CASE CacheMiss(c, i)
    BY <2>1, <2>4, <2>6 DEF CacheMiss
  <2>7. CASE CheckPermission(c, i)
    <3>1. /\ Granted(NoUser) \in VerifierCacheEntry
          /\ Denied \in VerifierCacheEntry
      BY DEF Granted, Denied, VerifierCacheEntry
    <3> DEFINE yes == Sufficient(rights, user[c], elems[c][i])
    <3>a. user[c] \in User /\ elems[c][i].id \in Id /\ elems[c][i].kind \in Kind
      BY <2>3, AccessAssumption, <2>7 DEF CheckPermission, At
    <3>b. yes \in BOOLEAN
      BY DEF Sufficient
    <3>c. replied' = replied \cup {<<user[c], elems[c][i].kind, elems[c][i].id, yes>>}
      BY <2>7 DEF CheckPermission
    <3>2. replied' \subseteq User \X Kind \X Id \X BOOLEAN
      BY <3>a, <3>b, <3>c
    <3>3. result' \in [Call -> [Worker -> VerifierCacheEntry]]
      BY <2>2, <2>7, <3>1 DEF CheckPermission
    <3>4. wpc' \in [Call -> [Worker -> WorkerState]]
      BY <2>1, <2>4, <2>7 DEF CheckPermission
    <3> QED
      BY <2>7, <3>2, <3>3, <3>4 DEF CheckPermission
  <2>8. CASE GetInstance(c, i)
    <3>1. Granted(OwnerOf[elems[c][i].id]) \in VerifierCacheEntry
      BY <2>3, <2>8, AccessAssumption DEF GetInstance, At, Granted, VerifierCacheEntry
    <3> QED
      BY <2>1, <2>2, <2>4, <2>8, <3>1 DEF GetInstance
  <2>9. CASE UpstreamError(c, i)
    BY <2>1, <2>4, <2>9 DEF UpstreamError
  <2>10. CASE CacheSet(c, i)
    <3>1. [entry |-> result[c][i], left |-> TTL] \in CacheEntry
      BY <2>0, VerificationAssumption DEF CacheEntry
    <3>2. cache' \in [User \X Id -> SUBSET CacheEntry]
      BY <2>10, <3>1 DEF CacheSet
    <3> QED
      BY <2>1, <2>4, <2>10, <3>2 DEF CacheSet
  <2>11. CASE Report(c, i)
    <3>1. result[c][i].Ok \in BOOLEAN /\ result[c][i].OwnerUserId \in User \cup {NoUser}
      BY <2>0 DEF VerifierCacheEntry
    <3>2. wpc' \in [Call -> [Worker -> WorkerState]]
      BY <2>1, <2>4, <2>11 DEF Report
    <3>3. ok' \in [Call -> BOOLEAN]
      BY <2>11 DEF Report
    <3>4. err' \in [Call -> BOOLEAN]
      BY <2>11 DEF Report
    <3>5. userIds' \in [Call -> [Worker -> User \cup {NoUser}]]
      <4>1. userIds[c] \in [Worker -> User \cup {NoUser}]
        OBVIOUS
      <4>2. CASE userIds' = userIds
        BY <4>2
      <4>3. CASE userIds' = [userIds EXCEPT ![c][i] =
                                IF result[c][i].Ok THEN result[c][i].OwnerUserId ELSE @]
        <5> DEFINE owner == IF result[c][i].Ok THEN result[c][i].OwnerUserId
                            ELSE userIds[c][i]
        <5>1. owner \in User \cup {NoUser}
          BY <3>1, <4>1
        <5>2. userIds' = [userIds EXCEPT ![c] = [userIds[c] EXCEPT ![i] = owner]]
          BY <4>1, <4>3
        <5> HIDE DEF owner
        <5> QED
          BY <4>1, <5>1, <5>2
      <4> QED
        BY <2>11, <4>2, <4>3 DEF Report
    <3> QED
      BY <2>11, <3>2, <3>3, <3>4, <3>5 DEF Report
  <2> QED
    BY <1>2, <2>5, <2>6, <2>7, <2>8, <2>9, <2>10, <2>11 DEF Goroutine
<1>3. ASSUME NEW c \in Call, Return(c)
      PROVE  TypeOK'
  BY <1>3 DEF Return
<1>4. CASE Tick
  BY <1>4, AgeFacts DEF Tick
<1>5. ASSUME NEW k \in User \X Id, Evict(k)
      PROVE  TypeOK'
  BY <1>5 DEF Evict
<1>6. ASSUME NEW k \in User \X Id, NEW r \in SUBSET Right, ChangeRights(k, r)
      PROVE  TypeOK'
  BY <1>6 DEF ChangeRights
<1>7. CASE UNCHANGED vars
  BY <1>7 DEF vars
<1> QED
  BY <1>1, <1>2, <1>3, <1>4, <1>5, <1>6, <1>7 DEF Next

(* Every reachable state is well typed, whatever the constants.            *)
THEOREM TypeCorrect == Spec => []TypeOK
<1>1. Init => TypeOK /\ OneGoroutinePerElement
  BY TypeInit
<1>2. TypeOK /\ OneGoroutinePerElement /\ [Next]_vars => (TypeOK /\ OneGoroutinePerElement)'
  BY TypeStep, GoroutineStep
<1> QED
  BY <1>1, <1>2, PTL DEF Spec

-----------------------------------------------------------------------------
(* The invariants about grants, denials and owners.                        *)

LEMMA BackedKept ==
    ASSUME ResultIsBacked, replied \subseteq replied', NEW c \in Call, NEW i \in Worker,
           wpc'[c][i] = wpc[c][i], result'[c][i] = result[c][i],
           user'[c] = user[c], elems'[c] = elems[c]
    PROVE  BackedAt(c, i)'
<1>1. BackedAt(c, i)
  BY DEF ResultIsBacked, BackedAt
<1> QED
  BY <1>1 DEF BackedAt, IsBacked, IsAffirmed, Affirmed

(* What every goroutine step leaves alone, and what a running one has.     *)
LEMMA GoroutineFacts ==
    ASSUME IInv, NEW c \in Call, NEW i \in Worker, Goroutine(c, i)
    PROVE  /\ elems' = elems /\ user' = user /\ phase' = phase /\ rights' = rights
           /\ phase[c] = "running"
           /\ i \in DOMAIN elems[c]
           /\ user[c] \in User /\ elems[c][i].id \in Id /\ elems[c][i] \in Element
           /\ replied \subseteq replied'
<1>1. /\ elems' = elems /\ user' = user /\ phase' = phase /\ rights' = rights
      /\ phase[c] = "running" /\ wpc[c][i] # "unused"
      /\ replied \subseteq replied'
  BY DEF Goroutine, CacheHit, CacheMiss, CheckPermission, GetInstance,
         UpstreamError, CacheSet, Report, At
<1> QED
  BY <1>1, ElementListFacts DEF IInv, TypeOK, OneGoroutinePerElement

LEMMA RepliesStay == IInv /\ [Next]_vars => replied \subseteq replied'
  BY GoroutineFacts DEF Next, vars, VerifyAccess, Return, Tick, Evict, ChangeRights

LEMMA RepliesStep == IInv /\ [Next]_vars => RepliesAreToElements'
<1> SUFFICES ASSUME IInv, [Next]_vars PROVE RepliesAreToElements'
  OBVIOUS
<1>1. RepliesAreToElements
  BY DEF IInv
<1>2. CASE replied' = replied
  BY <1>1, <1>2 DEF RepliesAreToElements
<1>3. ASSUME NEW c \in Call, NEW i \in Worker, CheckPermission(c, i)
      PROVE  RepliesAreToElements'
  <2> DEFINE e == elems[c][i]
             r == <<user[c], e.kind, e.id, Sufficient(rights, user[c], e)>>
  <2>1. e \in Element
    BY <1>3, GoroutineFacts DEF Goroutine
  <2>2. e = [kind |-> e.kind, id |-> e.id]
    BY <2>1, AccessAssumption
  <2>3. [kind |-> r[2], id |-> r[3]] \in Element
    BY <2>1, <2>2
  <2>4. replied' = replied \cup {r}
    BY <1>3 DEF CheckPermission
  <2> HIDE DEF r
  <2> QED
    BY <1>1, <2>3, <2>4 DEF RepliesAreToElements
<1> QED
  BY <1>2, <1>3
  DEF Next, vars, VerifyAccess, Goroutine, CacheHit, CacheMiss, GetInstance,
      UpstreamError, CacheSet, Report, Return, Tick, Evict, ChangeRights

LEMMA CacheStep == IInv /\ [Next]_vars => CacheIsBacked'
<1> SUFFICES ASSUME IInv, [Next]_vars PROVE CacheIsBacked'
  OBVIOUS
<1> USE DEF IInv
<1>0. replied \subseteq replied'
  BY RepliesStay
<1>1. CASE cache' = cache
  BY <1>0, <1>1 DEF CacheIsBacked, IsBacked
<1>2. ASSUME NEW c \in Call, NEW i \in Worker, CacheSet(c, i)
      PROVE  CacheIsBacked'
  <2>1. Goroutine(c, i)
    BY <1>2 DEF Goroutine
  <2> DEFINE u0 == user[c]
             i0 == elems[c][i].id
             new == [entry |-> result[c][i], left |-> TTL]
  <2>2. u0 \in User /\ i0 \in Id
    BY <2>1, GoroutineFacts
  <2>3. cache' = [cache EXCEPT ![<<u0, i0>>] = {new}] /\ replied' = replied
    BY <1>2 DEF CacheSet, KeyOf, CacheKey
  <2>4. IsBacked(u0, i0, new.entry)
    BY <1>2 DEF CacheSet, At, ResultIsBacked, BackedAt
  <2> HIDE DEF u0, i0, new
  <2>5. cache \in [User \X Id -> SUBSET CacheEntry]
    BY DEF TypeOK
  <2>6. ASSUME NEW u \in User, NEW id \in Id, NEW x \in cache'[<<u, id>>]
        PROVE  IsBacked(u, id, x.entry)'
    <3>1. CASE u = u0 /\ id = i0
      <4>1. x = new
        BY <2>2, <2>3, <2>5, <2>6, <3>1
      <4> QED
        BY <2>3, <2>4, <3>1, <4>1 DEF IsBacked
    <3>2. CASE ~ (u = u0 /\ id = i0)
      <4>1. cache'[<<u, id>>] = cache[<<u, id>>]
        BY <2>2, <2>3, <2>5, <3>2
      <4> QED
        BY <2>3, <2>6, <4>1 DEF CacheIsBacked, IsBacked
    <3> QED
      BY <3>1, <3>2
  <2> QED
    BY <2>6 DEF CacheIsBacked
<1>3. CASE Tick
  <2>1. ASSUME NEW u \in User, NEW id \in Id, NEW x \in cache'[<<u, id>>]
        PROVE  IsBacked(u, id, x.entry)'
    <3>1. PICK y \in cache[<<u, id>>] : x.entry = y.entry
      BY <1>3, <2>1, AgeFacts DEF Tick, TypeOK
    <3>2. IsBacked(u, id, y.entry)
      BY DEF CacheIsBacked
    <3> QED
      BY <1>0, <3>1, <3>2 DEF IsBacked
  <2> QED
    BY <2>1 DEF CacheIsBacked
<1>4. ASSUME NEW k \in User \X Id, Evict(k)
      PROVE  CacheIsBacked'
  <2>1. \A u \in User, id \in Id : cache'[<<u, id>>] \subseteq cache[<<u, id>>]
    BY <1>4 DEF Evict, TypeOK
  <2>2. ASSUME NEW u \in User, NEW id \in Id, NEW x \in cache'[<<u, id>>]
        PROVE  IsBacked(u, id, x.entry)'
    <3>1. x \in cache[<<u, id>>]
      BY <2>1, <2>2
    <3> QED
      BY <1>0, <3>1 DEF CacheIsBacked, IsBacked
  <2> QED
    BY <2>2 DEF CacheIsBacked
<1> QED
  BY <1>1, <1>2, <1>3, <1>4
  DEF Next, vars, VerifyAccess, Goroutine, CacheHit, CacheMiss, CheckPermission, GetInstance,
      UpstreamError, Report, Return, ChangeRights

LEMMA ResultStep == IInv /\ [Next]_vars => ResultIsBacked'
<1> SUFFICES ASSUME IInv, [Next]_vars PROVE ResultIsBacked'
  OBVIOUS
<1> USE DEF IInv
<1>0. replied \subseteq replied'
  BY RepliesStay
<1>t. /\ wpc \in [Call -> [Worker -> WorkerState]]
      /\ result \in [Call -> [Worker -> VerifierCacheEntry]]
      /\ elems \in [Call -> ElementLists] /\ user \in [Call -> User]
  BY DEF TypeOK
<1>1. ASSUME NEW c \in Call, NEW u \in User, NEW es \in ElementLists, VerifyAccess(c, u, es)
      PROVE  ResultIsBacked'
  <2>1. \A d \in Call \ {c}, i \in Worker :
            /\ wpc'[d][i] = wpc[d][i] /\ result'[d][i] = result[d][i]
            /\ user'[d] = user[d] /\ elems'[d] = elems[d]
    BY <1>t, <1>1 DEF VerifyAccess
  <2>2. \A i \in Worker : wpc'[c][i] \in {"lookup", "unused"}
    BY <1>t, <1>1 DEF VerifyAccess
  <2>3. ASSUME NEW d \in Call, NEW i \in Worker
        PROVE  BackedAt(d, i)'
    <3>1. CASE d = c
      BY <2>2, <3>1 DEF BackedAt
    <3>2. CASE d # c
      BY <1>0, <2>1, <3>2, BackedKept
    <3> QED
      BY <3>1, <3>2
  <2> QED
    BY <2>3 DEF ResultIsBacked, BackedAt
<1>2. ASSUME NEW c \in Call, NEW i \in Worker, Goroutine(c, i)
      PROVE  ResultIsBacked'
  <2>0. /\ elems' = elems /\ user' = user
        /\ user[c] \in User /\ elems[c][i].id \in Id /\ elems[c][i] \in Element
    BY <1>2, GoroutineFacts, ElementListFacts, <1>t
  <2> DEFINE yesTo == <<user[c], KindOf[elems[c][i].id], elems[c][i].id, TRUE>>
             Backed(r) == /\ r.Ok => yesTo \in replied'
                                     /\ r.OwnerUserId = OwnerOf[elems[c][i].id]
                          /\ ~ r.Ok => \E kind \in Kind :
                                <<user[c], kind, elems[c][i].id, FALSE>> \in replied'
  <2>1. ASSUME NEW state \in WorkerState, Goto(c, i, state),
               \/ result' = result
               \/ \E r \in VerifierCacheEntry : SetResult(c, i, r),
               state = "instance" => yesTo \in replied',
               state \in {"store", "report"} => Backed(result'[c][i])
        PROVE  ResultIsBacked'
    <3>1. wpc'[c][i] = state
      BY <1>t, <2>1 DEF Goto
    <3>2. \A d \in Call, j \in Worker : ~ (d = c /\ j = i) =>
             wpc'[d][j] = wpc[d][j] /\ result'[d][j] = result[d][j]
      BY <1>t, <2>1 DEF Goto, SetResult
    <3>3. BackedAt(c, i)'
      BY <2>0, <2>1, <3>1 DEF BackedAt, IsBacked, IsAffirmed, Affirmed
    <3>4. ASSUME NEW d \in Call, NEW j \in Worker, ~ (d = c /\ j = i)
          PROVE  BackedAt(d, j)'
      BY <1>0, <2>0, <3>2, <3>4, BackedKept
    <3> QED
      BY <3>3, <3>4 DEF ResultIsBacked, BackedAt
  <2>2. CASE CacheHit(c, i)
    <3>1. PICK hit \in cache[<<user[c], elems[c][i].id>>] : SetResult(c, i, hit.entry)
      BY <2>2 DEF CacheHit, KeyOf, CacheKey
    <3>2. hit.entry \in VerifierCacheEntry
      BY <2>0, <3>1 DEF TypeOK, CacheEntry
    <3>3. result'[c][i] = hit.entry
      BY <1>t, <3>1 DEF SetResult
    <3>4. Backed(hit.entry)
      BY <1>0, <2>0, <3>1 DEF CacheIsBacked, IsBacked
    <3>5. Goto(c, i, "report") /\ "report" \in WorkerState
      BY <2>2 DEF CacheHit, WorkerState
    <3> QED
      BY <2>1, <3>1, <3>2, <3>3, <3>4, <3>5
  <2>3. CASE CacheMiss(c, i)
    BY <2>1, <2>3 DEF CacheMiss, WorkerState
  <2>4. CASE CheckPermission(c, i)
    <3> DEFINE e   == elems[c][i]
               yes == Sufficient(rights, user[c], e)
               r   == IF yes THEN Granted(NoUser) ELSE Denied
    <3>1. /\ SetResult(c, i, r) /\ <<user[c], e.kind, e.id, yes>> \in replied'
          /\ Goto(c, i, IF yes /\ e.kind = "export" THEN "instance" ELSE "store")
      BY <2>4 DEF CheckPermission
    <3>2. yes \in BOOLEAN
      BY DEF Sufficient
    <3>3. r \in VerifierCacheEntry /\ r.Ok = yes /\ (yes => r.OwnerUserId = NoUser)
      BY <3>2 DEF VerifierCacheEntry, Granted, Denied
    <3>4. result'[c][i] = r
      BY <1>t, <3>1 DEF SetResult
    <3>5. /\ e.kind \in Kind
          /\ yes => e.kind = KindOf[e.id]
          /\ yes /\ e.kind # "export" => OwnerOf[e.id] = NoUser
      BY <2>0, AccessAssumption DEF Sufficient
    <3>6. {"instance", "store"} \subseteq WorkerState
      BY DEF WorkerState
    <3> HIDE DEF r, yes
    <3>7. CASE yes /\ e.kind = "export"
      <4>1. yesTo \in replied'
        BY <3>1, <3>5, <3>7
      <4> QED
        BY <2>1, <3>1, <3>3, <3>6, <3>7, <4>1
    <3>8. CASE ~ (yes /\ e.kind = "export")
      <4>1. Backed(r)
        BY <3>1, <3>2, <3>3, <3>5, <3>8
      <4> QED
        BY <2>1, <3>1, <3>3, <3>4, <3>6, <3>8, <4>1
    <3> QED
      BY <3>7, <3>8
  <2>5. CASE GetInstance(c, i)
    <3> DEFINE r == Granted(OwnerOf[elems[c][i].id])
    <3>1. r \in VerifierCacheEntry /\ r.Ok /\ r.OwnerUserId = OwnerOf[elems[c][i].id]
      BY <2>0, AccessAssumption DEF Granted, VerifierCacheEntry
    <3>2. SetResult(c, i, r) /\ Goto(c, i, "store") /\ "store" \in WorkerState
      BY <2>5 DEF GetInstance, WorkerState
    <3>3. result'[c][i] = r
      BY <1>t, <3>2 DEF SetResult
    <3>4. yesTo \in replied'
      BY <1>0, <2>5 DEF GetInstance, At, ResultIsBacked, BackedAt, IsAffirmed, Affirmed
    <3>5. r.Ok = TRUE
      BY DEF Granted
    <3>6. Backed(r)
      BY <3>1, <3>4, <3>5
    <3> HIDE DEF r
    <3> QED
      BY <2>1, <3>1, <3>2, <3>3, <3>6
  <2>6. CASE UpstreamError(c, i)
    BY <2>1, <2>6 DEF UpstreamError, WorkerState
  <2>7. CASE CacheSet(c, i)
    <3>1. Backed(result[c][i])
      BY <1>0, <2>7 DEF CacheSet, At, ResultIsBacked, BackedAt, IsBacked
    <3> QED
      BY <2>1, <2>7, <3>1 DEF CacheSet, WorkerState
  <2>8. CASE Report(c, i)
    BY <2>1, <2>8 DEF Report, WorkerState
  <2> QED
    BY <1>2, <2>2, <2>3, <2>4, <2>5, <2>6, <2>7, <2>8 DEF Goroutine
<1>3. CASE UNCHANGED <<wpc, result, user, elems>>
  BY <1>0, <1>3 DEF ResultIsBacked, BackedAt, IsBacked, IsAffirmed, Affirmed
<1> QED
  BY <1>1, <1>2, <1>3 DEF Next, vars, Return, Tick, Evict, ChangeRights

(* The part of OkIsBacked that a step of another call cannot disturb.      *)
LEMMA OkKept ==
    ASSUME OkIsBacked, replied \subseteq replied', NEW c \in Call,
           ok'[c] = ok[c], err'[c] = err[c], phase'[c] # "idle" => phase[c] # "idle",
           user'[c] = user[c], elems'[c] = elems[c], userIds'[c] = userIds[c],
           \A i \in Worker : wpc'[c][i] = "done" => wpc[c][i] = "done"
    PROVE  OkAt(c)'
<1>1. OkAt(c)
  BY DEF OkIsBacked
<1> QED
  BY <1>1 DEF OkAt, IsAffirmed, IsRefused, Affirmed, Refused, RefusedAsAnother

LEMMA OkStep == IInv /\ [Next]_vars => OkIsBacked'
<1> SUFFICES ASSUME IInv, [Next]_vars PROVE OkIsBacked'
  OBVIOUS
<1> USE DEF IInv
<1>0. replied \subseteq replied'
  BY RepliesStay
<1>t. /\ wpc \in [Call -> [Worker -> WorkerState]]
      /\ userIds \in [Call -> [Worker -> User \cup {NoUser}]]
      /\ ok \in [Call -> BOOLEAN] /\ err \in [Call -> BOOLEAN]
  BY DEF TypeOK
<1>1. ASSUME NEW c \in Call, NEW u \in User, NEW es \in ElementLists, VerifyAccess(c, u, es)
      PROVE  OkIsBacked'
  <2>1. OkAt(c)'
    <3>1. ok'[c] /\ ~ err'[c] /\ \A i \in Worker : wpc'[c][i] # "done"
      BY <1>t, <1>1 DEF VerifyAccess
    <3> QED
      BY <3>1 DEF OkAt
  <2>2. ASSUME NEW d \in Call, d # c
        PROVE  OkAt(d)'
    <3>1. /\ ok'[d] = ok[d] /\ err'[d] = err[d] /\ phase'[d] = phase[d]
          /\ user'[d] = user[d] /\ elems'[d] = elems[d] /\ userIds'[d] = userIds[d]
          /\ wpc'[d] = wpc[d]
      BY <1>1, <2>2 DEF VerifyAccess, TypeOK
    <3> QED
      BY <1>0, <3>1, OkKept
  <2> QED
    BY <2>1, <2>2 DEF OkIsBacked
<1>2. ASSUME NEW c \in Call, NEW i \in Worker, Goroutine(c, i), ~ Report(c, i)
      PROVE  OkIsBacked'
  <2>1. /\ elems' = elems /\ user' = user /\ phase' = phase
        /\ ok' = ok /\ err' = err /\ userIds' = userIds
    BY <1>2 DEF Goroutine, CacheHit, CacheMiss, CheckPermission, GetInstance,
                UpstreamError, CacheSet
  <2>2. \E state \in WorkerState \ {"done"} : Goto(c, i, state)
    BY <1>2 DEF Goroutine, CacheHit, CacheMiss, CheckPermission, GetInstance,
                UpstreamError, CacheSet, WorkerState
  <2>3. \A d \in Call, j \in Worker : wpc'[d][j] = "done" => wpc[d][j] = "done"
    BY <1>t, <2>2 DEF Goto
  <2> QED
    BY <1>0, <2>1, <2>3, OkKept DEF OkIsBacked
<1>3. ASSUME NEW c \in Call, NEW i \in Worker, Report(c, i)
      PROVE  OkIsBacked'
  <2>0. Goroutine(c, i)
    BY <1>3 DEF Goroutine
  <2>1. /\ elems' = elems /\ user' = user /\ phase' = phase /\ replied' = replied
        /\ i \in DOMAIN elems[c]
    BY <1>3, <2>0, GoroutineFacts DEF Report
  <2>2. ASSUME NEW d \in Call, d # c
        PROVE  OkAt(d)'
    <3>1. ok'[d] = ok[d] /\ err'[d] = err[d] /\ userIds'[d] = userIds[d] /\ wpc'[d] = wpc[d]
      BY <1>t, <1>3, <2>2 DEF Report, Goto
    <3> QED
      BY <1>0, <2>1, <3>1, OkKept
  <2>3. /\ wpc'[c][i] = "done"
        /\ \A j \in Worker \ {i} : wpc'[c][j] = wpc[c][j]
    BY <1>t, <1>3 DEF Report, Goto
  <2>4. OkAt(c)
    BY DEF OkIsBacked
  <2>5. CASE At(c, i, "failed")
    <3>1. ~ ok'[c] /\ err'[c]
      BY <1>t, <1>3, <2>5 DEF Report, At
    <3>2. elems[c] # <<>>
      BY <2>1
    <3> QED
      BY <2>1, <2>2, <3>1, <3>2 DEF OkIsBacked, OkAt
  <2>6. CASE At(c, i, "report")
    <3>1. /\ result[c][i].Ok => IsAffirmed(c, i)
          /\ result[c][i].Ok => result[c][i].OwnerUserId = OwnerOf[elems[c][i].id]
          /\ ~ result[c][i].Ok => IsRefused(c, i)
      BY <2>6 DEF ResultIsBacked, BackedAt, At, IsBacked, IsAffirmed, IsRefused,
                  Affirmed, Refused, RefusedAsAnother
    <3>2. result[c][i].Ok \in BOOLEAN
      BY DEF TypeOK, VerifierCacheEntry
    <3>3. /\ ok' = [ok EXCEPT ![c] = @ /\ result[c][i].Ok]
          /\ userIds' = [userIds EXCEPT ![c][i] =
                IF result[c][i].Ok THEN result[c][i].OwnerUserId ELSE @]
          /\ err' = err
      BY <1>3, <2>6 DEF Report, At
    <3>4. /\ \A j \in Worker \ {i} : userIds'[c][j] = userIds[c][j]
          /\ result[c][i].Ok => userIds'[c][i] = result[c][i].OwnerUserId
      BY <1>t, <3>3
    <3>5. CASE result[c][i].Ok
      <4>1. ok'[c] = ok[c] /\ IsAffirmed(c, i)
        BY <1>t, <3>1, <3>3, <3>5, <3>2
      <4>2. userIds'[c][i] = OwnerOf[elems[c][i].id]
        BY <3>1, <3>4, <3>5
      <4>3. ASSUME ok[c], NEW j \in Worker, wpc'[c][j] = "done"
            PROVE  IsAffirmed(c, j) /\ userIds'[c][j] = OwnerOf[elems[c][j].id]
        BY <2>3, <2>4, <3>4, <4>1, <4>2, <4>3 DEF OkAt
      <4>4. OkAt(c)'
        BY <2>1, <2>4, <3>3, <4>1, <4>3
        DEF OkAt, IsAffirmed, IsRefused, Affirmed, Refused, RefusedAsAnother
      <4> QED
        BY <2>2, <4>4 DEF OkIsBacked
    <3>6. CASE ~ result[c][i].Ok
      <4>1. ~ ok'[c] /\ IsRefused(c, i)
        BY <1>t, <3>1, <3>2, <3>3, <3>6
      <4>2. err'[c] => elems[c] # <<>>
        BY <2>4, <3>3 DEF OkAt
      <4>3. OkAt(c)'
        BY <2>1, <4>1, <4>2 DEF OkAt, IsRefused
      <4> QED
        BY <2>2, <4>3 DEF OkIsBacked
    <3> QED
      BY <3>5, <3>6
  <2> QED
    BY <1>3, <2>5, <2>6 DEF Report
<1>4. ASSUME NEW c \in Call, Return(c)
      PROVE  OkIsBacked'
  <2>1. \A d \in Call : phase'[d] # "idle" => phase[d] # "idle"
    BY <1>4 DEF Return, TypeOK
  <2> QED
    BY <1>0, <1>4, <2>1, OkKept DEF Return, OkIsBacked
<1>5. CASE UNCHANGED <<phase, user, elems, wpc, ok, err, userIds>>
  BY <1>0, <1>5, OkKept DEF OkIsBacked
<1> QED
  BY <1>1, <1>2, <1>3, <1>4, <1>5 DEF Next, vars, Tick, Evict, ChangeRights

LEMMA AnsweredStep == IInv /\ [Next]_vars => AnsweredWhenAllDone'
<1> SUFFICES ASSUME IInv, [Next]_vars PROVE AnsweredWhenAllDone'
  OBVIOUS
<1> USE DEF IInv, AnsweredWhenAllDone
<1>1. ASSUME NEW c \in Call, NEW u \in User, NEW es \in ElementLists, VerifyAccess(c, u, es)
      PROVE  AnsweredWhenAllDone'
  BY <1>1 DEF VerifyAccess, TypeOK
<1>2. ASSUME NEW c \in Call, NEW i \in Worker, Goroutine(c, i)
      PROVE  AnsweredWhenAllDone'
  <2>1. phase' = phase /\ phase[c] = "running"
    BY <1>2, GoroutineFacts
  <2>2. \A d \in Call \ {c} : wpc'[d] = wpc[d]
    BY <1>2 DEF Goroutine, CacheHit, CacheMiss, CheckPermission, GetInstance,
                UpstreamError, CacheSet, Report, Goto, TypeOK
  <2> QED
    BY <2>1, <2>2
<1>3. ASSUME NEW c \in Call, Return(c)
      PROVE  AnsweredWhenAllDone'
  BY <1>3 DEF Return, TypeOK
<1>4. CASE UNCHANGED <<phase, wpc>>
  BY <1>4
<1> QED
  BY <1>1, <1>2, <1>3, <1>4 DEF Next, vars, Tick, Evict, ChangeRights

LEMMA IInvInit == Init => IInv
<1> SUFFICES ASSUME Init PROVE IInv
  OBVIOUS
<1>1. TypeOK /\ OneGoroutinePerElement
  BY TypeInit
<1>2. /\ RepliesAreToElements /\ CacheIsBacked
      /\ ResultIsBacked /\ OkIsBacked /\ AnsweredWhenAllDone
  BY DEF Init, RepliesAreToElements, CacheIsBacked, ResultIsBacked, BackedAt, OkIsBacked,
         OkAt, AnsweredWhenAllDone
<1> QED
  BY <1>1, <1>2 DEF IInv

LEMMA IInvStep == IInv /\ [Next]_vars => IInv'
  BY TypeStep, GoroutineStep, RepliesStep, CacheStep, ResultStep, OkStep, AnsweredStep DEF IInv

(* The inductive invariant holds throughout.                               *)
THEOREM Invariance == Spec => []IInv
  BY IInvInit, IInvStep, PTL DEF Spec

(* A grant is backed by an affirmative reply to the same user for every    *)
(* element, a denial by a refusal, and the owners are in element order.    *)
LEMMA AnswersBacked == IInv => GrantIsBacked /\ DenialIsBacked /\ OwnersAligned
<1> SUFFICES ASSUME IInv, NEW c \in Call
             PROVE  /\ Answer(c) = "granted" => \A i \in DOMAIN elems[c] :
                            IsAffirmed(c, i) /\ userIds[c][i] = OwnerOf[elems[c][i].id]
                    /\ Answer(c) = "denied" => \E i \in DOMAIN elems[c] : IsRefused(c, i)
  BY DEF GrantIsBacked, DenialIsBacked, OwnersAligned
<1>1. OkAt(c)
  BY DEF IInv, OkIsBacked
<1>2. ASSUME Answer(c) = "granted", NEW i \in DOMAIN elems[c]
      PROVE  IsAffirmed(c, i) /\ userIds[c][i] = OwnerOf[elems[c][i].id]
  <2>1. ok[c] /\ phase[c] = "answered"
    BY <1>2 DEF Answer
  <2>2. i \in Worker /\ wpc[c][i] = "done"
    BY <2>1, ElementListFacts DEF IInv, TypeOK, OneGoroutinePerElement, AnsweredWhenAllDone
  <2> QED
    BY <1>1, <2>1, <2>2 DEF OkAt
<1>3. ASSUME Answer(c) = "denied"
      PROVE  \E i \in DOMAIN elems[c] : IsRefused(c, i)
  BY <1>1, <1>3 DEF Answer, OkAt
<1> QED
  BY <1>2, <1>3

(* No grant without the permission service's consent to this very user,    *)
(* given for the kind the id really has.                                   *)
THEOREM GrantsAreBacked == Spec => []GrantIsBacked
  BY Invariance, AnswersBacked, PTL

(* No 404 without a refusal by the permission service: of the claimed      *)
(* kind, or, for the cache confuses them, of this user under another kind. *)
THEOREM DenialsAreBacked == Spec => []DenialIsBacked
  BY Invariance, AnswersBacked, PTL

(* Where no id is claimed under two kinds, replies are not confused: each  *)
(* decision rests on replies for the very kinds that were claimed.         *)
LEMMA KindsBacked == ASSUME OneKindPerId PROVE IInv => RepliesAreForTheKind
<1> SUFFICES ASSUME IInv PROVE RepliesAreForTheKind
  OBVIOUS
<1>1. ASSUME NEW c \in Call, NEW i \in DOMAIN elems[c], NEW kind \in Kind, NEW yes \in BOOLEAN,
             <<user[c], kind, elems[c][i].id, yes>> \in replied
      PROVE  kind = elems[c][i].kind
  <2>1. elems[c][i] \in Element
    BY ElementListFacts DEF IInv, TypeOK
  <2> DEFINE r == <<user[c], kind, elems[c][i].id, yes>>
             d == [kind |-> kind, id |-> elems[c][i].id]
  <2>2. d \in Element
    <3>1. [kind |-> r[2], id |-> r[3]] \in Element
      BY <1>1 DEF IInv, RepliesAreToElements
    <3> QED
      BY <3>1
  <2>3. d.id = elems[c][i].id /\ d.kind = kind
    OBVIOUS
  <2> HIDE DEF d
  <2> QED
    BY <2>1, <2>2, <2>3 DEF OneKindPerId
<1>2. GrantIsBacked /\ DenialIsBacked
  BY AnswersBacked
<1>3. ASSUME NEW c \in Call, Answer(c) = "granted", NEW i \in DOMAIN elems[c]
      PROVE  <<user[c], elems[c][i].kind, elems[c][i].id, TRUE>> \in replied
  <2>1. <<user[c], KindOf[elems[c][i].id], elems[c][i].id, TRUE>> \in replied
    BY <1>2, <1>3 DEF GrantIsBacked, IsAffirmed, Affirmed
  <2>2. KindOf[elems[c][i].id] \in Kind
    BY ElementListFacts, AccessAssumption DEF IInv, TypeOK
  <2> QED
    BY <1>1, <2>1, <2>2
<1>4. ASSUME NEW c \in Call, Answer(c) = "denied"
      PROVE  \E i \in DOMAIN elems[c] : Refused(replied, user[c], elems[c][i])
  <2>1. PICK i \in DOMAIN elems[c] : IsRefused(c, i)
    BY <1>2, <1>4 DEF DenialIsBacked
  <2>2. ~ RefusedAsAnother(replied, user[c], elems[c][i])
    BY <1>1 DEF RefusedAsAnother
  <2> QED
    BY <2>1, <2>2 DEF IsRefused
<1> QED
  BY <1>3, <1>4 DEF RepliesAreForTheKind

(* The claim without exception, under the condition that makes it true.    *)
THEOREM KindsAreNotConfused == ASSUME OneKindPerId PROVE Spec => []RepliesAreForTheKind
  BY Invariance, KindsBacked, PTL

(* The owners of a granted call are those of its elements, in order.       *)
THEOREM OwnersAreAligned == Spec => []OwnersAligned
  BY Invariance, AnswersBacked, PTL

-----------------------------------------------------------------------------
(* The refinement of AccessContract: rights, replies and requests map to   *)
(* themselves, the goroutines' state is hidden until Return.               *)

LEMMA ContractInit == Init => Contract!CInit
<1> SUFFICES ASSUME Init PROVE Contract!CInit
  OBVIOUS
<1>1. \A c \in Call : Answer(c) = "none" /\ Owners(c) = <<>>
  BY DEF Init, Answer, Owners
<1> QED
  BY <1>1 DEF Init, Contract!CInit, Right, Contract!Right

(* Only Return makes an answer visible.                                    *)
LEMMA AnswerKept ==
    ASSUME NEW c \in Call, phase' = phase, elems' = elems,
           phase[c] = "answered" => ok'[c] = ok[c] /\ err'[c] = err[c] /\ userIds'[c] = userIds[c]
    PROVE  Answer(c)' = Answer(c) /\ Owners(c)' = Owners(c)
  BY DEF Answer, Owners

LEMMA ContractStep == IInv /\ IInv' /\ [Next]_vars => [Contract!CNext]_(Contract!cvars)
<1> SUFFICES ASSUME IInv, IInv', [Next]_vars
             PROVE  Contract!CNext \/ UNCHANGED Contract!cvars
  OBVIOUS
<1> USE DEF IInv
<1> DEFINE answer == [c \in Call |-> Answer(c)]
           owners == [c \in Call |-> Owners(c)]
<1>1. ASSUME NEW c \in Call, NEW u \in User, NEW es \in ElementLists, VerifyAccess(c, u, es)
      PROVE  Contract!CNext
  <2>1. ASSUME NEW d \in Call
        PROVE  /\ Answer(d)' = IF d = c THEN "none" ELSE Answer(d)
               /\ Owners(d)' = IF d = c THEN <<>> ELSE Owners(d)
    BY <1>1 DEF VerifyAccess, TypeOK, Answer, Owners
  <2>2. /\ answer' = [answer EXCEPT ![c] = "none"]
        /\ owners' = [owners EXCEPT ![c] = <<>>]
    BY <2>1
  <2>3. es \in Contract!ElementLists
    BY DEF ElementLists, Contract!ElementLists
  <2>4. Contract!CStart(c)
    BY <1>1, <2>2, <2>3 DEF VerifyAccess, Contract!CStart
  <2> QED
    BY <2>4 DEF Contract!CNext
<1>2. ASSUME NEW c \in Call, NEW i \in Worker, Goroutine(c, i)
      PROVE  Contract!CNext \/ UNCHANGED Contract!cvars
  <2>1. /\ phase' = phase /\ elems' = elems /\ user' = user /\ rights' = rights
        /\ phase[c] = "running" /\ i \in DOMAIN elems[c]
    BY <1>2, GoroutineFacts
  <2>2. \A d \in Call \ {c} : ok'[d] = ok[d] /\ err'[d] = err[d] /\ userIds'[d] = userIds[d]
    BY <1>2 DEF Goroutine, CacheHit, CacheMiss, CheckPermission, GetInstance,
                UpstreamError, CacheSet, Report, TypeOK
  <2>3. \A d \in Call : Answer(d)' = Answer(d) /\ Owners(d)' = Owners(d)
    BY <2>1, <2>2, AnswerKept
  <2>4. answer' = answer /\ owners' = owners
    BY <2>3
  <2>5. CASE CheckPermission(c, i)
    <3>1. replied' = replied \cup
            {<<user[c], elems[c][i].kind, elems[c][i].id,
               Sufficient(rights, user[c], elems[c][i])>>}
      BY <2>5 DEF CheckPermission
    <3>2. Contract!CReply(c)
      BY <2>1, <2>4, <3>1
      DEF Contract!CReply, Contract!Sufficient, Sufficient, Contract!Needed, Needed
    <3> QED
      BY <3>2 DEF Contract!CNext
  <2>6. CASE ~ CheckPermission(c, i)
    <3>1. replied' = replied
      BY <1>2, <2>6 DEF Goroutine, CacheHit, CacheMiss, GetInstance,
                        UpstreamError, CacheSet, Report
    <3> QED
      BY <2>1, <2>4, <3>1 DEF Contract!cvars
  <2> QED
    BY <2>5, <2>6
<1>3. ASSUME NEW c \in Call, Return(c)
      PROVE  Contract!CNext
  <2>1. /\ phase[c] = "running" /\ phase' = [phase EXCEPT ![c] = "answered"]
        /\ UNCHANGED <<rights, replied, user, elems, ok, err, userIds>>
    BY <1>3 DEF Return
  <2>2. ASSUME NEW d \in Call, d # c
        PROVE  Answer(d)' = Answer(d) /\ Owners(d)' = Owners(d)
    BY <2>1, <2>2 DEF Answer, Owners, TypeOK
  <2>3. Owners(c) = <<>> /\ phase'[c] = "answered"
    BY <2>1 DEF Answer, Owners, TypeOK
  <2>4. GrantIsBacked' /\ DenialIsBacked' /\ OwnersAligned'
    BY AnswersBacked, PTL
  <2>5. answer' = [answer EXCEPT ![c] = Answer(c)']
    BY <2>2
  <2>6. owners' = [owners EXCEPT ![c] = Owners(c)']
    BY <2>2
  <2>7. Contract!CGrant(c) \/ Contract!CDeny(c) \/ Contract!CDenyAsAnother(c)
            \/ Contract!CFail(c)
    <3>1. CASE Answer(c)' = "granted"
      <4>1. \A i \in DOMAIN elems[c] :
                Affirmed(replied, user[c], elems[c][i])
                    /\ userIds[c][i] = OwnerOf[elems[c][i].id]
        BY <2>1, <2>4, <3>1 DEF GrantIsBacked, OwnersAligned, IsAffirmed
      <4>2. Owners(c)' = [i \in DOMAIN elems[c] |-> OwnerOf[elems[c][i].id]]
        BY <2>1, <3>1, <4>1 DEF Owners
      <4>3. Contract!CGrant(c)
        BY <2>1, <2>5, <2>6, <3>1, <4>1, <4>2
        DEF Contract!CGrant, Contract!Affirmed, Affirmed
      <4> QED
        BY <4>3
    <3>2. CASE Answer(c)' # "granted"
      <4>1. owners' = owners
        BY <2>3, <2>6, <3>2 DEF Owners
      <4>2. CASE Answer(c)' = "denied"
        <5>1. PICK i \in DOMAIN elems[c] :
                    \/ Refused(replied, user[c], elems[c][i])
                    \/ RefusedAsAnother(replied, user[c], elems[c][i])
          BY <2>1, <2>4, <4>2 DEF DenialIsBacked, IsRefused
        <5>2. CASE Refused(replied, user[c], elems[c][i])
          BY <2>1, <2>5, <4>1, <4>2, <5>2 DEF Contract!CDeny, Contract!Refused, Refused
        <5>3. CASE RefusedAsAnother(replied, user[c], elems[c][i])
          BY <2>1, <2>5, <4>1, <4>2, <5>3
          DEF Contract!CDenyAsAnother, Contract!RefusedAsAnother, RefusedAsAnother,
              Contract!Kind, Kind
        <5> QED
          BY <5>1, <5>2, <5>3
      <4>3. CASE Answer(c)' = "error"
        <5>1. elems[c] # <<>>
          BY <2>1, <2>3, <4>3 DEF Answer, OkIsBacked, OkAt
        <5> QED
          BY <2>1, <2>5, <4>1, <4>3, <5>1 DEF Contract!CFail
      <4> QED
        BY <2>3, <3>2, <4>2, <4>3 DEF Answer
    <3> QED
      BY <3>1, <3>2
  <2>8. Contract!CAnswer(c)
    BY <2>1, <2>7 DEF Contract!CAnswer
  <2> QED
    BY <2>8 DEF Contract!CNext
<1>4. ASSUME NEW k \in User \X Id, NEW r \in SUBSET Right, ChangeRights(k, r)
      PROVE  Contract!CNext
  <2>1. answer' = answer /\ owners' = owners
    BY <1>4, AnswerKept DEF ChangeRights
  <2>2. Contract!CChangeRights
    BY <1>4, <2>1 DEF ChangeRights, Contract!CChangeRights, Right, Contract!Right
  <2> QED
    BY <2>2 DEF Contract!CNext
<1>5. CASE UNCHANGED <<rights, replied, phase, user, elems, ok, err, userIds>>
  <2>1. answer' = answer /\ owners' = owners
    BY <1>5, AnswerKept
  <2> QED
    BY <1>5, <2>1 DEF Contract!cvars
<1> QED
  BY <1>1, <1>2, <1>3, <1>4, <1>5 DEF Next, vars, Tick, Evict

(* VerifyAccess with its goroutines and its cache implements its contract. *)
THEOREM RefinesContract == Spec => ImplementsContract
<1>1. Init => Contract!CInit
  BY ContractInit
<1>2. IInv /\ IInv' /\ [Next]_vars => [Contract!CNext]_(Contract!cvars)
  BY ContractStep
<1> QED
  BY <1>1, <1>2, Invariance, PTL DEF Spec, ImplementsContract, Contract!CSpec
=============================================================================
