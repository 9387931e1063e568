------------------------ MODULE SecretQuery_proofs ------------------------
(***************************************************************************)
(* Proofs about SecretQuery for any number of secrets, requests and        *)
(* downloads: the inductive invariant, and the refinement of               *)
(* OneTimeSecret, whose Redeem is the successful Delete.                   *)
(***************************************************************************)
EXTENDS SecretQuery, TLAPS, SequenceTheorems

(* An empty list to which one query is appended has length one and holds   *)
(* that query only.                                                        *)
LEMMA FirstServed ==
    ASSUME NEW q \in Query
    PROVE  /\ Append(<<>>, q) \in Seq(Query)
           /\ Len(Append(<<>>, q)) = 1
           /\ Range(Append(<<>>, q)) = {q}
<1>1. <<>> \in Seq(Query)
    BY EmptySeq
<1>2. Append(<<>>, q) \in Seq(Query) /\ Len(Append(<<>>, q)) = 1
    BY <1>1, AppendProperties, EmptySeq
<1>3. Append(<<>>, q)[1] = q /\ DOMAIN Append(<<>>, q) = {1}
    BY <1>1, AppendProperties, EmptySeq
<1> QED
    BY <1>2, <1>3 DEF Range

LEMMA AgeIsSound ==
    ASSUME NEW es \in SUBSET Entry
    PROVE  /\ Age(es) \in SUBSET Entry
           /\ \A f \in Age(es) : \E e \in es : f.query = e.query
           /\ (\A e, f \in es : e = f) => (\A e, f \in Age(es) : e = f)
BY SecretAssumption DEF Age, Entry

LEMMA InitEstablishes == Init => IInv
<1> SUFFICES ASSUME Init PROVE IInv
    OBVIOUS
<1>0. <<>> \in Seq(Query) /\ Len(<<>>) = 0 /\ Range(<<>>) = {}
    BY EmptySeq DEF Range
<1>1. TypeOK
    BY <1>0, SecretAssumption DEF Init, TypeOK, Status
<1>2. OneEntryPerSecret /\ StoredIsUnserved /\ ReadIsStored /\ StoredIsGranted /\ PreparedIsGranted
    BY DEF Init, OneEntryPerSecret, StoredIsUnserved, ReadIsStored, StoredIsGranted,
           PreparedIsGranted
<1>3. AtMostOnce /\ ServedWasGranted
    BY <1>0 DEF Init, AtMostOnce, ServedWasGranted
<1> QED
    BY <1>1, <1>2, <1>3 DEF IInv

-----------------------------------------------------------------------------
(* One lemma per half of the system, with one step per action.             *)
LEMMA PrepareStep ==
    ASSUME IInv, NEW p \in Prepare,
           (\E q \in Query : PrepareDownload(p, q)) \/ PrepareSteps(p)
    PROVE  IInv'
<1> USE DEF IInv
<1>1. ASSUME NEW q \in Query, PrepareDownload(p, q) PROVE IInv'
    <2>1. TypeOK'
        BY <1>1 DEF TypeOK, PrepareDownload, downVars, Status
    <2>2. PreparedIsGranted'
        BY <1>1 DEF TypeOK, PrepareDownload, PreparedIsGranted
    <2> QED
        BY <1>1, <2>1, <2>2 DEF PrepareDownload, downVars, OneEntryPerSecret, StoredIsUnserved,
            ReadIsStored, StoredIsGranted, AtMostOnce, ServedWasGranted
<1>2. CASE RefusePrepare(p)
    <2>1. TypeOK'
        BY <1>2 DEF TypeOK, RefusePrepare, AnswerPrepare, downVars, Status
    <2>2. PreparedIsGranted'
        BY <1>2 DEF TypeOK, RefusePrepare, AnswerPrepare, PreparedIsGranted
    <2> QED
        BY <1>2, <2>1, <2>2 DEF RefusePrepare, downVars, OneEntryPerSecret, StoredIsUnserved,
            ReadIsStored, StoredIsGranted, AtMostOnce, ServedWasGranted
<1>3. CASE VerifyGrants(p)
    <2>1. TypeOK'
        BY <1>3 DEF TypeOK, VerifyGrants, downVars, Status, PreparedIsGranted
    <2>2. PreparedIsGranted'
        BY <1>3 DEF TypeOK, VerifyGrants, PreparedIsGranted
    <2>3. granted \subseteq granted'
        BY <1>3 DEF VerifyGrants
    <2>4. ReadIsStored' /\ StoredIsGranted' /\ ServedWasGranted'
        BY <1>3, <2>3 DEF VerifyGrants, downVars, ReadIsStored, StoredIsGranted, ServedWasGranted
    <2> QED
        BY <1>3, <2>1, <2>2, <2>4 DEF VerifyGrants, downVars, OneEntryPerSecret,
            StoredIsUnserved, AtMostOnce
<1>4. CASE StoreSecretQuery(p)
    <2>1. PICK s \in Secret \ issued :
            /\ issued' = issued \cup {s}
            /\ \/ stored' = [stored EXCEPT ![s] = {[query |-> pquery[p], left |-> TTL]}]
               \/ stored' = stored
            /\ psecret' = [psecret EXCEPT ![p] = s] \/ psecret' = psecret
            /\ AnswerPrepare(p, 200) \/ AnswerPrepare(p, 500)
        BY <1>4 DEF StoreSecretQuery
    <2>2. UNCHANGED <<granted, pquery, dpc, dsecret, item, dstatus, served>>
        BY <1>4 DEF StoreSecretQuery, downVars
    <2>3. pquery[p] \in granted /\ pquery[p] \in Query
        BY <1>4 DEF StoreSecretQuery, PreparedIsGranted, TypeOK
    <2>4. [query |-> pquery[p], left |-> TTL] \in Entry
        BY <2>3, SecretAssumption DEF Entry
    <2>5. TypeOK'
        <3>1. stored' \in [Secret -> SUBSET Entry]
            <4>1. {[query |-> pquery[p], left |-> TTL]} \in SUBSET Entry
                BY <2>4
            <4> QED
                BY <2>1, <4>1 DEF TypeOK
        <3>2. psecret' \in [Prepare -> Secret \cup {NoSecret}] /\ issued' \subseteq Secret
            BY <2>1 DEF TypeOK
        <3>3. ppc' \in [Prepare -> {"idle", "verify", "store"}] /\ pstatus' \in [Prepare -> Status]
            <4>1. PICK code \in Status : AnswerPrepare(p, code)
                BY <2>1 DEF Status
            <4> QED
                BY <4>1 DEF TypeOK, AnswerPrepare
        <3> QED
            BY <2>2, <3>1, <3>2, <3>3 DEF TypeOK
    <2>6. /\ stored[s] = {} /\ served[s] = <<>>
          /\ \A t \in Secret \ {s} : stored'[t] = stored[t]
          /\ \A e \in stored'[s] : e = [query |-> pquery[p], left |-> TTL]
        BY <2>1 DEF OneEntryPerSecret, TypeOK
    <2>7. OneEntryPerSecret' /\ StoredIsUnserved' /\ StoredIsGranted'
        BY <2>1, <2>2, <2>3, <2>6 DEF OneEntryPerSecret, StoredIsUnserved, StoredIsGranted
    <2>8. ReadIsStored'
        BY <2>1, <2>2, <2>6 DEF ReadIsStored
    <2>9. PreparedIsGranted'
        BY <2>1, <2>2 DEF PreparedIsGranted, AnswerPrepare, TypeOK
    <2> QED
        BY <2>2, <2>5, <2>7, <2>8, <2>9 DEF AtMostOnce, ServedWasGranted
<1> QED
    BY <1>1, <1>2, <1>3, <1>4 DEF PrepareSteps

(* The parts of IInv that answering a download without serving leaves      *)
(* alone, provided stored only loses entries.                              *)
LEMMA AnswerStep ==
    ASSUME IInv, NEW d \in Download, NEW code \in Status, AnswerDownload(d, code),
           UNCHANGED served,
           stored' = stored \/ stored' = [stored EXCEPT ![dsecret[d]] = {}]
    PROVE  IInv'
<1> USE DEF IInv
<1>1. \A s \in Secret : stored'[s] \in {{}, stored[s]}
    BY DEF TypeOK
<1>2. UNCHANGED <<issued, granted, ppc, pquery, psecret, pstatus, dsecret, item, served>>
    BY DEF AnswerDownload, prepVars
<1>3. TypeOK'
    <2>1. stored' \in [Secret -> SUBSET Entry]
        BY DEF TypeOK
    <2>2. dpc' \in [Download -> {"idle", "get", "delete"}] /\ dstatus' \in [Download -> Status]
        BY DEF TypeOK, AnswerDownload
    <2> QED
        BY <1>2, <2>1, <2>2 DEF TypeOK
<1>4. OneEntryPerSecret' /\ StoredIsUnserved' /\ StoredIsGranted'
    BY <1>1, <1>2 DEF OneEntryPerSecret, StoredIsUnserved, StoredIsGranted
<1>5. ReadIsStored'
    <2>1. \A c \in Download : dpc'[c] \in {"get", "delete"} => dpc[c] = dpc'[c]
        BY DEF AnswerDownload, TypeOK
    <2> QED
        BY <1>1, <1>2, <2>1 DEF ReadIsStored
<1> QED
    BY <1>2, <1>3, <1>4, <1>5 DEF PreparedIsGranted, AtMostOnce, ServedWasGranted

LEMMA DownloadStep ==
    ASSUME IInv, NEW d \in Download,
           (\E s \in Secret : DownloadSecret(d, s)) \/ DownloadSteps(d)
    PROVE  IInv'
<1> USE DEF IInv
<1>1. ASSUME NEW s \in Secret, DownloadSecret(d, s) PROVE IInv'
    <2>1. TypeOK'
        BY <1>1 DEF TypeOK, DownloadSecret, prepVars, Status
    <2>2. ReadIsStored'
        BY <1>1 DEF TypeOK, DownloadSecret, ReadIsStored
    <2> QED
        BY <1>1, <2>1, <2>2 DEF DownloadSecret, prepVars, OneEntryPerSecret, StoredIsUnserved,
            StoredIsGranted, PreparedIsGranted, AtMostOnce, ServedWasGranted
<1>2. CASE GetHit(d)
    <2>1. PICK e \in stored[dsecret[d]] : item' = [item EXCEPT ![d] = e.query]
        BY <1>2 DEF GetHit
    <2>2. dsecret[d] \in Secret
        BY <1>2 DEF GetHit, ReadIsStored
    <2>3. e \in Entry /\ e.query \in Query /\ e.query \in granted /\ dsecret[d] \in issued
        BY <2>1, <2>2 DEF TypeOK, Entry, StoredIsGranted, OneEntryPerSecret
    <2>4. TypeOK'
        BY <1>2, <2>1, <2>3 DEF TypeOK, GetHit, prepVars, Status
    <2>5. ReadIsStored'
        BY <1>2, <2>1, <2>2, <2>3 DEF TypeOK, GetHit, ReadIsStored, OneEntryPerSecret
    <2> QED
        BY <1>2, <2>4, <2>5 DEF GetHit, prepVars, OneEntryPerSecret, StoredIsUnserved,
            StoredIsGranted, PreparedIsGranted, AtMostOnce, ServedWasGranted
<1>3. CASE GetMiss(d) \/ GetError(d) \/ DeleteMiss(d) \/ DeleteError(d)
    <2>1. PICK code \in Status : AnswerDownload(d, code)
        BY <1>3 DEF GetMiss, GetError, DeleteMiss, DeleteError, Status
    <2>2. /\ UNCHANGED served
          /\ stored' = stored \/ stored' = [stored EXCEPT ![dsecret[d]] = {}]
        BY <1>3 DEF GetMiss, GetError, DeleteMiss, DeleteError
    <2> QED
        BY <2>1, <2>2, AnswerStep
<1>4. CASE DeleteOk(d)
    <2> DEFINE s == dsecret[d]
    <2>1. s \in Secret /\ item[d] \in granted /\ item[d] \in Query /\ s \in issued
        BY <1>4 DEF DeleteOk, ReadIsStored, TypeOK
    <2>2. served[s] = <<>>
        BY <1>4, <2>1 DEF DeleteOk, StoredIsUnserved
    <2>3. UNCHANGED <<issued, granted, ppc, pquery, psecret, pstatus, dsecret, item>>
        BY <1>4 DEF DeleteOk, Serve, AnswerDownload, prepVars
    <2>4. stored' = [stored EXCEPT ![s] = {}] /\ served' = [served EXCEPT ![s] = Append(<<>>, item[d])]
        BY <1>4, <2>2 DEF DeleteOk, Serve, TypeOK
    <2>5. TypeOK'
        <3>1. stored' \in [Secret -> SUBSET Entry]
            BY <2>4 DEF TypeOK
        <3>2. served' \in [Secret -> Seq(Query)]
            BY <2>1, <2>4, FirstServed DEF TypeOK
        <3>3. dpc' \in [Download -> {"idle", "get", "delete"}] /\ dstatus' \in [Download -> Status]
            BY <1>4 DEF TypeOK, DeleteOk, Serve, AnswerDownload, Status
        <3> QED
            BY <2>3, <3>1, <3>2, <3>3 DEF TypeOK
    <2>6. \A t \in Secret : /\ t # s => stored'[t] = stored[t] /\ served'[t] = served[t]
                            /\ t = s => stored'[t] = {} /\ served'[t] = Append(<<>>, item[d])
        BY <2>1, <2>4 DEF TypeOK
    <2>7. OneEntryPerSecret' /\ StoredIsUnserved' /\ StoredIsGranted'
        BY <2>1, <2>3, <2>6 DEF OneEntryPerSecret, StoredIsUnserved, StoredIsGranted
    <2>8. ReadIsStored'
        <3>1. \A c \in Download : dpc'[c] \in {"get", "delete"} => dpc[c] = dpc'[c]
            BY <1>4 DEF DeleteOk, Serve, AnswerDownload, TypeOK
        <3>2. \A t \in Secret : stored'[t] = stored[t] \/ stored'[t] = {}
            BY <2>6
        <3>3. \A t \in Secret : \A e \in stored'[t] : e \in stored[t]
            BY <3>2
        <3> HIDE DEF s
        <3> QED
            BY <2>3, <3>1, <3>3 DEF ReadIsStored
    <2>9. AtMostOnce'
        <3>1. Len(Append(<<>>, item[d])) = 1
            BY <2>1, FirstServed
        <3>2. \A t \in Secret : Len(served'[t]) = Len(served[t]) \/ Len(served'[t]) = 1
            BY <2>6, <3>1, Zenon
        <3>3. \A t \in Secret : Len(served[t]) <= 1
            BY DEF AtMostOnce
        <3>4. 1 <= 1
            OBVIOUS
        <3> QED
            BY <3>2, <3>3, <3>4, Zenon DEF AtMostOnce
    <2>10. ServedWasGranted'
        <3>1. Range(Append(<<>>, item[d])) = {item[d]}
            BY <2>1, FirstServed
        <3>2. \A t \in Secret : served'[t] = served[t] \/ served'[t] = Append(<<>>, item[d])
            BY <2>6
        <3>3. \A t \in Secret : Range(served[t]) \subseteq granted
            BY DEF ServedWasGranted
        <3>4. \A t \in Secret : Range(served'[t]) \subseteq granted
            <4>1. TAKE t \in Secret
            <4>2. CASE served'[t] = served[t]
                BY <3>3, <4>2
            <4>3. CASE served'[t] = Append(<<>>, item[d])
                <5>1. Range(served'[t]) = {item[d]}
                    BY <3>1, <4>3
                <5> QED
                    BY <2>1, <5>1
            <4> QED
                BY <3>2, <4>2, <4>3
        <3> QED
            BY <2>3, <3>4 DEF ServedWasGranted
    <2> QED
        BY <2>3, <2>5, <2>7, <2>8, <2>9, <2>10 DEF PreparedIsGranted
<1> QED
    BY <1>1, <1>2, <1>3, <1>4 DEF DownloadSteps

(* Expiry and eviction only ever take entries away.                        *)
LEMMA StoreShrinks ==
    ASSUME IInv, Tick \/ Evict
    PROVE  IInv'
<1> USE DEF IInv
<1>1. UNCHANGED <<issued, granted, ppc, pquery, psecret, pstatus, dpc, dsecret, item, dstatus, served>>
    BY DEF Tick, Evict, prepVars, downVars
<1>2. /\ stored' \in [Secret -> SUBSET Entry]
      /\ \A s \in Secret : /\ \A f \in stored'[s] : \E e \in stored[s] : f.query = e.query
                           /\ \A e, f \in stored'[s] : e = f
    <2>1. CASE Tick
        <3>1. \A s \in Secret : /\ stored[s] \in SUBSET Entry
                                /\ \A e, f \in stored[s] : e = f
            BY DEF TypeOK, OneEntryPerSecret
        <3>2. \A s \in Secret : /\ Age(stored[s]) \in SUBSET Entry
                                /\ \A f \in Age(stored[s]) : \E e \in stored[s] : f.query = e.query
                                /\ \A e, f \in Age(stored[s]) : e = f
            BY <3>1, AgeIsSound
        <3> QED
            BY <2>1, <3>2 DEF Tick
    <2>2. CASE Evict
        BY <2>2 DEF Evict, TypeOK, OneEntryPerSecret
    <2> QED
        BY <2>1, <2>2
<1>3. TypeOK'
    BY <1>1, <1>2 DEF TypeOK
<1>4. \A s \in Secret : stored[s] = {} => stored'[s] = {}
    BY <1>2
<1>5. OneEntryPerSecret' /\ StoredIsUnserved' /\ StoredIsGranted'
    BY <1>1, <1>2, <1>4 DEF OneEntryPerSecret, StoredIsUnserved, StoredIsGranted
<1>6. ReadIsStored'
    BY <1>1, <1>2 DEF ReadIsStored
<1> QED
    BY <1>1, <1>3, <1>5, <1>6 DEF PreparedIsGranted, AtMostOnce, ServedWasGranted

LEMMA NextPreserves == IInv /\ [Next]_vars => IInv'
<1> SUFFICES ASSUME IInv, [Next]_vars PROVE IInv'
    OBVIOUS
<1>1. CASE Next
    BY <1>1, PrepareStep, DownloadStep, StoreShrinks DEF Next
<1>2. CASE UNCHANGED vars
    BY <1>2 DEF vars, prepVars, downVars, IInv, TypeOK, OneEntryPerSecret, StoredIsUnserved,
        ReadIsStored, StoredIsGranted, PreparedIsGranted, AtMostOnce, ServedWasGranted
<1> QED
    BY <1>1, <1>2

(* The inductive invariant holds in every state.                           *)
THEOREM Invariance == Spec => []IInv
BY InitEstablishes, NextPreserves, PTL DEF Spec

(* However many downloads present a secret at once and whatever replies of *)
(* memcached are lost, at most one of them is served.                      *)
THEOREM SecretsAreUsedOnce == Spec => []AtMostOnce
<1>1. IInv => AtMostOnce
    BY DEF IInv
<1> QED
    BY <1>1, Invariance, PTL

(* Every query served to a request without a token is one VerifyAccess     *)
(* granted to the user who prepared it.                                    *)
THEOREM DownloadsAreGranted == Spec => []ServedWasGranted
<1>1. IInv => ServedWasGranted
    BY DEF IInv
<1> QED
    BY <1>1, Invariance, PTL

-----------------------------------------------------------------------------
(* The refinement: the abstract secret is good for what memcached holds.   *)
LEMMA GoodIsStored ==
    ASSUME IInv, NEW s \in Secret
    PROVE  /\ Good(s) = "unused" <=> s \notin issued
           /\ \A e \in stored[s] : Good(s) = e.query
           /\ s \in issued /\ stored[s] = {} => Good(s) = NoQuery
           /\ stored[s] = {} => Good(s) \in {"unused", NoQuery}
           /\ Good(s) \in Query <=> stored[s] # {}
<1> USE DEF IInv
<1>1. \A e \in stored[s] : s \in issued /\ Good(s) = e.query /\ e.query \in Query
    BY DEF Good, OneEntryPerSecret, TypeOK, Entry
<1>2. s \notin issued => stored[s] = {} /\ Good(s) = "unused"
    BY DEF Good, OneEntryPerSecret
<1>3. s \in issued /\ stored[s] = {} => Good(s) = NoQuery
    BY DEF Good
<1> QED
    BY <1>1, <1>2, <1>3, SecretAssumption

(* GoodIsStored of the next state.                                         *)
LEMMA GoodIsStoredNext ==
    ASSUME IInv', NEW s \in Secret
    PROVE  /\ \A e \in stored'[s] : Good(s)' = e.query
           /\ s \in issued' /\ stored'[s] = {} => Good(s)' = NoQuery
           /\ s \notin issued' => Good(s)' = "unused"
<1> USE DEF IInv
<1>1. \A e \in stored'[s] : s \in issued' /\ Good(s)' = e.query
    BY DEF Good, OneEntryPerSecret, TypeOK, Entry
<1>2. s \in issued' /\ stored'[s] = {} => Good(s)' = NoQuery
    BY DEF Good
<1>3. s \notin issued' => Good(s)' = "unused"
    BY DEF Good
<1> QED
    BY <1>1, <1>2, <1>3

LEMMA RefinesInit == Init => OneTime!Init
<1> SUFFICES ASSUME Init PROVE OneTime!Init
    OBVIOUS
<1>1. \A s \in Secret : Good(s) = "unused"
    BY DEF Init, Good
<1> QED
    BY <1>1 DEF Init, OneTime!Init

(* Entries that stay as they are or vanish are secrets that lapse.         *)
LEMMA Lapses ==
    ASSUME IInv, IInv', UNCHANGED <<issued, served>>,
           \A s \in Secret : \A f \in stored'[s] : \E e \in stored[s] : f.query = e.query
    PROVE  OneTime!Next
<1> DEFINE gone == {s \in Secret : stored[s] # {} /\ stored'[s] = {}}
<1>1. \A s \in Secret : Good(s)' = IF s \in gone THEN NoQuery ELSE Good(s)
    <2> TAKE s \in Secret
    <2>1. CASE s \in gone
        <3>1. s \in issued'
            BY <2>1 DEF IInv, OneEntryPerSecret
        <3> QED
            BY <2>1, <3>1, GoodIsStoredNext
    <2>2. CASE stored'[s] # {}
        BY <2>2, GoodIsStored, GoodIsStoredNext
    <2>3. CASE stored[s] = {} /\ stored'[s] = {}
        BY <2>3, GoodIsStored, GoodIsStoredNext
    <2> QED
        BY <2>1, <2>2, <2>3
<1>2. OneTime!Lapse(gone)
    BY <1>1 DEF OneTime!Lapse
<1> QED
    BY <1>2 DEF OneTime!Next

(* A step that leaves memcached and the issued secrets alone stutters.     *)
LEMMA Stutters ==
    ASSUME UNCHANGED <<stored, issued, served>>
    PROVE  UNCHANGED <<[s \in Secret |-> Good(s)], served>>
<1>1. \A s \in Secret : Good(s)' = Good(s)
    BY DEF Good
<1> QED
    BY <1>1

LEMMA RefinesStore ==
    ASSUME IInv, IInv', NEW p \in Prepare, StoreSecretQuery(p)
    PROVE  OneTime!Next
<1>1. PICK s \in Secret \ issued :
        /\ issued' = issued \cup {s}
        /\ \/ stored' = [stored EXCEPT ![s] = {[query |-> pquery[p], left |-> TTL]}]
           \/ stored' = stored
    BY DEF StoreSecretQuery
<1>2. pquery[p] \in Query /\ served' = served
    BY DEF StoreSecretQuery, IInv, PreparedIsGranted
<1>3. Good(s) = "unused" /\ stored[s] = {}
    BY GoodIsStored, <1>1 DEF IInv, OneEntryPerSecret
<1>4. \A t \in Secret \ {s} : Good(t)' = Good(t)
    <2> DEFINE new == {[query |-> pquery[p], left |-> TTL]}
    <2> stored' = [stored EXCEPT ![s] = new] \/ stored' = stored
        BY <1>1
    <2> HIDE DEF new
    <2>1. \A t \in Secret \ {s} : stored'[t] = stored[t]
        BY DEF IInv, TypeOK
    <2>2. \A t \in Secret \ {s} : t \in issued' <=> t \in issued
        BY <1>1
    <2> QED
        BY <2>1, <2>2, GoodIsStored, GoodIsStoredNext
<1>5. CASE stored' = [stored EXCEPT ![s] = {[query |-> pquery[p], left |-> TTL]}]
    <2>1. stored'[s] = {[query |-> pquery[p], left |-> TTL]}
        BY <1>5 DEF IInv, TypeOK
    <2>2. Good(s)' = pquery[p]
        <3>1. \A e \in stored'[s] : Good(s)' = e.query
            BY GoodIsStoredNext
        <3>2. [query |-> pquery[p], left |-> TTL] \in stored'[s]
            BY <2>1
        <3> QED
            BY <3>1, <3>2
    <2>3. OneTime!Issue(s, pquery[p])
        BY <1>2, <1>3, <1>4, <2>2 DEF OneTime!Issue
    <2> QED
        BY <1>2, <2>3 DEF OneTime!Next
<1>6. CASE stored' = stored
    <2>1. Good(s)' = NoQuery
        BY <1>1, <1>3, <1>6, GoodIsStoredNext
    <2>2. OneTime!Lapse({s})
        BY <1>2, <1>4, <2>1 DEF OneTime!Lapse
    <2> QED
        BY <2>2 DEF OneTime!Next
<1> QED
    BY <1>1, <1>5, <1>6

LEMMA RefinesRedeem ==
    ASSUME IInv, IInv', NEW d \in Download, DeleteOk(d)
    PROVE  OneTime!Next
<1>1. PICK s \in Secret :
        /\ s = dsecret[d] /\ s \in issued /\ item[d] \in Query
        /\ stored[s] # {} /\ \A e \in stored[s] : e.query = item[d]
    BY DEF DeleteOk, IInv, ReadIsStored, TypeOK
<1>2. /\ issued' = issued
      /\ stored' = [stored EXCEPT ![s] = {}]
      /\ served' = [served EXCEPT ![s] = Append(@, item[d])]
    BY <1>1 DEF DeleteOk, Serve, AnswerDownload
<1>3. Good(s) = item[d]
    BY <1>1, GoodIsStored
<1>4. stored'[s] = {} /\ \A t \in Secret \ {s} : stored'[t] = stored[t]
    BY <1>1, <1>2 DEF IInv, TypeOK
<1>5. Good(s)' = NoQuery
    BY <1>1, <1>2, <1>4, GoodIsStoredNext
<1>6. \A t \in Secret \ {s} : Good(t)' = Good(t)
    BY <1>2, <1>4 DEF Good
<1>7. OneTime!Redeem(s)
    BY <1>1, <1>2, <1>3, <1>5, <1>6 DEF OneTime!Redeem
<1> QED
    BY <1>1, <1>7 DEF OneTime!Next

LEMMA RefinesNext ==
    ASSUME IInv, IInv', [Next]_vars
    PROVE  [OneTime!Next]_<<[s \in Secret |-> Good(s)], served>>
<1>1. CASE UNCHANGED vars
    BY <1>1, Stutters DEF vars
<1>2. ASSUME NEW p \in Prepare, NEW q \in Query, PrepareDownload(p, q)
      PROVE  UNCHANGED <<stored, issued, served>>
    BY <1>2 DEF PrepareDownload
<1>3. ASSUME NEW p \in Prepare, RefusePrepare(p) \/ VerifyGrants(p)
      PROVE  UNCHANGED <<stored, issued, served>>
    BY <1>3 DEF RefusePrepare, VerifyGrants
<1>4. ASSUME NEW d \in Download, NEW s \in Secret, DownloadSecret(d, s)
      PROVE  UNCHANGED <<stored, issued, served>>
    BY <1>4 DEF DownloadSecret
<1>5. ASSUME NEW d \in Download, GetHit(d) \/ GetMiss(d) \/ GetError(d) \/ DeleteMiss(d)
      PROVE  UNCHANGED <<stored, issued, served>>
    BY <1>5 DEF GetHit, GetMiss, GetError, DeleteMiss, AnswerDownload
<1>6. ASSUME NEW d \in Download, DeleteError(d) PROVE OneTime!Next
    <2>1. UNCHANGED <<issued, served>>
        BY <1>6 DEF DeleteError, AnswerDownload
    <2>2. \A s \in Secret : stored'[s] \in {{}, stored[s]}
        BY <1>6 DEF DeleteError, IInv, TypeOK
    <2> QED
        BY <2>1, <2>2, Lapses
<1>7. ASSUME Tick \/ Evict PROVE OneTime!Next
    <2>1. UNCHANGED <<issued, served>>
        BY <1>7 DEF Tick, Evict
    <2>2. \A s \in Secret : \A f \in stored'[s] : \E e \in stored[s] : f.query = e.query
        <3>1. CASE Tick
            <4>1. \A s \in Secret : stored'[s] = Age(stored[s]) /\ stored[s] \in SUBSET Entry
                BY <3>1 DEF Tick, IInv, TypeOK
            <4> QED
                BY <4>1, AgeIsSound
        <3>2. CASE Evict
            BY <3>2 DEF Evict
        <3> QED
            BY <1>7, <3>1, <3>2
    <2> QED
        BY <2>1, <2>2, Lapses
<1>8. CASE Next
    <2>1. \/ UNCHANGED <<stored, issued, served>>
          \/ \E p \in Prepare : StoreSecretQuery(p)
          \/ \E d \in Download : DeleteOk(d)
          \/ OneTime!Next
        <3>1. ASSUME NEW p \in Prepare, PrepareSteps(p)
              PROVE  UNCHANGED <<stored, issued, served>> \/ StoreSecretQuery(p)
            BY <1>3, <3>1 DEF PrepareSteps
        <3>2. ASSUME NEW d \in Download, DownloadSteps(d)
              PROVE  UNCHANGED <<stored, issued, served>> \/ DeleteOk(d) \/ DeleteError(d)
            BY <1>5, <3>2 DEF DownloadSteps
        <3>3. CASE \E p \in Prepare, q \in Query : PrepareDownload(p, q)
            BY <3>3, <1>2
        <3>4. CASE \E d \in Download, s \in Secret : DownloadSecret(d, s)
            BY <3>4, <1>4
        <3>5. CASE \E p \in Prepare : PrepareSteps(p)
            BY <3>5, <3>1
        <3>6. CASE \E d \in Download : DownloadSteps(d)
            BY <3>6, <3>2, <1>6
        <3>7. CASE Tick \/ Evict
            BY <3>7, <1>7
        <3> QED
            BY <1>8, <3>3, <3>4, <3>5, <3>6, <3>7 DEF Next
    <2> QED
        BY <2>1, Stutters, RefinesStore, RefinesRedeem
<1> QED
    BY <1>1, <1>8

(* memcached's get and delete, with competing downloads, expiry, evictions *)
(* and lost replies, implement one atomic redemption.                      *)
THEOREM RefinesOneTimeSecret == Spec => ImplementsOneTimeSecret
<1>1. IInv /\ IInv' /\ [Next]_vars => [OneTime!Next]_<<[s \in Secret |-> Good(s)], served>>
    BY RefinesNext
<1> QED
    BY RefinesInit, <1>1, Invariance, PTL DEF Spec, ImplementsOneTimeSecret, OneTime!OneSpec
=============================================================================
