---------------------------- MODULE SecretQuery ----------------------------
(***************************************************************************)
(* Downloads by secret (pkg/api/download.go, pkg/cache/remote.go):         *)
(* GET /prepare-download verifies the access to a query and stores it in   *)
(* memcached under a fresh secret for 30 s; GET /download/:secret, which   *)
(* asks for no token, reads the query and deletes it before it serves it.  *)
(* Both talk to memcached over a network that may lose a reply.            *)
(***************************************************************************)
EXTENDS Naturals, Sequences, Functions

CONSTANTS Query,     \* prepared queries, each with the token of its user
          Secret,    \* uuid.NewString(): never the same twice
          Prepare,   \* slots of /prepare-download requests
          Download,  \* slots of /download/:secret requests
          TTL,       \* ticks a stored query lives (30 s)
          NoQuery, NoSecret

ASSUME SecretAssumption ==
    /\ TTL \in Nat \ {0}
    /\ NoQuery \notin Query /\ NoSecret \notin Secret
    /\ "unused" \notin Query \cup {NoQuery}

VARIABLES stored,    \* memcached: secret -> {} or {[query, left]}
          issued,    \* the secrets uuid has drawn
          granted,   \* history: the queries VerifyAccess granted
          ppc, pquery, psecret,   \* per preparation
          dpc, dsecret, item,     \* per download; item is what mcGet returned
          pstatus, dstatus,       \* the last answers
          served     \* history: secret -> the queries served for it

prepVars == <<ppc, pquery, psecret, pstatus>>
downVars == <<dpc, dsecret, item, dstatus>>
vars == <<stored, issued, granted, prepVars, downVars, served>>

Entry == [query : Query, left : 1 .. TTL]
Status == {0, 200, 400, 404, 500}    \* 0: no answer yet

TypeOK ==
    /\ stored \in [Secret -> SUBSET Entry]
    /\ issued \subseteq Secret /\ granted \subseteq Query
    /\ ppc \in [Prepare -> {"idle", "verify", "store"}]
    /\ pquery \in [Prepare -> Query \cup {NoQuery}]
    /\ psecret \in [Prepare -> Secret \cup {NoSecret}]
    /\ dpc \in [Download -> {"idle", "get", "delete"}]
    /\ dsecret \in [Download -> Secret \cup {NoSecret}]
    /\ item \in [Download -> Query \cup {NoQuery}]
    /\ pstatus \in [Prepare -> Status] /\ dstatus \in [Download -> Status]
    /\ served \in [Secret -> Seq(Query)]

Init ==
    /\ stored = [s \in Secret |-> {}]
    /\ issued = {} /\ granted = {}
    /\ ppc = [p \in Prepare |-> "idle"]
    /\ pquery = [p \in Prepare |-> NoQuery]
    /\ psecret = [p \in Prepare |-> NoSecret]
    /\ dpc = [d \in Download |-> "idle"]
    /\ dsecret = [d \in Download |-> NoSecret]
    /\ item = [d \in Download |-> NoQuery]
    /\ pstatus = [p \in Prepare |-> 0] /\ dstatus = [d \in Download |-> 0]
    /\ served = [s \in Secret |-> <<>>]

-----------------------------------------------------------------------------
(* Mutant of PrepareDownload: the verification is skipped.                 *)
PrepareUnverified(p, q) ==
    /\ ppc[p] = "idle"
    /\ ppc' = [ppc EXCEPT ![p] = "store"]
    /\ pquery' = [pquery EXCEPT ![p] = q]
    /\ psecret' = [psecret EXCEPT ![p] = NoSecret]
    /\ pstatus' = [pstatus EXCEPT ![p] = 0]
    /\ UNCHANGED <<stored, issued, granted, downVars, served>>

PrepareDownload(p, q) ==
    /\ ppc[p] = "idle"
    /\ ppc' = [ppc EXCEPT ![p] = "verify"]
    /\ pquery' = [pquery EXCEPT ![p] = q]
    /\ psecret' = [psecret EXCEPT ![p] = NoSecret]
    /\ pstatus' = [pstatus EXCEPT ![p] = 0]
    /\ UNCHANGED <<stored, issued, granted, downVars, served>>

AnswerPrepare(p, code) ==
    /\ ppc' = [ppc EXCEPT ![p] = "idle"]
    /\ pstatus' = [pstatus EXCEPT ![p] = code]

(* prepareQueriesRequestElement: an invalid query or token (400), no time  *)
(* or a period it cannot parse (500), an upstream error (500), a denial    *)
(* (404).                                                                  *)
RefusePrepare(p) ==
    /\ ppc[p] = "verify"
    /\ \E code \in {400, 404, 500} : AnswerPrepare(p, code)
    /\ UNCHANGED <<stored, issued, granted, pquery, psecret, downVars, served>>

VerifyGrants(p) ==
    /\ ppc[p] = "verify"
    /\ granted' = granted \cup {pquery[p]}
    /\ ppc' = [ppc EXCEPT ![p] = "store"]
    /\ UNCHANGED <<stored, issued, pquery, psecret, pstatus, downVars, served>>

(* Mutant of StoreSecretQuery: the slot's secret is used again.            *)
StoreUnderOldSecret(p) ==
    /\ ppc[p] = "store"
    /\ \E s \in Secret :
        /\ stored' = [stored EXCEPT ![s] = {[query |-> pquery[p], left |-> TTL]}]
        /\ issued' = issued \cup {s}
        /\ psecret' = [psecret EXCEPT ![p] = s]
    /\ AnswerPrepare(p, 200)
    /\ UNCHANGED <<granted, pquery, downVars, served>>

(* StoreSecretQuery: a fresh secret and one Set, which is not retried.  An *)
(* error keeps the secret from the client; the query may be stored all     *)
(* the same.                                                               *)
StoreSecretQuery(p) ==
    /\ ppc[p] = "store"
    /\ \E s \in Secret \ issued :
        /\ issued' = issued \cup {s}
        /\ \/ /\ stored' = [stored EXCEPT ![s] = {[query |-> pquery[p], left |-> TTL]}]
              /\ psecret' = [psecret EXCEPT ![p] = s]
              /\ AnswerPrepare(p, 200)
           \/ /\ \/ stored' = [stored EXCEPT ![s] = {[query |-> pquery[p], left |-> TTL]}]
                 \/ UNCHANGED stored
              /\ AnswerPrepare(p, 500)
              /\ UNCHANGED psecret
    /\ UNCHANGED <<granted, pquery, downVars, served>>

-----------------------------------------------------------------------------
(* Anyone may present a secret, more than once and at the same time.       *)
DownloadSecret(d, s) ==
    /\ dpc[d] = "idle"
    /\ dpc' = [dpc EXCEPT ![d] = "get"]
    /\ dsecret' = [dsecret EXCEPT ![d] = s]
    /\ item' = [item EXCEPT ![d] = NoQuery]
    /\ dstatus' = [dstatus EXCEPT ![d] = 0]
    /\ UNCHANGED <<stored, issued, granted, prepVars, served>>

(* Mutant of AnswerDownload: an error does not end the handler.            *)
AnswerWithoutReturn(d, code) ==
    /\ dpc' = [dpc EXCEPT ![d] = IF code = 200 THEN "idle" ELSE @]
    /\ dstatus' = [dstatus EXCEPT ![d] = code]
    /\ UNCHANGED <<issued, granted, prepVars, dsecret, item>>

AnswerDownload(d, code) ==
    /\ dpc' = [dpc EXCEPT ![d] = "idle"]
    /\ dstatus' = [dstatus EXCEPT ![d] = code]
    /\ UNCHANGED <<issued, granted, prepVars, dsecret, item>>

(* mcGet: on most errors the client is made anew and asked once more.      *)
GetHit(d) ==
    /\ dpc[d] = "get"
    /\ \E e \in stored[dsecret[d]] : item' = [item EXCEPT ![d] = e.query]
    /\ dpc' = [dpc EXCEPT ![d] = "delete"]
    /\ UNCHANGED <<stored, issued, granted, prepVars, dsecret, dstatus, served>>

GetMiss(d) ==
    /\ dpc[d] = "get"
    /\ stored[dsecret[d]] = {}
    /\ AnswerDownload(d, 404)
    /\ UNCHANGED <<stored, served>>

GetError(d) ==
    /\ dpc[d] = "get"
    /\ AnswerDownload(d, 500)
    /\ UNCHANGED <<stored, served>>

Serve(d, q) ==
    /\ served' = [served EXCEPT ![dsecret[d]] = Append(@, q)]
    /\ AnswerDownload(d, 200)

(* Mutant of DeleteOk: nothing is deleted.                                 *)
DeleteForgotten(d) ==
    /\ dpc[d] = "delete"
    /\ stored[dsecret[d]] # {}
    /\ UNCHANGED stored
    /\ Serve(d, item[d])

(* Delete removes the query: this download, and no other, serves it.       *)
DeleteOk(d) ==
    /\ dpc[d] = "delete"
    /\ stored[dsecret[d]] # {}
    /\ stored' = [stored EXCEPT ![dsecret[d]] = {}]
    /\ Serve(d, item[d])

(* ErrCacheMiss: another download was faster, or the query expired.        *)
DeleteMiss(d) ==
    /\ dpc[d] = "delete"
    /\ stored[dsecret[d]] = {}
    /\ AnswerDownload(d, 404)
    /\ UNCHANGED <<stored, served>>

(* Any other error: memcached may have deleted the query or not.           *)
DeleteError(d) ==
    /\ dpc[d] = "delete"
    /\ \/ stored' = [stored EXCEPT ![dsecret[d]] = {}]
       \/ UNCHANGED stored
    /\ AnswerDownload(d, 500)
    /\ UNCHANGED served

-----------------------------------------------------------------------------
(* Mutant of Age: an entry never expires.                                  *)
AgeNever(entries) == entries

Age(entries) == {[e EXCEPT !.left = @ - 1] : e \in {x \in entries : x.left > 1}}
Tick ==
    /\ stored' = [s \in Secret |-> Age(stored[s])]
    /\ UNCHANGED <<issued, granted, prepVars, downVars, served>>

(* memcached drops an item or restarts empty.                              *)
Evict ==
    /\ \E ss \in SUBSET Secret :
        stored' = [s \in Secret |-> IF s \in ss THEN {} ELSE stored[s]]
    /\ UNCHANGED <<issued, granted, prepVars, downVars, served>>

PrepareSteps(p) == RefusePrepare(p) \/ VerifyGrants(p) \/ StoreSecretQuery(p)
DownloadSteps(d) ==
    GetHit(d) \/ GetMiss(d) \/ GetError(d) \/ DeleteOk(d) \/ DeleteMiss(d) \/ DeleteError(d)

Next ==
    \/ \E p \in Prepare, q \in Query : PrepareDownload(p, q)
    \/ \E p \in Prepare : PrepareSteps(p)
    \/ \E d \in Download, s \in Secret : DownloadSecret(d, s)
    \/ \E d \in Download : DownloadSteps(d)
    \/ Tick \/ Evict

Spec == Init /\ [][Next]_vars

(* Time passes and a request being handled goes on; nobody must send one.  *)
FairSpec ==
    /\ Spec
    /\ WF_vars(Tick)
    /\ \A p \in Prepare : WF_vars(PrepareSteps(p))
    /\ \A d \in Download : WF_vars(DownloadSteps(d))

-----------------------------------------------------------------------------
(* A secret is good for one download, however many present it at once and  *)
(* whatever replies of memcached are lost.                                 *)
AtMostOnce == \A s \in Secret : Len(served[s]) <= 1

(* What is served without a token was granted to the user who prepared it. *)
ServedWasGranted == \A s \in Secret : Range(served[s]) \subseteq granted

(* No query, and no token in it, stays in memcached unclaimed.             *)
UnclaimedQueriesLapse == \A s \in Secret : stored[s] # {} ~> stored[s] = {}

(* Every download is answered, also when others took its secret.           *)
EveryDownloadAnswered == \A d \in Download : dpc[d] # "idle" ~> dpc[d] = "idle"

Good(s) == IF s \notin issued THEN "unused"
           ELSE IF stored[s] = {} THEN NoQuery ELSE (CHOOSE e \in stored[s] : TRUE).query
OneTime == INSTANCE OneTimeSecret WITH
    good <- [s \in Secret |-> Good(s)],
    Nothing <- NoQuery
(* Two memcached calls and their failures amount to one atomic redemption  *)
(* of a one-time secret.                                                   *)
ImplementsOneTimeSecret == OneTime!OneSpec

-----------------------------------------------------------------------------
(* The strengthening that makes AtMostOnce inductive.                      *)

(* At most one entry per secret, and only issued secrets have any.         *)
OneEntryPerSecret ==
    \A s \in Secret :
        /\ \A e, f \in stored[s] : e = f
        /\ s \notin issued => stored[s] = {} /\ served[s] = <<>>

(* A secret still stored has not been served.                              *)
StoredIsUnserved == \A s \in Secret : stored[s] # {} => served[s] = <<>>

(* What a download read is what is stored, if anything still is.           *)
ReadIsStored ==
    \A d \in Download : dpc[d] \in {"get", "delete"} =>
        /\ dsecret[d] \in Secret
        /\ dpc[d] = "delete" =>
            /\ dsecret[d] \in issued
            /\ item[d] \in granted
            /\ \A e \in stored[dsecret[d]] : e.query = item[d]

StoredIsGranted == \A s \in Secret : \A e \in stored[s] : e.query \in granted
PreparedIsGranted == \A p \in Prepare : ppc[p] # "idle" =>
    pquery[p] \in Query /\ (ppc[p] = "store" => pquery[p] \in granted)

IInv ==
    /\ TypeOK
    /\ OneEntryPerSecret
    /\ StoredIsUnserved
    /\ ReadIsStored
    /\ StoredIsGranted
    /\ PreparedIsGranted
    /\ AtMostOnce
    /\ ServedWasGranted
=============================================================================
