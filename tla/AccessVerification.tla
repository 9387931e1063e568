------------------------- MODULE AccessVerification -------------------------
(***************************************************************************)
(* Verifier.VerifyAccess (pkg/verification/verification.go) and the        *)
(* process-wide LocalCache under it (pkg/cache/local.go).  A call starts   *)
(* one goroutine per request element; each reads the cache, asks the       *)
(* permission service on a miss (and the serving API for the owner of an   *)
(* export), stores the reply and reports into the variables its siblings   *)
(* share.  Rights change upstream at any moment.                           *)
(***************************************************************************)
EXTENDS AccessRights, Naturals, FiniteSets

CONSTANTS Call,          \* concurrently served requests (slots that are reused)
          MaxElements,   \* bound: elements of one request
          TTL            \* ticks a cache entry lives (600 s in the code)

ASSUME VerificationAssumption == MaxElements \in Nat /\ TTL \in Nat \ {0}

VARIABLES rights,   \* the permission service: rights per user and id
          replied,  \* history: the replies it gave, <<user, kind, id, yes>>
          cache,    \* LocalCache: key -> {} or {[entry, left]}
          phase,    \* per call: "idle", "running", "answered"
          user, elems,
          wpc,      \* per call and element: where its goroutine stands
          result,   \* per call and element: the result of VerifyAccessOnce
          ok, err,  \* per call: the two shared variables of VerifyAccess
          userIds   \* per call: the owners, at the position of their element

vars == <<rights, replied, cache, phase, user, elems, wpc, result, ok, err, userIds>>

Worker == 1 .. MaxElements
WorkerState == {"unused", "lookup", "ask", "instance", "store", "report", "failed", "done"}
CacheEntry == [entry : VerifierCacheEntry, left : 1 .. TTL]
ElementLists == UNION {[1 .. n -> Element] : n \in 0 .. MaxElements}

(* Mutant of CacheKey: the id alone, shared by all users.                  *)
CacheKeyWithoutUser(u, i) == <<CHOOSE x \in User : TRUE, i>>

(* userId+*element.ExportId, userId+*element.DeviceId, ...: user ids have  *)
(* one fixed length, so the concatenation is as good as the pair.  The     *)
(* kind of the element is no part of the key.                              *)
CacheKey(u, i) == <<u, i>>

TypeOK ==
    /\ rights \in [User \X Id -> SUBSET Right]
    /\ replied \subseteq User \X Kind \X Id \X BOOLEAN
    /\ cache \in [User \X Id -> SUBSET CacheEntry]
    /\ phase \in [Call -> {"idle", "running", "answered"}]
    /\ user \in [Call -> User]
    /\ elems \in [Call -> ElementLists]
    /\ wpc \in [Call -> [Worker -> WorkerState]]
    /\ result \in [Call -> [Worker -> VerifierCacheEntry]]
    /\ ok \in [Call -> BOOLEAN]
    /\ err \in [Call -> BOOLEAN]
    /\ userIds \in [Call -> [Worker -> User \cup {NoUser}]]

Init ==
    /\ rights \in [User \X Id -> SUBSET Right]
    /\ replied = {}
    /\ cache = [k \in User \X Id |-> {}]
    /\ phase = [c \in Call |-> "idle"]
    /\ user \in [Call -> User]
    /\ elems = [c \in Call |-> <<>>]
    /\ wpc = [c \in Call |-> [i \in Worker |-> "unused"]]
    /\ result = [c \in Call |-> [i \in Worker |-> Denied]]
    /\ ok = [c \in Call |-> FALSE]
    /\ err = [c \in Call |-> FALSE]
    /\ userIds = [c \in Call |-> [i \in Worker |-> NoUser]]

-----------------------------------------------------------------------------
(* A handler calls VerifyAccess.                                           *)
VerifyAccess(c, u, es) ==
    /\ phase[c] # "running"
    /\ phase' = [phase EXCEPT ![c] = "running"]
    /\ user' = [user EXCEPT ![c] = u]
    /\ elems' = [elems EXCEPT ![c] = es]
    /\ wpc' = [wpc EXCEPT ![c] =
                [i \in Worker |-> IF i \in DOMAIN es THEN "lookup" ELSE "unused"]]
    /\ result' = [result EXCEPT ![c] = [i \in Worker |-> Denied]]
    /\ ok' = [ok EXCEPT ![c] = TRUE]
    /\ err' = [err EXCEPT ![c] = FALSE]
    /\ userIds' = [userIds EXCEPT ![c] = [i \in Worker |-> NoUser]]
    /\ UNCHANGED <<rights, replied, cache>>

At(c, i, state) == phase[c] = "running" /\ wpc[c][i] = state
Goto(c, i, state) == wpc' = [wpc EXCEPT ![c][i] = state]
SetResult(c, i, r) == result' = [result EXCEPT ![c][i] = r]
KeyOf(c, i) == CacheKey(user[c], elems[c][i].id)

(* Mutant of CacheHit: a hit renews the entry.                             *)
CacheHitRenews(c, i) ==
    /\ At(c, i, "lookup")
    /\ \E hit \in cache[KeyOf(c, i)] :
        /\ SetResult(c, i, hit.entry)
        /\ cache' = [cache EXCEPT ![KeyOf(c, i)] = {[hit EXCEPT !.left = TTL]}]
    /\ Goto(c, i, "report")
    /\ UNCHANGED <<rights, replied, phase, user, elems, ok, err, userIds>>

(* LocalCache.Use, the hit: the entry is the answer, nothing is asked.     *)
CacheHit(c, i) ==
    /\ At(c, i, "lookup")
    /\ \E hit \in cache[KeyOf(c, i)] : SetResult(c, i, hit.entry)
    /\ Goto(c, i, "report")
    /\ UNCHANGED <<rights, replied, cache, phase, user, elems, ok, err, userIds>>

CacheMiss(c, i) ==
    /\ At(c, i, "lookup")
    /\ cache[KeyOf(c, i)] = {}
    /\ Goto(c, i, "ask")
    /\ UNCHANGED <<rights, replied, cache, phase, user, elems, result, ok, err, userIds>>

(* The getter: CheckPermission for the kind the client claims.  A granted  *)
(* export still needs its owner from the serving API.                      *)
CheckPermission(c, i) ==
    /\ At(c, i, "ask")
    /\ LET e   == elems[c][i]
           yes == Sufficient(rights, user[c], e)
       IN  /\ replied' = replied \cup {<<user[c], e.kind, e.id, yes>>}
           /\ SetResult(c, i, IF yes THEN Granted(NoUser) ELSE Denied)
           /\ Goto(c, i, IF yes /\ e.kind = "export" THEN "instance" ELSE "store")
    /\ UNCHANGED <<rights, cache, phase, user, elems, ok, err, userIds>>

GetInstance(c, i) ==
    /\ At(c, i, "instance")
    /\ SetResult(c, i, Granted(OwnerOf[elems[c][i].id]))
    /\ Goto(c, i, "store")
    /\ UNCHANGED <<rights, replied, cache, phase, user, elems, ok, err, userIds>>

(* Mutant of UpstreamError: the failure is stored as a denial.             *)
UpstreamErrorAsDenial(c, i) ==
    /\ At(c, i, "ask") \/ At(c, i, "instance")
    /\ Goto(c, i, "store")
    /\ SetResult(c, i, Denied)
    /\ UNCHANGED <<rights, replied, cache, phase, user, elems, ok, err, userIds>>

(* Either service fails: Use returns the error and stores nothing.         *)
UpstreamError(c, i) ==
    /\ At(c, i, "ask") \/ At(c, i, "instance")
    /\ Goto(c, i, "failed")
    /\ UNCHANGED <<rights, replied, cache, phase, user, elems, result, ok, err, userIds>>

(* LocalCache.Set: the last writer of a key wins, whenever it asked.       *)
CacheSet(c, i) ==
    /\ At(c, i, "store")
    /\ cache' = [cache EXCEPT ![KeyOf(c, i)] = {[entry |-> result[c][i], left |-> TTL]}]
    /\ Goto(c, i, "report")
    /\ UNCHANGED <<rights, replied, phase, user, elems, result, ok, err, userIds>>

(* Mutants of Report: ok takes the last result; a failure only clears ok;  *)
(* owners are appended as goroutines end; a failure skips wg.Done().       *)
ReportTo(c, i, failed, okNow, errNow, at) ==
    /\ IF failed THEN At(c, i, "failed") ELSE At(c, i, "report")
    /\ ok' = [ok EXCEPT ![c] = okNow]
    /\ err' = [err EXCEPT ![c] = errNow]
    /\ userIds' = IF failed \/ ~ result[c][i].Ok THEN userIds
                  ELSE [userIds EXCEPT ![c][at] = result[c][i].OwnerUserId]
    /\ Goto(c, i, "done")
    /\ UNCHANGED <<rights, replied, cache, phase, user, elems, result>>

ReportLastResult(c, i) ==
    \/ ReportTo(c, i, TRUE, FALSE, TRUE, i)
    \/ ReportTo(c, i, FALSE, result[c][i].Ok, err[c], i)

ReportWithoutErr(c, i) ==
    \/ ReportTo(c, i, TRUE, FALSE, err[c], i)
    \/ ReportTo(c, i, FALSE, ok[c] /\ result[c][i].Ok, err[c], i)

ReportAppendsOwner(c, i) ==
    \/ ReportTo(c, i, TRUE, FALSE, TRUE, i)
    \/ ReportTo(c, i, FALSE, ok[c] /\ result[c][i].Ok, err[c],
                Cardinality({m \in Worker : wpc[c][m] = "done"}) + 1)

(* The end of a goroutine: error, denial or owner go to the shared         *)
(* variables, whose only writes are ok = false and err = a non-nil error.  *)
Report(c, i) ==
    /\ \/ /\ At(c, i, "failed")
          /\ err' = [err EXCEPT ![c] = TRUE]
          /\ ok' = [ok EXCEPT ![c] = FALSE]
          /\ UNCHANGED userIds
       \/ /\ At(c, i, "report")
          /\ ok' = [ok EXCEPT ![c] = @ /\ result[c][i].Ok]
          /\ userIds' = [userIds EXCEPT ![c][i] =
                IF result[c][i].Ok THEN result[c][i].OwnerUserId ELSE @]
          /\ UNCHANGED err
    /\ Goto(c, i, "done")
    /\ UNCHANGED <<rights, replied, cache, phase, user, elems, result>>

(* wg.Wait() passes and the handler reads (ok, userIds, err).              *)
Return(c) ==
    /\ phase[c] = "running"
    /\ \A i \in Worker : wpc[c][i] \in {"unused", "done"}
    /\ phase' = [phase EXCEPT ![c] = "answered"]
    /\ UNCHANGED <<rights, replied, cache, user, elems, wpc, result, ok, err, userIds>>

-----------------------------------------------------------------------------
(* freecache: every entry ages, an expired one reads as ErrNotFound.       *)
Age(entries) == {[x EXCEPT !.left = @ - 1] : x \in {y \in entries : y.left > 1}}
Tick ==
    /\ cache' = [k \in User \X Id |-> Age(cache[k])]
    /\ UNCHANGED <<rights, replied, phase, user, elems, wpc, result, ok, err, userIds>>

(* freecache evicts an entry when its 10 MB are full.                      *)
Evict(k) ==
    /\ cache[k] # {}
    /\ cache' = [cache EXCEPT ![k] = {}]
    /\ UNCHANGED <<rights, replied, phase, user, elems, wpc, result, ok, err, userIds>>

ChangeRights(k, r) ==
    /\ rights' = [rights EXCEPT ![k] = r]
    /\ UNCHANGED <<replied, cache, phase, user, elems, wpc, result, ok, err, userIds>>

Goroutine(c, i) ==
    \/ CacheHit(c, i) \/ CacheMiss(c, i) \/ CheckPermission(c, i)
    \/ GetInstance(c, i) \/ UpstreamError(c, i) \/ CacheSet(c, i) \/ Report(c, i)

Next ==
    \/ \E c \in Call, u \in User, es \in ElementLists : VerifyAccess(c, u, es)
    \/ \E c \in Call, i \in Worker : Goroutine(c, i)
    \/ \E c \in Call : Return(c)
    \/ Tick
    \/ \E k \in User \X Id : Evict(k)
    \/ \E k \in User \X Id, r \in SUBSET Right : ChangeRights(k, r)

Spec == Init /\ [][Next]_vars

(* Time passes, scheduled goroutines run and upstream calls end (with an   *)
(* answer or an error); no client is obliged to call, no entry is obliged  *)
(* to be evicted and nobody is obliged to change rights.                   *)
Fairness ==
    /\ WF_vars(Tick)
    /\ \A c \in Call : WF_vars(Return(c))
    /\ \A c \in Call, i \in Worker : WF_vars(Goroutine(c, i))

FairSpec == Spec /\ Fairness
-----------------------------------------------------------------------------
(* What a handler makes of the results: err before !ok (queriesVerify).    *)
Answer(c) ==
    IF phase[c] # "answered" THEN "none"
    ELSE IF err[c] THEN "error"
    ELSE IF ok[c] THEN "granted" ELSE "denied"

Owners(c) ==
    IF Answer(c) = "granted" THEN [i \in DOMAIN elems[c] |-> userIds[c][i]] ELSE <<>>

IsAffirmed(c, i) == Affirmed(replied, user[c], elems[c][i])
IsRefused(c, i) ==
    \/ Refused(replied, user[c], elems[c][i])
    \/ RefusedAsAnother(replied, user[c], elems[c][i])

(* A granted call had every one of its elements affirmed by the permission *)
(* service, for its own user and under the kind the id really has: no      *)
(* element is skipped by a lost update of the shared ok, none is answered  *)
(* from another user's cache entry, and a claim of the wrong kind is not   *)
(* granted to a user without the rights the real kind needs.               *)
GrantIsBacked ==
    \A c \in Call : Answer(c) = "granted" => \A i \in DOMAIN elems[c] : IsAffirmed(c, i)

(* A denied call contains an element the permission service refused to     *)
(* this user: neither a failure nor a sibling's result turns into a 404.   *)
(* The refusal may be one he received when he claimed another kind for the *)
(* id, the case IsRefused names: the cache replays it for this kind.       *)
DenialIsBacked ==
    \A c \in Call : Answer(c) = "denied" => \E i \in DOMAIN elems[c] : IsRefused(c, i)

(* The owners returned with a grant are those of the elements, position by *)
(* position, although the goroutines end in any order: they choose whose   *)
(* export tables are read.                                                 *)
OwnersAligned ==
    \A c \in Call : Answer(c) = "granted" =>
        \A i \in DOMAIN elems[c] : userIds[c][i] = OwnerOf[elems[c][i].id]

(* A right withdrawn for good stops granting: the entry it left behind     *)
(* expires, and a reply that was in flight lives one more TTL at most.     *)
RevocationTakesEffect ==
    \A u \in User, e \in Element :
        <>[](~ Sufficient(rights, u, [kind |-> KindOf[e.id], id |-> e.id]))
            => <>[](\A x \in cache[<<u, e.id>>] : ~ x.entry.Ok)

Contract == INSTANCE AccessContract WITH
    answer <- [c \in Call |-> Answer(c)],
    owners <- [c \in Call |-> Owners(c)]
(* VerifyAccess implements its contract: to its callers the goroutines and *)
(* the cache are one step that decides the whole call.                     *)
ImplementsContract == Contract!CSpec
-----------------------------------------------------------------------------
(* The strengthening that makes the three invariants inductive.            *)

(* Goroutines exist for exactly the elements of the request.               *)
OneGoroutinePerElement ==
    \A c \in Call, i \in Worker : i \in DOMAIN elems[c] <=> wpc[c][i] # "unused"

(* What an entry repeats: a reply given to this user for this id, under    *)
(* the real kind if it grants, under some kind if it denies.               *)
IsBacked(u, i, entry) ==
    /\ entry.Ok => <<u, KindOf[i], i, TRUE>> \in replied /\ entry.OwnerUserId = OwnerOf[i]
    /\ ~ entry.Ok => \E kind \in Kind : <<u, kind, i, FALSE>> \in replied

CacheIsBacked ==
    \A u \in User, i \in Id : \A x \in cache[<<u, i>>] : IsBacked(u, i, x.entry)

(* Questions are about elements that requests may have.                    *)
RepliesAreToElements == \A r \in replied : [kind |-> r[2], id |-> r[3]] \in Element

(* So does a result on its way to the cache or to the shared variables.    *)
BackedAt(c, i) ==
    /\ wpc[c][i] = "instance" => IsAffirmed(c, i)
    /\ wpc[c][i] \in {"store", "report"} => IsBacked(user[c], elems[c][i].id, result[c][i])
ResultIsBacked == \A c \in Call, i \in Worker : BackedAt(c, i)

(* While ok holds, every goroutine that ended had a grant; once it does    *)
(* not, an error or a refusal is the reason.                               *)
OkAt(c) ==
    /\ ok[c] => ~ err[c] /\ \A i \in Worker : wpc[c][i] = "done" =>
                    /\ IsAffirmed(c, i)
                    /\ userIds[c][i] = OwnerOf[elems[c][i].id]
    /\ phase[c] # "idle" /\ ~ ok[c] /\ ~ err[c] =>
                    \E i \in DOMAIN elems[c] : IsRefused(c, i)
    /\ err[c] => elems[c] # <<>>
OkIsBacked == \A c \in Call : OkAt(c)

AnsweredWhenAllDone ==
    \A c \in Call : phase[c] = "answered" =>
        \A i \in Worker : wpc[c][i] \in {"unused", "done"}

IInv ==
    /\ TypeOK
    /\ OneGoroutinePerElement
    /\ RepliesAreToElements
    /\ CacheIsBacked
    /\ ResultIsBacked
    /\ OkIsBacked
    /\ AnsweredWhenAllDone
-----------------------------------------------------------------------------
(* Not kept by the code: a call is decided by replies for the very kinds   *)
(* its elements claim.  The key of the cache is the user and the id, so    *)
(* that the refusal of (device, L) denies (location, L) for its lifetime,  *)
(* and the grant of (location, L) grants (device, L), which the permission *)
(* service refuses.  It is kept where no id is claimed under two kinds.    *)
RepliesAreForTheKind ==
    \A c \in Call :
        /\ Answer(c) = "granted" => \A i \in DOMAIN elems[c] :
                <<user[c], elems[c][i].kind, elems[c][i].id, TRUE>> \in replied
        /\ Answer(c) = "denied" => \E i \in DOMAIN elems[c] :
                Refused(replied, user[c], elems[c][i])

OneKindPerId == \A d, e \in Element : d.id = e.id => d.kind = e.kind
=============================================================================
