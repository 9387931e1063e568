---------------------------- MODULE RemoteCache ----------------------------
(***************************************************************************)
(* The read-through cache of metadata in memcached (pkg/cache/remote.go):  *)
(* devices, device groups, services, concepts, functions, locations and    *)
(* selections are all fetched and kept this way.  Several callers, also of *)
(* other instances of the service, share one entry, here of one key.  The  *)
(* value of the key is its version in the device repository.               *)
(***************************************************************************)
EXTENDS Naturals, FiniteSets

CONSTANTS Caller,
          MaxVersion,   \* bound: the changes in the device repository
          TTL           \* ticks an entry lives (5 * 60 s in the code)

ASSUME RemoteCacheAssumption == MaxVersion \in Nat \ {0} /\ TTL \in Nat \ {0}

VARIABLES upstream,   \* the version the device repository has
          item,       \* memcached: {} or {[value, readable, left]}
          cpc,        \* where each caller stands in Get*
          got         \* the version it has got

cacheVars == <<upstream, item, cpc, got>>

Version == 1 .. MaxVersion
NoVersion == 0

CacheTypeOK ==
    /\ upstream \in Version
    /\ item \in SUBSET [value : Version, readable : BOOLEAN, left : 1 .. TTL]
    /\ Cardinality(item) <= 1
    /\ cpc \in [Caller -> {"idle", "get", "getAgain", "ask", "set", "setAgain", "failed", "return"}]
    /\ got \in [Caller -> Version \cup {NoVersion}]

CacheInit ==
    /\ upstream = 1
    /\ item = {}
    /\ cpc = [c \in Caller |-> "idle"]
    /\ got = [c \in Caller |-> NoVersion]

-----------------------------------------------------------------------------
CacheAt(c, state) == cpc[c] = state
CacheGoto(c, state) == cpc' = [cpc EXCEPT ![c] = state]
Gets(c) == cpc[c] \in {"get", "getAgain"}
Sets(c) == cpc[c] \in {"set", "setAgain"}

(* What a caller sets.  One of another release may write the JSON in a way *)
(* that the callers of this one cannot read.                               *)
Entries(version) == [value : {version}, readable : BOOLEAN, left : {TTL}]

(* mcGet finds the entry, and json.Unmarshal reads it.                     *)
GetHit(c) ==
    /\ Gets(c)
    /\ \E x \in item : x.readable /\ got' = [got EXCEPT ![c] = x.value]
    /\ CacheGoto(c, "return")
    /\ UNCHANGED <<upstream, item>>

(* It does not: the error is returned, nobody else is asked, and the entry *)
(* stays.                                                                  *)
GetUnreadable(c) ==
    /\ Gets(c)
    /\ \E x \in item : ~ x.readable
    /\ CacheGoto(c, "failed")
    /\ UNCHANGED <<upstream, item, got>>

GetMiss(c) ==
    /\ Gets(c) /\ item = {}
    /\ CacheGoto(c, "ask")
    /\ UNCHANGED <<upstream, item, got>>

(* Mutant of GetFails: an error of memcached other than a miss is passed   *)
(* on.                                                                     *)
GetFailsForGood(c) ==
    /\ Gets(c)
    /\ CacheGoto(c, "failed")
    /\ UNCHANGED <<upstream, item, got>>

(* memcached cannot be reached: another client is made and asked again; it *)
(* answers with an error, or does so the second time: as good as a miss.   *)
GetFails(c) ==
    /\ \/ CacheAt(c, "get") /\ CacheGoto(c, "getAgain")
       \/ Gets(c) /\ CacheGoto(c, "ask")
    /\ UNCHANGED <<upstream, item, got>>

(* deviceRepo.Get*: what is found is set in memcached.                     *)
Ask(c) ==
    /\ CacheAt(c, "ask") /\ CacheGoto(c, "set")
    /\ got' = [got EXCEPT ![c] = upstream]
    /\ UNCHANGED <<upstream, item>>

AskFails(c) ==
    /\ CacheAt(c, "ask") /\ CacheGoto(c, "failed")
    /\ UNCHANGED <<upstream, item, got>>

(* mcSet, whenever the value was asked for.                                *)
Set(c) ==
    /\ Sets(c) /\ CacheGoto(c, "return")
    /\ \E x \in Entries(got[c]) : item' = {x}
    /\ UNCHANGED <<upstream, got>>

(* An error, with or without the entry stored: once more with another      *)
(* client, then a line in the log is all.                                  *)
SetFails(c) ==
    /\ \/ CacheAt(c, "set") /\ CacheGoto(c, "setAgain")
       \/ CacheAt(c, "setAgain") /\ CacheGoto(c, "return")
    /\ item' = item \/ \E x \in Entries(got[c]) : item' = {x}
    /\ UNCHANGED <<upstream, got>>

-----------------------------------------------------------------------------
ChangeUpstream ==
    /\ upstream < MaxVersion
    /\ upstream' = upstream + 1
    /\ UNCHANGED <<item, cpc, got>>

(* Mutant of Age: no expiration is given.                                  *)
AgeNever(entries) == entries
Age(entries) == {[x EXCEPT !.left = @ - 1] : x \in {y \in entries : y.left > 1}}
Tick ==
    /\ item # {}
    /\ item' = Age(item)
    /\ UNCHANGED <<upstream, cpc, got>>

Evict ==
    /\ item # {}
    /\ item' = {}
    /\ UNCHANGED <<upstream, cpc, got>>

-----------------------------------------------------------------------------
(* Once the device repository stops changing, the cache follows: entries   *)
(* that were asked for before the last change and set after it, even over  *)
(* a newer one, are gone for good after a while.                           *)
MetadataSettles == <>[](\A x \in item : x.value = upstream)
=============================================================================
