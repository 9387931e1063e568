---------------------------- MODULE LastMessage ----------------------------
(***************************************************************************)
(* Who uses the metadata and the last messages in memcached: GET           *)
(* /last-message (pkg/api/last_message.go, pkg/timescale/last_message.go), *)
(* the cached value of a column (GetLastValuesFromCache) and the           *)
(* characteristic of a column that formatResponse converts.  A device's    *)
(* last message comes from memcached as it was sent, or is put together    *)
(* from the columns of the table and the service, which may be of another  *)
(* version than the message.                                               *)
(***************************************************************************)
EXTENDS RemoteCache, SequencesExt

CONSTANTS Service,   \* bound: [Version -> the content variable of the output]
          Message,   \* bound: messages, [version, value]
          Column     \* bound: the columns asked for

VARIABLES message,   \* the last message of the device, as it is in the table
          cached,    \* it is in memcached
          hpc,       \* where each request stands
          request,   \* what it asks for: [kind, column]
          status, answer,
          reason     \* history: what failed a request, "entry" is one of memcached

requestVars == <<hpc, request, status, answer, reason>>
vars == <<cacheVars, message, cached, requestVars>>

(* JSON values, and what an algorithm gives that has none.                 *)
Nil == [tag |-> "nil"]
Leaf(v) == [tag |-> "leaf", value |-> v]
Structure(f) == [tag |-> "structure", sub |-> f]
List(s) == [tag |-> "list", sub |-> s]
Panic == [tag |-> "panic"]

(* Names that strconv.Atoi can read.                                       *)
Atoi == [n \in {"0", "1", "2"} |-> CHOOSE i \in 0 .. 2 : ToString(i) = n]
IsStarList(cv) == cv.type = "list" /\ cv.subs # <<>> /\ cv.subs[1].name = "*"

(* The columns of a service's table (timescale-tableworker): one for each  *)
(* variable with a value and for each list of any length.                  *)
RECURSIVE Columns(_, _)
Columns(cv, path) ==
    LET at == Append(path, cv.name)
    IN  IF cv.type = "leaf" \/ IsStarList(cv) THEN {at}
        ELSE UNION {Columns(cv.subs[i], at) : i \in DOMAIN cv.subs}

(* What a message has at a path; nothing where the path leaves it.         *)
RECURSIVE ValueAt(_, _)
ValueAt(v, path) ==
    IF path = <<>> THEN v
    ELSE IF v.tag = "structure" /\ Head(path) \in DOMAIN v.sub
         THEN ValueAt(v.sub[Head(path)], Tail(path))
    ELSE IF v.tag = "list" /\ Head(path) \in DOMAIN Atoi /\ Atoi[Head(path)] < Len(v.sub)
         THEN ValueAt(v.sub[Atoi[Head(path)] + 1], Tail(path))
    ELSE Nil

ColumnsOf(version) == Columns(Service[version], <<>>)
(* to_json of the row of the message.                                      *)
Row == [p \in ColumnsOf(message.version) |-> ValueAt(message.value, p)]

-----------------------------------------------------------------------------
(* getDeepEntry: child[n] has no check of n, and a value that is neither   *)
(* structure nor list stays the value for the rest of the path.            *)
RECURSIVE getDeepEntry(_, _)
getDeepEntry(v, path) ==
    IF path = <<>> THEN v
    ELSE IF v.tag = "structure"
         THEN IF Head(path) \in DOMAIN v.sub THEN getDeepEntry(v.sub[Head(path)], Tail(path))
              ELSE Nil
    ELSE IF v.tag = "list"
         THEN IF Head(path) \notin DOMAIN Atoi THEN Nil
              ELSE IF Atoi[Head(path)] >= Len(v.sub) THEN Panic
              ELSE getDeepEntry(v.sub[Atoi[Head(path)] + 1], Tail(path))
    ELSE getDeepEntry(v, Tail(path))

(* buildOutput rejects a list whose variables are not named by indexes     *)
(* below their number.                                                     *)
RECURSIVE HasBadIndex(_)
HasBadIndex(cv) ==
    /\ cv.type # "leaf" /\ ~ IsStarList(cv)
    /\ \E i \in DOMAIN cv.subs :
        \/ HasBadIndex(cv.subs[i])
        \/ /\ cv.type = "list"
           /\ ~ (cv.subs[i].name \in DOMAIN Atoi /\ Atoi[cv.subs[i].name] < Len(cv.subs))

(* Mutant of Positions: the order of the variables instead of their names. *)
PositionsInOrder(subs) == [i \in DOMAIN subs |-> i]

Positions(subs) == [i \in DOMAIN subs |-> Atoi[subs[i].name] + 1]

RECURSIVE buildOutput(_, _, _)
buildOutput(cv, row, path) ==
    LET at == Append(path, cv.name)
    IN  IF cv.type = "leaf" \/ IsStarList(cv)
        THEN IF at \in DOMAIN row THEN row[at] ELSE Nil
        ELSE IF cv.type = "structure"
        THEN Structure([n \in {s.name : s \in Range(cv.subs)} |->
                buildOutput(cv.subs[CHOOSE i \in DOMAIN cv.subs : cv.subs[i].name = n], row, at)])
        ELSE List([k \in DOMAIN cv.subs |->
                IF k \in Range(Positions(cv.subs))
                THEN buildOutput(cv.subs[CHOOSE i \in DOMAIN cv.subs : Positions(cv.subs)[i] = k],
                                 row, at)
                ELSE Nil])

(* entry.Value[output.ContentVariable.Name]                                *)
BuiltFrom(version) ==
    Structure([n \in {Service[version].name} |-> buildOutput(Service[version], Row, <<>>)])

(* meta.GetDeepContentVariable; formatResponse uses the nil it may return. *)
RECURSIVE HasContentVariable(_, _)
HasContentVariable(cv, path) ==
    path = <<>> \/ \E i \in DOMAIN cv.subs :
        cv.subs[i].name = Head(path) /\ HasContentVariable(cv.subs[i], Tail(path))
-----------------------------------------------------------------------------
NoColumn == <<>>
Request == [kind : {"message"}, column : {NoColumn}] \cup [kind : {"value", "format"}, column : Column]

TypeOK ==
    /\ CacheTypeOK
    /\ message \in Message /\ cached \in BOOLEAN
    /\ hpc \in [Caller -> {"idle", "verify", "lookup", "lookupAgain", "service", "row"}]
    /\ request \in [Caller -> Request]
    /\ status \in [Caller -> {"none", "pending", "200", "404", "500", "database", "lost"}]
    /\ reason \in [Caller -> {"none", "permissions", "repository", "database", "service", "entry"}]

FirstRequest == [kind |-> "message", column |-> NoColumn]
Init ==
    /\ CacheInit
    /\ message \in Message /\ cached = FALSE
    /\ hpc = [c \in Caller |-> "idle"] /\ request = [c \in Caller |-> FirstRequest]
    /\ status = [c \in Caller |-> "none"] /\ answer = [c \in Caller |-> Nil]
    /\ reason = [c \in Caller |-> "none"]

At(c, state) == hpc[c] = state
Goto(c, state) == hpc' = [hpc EXCEPT ![c] = state] /\ UNCHANGED <<status, answer>>
Answer(c, code, value) ==
    /\ hpc' = [hpc EXCEPT ![c] = "idle"]
    /\ status' = [status EXCEPT ![c] = code]
    /\ answer' = [answer EXCEPT ![c] = value]
Because(c, why) == reason' = [reason EXCEPT ![c] = why] /\ UNCHANGED request
environment == <<message, cached>>

(* A slot serves one request.                                              *)
Receive(c, r) ==
    /\ status[c] = "none"
    /\ hpc' = [hpc EXCEPT ![c] = IF r.kind = "message" THEN "verify"
                                 ELSE IF r.kind = "value" THEN "lookup" ELSE "service"]
    /\ cpc' = [cpc EXCEPT ![c] = IF r.kind = "format" THEN "get" ELSE "idle"]
    /\ request' = [request EXCEPT ![c] = r]
    /\ status' = [status EXCEPT ![c] = "pending"] /\ answer' = [answer EXCEPT ![c] = Nil]
    /\ got' = [got EXCEPT ![c] = NoVersion] /\ reason' = [reason EXCEPT ![c] = "none"]
    /\ UNCHANGED <<upstream, item, environment>>

(* VerifyDevice: an error, a denial or a grant.                            *)
Verify(c) ==
    /\ At(c, "verify")
    /\ \/ Answer(c, "500", Nil) /\ Because(c, "permissions")
       \/ Answer(c, "404", Nil) /\ UNCHANGED <<request, reason>>
       \/ Goto(c, "lookup") /\ UNCHANGED <<request, reason>>
    /\ UNCHANGED <<cacheVars, environment>>

LooksUp(c) == hpc[c] \in {"lookup", "lookupAgain"}

(* mcGet("device_..._service_...") finds the message: it is the answer, or *)
(* its value of the column is.                                             *)
LookupHit(c) ==
    /\ LooksUp(c) /\ cached
    /\ LET value == getDeepEntry(message.value, request[c].column)
       IN  value # Panic /\ Answer(c, "200", value)
    /\ UNCHANGED <<cacheVars, environment, request, reason>>

(* child[n] panics in a goroutine, where nothing recovers: the process     *)
(* ends with every request in it.                                          *)
LookupPanics(c) ==
    /\ LooksUp(c) /\ cached
    /\ getDeepEntry(message.value, request[c].column) = Panic
    /\ hpc' = [x \in Caller |-> "idle"] /\ cpc' = [x \in Caller |-> "idle"]
    /\ status' = [x \in Caller |-> IF At(x, "idle") THEN status[x] ELSE "lost"]
    /\ UNCHANGED <<upstream, item, got, environment, request, answer, reason>>

(* A miss, an error, or an entry that cannot be read: a query goes to the  *)
(* database (module Queries), the endpoint asks for the service.           *)
GoOn(c) ==
    IF request[c].kind = "value" THEN Answer(c, "database", Nil) /\ UNCHANGED cpc
    ELSE Goto(c, "service") /\ CacheGoto(c, "get")

LookupFails(c) ==
    /\ LooksUp(c)
    /\ \/ GoOn(c)
       \/ At(c, "lookup") /\ Goto(c, "lookupAgain") /\ UNCHANGED cpc
    /\ UNCHANGED <<upstream, item, got, environment, request, reason>>

(* GetService.                                                             *)
ServiceStep(c) ==
    /\ At(c, "service")
    /\ \/ GetHit(c) \/ GetMiss(c) \/ GetFails(c) \/ Ask(c) \/ Set(c) \/ SetFails(c)
    /\ UNCHANGED <<environment, requestVars>>
RepositoryFails(c) ==
    /\ At(c, "service")
    /\ AskFails(c)
    /\ Because(c, "repository")
    /\ UNCHANGED <<environment, hpc, status, answer>>

(* An entry of memcached that cannot be read fails the request, too.       *)
EntryFails(c) ==
    /\ At(c, "service")
    /\ GetUnreadable(c)
    /\ Because(c, "entry")
    /\ UNCHANGED <<environment, hpc, status, answer>>

ServiceFails(c) ==
    /\ At(c, "service") /\ CacheAt(c, "failed")
    /\ Answer(c, "500", Nil)
    /\ UNCHANGED <<cacheVars, environment, request, reason>>

(* A panic of formatResponse, which is recovered as a 500.                 *)
Characteristic(c) ==
    /\ At(c, "service") /\ CacheAt(c, "return") /\ request[c].kind = "format"
    /\ IF HasContentVariable(Service[got[c]], Tail(request[c].column))
       THEN Answer(c, "200", Nil) /\ UNCHANGED <<request, reason>>
       ELSE Answer(c, "500", Nil) /\ Because(c, "service")
    /\ UNCHANGED <<cacheVars, environment>>

GotService(c) ==
    /\ At(c, "service") /\ CacheAt(c, "return") /\ request[c].kind = "message"
    /\ Goto(c, "row")
    /\ UNCHANGED <<cacheVars, environment, request, reason>>

(* QueryRow: no row is an error, too.                                      *)
QueryFails(c) ==
    /\ At(c, "row")
    /\ Answer(c, "500", Nil) /\ Because(c, "database")
    /\ UNCHANGED <<cacheVars, environment>>

GetLastMessage(c) ==
    /\ At(c, "row")
    /\ IF HasBadIndex(Service[got[c]])
       THEN Answer(c, "500", Nil) /\ Because(c, "service")
       ELSE Answer(c, "200", BuiltFrom(got[c])) /\ UNCHANGED <<request, reason>>
    /\ UNCHANGED <<cacheVars, environment>>

-----------------------------------------------------------------------------
(* The services that write messages to memcached, and memcached.           *)
Publish == ~ cached /\ cached' = TRUE /\ UNCHANGED <<cacheVars, message, requestVars>>
Forget == cached /\ cached' = FALSE /\ UNCHANGED <<cacheVars, message, requestVars>>

Step(c) ==
    \/ Verify(c) \/ LookupHit(c) \/ LookupPanics(c) \/ LookupFails(c)
    \/ ServiceStep(c) \/ RepositoryFails(c) \/ EntryFails(c) \/ ServiceFails(c)
    \/ Characteristic(c) \/ GotService(c) \/ QueryFails(c) \/ GetLastMessage(c)

Next ==
    \/ \E c \in Caller, r \in Request : Receive(c, r)
    \/ \E c \in Caller : Step(c)
    \/ (ChangeUpstream \/ Tick \/ Evict) /\ UNCHANGED <<environment, requestVars>>
    \/ Publish \/ Forget

Spec == Init /\ [][Next]_vars

(* Handlers go on, upstream calls end, and entries expire.                 *)
FairSpec ==
    /\ Spec
    /\ \A c \in Caller : WF_vars(Step(c))
    /\ WF_vars(Tick /\ UNCHANGED <<environment, requestVars>>)

-----------------------------------------------------------------------------
(* Wherever an answer comes from, it has the values of the message: that   *)
(* of memcached at the column asked for, that put together from the table  *)
(* at every column the message and the version of the service share, and   *)
(* nothing at the others.                                                  *)
AnswersHaveTheMessage ==
    \A c \in Caller : status[c] = "200" =>
        CASE request[c].kind = "value" ->
                request[c].column \in ColumnsOf(message.version) =>
                    answer[c] = ValueAt(message.value, request[c].column)
          [] request[c].kind = "message" /\ got[c] # NoVersion ->
                \A p \in ColumnsOf(got[c]) :
                    ValueAt(answer[c], p) = IF p \in ColumnsOf(message.version)
                                            THEN ValueAt(message.value, p) ELSE Nil
          [] OTHER -> TRUE

(* Without memcached requests are answered, too: one that cannot be        *)
(* reached, is empty or late fails none.  A request fails only if another  *)
(* service, the metadata or an entry that cannot be read fails it.         *)
MemcachedIsOptional == \A c \in Caller : status[c] = "500" => reason[c] # "none"

-----------------------------------------------------------------------------
(* Not kept by the code.                                                   *)

(* An entry that cannot be read is as good as a miss, as it is for the     *)
(* last message.                                                           *)
UnreadableIsAMiss == \A c \in Caller : reason[c] # "entry"

(* A message with fewer list elements than its service has variables is    *)
(* answered like any other.                                                *)
ShortListsAreAnswered == \A c \in Caller : status[c] # "lost"
=============================================================================
