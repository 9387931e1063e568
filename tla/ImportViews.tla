---------------------------- MODULE ImportViews ----------------------------
(***************************************************************************)
(* The station of an import that is nearest to given coordinates           *)
(* (pkg/timescale/locate_import.go).  CreateFiltersForImport reads the     *)
(* stations from a materialized view, which the first request to miss it   *)
(* creates, with a job to refresh it, in three statements.  Requests of    *)
(* several replicas do so at the same time, statements fail, their replies *)
(* get lost, tables are dropped, and replicas crash and start: they begin  *)
(* with Migrate, which deletes the jobs of tables that are gone.           *)
(***************************************************************************)
EXTENDS Integers, FiniteSets

CONSTANTS Table,           \* exports of imports; a view or a job is named after one
          Station,         \* places an import has values of
          Distance,        \* Distance[s]: from the coordinates to station s
          Request,         \* calls of CreateFiltersForImport, each made once
          Replica,         \* instances of the service
          Home,            \* Home[q]: the replica request q is sent to
          Asked,           \* bound: which tables the requests ask for together
          MaxConnections,  \* connections of the pool of a replica (5)
          MaxCrashes       \* bound: crashes of replicas

ASSUME ImportAssumption ==
    /\ Distance \in [Station -> Nat]
    /\ Home \in [Request -> Replica] /\ Asked \subseteq [Request -> Table]
    /\ MaxConnections \in Nat /\ MaxCrashes \in Nat

VARIABLES
    state,      \* of each table: "none", "there" or "dropped"
    stations,   \* those the table has rows of
    views, view,     \* the tables that have a view, and the rows of each
    jobs, lastJob,   \* the jobs and the highest id given to one
    rpc,        \* where each replica stands
    outdated,   \* the ids Migrate has read and not yet deleted
    used,       \* connections of each replica that Migrate holds
    qpc, table, \* where each request stands, and the table it asks for
    filter,     \* the station a request was answered with
    crashes

dbVars == <<state, stations, views, view, jobs, lastJob>>
replicaVars == <<rpc, outdated, used>>
requestVars == <<qpc, table, filter>>
vars == <<dbVars, replicaVars, requestVars, crashes>>

NoStation == "none"
Job == [id : Nat \ {0}, table : Table, failed : BOOLEAN]
Ended == {"answered", "failed", "lost"}

TypeOK ==
    /\ state \in [Table -> {"none", "there", "dropped"}]
    /\ stations \in [Table -> SUBSET Station]
    /\ views \subseteq Table /\ view \in [Table -> SUBSET Station]
    /\ jobs \subseteq Job /\ lastJob \in Nat
    /\ rpc \in [Replica -> {"down", "migrate", "delete", "ready"}]
    /\ outdated \in [Replica -> SUBSET (1 .. lastJob)]
    /\ used \in [Replica -> 0 .. MaxConnections]
    /\ qpc \in [Request -> {"idle", "select", "procedure", "view", "job", "again"} \cup Ended]
    /\ table \in Asked
    /\ filter \in [Request -> Station \cup {NoStation}]
    /\ crashes \in 0 .. MaxCrashes

Init ==
    /\ state = [t \in Table |-> "none"] /\ stations = [t \in Table |-> {}]
    /\ views = {} /\ view = [t \in Table |-> {}]
    /\ jobs = {} /\ lastJob = 0
    /\ rpc = [r \in Replica |-> "down"]
    /\ outdated = [r \in Replica |-> {}] /\ used = [r \in Replica |-> 0]
    /\ qpc = [q \in Request |-> "idle"]
    /\ table \in Asked
    /\ filter = [q \in Request |-> NoStation]
    /\ crashes = 0

-----------------------------------------------------------------------------
(* The database, as other services and its own scheduler change it.        *)

CreateTable(t) ==
    /\ state[t] = "none"
    /\ state' = [state EXCEPT ![t] = "there"]
    /\ UNCHANGED <<stations, views, view, jobs, lastJob, replicaVars, requestVars, crashes>>

(* A station reports for the first time.                                   *)
Ingest(t, s) ==
    /\ state[t] = "there" /\ s \notin stations[t]
    /\ stations' = [stations EXCEPT ![t] = @ \cup {s}]
    /\ UNCHANGED <<state, views, view, jobs, lastJob, replicaVars, requestVars, crashes>>

(* The export is deleted: its table goes for good, and with it what        *)
(* depends on it (CASCADE); jobs know their table by name only and stay.   *)
DropTable(t) ==
    /\ state[t] = "there"
    /\ state' = [state EXCEPT ![t] = "dropped"]
    /\ stations' = [stations EXCEPT ![t] = {}]
    /\ views' = views \ {t} /\ view' = [view EXCEPT ![t] = {}]
    /\ UNCHANGED <<jobs, lastJob, replicaVars, requestVars, crashes>>

(* Once a day: REFRESH MATERIALIZED VIEW with the config of the job, which *)
(* is the name of the table; a table is not a materialized view.           *)
RunJob(j) ==
    /\ j \in jobs /\ ~ j.failed
    /\ jobs' = (jobs \ {j}) \cup {[j EXCEPT !.failed = TRUE]}
    /\ UNCHANGED <<state, stations, views, view, lastJob, replicaVars, requestVars, crashes>>

-----------------------------------------------------------------------------
(* The start of a replica.  Start and restart are the orchestrator's.      *)

Start(r) ==
    /\ rpc[r] = "down"
    /\ rpc' = [rpc EXCEPT ![r] = "migrate"]
    /\ UNCHANGED <<dbVars, outdated, used, requestVars, crashes>>

(* Mutant of Outdated: config::text is compared without its quotes.        *)
OutdatedUnquoted == {j.id : j \in jobs}

Outdated == {j.id : j \in {k \in jobs : state[k.table] # "there"}}

(* removeOutdatedMaterializedRefreshJobs: the rows stay open.              *)
MigrateQuery(r) ==
    /\ rpc[r] = "migrate" /\ used[r] < MaxConnections
    /\ outdated' = [outdated EXCEPT ![r] = Outdated]
    /\ used' = [used EXCEPT ![r] = @ + 1]
    /\ rpc' = [rpc EXCEPT ![r] = "delete"]
    /\ UNCHANGED <<dbVars, requestVars, crashes>>

(* Mutant of DeleteJob: the connection of the statement is not returned.   *)
DeleteJobKeepsConnection(r) ==
    /\ rpc[r] = "delete" /\ used[r] < MaxConnections
    /\ \E id \in outdated[r] :
        /\ outdated' = [outdated EXCEPT ![r] = @ \ {id}]
        /\ jobs' = {j \in jobs : j.id # id}
    /\ used' = [used EXCEPT ![r] = @ + 1]
    /\ UNCHANGED <<state, stations, views, view, lastJob, rpc, requestVars, crashes>>

(* delete_job for the next row, over a second connection for a moment.     *)
DeleteJob(r) ==
    /\ rpc[r] = "delete" /\ used[r] < MaxConnections
    /\ \E id \in outdated[r] :
        /\ \E j \in jobs : j.id = id
        /\ outdated' = [outdated EXCEPT ![r] = @ \ {id}]
        /\ jobs' = {j \in jobs : j.id # id}
    /\ UNCHANGED <<state, stations, views, view, lastJob, rpc, used, requestVars, crashes>>

Goes(r) ==
    /\ rpc' = [rpc EXCEPT ![r] = "down"]
    /\ outdated' = [outdated EXCEPT ![r] = {}] /\ used' = [used EXCEPT ![r] = 0]
    /\ qpc' = [q \in Request |->
                IF Home[q] = r /\ qpc[q] \notin Ended \cup {"idle"} THEN "lost" ELSE qpc[q]]

(* Another replica has deleted the job meanwhile: delete_job fails, and    *)
(* main ends with log.Fatal.                                               *)
DeleteJobFails(r) ==
    /\ rpc[r] = "delete" /\ used[r] < MaxConnections
    /\ \E id \in outdated[r] : \A j \in jobs : j.id # id
    /\ Goes(r)
    /\ UNCHANGED <<dbVars, table, filter, crashes>>

(* The last row closes the rows; the servers are started.                  *)
MigrateDone(r) ==
    /\ rpc[r] = "delete" /\ outdated[r] = {}
    /\ used' = [used EXCEPT ![r] = @ - 1]
    /\ rpc' = [rpc EXCEPT ![r] = "ready"]
    /\ UNCHANGED <<dbVars, outdated, requestVars, crashes>>

(* rows.Next() ends on a failure too, and nobody reads rows.Err(): the     *)
(* servers are started although jobs are left.                             *)
MigrateBreaksOff(r) ==
    /\ rpc[r] = "delete" /\ outdated[r] # {}
    /\ outdated' = [outdated EXCEPT ![r] = {}]
    /\ used' = [used EXCEPT ![r] = @ - 1]
    /\ rpc' = [rpc EXCEPT ![r] = "ready"]
    /\ UNCHANGED <<dbVars, requestVars, crashes>>

(* The replica goes at any point, its start included.                      *)
Crash(r) ==
    /\ rpc[r] # "down" /\ crashes < MaxCrashes
    /\ crashes' = crashes + 1
    /\ Goes(r)
    /\ UNCHANGED <<dbVars, table, filter>>

-----------------------------------------------------------------------------
(* CreateFiltersForImport.  Each statement takes a connection for itself   *)
(* and is atomic in the database.                                          *)
At(q, here) == qpc[q] = here
Goto(q, there) == qpc' = [qpc EXCEPT ![q] = there]

(* GetInstance and ReadImportType come first, and the search in the type.  *)
Receive(q) ==
    /\ At(q, "idle") /\ rpc[Home[q]] = "ready"
    /\ Goto(q, "select")
    /\ UNCHANGED <<dbVars, replicaVars, table, filter, crashes>>

(* A call, a statement or the search in the type fails, with no effect; a  *)
(* statement that is applied while its reply is lost is in Replied.        *)
Fail(q) ==
    /\ qpc[q] \notin Ended \cup {"idle"} /\ Goto(q, "failed")
    /\ UNCHANGED <<dbVars, replicaVars, table, filter, crashes>>

(* Mutant of Nearest: the order is turned round.                           *)
Farthest(t) == {s \in view[t] : \A o \in view[t] : Distance[s] >= Distance[o]}

(* sort.Slice by distance, which is not stable; the first.                 *)
Nearest(t) == {s \in view[t] : \A o \in view[t] : Distance[s] <= Distance[o]}

(* SELECT from the view, before and after its setup.  A view without rows  *)
(* comes as one row of nils (ExecuteQuery), which is no coordinate.        *)
Select(q) ==
    /\ qpc[q] \in {"select", "again"}
    /\ table[q] \in views /\ view[table[q]] # {}
    /\ \E s \in Nearest(table[q]) : filter' = [filter EXCEPT ![q] = s]
    /\ Goto(q, "answered")
    /\ UNCHANGED <<dbVars, replicaVars, table, crashes>>

(* UndefinedTable: only the first SELECT goes on to the setup.             *)
SelectUndefined(q) ==
    /\ At(q, "select") /\ table[q] \notin views
    /\ Goto(q, "procedure")
    /\ UNCHANGED <<dbVars, replicaVars, table, filter, crashes>>

(* Rows of nils, or the view is gone again.                                *)
SelectFails(q) ==
    /\ \/ qpc[q] \in {"select", "again"} /\ table[q] \in views /\ view[table[q]] = {}
       \/ At(q, "again") /\ table[q] \notin views
    /\ Goto(q, "failed")
    /\ UNCHANGED <<dbVars, replicaVars, table, filter, crashes>>

(* setupMaterializedRefreshJob: three statements.  Whether the reply       *)
(* arrives decides how the request goes on.                                *)
Replied(q, next) == qpc' \in {[qpc EXCEPT ![q] = next], [qpc EXCEPT ![q] = "failed"]}

CreateProcedure(q) ==
    /\ At(q, "procedure") /\ Replied(q, "view")
    /\ UNCHANGED <<dbVars, replicaVars, table, filter, crashes>>

(* Mutant of CreateView: CREATE ... IF NOT EXISTS.                         *)
CreateViewIfNotExists(q) ==
    /\ At(q, "view") /\ state[table[q]] = "there"
    /\ Replied(q, "job")
    /\ views' = views \cup {table[q]}
    /\ view' = [view EXCEPT ![table[q]] = IF table[q] \in views THEN @ ELSE stations[table[q]]]
    /\ UNCHANGED <<state, stations, jobs, lastJob, replicaVars, table, filter, crashes>>

CreateView(q) ==
    /\ At(q, "view") /\ state[table[q]] = "there" /\ table[q] \notin views
    /\ Replied(q, "job")
    /\ views' = views \cup {table[q]}
    /\ view' = [view EXCEPT ![table[q]] = stations[table[q]]]
    /\ UNCHANGED <<state, stations, jobs, lastJob, replicaVars, table, filter, crashes>>

(* A rival was first, or the table is gone.                                *)
CreateViewFails(q) ==
    /\ At(q, "view")
    /\ state[table[q]] # "there" \/ table[q] \in views
    /\ Goto(q, "failed")
    /\ UNCHANGED <<dbVars, replicaVars, table, filter, crashes>>

AddJob(q) ==
    /\ At(q, "job") /\ Replied(q, "again")
    /\ lastJob' = lastJob + 1
    /\ jobs' = jobs \cup {[id |-> lastJob + 1, table |-> table[q], failed |-> FALSE]}
    /\ UNCHANGED <<state, stations, views, view, replicaVars, table, filter, crashes>>

Handler(q) ==
    \/ Select(q) \/ SelectUndefined(q) \/ SelectFails(q)
    \/ CreateProcedure(q) \/ CreateView(q) \/ CreateViewFails(q) \/ AddJob(q)
Startup(r) == Start(r) \/ MigrateQuery(r) \/ DeleteJob(r) \/ DeleteJobFails(r) \/ MigrateDone(r)

Next ==
    \/ \E t \in Table : CreateTable(t) \/ DropTable(t)
    \/ \E t \in Table, s \in Station : Ingest(t, s)
    \/ \E j \in jobs : RunJob(j)
    \/ \E r \in Replica : Startup(r) \/ MigrateBreaksOff(r) \/ Crash(r)
    \/ \E q \in Request : Receive(q) \/ Handler(q) \/ Fail(q)

Spec == Init /\ [][Next]_vars

(* Goroutines are scheduled, statements end, replicas are restarted and    *)
(* the scheduler of the database runs jobs; nothing is obliged to fail.    *)
FairSpec ==
    /\ Spec
    /\ \A r \in Replica : WF_vars(Startup(r))
    /\ \A q \in Request : WF_vars(Handler(q))

-----------------------------------------------------------------------------
(* However many requests find the view missing at once, only the one that  *)
(* creates it adds a job: a table has at most one.                         *)
OneJobPerTable == \A j, k \in jobs : j.table = k.table => j = k

(* Migrate works on a list of ids read before; still no job of a table     *)
(* that exists is ever deleted.                                            *)
LiveJobsStay ==
    [][\A j \in jobs : state'[j.table] = "there" => \E k \in jobs' : k.id = j.id]_vars

(* No request is answered with a station although the view had a nearer    *)
(* one: neither rivals nor rows that arrive meanwhile change that.         *)
FilterIsNearest ==
    \A q \in Request : qpc[q] = "answered" /\ table[q] \in views =>
        /\ filter[q] \in view[table[q]]
        /\ \A s \in view[table[q]] : Distance[filter[q]] <= Distance[s]

(* Every replica serves again after each crash: Migrate needs two          *)
(* connections at once but never more, and a replica whose rival deleted   *)
(* a job first is restarted with fewer jobs to delete.                     *)
EveryReplicaServes == \A r \in Replica : []<>(rpc[r] = "ready")

-----------------------------------------------------------------------------
(* The strengthening that makes these safety properties inductive.         *)

(* A table that had a view keeps it for as long as the table is there.     *)
HadView(t) == state[t] \in {"there", "dropped"} /\ (state[t] = "there" => t \in views)
ViewsAreOfTables == \A t \in views : state[t] = "there"

(* A job is added only after its view, so that one of an existing table    *)
(* has a view, whatever fails or crashes.                                  *)
JobsHaveViews == \A j \in jobs : HadView(j.table)

(* Only the request that created the view is about to add the job.         *)
OneRequestPerJob ==
    \A q \in Request : qpc[q] = "job" =>
        /\ HadView(table[q])
        /\ \A j \in jobs : j.table # table[q]
        /\ \A p \in Request : qpc[p] = "job" /\ table[p] = table[q] => p = q

AnswersHadViews == \A q \in Request : qpc[q] = "answered" => HadView(table[q])

(* An id is given once: what Migrate has read still means the same job.    *)
IdsAreUnique == /\ \A j \in jobs : j.id <= lastJob
                /\ \A j, k \in jobs : j.id = k.id => j = k
OutdatedAreGone ==
    \A r \in Replica : \A j \in jobs : j.id \in outdated[r] => state[j.table] = "dropped"

(* Migrate holds the one connection of its open rows.                      *)
MigrateHoldsOne == \A r \in Replica : used[r] = IF rpc[r] = "delete" THEN 1 ELSE 0

IInv ==
    /\ TypeOK /\ ViewsAreOfTables
    /\ JobsHaveViews /\ OneRequestPerJob /\ OneJobPerTable
    /\ IdsAreUnique /\ OutdatedAreGone /\ MigrateHoldsOne
    /\ AnswersHadViews /\ FilterIsNearest

-----------------------------------------------------------------------------
(* Stated by names, comments or log messages, and not kept by the code.    *)

(* "Deleting job for materialized view refresh": a job refreshes a view.   *)
JobsRefreshViews == \A j \in jobs : ~ j.failed

(* "setting up materialized view": a view is set up together with its job. *)
ViewsHaveJobs ==
    \A t \in Table :
        t \in views /\ (\A q \in Request : table[q] = t => qpc[q] \in Ended \cup {"idle"}) =>
            \E j \in jobs : j.table = t

(* An import that has stations when it is asked for is located.            *)
StationsAreFound ==
    [][\A q \in Request : qpc[q] = "select" /\ qpc'[q] = "failed" =>
            table[q] \notin views \/ view[table[q]] # {} \/ stations[table[q]] = {}]_vars
=============================================================================
