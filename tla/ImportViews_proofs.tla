------------------------- MODULE ImportViews_proofs -------------------------
(***************************************************************************)
(* Proofs about ImportViews for any number of tables, stations, requests   *)
(* and replicas: what several replicas do to set up a view and its job,    *)
(* and what Migrate deletes, with any number of crashes.                   *)
(***************************************************************************)
EXTENDS ImportViews, TLAPS

RequestState == {"idle", "select", "procedure", "view", "job", "again"} \cup Ended

LEMMA InitEstablishes == Init => IInv
<1> SUFFICES ASSUME Init PROVE IInv
  OBVIOUS
<1>1. TypeOK
  BY ImportAssumption DEF Init, TypeOK, Ended
<1>2. ViewsAreOfTables /\ JobsHaveViews /\ OneRequestPerJob /\ OneJobPerTable
  BY DEF Init, ViewsAreOfTables, JobsHaveViews, OneRequestPerJob, OneJobPerTable
<1>3. /\ IdsAreUnique /\ OutdatedAreGone /\ MigrateHoldsOne
      /\ AnswersHadViews /\ FilterIsNearest
  BY DEF Init, IdsAreUnique, OutdatedAreGone, MigrateHoldsOne, AnswersHadViews, FilterIsNearest
<1> QED
  BY <1>1, <1>2, <1>3 DEF IInv

-----------------------------------------------------------------------------
(* The database by itself.                                                 *)

LEMMA CreateTableStep == ASSUME IInv, NEW t \in Table, CreateTable(t) PROVE IInv'
<1> USE DEF IInv
<1>1. /\ state[t] = "none" /\ state' = [state EXCEPT ![t] = "there"]
      /\ UNCHANGED <<stations, views, view, jobs, lastJob, replicaVars, requestVars, crashes>>
  BY DEF CreateTable
<1>2. TypeOK'
  BY <1>1 DEF TypeOK, replicaVars, requestVars
<1>3. \A u \in Table : HadView(u) => HadView(u)'
  BY <1>1 DEF TypeOK, HadView
<1>4. ViewsAreOfTables'
  BY <1>1 DEF TypeOK, ViewsAreOfTables
<1>5. JobsHaveViews' /\ OneRequestPerJob' /\ AnswersHadViews'
  BY <1>1, <1>3, ImportAssumption
  DEF TypeOK, Job, JobsHaveViews, OneRequestPerJob, AnswersHadViews, requestVars
<1>6. OutdatedAreGone'
  BY <1>1 DEF TypeOK, Job, OutdatedAreGone, replicaVars
<1> QED
  BY <1>1, <1>2, <1>4, <1>5, <1>6
  DEF OneJobPerTable, IdsAreUnique, MigrateHoldsOne, FilterIsNearest, replicaVars, requestVars

LEMMA IngestStep == ASSUME IInv, NEW t \in Table, NEW s \in Station, Ingest(t, s) PROVE IInv'
  BY DEF IInv, Ingest, TypeOK, ViewsAreOfTables, HadView, JobsHaveViews, OneRequestPerJob,
         OneJobPerTable, IdsAreUnique, OutdatedAreGone, MigrateHoldsOne, AnswersHadViews,
         FilterIsNearest, replicaVars, requestVars

LEMMA DropTableStep == ASSUME IInv, NEW t \in Table, DropTable(t) PROVE IInv'
<1> USE DEF IInv
<1>1. /\ state[t] = "there" /\ state' = [state EXCEPT ![t] = "dropped"]
      /\ stations' = [stations EXCEPT ![t] = {}]
      /\ views' = views \ {t} /\ view' = [view EXCEPT ![t] = {}]
      /\ UNCHANGED <<jobs, lastJob, replicaVars, requestVars, crashes>>
  BY DEF DropTable
<1>2. TypeOK'
  BY <1>1 DEF TypeOK, replicaVars, requestVars
<1>3. \A u \in Table : HadView(u) => HadView(u)'
  BY <1>1 DEF TypeOK, HadView
<1>4. ViewsAreOfTables'
  BY <1>1 DEF TypeOK, ViewsAreOfTables
<1>5. JobsHaveViews' /\ OneRequestPerJob' /\ AnswersHadViews'
  BY <1>1, <1>3, ImportAssumption
  DEF TypeOK, Job, JobsHaveViews, OneRequestPerJob, AnswersHadViews, requestVars
<1>6. OutdatedAreGone'
  BY <1>1 DEF TypeOK, Job, OutdatedAreGone, replicaVars
<1>7. FilterIsNearest'
  BY <1>1, ImportAssumption DEF TypeOK, FilterIsNearest, requestVars
<1> QED
  BY <1>1, <1>2, <1>4, <1>5, <1>6, <1>7
  DEF OneJobPerTable, IdsAreUnique, MigrateHoldsOne, replicaVars, requestVars

(* A failed job has the id and the table of the one that ran.              *)
LEMMA RunJobStep == ASSUME IInv, NEW j \in jobs, RunJob(j) PROVE IInv'
<1> USE DEF IInv
<1> DEFINE f == [j EXCEPT !.failed = TRUE]
<1>1. /\ jobs' = (jobs \ {j}) \cup {f}
      /\ UNCHANGED <<state, stations, views, view, lastJob, replicaVars, requestVars, crashes>>
  BY DEF RunJob
<1>2. j \in Job /\ f \in Job /\ f.id = j.id /\ f.table = j.table
  BY DEF TypeOK, Job
<1> HIDE DEF f
<1>3. \A k \in jobs' : k \in Job /\ \E o \in jobs : o.id = k.id /\ o.table = k.table
  BY <1>1, <1>2 DEF TypeOK
<1>4. TypeOK'
  BY <1>1, <1>3 DEF TypeOK, replicaVars, requestVars
<1>5. /\ JobsHaveViews' /\ OneRequestPerJob' /\ OutdatedAreGone'
      /\ \A k \in jobs' : k.id <= lastJob'
  BY <1>1, <1>3
  DEF JobsHaveViews, HadView, OneRequestPerJob, OutdatedAreGone, IdsAreUnique,
      replicaVars, requestVars
<1>6. OneJobPerTable' /\ \A k, l \in jobs' : k.id = l.id => k = l
  <2>1. \A k \in jobs \ {j} : k.table # f.table /\ k.id # f.id
    BY <1>2 DEF OneJobPerTable, IdsAreUnique
  <2> QED
    BY <1>1, <2>1 DEF OneJobPerTable, IdsAreUnique
<1> QED
  BY <1>1, <1>4, <1>5, <1>6
  DEF IdsAreUnique, ViewsAreOfTables, MigrateHoldsOne, AnswersHadViews, HadView,
      FilterIsNearest, replicaVars, requestVars

-----------------------------------------------------------------------------
(* The start of a replica.                                                 *)

LEMMA StartStep == ASSUME IInv, NEW r \in Replica, Start(r) PROVE IInv'
  BY DEF IInv, Start, TypeOK, ViewsAreOfTables, HadView, JobsHaveViews, OneRequestPerJob,
         OneJobPerTable, IdsAreUnique, OutdatedAreGone, MigrateHoldsOne, AnswersHadViews,
         FilterIsNearest, dbVars, requestVars

LEMMA MigrateQueryStep == ASSUME IInv, NEW r \in Replica, MigrateQuery(r) PROVE IInv'
<1> USE DEF IInv
<1>1. /\ rpc[r] = "migrate" /\ used[r] < MaxConnections
      /\ outdated' = [outdated EXCEPT ![r] = Outdated]
      /\ used' = [used EXCEPT ![r] = @ + 1] /\ rpc' = [rpc EXCEPT ![r] = "delete"]
      /\ UNCHANGED <<dbVars, requestVars, crashes>>
  BY DEF MigrateQuery
<1>2. Outdated \subseteq 1 .. lastJob
  BY DEF Outdated, TypeOK, Job, IdsAreUnique
<1>3. TypeOK'
  BY <1>1, <1>2, ImportAssumption DEF TypeOK, dbVars, requestVars
<1>4. \A j \in jobs : j.id \in Outdated => state[j.table] = "dropped"
  BY DEF Outdated, TypeOK, Job, IdsAreUnique, JobsHaveViews, HadView
<1>5. OutdatedAreGone'
  BY <1>1, <1>4 DEF OutdatedAreGone, TypeOK, dbVars
<1>6. MigrateHoldsOne'
  BY <1>1 DEF MigrateHoldsOne, TypeOK
<1> QED
  BY <1>1, <1>3, <1>5, <1>6
  DEF ViewsAreOfTables, HadView, JobsHaveViews, OneRequestPerJob, OneJobPerTable, IdsAreUnique,
      AnswersHadViews, FilterIsNearest, dbVars, requestVars

LEMMA DeleteJobStep == ASSUME IInv, NEW r \in Replica, DeleteJob(r) PROVE IInv'
<1> USE DEF IInv
<1>1. PICK id \in outdated[r] :
        /\ outdated' = [outdated EXCEPT ![r] = @ \ {id}]
        /\ jobs' = {j \in jobs : j.id # id}
  BY DEF DeleteJob
<1>2. UNCHANGED <<state, stations, views, view, lastJob, rpc, used, requestVars, crashes>>
  BY DEF DeleteJob
<1>3. TypeOK'
  BY <1>1, <1>2 DEF TypeOK, requestVars
<1>4. OutdatedAreGone'
  BY <1>1, <1>2 DEF OutdatedAreGone, TypeOK
<1> QED
  BY <1>1, <1>2, <1>3, <1>4
  DEF ViewsAreOfTables, HadView, JobsHaveViews, OneRequestPerJob, OneJobPerTable, IdsAreUnique,
      MigrateHoldsOne, AnswersHadViews, FilterIsNearest, requestVars

LEMMA MigrateDoneStep == ASSUME IInv, NEW r \in Replica, MigrateDone(r) PROVE IInv'
<1> USE DEF IInv
<1>1. /\ rpc[r] = "delete" /\ used' = [used EXCEPT ![r] = @ - 1]
      /\ rpc' = [rpc EXCEPT ![r] = "ready"]
      /\ UNCHANGED <<dbVars, outdated, requestVars, crashes>>
  BY DEF MigrateDone
<1>2. used[r] = 1
  BY <1>1 DEF MigrateHoldsOne
<1>3. TypeOK' /\ MigrateHoldsOne'
  BY <1>1, <1>2, ImportAssumption DEF TypeOK, MigrateHoldsOne, dbVars, requestVars
<1> QED
  BY <1>1, <1>3
  DEF ViewsAreOfTables, HadView, JobsHaveViews, OneRequestPerJob, OneJobPerTable, IdsAreUnique,
      OutdatedAreGone, AnswersHadViews, FilterIsNearest, dbVars, requestVars

LEMMA MigrateBreaksOffStep == ASSUME IInv, NEW r \in Replica, MigrateBreaksOff(r) PROVE IInv'
<1> USE DEF IInv
<1>1. /\ rpc[r] = "delete" /\ used' = [used EXCEPT ![r] = @ - 1]
      /\ outdated' = [outdated EXCEPT ![r] = {}]
      /\ rpc' = [rpc EXCEPT ![r] = "ready"]
      /\ UNCHANGED <<dbVars, requestVars, crashes>>
  BY DEF MigrateBreaksOff
<1>2. used[r] = 1
  BY <1>1 DEF MigrateHoldsOne
<1>3. TypeOK' /\ MigrateHoldsOne'
  BY <1>1, <1>2, ImportAssumption DEF TypeOK, MigrateHoldsOne, dbVars, requestVars
<1>4. OutdatedAreGone'
  BY <1>1 DEF OutdatedAreGone, TypeOK, dbVars
<1> QED
  BY <1>1, <1>3, <1>4
  DEF ViewsAreOfTables, HadView, JobsHaveViews, OneRequestPerJob, OneJobPerTable, IdsAreUnique,
      AnswersHadViews, FilterIsNearest, dbVars, requestVars

(* A replica that goes, crashed or by log.Fatal, takes its requests along. *)
LEMMA GoesStep ==
    ASSUME IInv, NEW r \in Replica, Goes(r), UNCHANGED <<dbVars, table, filter>>,
           crashes' \in 0 .. MaxCrashes
    PROVE  IInv'
<1> USE DEF IInv
<1>1. /\ rpc' = [rpc EXCEPT ![r] = "down"]
      /\ outdated' = [outdated EXCEPT ![r] = {}] /\ used' = [used EXCEPT ![r] = 0]
      /\ \A q \in Request : qpc'[q] = qpc[q] \/ qpc'[q] = "lost"
      /\ qpc' \in [Request -> RequestState]
  BY DEF Goes, TypeOK, RequestState, Ended
<1>2. TypeOK'
  BY <1>1, ImportAssumption DEF TypeOK, RequestState, dbVars
<1>3. OutdatedAreGone' /\ MigrateHoldsOne'
  BY <1>1 DEF OutdatedAreGone, MigrateHoldsOne, TypeOK, dbVars
<1>4. OneRequestPerJob' /\ AnswersHadViews' /\ FilterIsNearest'
  BY <1>1 DEF OneRequestPerJob, AnswersHadViews, FilterIsNearest, HadView, dbVars
<1> QED
  BY <1>2, <1>3, <1>4
  DEF ViewsAreOfTables, HadView, JobsHaveViews, OneJobPerTable, IdsAreUnique, dbVars

-----------------------------------------------------------------------------
(* CreateFiltersForImport.                                                 *)

(* A step that neither adds a job nor answers changes nothing but where    *)
(* the request stands.                                                     *)
LEMMA RequestMoves ==
    ASSUME IInv, NEW q \in Request, NEW there \in RequestState \ {"job", "answered"},
           qpc' = [qpc EXCEPT ![q] = there],
           UNCHANGED <<dbVars, replicaVars, table, filter, crashes>>
    PROVE  IInv'
<1> USE DEF IInv
<1>1. TypeOK'
  BY DEF TypeOK, RequestState, dbVars, replicaVars
<1>2. OneRequestPerJob' /\ AnswersHadViews' /\ FilterIsNearest'
  BY DEF OneRequestPerJob, AnswersHadViews, FilterIsNearest, HadView, TypeOK, dbVars
<1> QED
  BY <1>1, <1>2
  DEF ViewsAreOfTables, HadView, JobsHaveViews, OneJobPerTable, IdsAreUnique, OutdatedAreGone,
      MigrateHoldsOne, dbVars, replicaVars

(* What is answered is nearest in a view, which then is there.             *)
LEMMA SelectStep == ASSUME IInv, NEW q \in Request, Select(q) PROVE IInv'
<1> USE DEF IInv
<1>1. PICK s \in Nearest(table[q]) : filter' = [filter EXCEPT ![q] = s]
  BY DEF Select
<1>2. /\ table[q] \in views /\ qpc' = [qpc EXCEPT ![q] = "answered"]
      /\ UNCHANGED <<dbVars, replicaVars, table, crashes>>
  BY DEF Select, Goto
<1>3. table[q] \in Table /\ s \in Station
  BY <1>1, ImportAssumption DEF Nearest, TypeOK
<1>4. TypeOK'
  BY <1>1, <1>2, <1>3 DEF TypeOK, Ended, dbVars, replicaVars
<1>5. AnswersHadViews'
  BY <1>2, <1>3 DEF TypeOK, AnswersHadViews, HadView, ViewsAreOfTables, dbVars
<1>6. FilterIsNearest'
  BY <1>1, <1>2 DEF TypeOK, FilterIsNearest, Nearest, dbVars
<1>7. OneRequestPerJob'
  BY <1>2 DEF TypeOK, OneRequestPerJob, HadView, dbVars
<1> QED
  BY <1>2, <1>4, <1>5, <1>6, <1>7
  DEF ViewsAreOfTables, HadView, JobsHaveViews, OneJobPerTable, IdsAreUnique, OutdatedAreGone,
      MigrateHoldsOne, dbVars, replicaVars

(* The table had no view, so that it has no job, nobody is about to add    *)
(* one, and nobody was answered from it.                                   *)
LEMMA CreateViewStep == ASSUME IInv, NEW q \in Request, CreateView(q) PROVE IInv'
<1> USE DEF IInv
<1>1. /\ state[table[q]] = "there" /\ table[q] \notin views
      /\ views' = views \cup {table[q]}
      /\ view' = [view EXCEPT ![table[q]] = stations[table[q]]]
      /\ UNCHANGED <<state, stations, jobs, lastJob, replicaVars, table, filter, crashes>>
  BY DEF CreateView
<1>2. qpc' = [qpc EXCEPT ![q] = "job"] \/ qpc' = [qpc EXCEPT ![q] = "failed"]
  BY DEF CreateView, Replied
<1>3. table \in [Request -> Table]
  BY ImportAssumption DEF TypeOK
<1>4. TypeOK'
  BY <1>1, <1>2, <1>3 DEF TypeOK, Ended, replicaVars
<1>5. ViewsAreOfTables'
  BY <1>1, <1>3 DEF ViewsAreOfTables
<1>6. \A u \in Table : HadView(u) => HadView(u)' /\ u # table[q]
  BY <1>1 DEF HadView
<1>7. JobsHaveViews'
  BY <1>1, <1>6 DEF JobsHaveViews, TypeOK, Job
<1>8. \A p \in Request : qpc[p] \in {"job", "answered"} => table[p] # table[q]
  BY <1>3, <1>6 DEF OneRequestPerJob, AnswersHadViews
<1>9. \A j \in jobs : j.table # table[q]
  BY <1>6 DEF JobsHaveViews, TypeOK, Job
<1>10. HadView(table[q])'
  BY <1>1 DEF HadView
<1>11. OneRequestPerJob'
  BY <1>1, <1>2, <1>3, <1>6, <1>8, <1>9, <1>10 DEF OneRequestPerJob, TypeOK
<1>12. AnswersHadViews'
  BY <1>1, <1>2, <1>3, <1>6 DEF AnswersHadViews, TypeOK
<1>13. FilterIsNearest'
  BY <1>1, <1>2, <1>3, <1>8 DEF FilterIsNearest, TypeOK
<1> QED
  BY <1>1, <1>4, <1>5, <1>7, <1>11, <1>12, <1>13
  DEF OneJobPerTable, IdsAreUnique, OutdatedAreGone, MigrateHoldsOne, replicaVars

LEMMA AddJobStep == ASSUME IInv, NEW q \in Request, AddJob(q) PROVE IInv'
<1> USE DEF IInv
<1> DEFINE new == [id |-> lastJob + 1, table |-> table[q], failed |-> FALSE]
<1>1. /\ qpc[q] = "job" /\ lastJob' = lastJob + 1 /\ jobs' = jobs \cup {new}
      /\ UNCHANGED <<state, stations, views, view, replicaVars, table, filter, crashes>>
  BY DEF AddJob, At
<1>2. qpc' = [qpc EXCEPT ![q] = "again"] \/ qpc' = [qpc EXCEPT ![q] = "failed"]
  BY DEF AddJob, Replied
<1>3. table \in [Request -> Table] /\ lastJob \in Nat
  BY ImportAssumption DEF TypeOK
<1>4. new \in Job /\ new.id = lastJob + 1 /\ new.table = table[q]
  BY <1>3 DEF Job
<1> HIDE DEF new
<1>5. TypeOK'
  <2>1. \A r \in Replica : outdated[r] \subseteq 1 .. lastJob + 1
    BY <1>3 DEF TypeOK
  <2> QED
    BY <1>1, <1>2, <1>3, <1>4, <2>1 DEF TypeOK, Ended, replicaVars
<1>6. /\ HadView(table[q]) /\ \A j \in jobs : j.table # table[q]
      /\ \A p \in Request : qpc[p] = "job" /\ table[p] = table[q] => p = q
  BY <1>1 DEF OneRequestPerJob
<1>7. \A t \in Table : HadView(t) => HadView(t)'
  BY <1>1 DEF HadView
<1>8. JobsHaveViews' /\ OneJobPerTable'
  BY <1>1, <1>3, <1>4, <1>6, <1>7 DEF JobsHaveViews, OneJobPerTable, TypeOK, Job
<1>9. OneRequestPerJob' /\ AnswersHadViews'
  BY <1>1, <1>2, <1>3, <1>4, <1>6, <1>7 DEF OneRequestPerJob, AnswersHadViews, TypeOK
<1>10. IdsAreUnique'
  BY <1>1, <1>3, <1>4 DEF IdsAreUnique, TypeOK, Job
<1>11. OutdatedAreGone'
  <2>1. \A r \in Replica : new.id \notin outdated[r]
    BY <1>3, <1>4 DEF TypeOK
  <2> QED
    BY <1>1, <2>1 DEF OutdatedAreGone, replicaVars
<1>12. FilterIsNearest'
  BY <1>1, <1>2 DEF FilterIsNearest, TypeOK
<1> QED
  BY <1>1, <1>5, <1>8, <1>9, <1>10, <1>11, <1>12
  DEF ViewsAreOfTables, MigrateHoldsOne, replicaVars

-----------------------------------------------------------------------------
LEMMA RequestStep ==
    ASSUME IInv, NEW q \in Request, Receive(q) \/ Handler(q) \/ Fail(q)
    PROVE  IInv'
<1> DEFINE Moves == \E there \in RequestState \ {"job", "answered"} :
                        qpc' = [qpc EXCEPT ![q] = there]
<1>1. ASSUME Receive(q) \/ Fail(q) \/ SelectUndefined(q) \/ SelectFails(q)
             \/ CreateProcedure(q) \/ CreateViewFails(q)
      PROVE  IInv'
  <2>1. Moves /\ UNCHANGED <<dbVars, replicaVars, table, filter, crashes>>
    BY <1>1
    DEF Receive, Fail, SelectUndefined, SelectFails, CreateProcedure, CreateViewFails,
        Goto, Replied, RequestState, Ended
  <2> QED
    BY <2>1, RequestMoves
<1>2. CASE Select(q)
  BY <1>2, SelectStep
<1>3. CASE CreateView(q)
  BY <1>3, CreateViewStep
<1>4. CASE AddJob(q)
  BY <1>4, AddJobStep
<1> QED
  BY <1>1, <1>2, <1>3, <1>4 DEF Handler

LEMMA ReplicaStep ==
    ASSUME IInv, NEW r \in Replica, Startup(r) \/ MigrateBreaksOff(r) \/ Crash(r)
    PROVE  IInv'
<1>1. CASE Start(r)
  BY <1>1, StartStep
<1>2. CASE MigrateQuery(r)
  BY <1>2, MigrateQueryStep
<1>3. CASE DeleteJob(r)
  BY <1>3, DeleteJobStep
<1>4. CASE MigrateDone(r)
  BY <1>4, MigrateDoneStep
<1>5. CASE DeleteJobFails(r)
  <2>1. crashes' \in 0 .. MaxCrashes
    BY <1>5 DEF DeleteJobFails, IInv, TypeOK
  <2> QED
    BY <1>5, <2>1, GoesStep DEF DeleteJobFails
<1>6. CASE Crash(r)
  <2>1. crashes' \in 0 .. MaxCrashes
    BY <1>6, ImportAssumption DEF Crash, IInv, TypeOK
  <2> QED
    BY <1>6, <2>1, GoesStep DEF Crash
<1>7. CASE MigrateBreaksOff(r)
  BY <1>7, MigrateBreaksOffStep
<1> QED
  BY <1>1, <1>2, <1>3, <1>4, <1>5, <1>6, <1>7 DEF Startup

LEMMA NextPreserves == IInv /\ [Next]_vars => IInv'
<1> SUFFICES ASSUME IInv, [Next]_vars PROVE IInv'
  OBVIOUS
<1>1. CASE \E t \in Table : CreateTable(t) \/ DropTable(t)
  BY <1>1, CreateTableStep, DropTableStep
<1>2. CASE \E t \in Table, s \in Station : Ingest(t, s)
  BY <1>2, IngestStep
<1>3. CASE \E j \in jobs : RunJob(j)
  BY <1>3, RunJobStep
<1>4. CASE \E r \in Replica : Startup(r) \/ MigrateBreaksOff(r) \/ Crash(r)
  BY <1>4, ReplicaStep
<1>5. CASE \E q \in Request : Receive(q) \/ Handler(q) \/ Fail(q)
  BY <1>5, RequestStep
<1>6. CASE UNCHANGED vars
  BY <1>6
  DEF vars, dbVars, replicaVars, requestVars, IInv, TypeOK, ViewsAreOfTables, HadView,
      JobsHaveViews, OneRequestPerJob, OneJobPerTable, IdsAreUnique, OutdatedAreGone,
      MigrateHoldsOne, AnswersHadViews, FilterIsNearest
<1> QED
  BY <1>1, <1>2, <1>3, <1>4, <1>5, <1>6 DEF Next

(* The inductive invariant of all replicas and the database together.      *)
THEOREM Invariance == Spec => []IInv
<1> QED
  BY InitEstablishes, NextPreserves, PTL DEF Spec

(* CREATE MATERIALIZED VIEW decides between rivals: whoever loses does not *)
(* reach add_job, so that no table has two refresh jobs.                   *)
THEOREM TablesHaveOneJob == Spec => []OneJobPerTable
<1>1. IInv => OneJobPerTable
  BY DEF IInv
<1> QED
  BY <1>1, Invariance, PTL

(* An answer from a view is its nearest station, for as long as the view   *)
(* is there.                                                               *)
THEOREM AnswersAreNearest == Spec => []FilterIsNearest
<1>1. IInv => FilterIsNearest
  BY DEF IInv
<1> QED
  BY <1>1, Invariance, PTL

-----------------------------------------------------------------------------
(* Only DeleteJob removes jobs, and those of dropped tables only.          *)
LEMMA LiveJobsStayStep ==
    ASSUME IInv, [Next]_vars
    PROVE  \A j \in jobs : state'[j.table] = "there" => \E k \in jobs' : k.id = j.id
<1> USE DEF IInv
<1>1. CASE \E r \in Replica : DeleteJob(r)
  <2>1. PICK r \in Replica : DeleteJob(r)
    BY <1>1
  <2>2. PICK id \in outdated[r] : jobs' = {j \in jobs : j.id # id}
    BY <2>1 DEF DeleteJob
  <2>3. state' = state
    BY <2>1 DEF DeleteJob
  <2> QED
    BY <2>2, <2>3 DEF OutdatedAreGone
<1>2. CASE \E j \in jobs : RunJob(j)
  <2>1. PICK j \in jobs : RunJob(j)
    BY <1>2
  <2>2. [j EXCEPT !.failed = TRUE].id = j.id
    BY DEF TypeOK, Job
  <2> QED
    BY <2>1, <2>2 DEF RunJob
<1>3. ASSUME jobs \subseteq jobs'
      PROVE  \A j \in jobs : state'[j.table] = "there" => \E k \in jobs' : k.id = j.id
  BY <1>3
<1>4. CASE \E t \in Table : CreateTable(t) \/ DropTable(t) \/ \E s \in Station : Ingest(t, s)
  BY <1>3, <1>4 DEF CreateTable, DropTable, Ingest
<1>5. CASE \E r \in Replica : \/ Start(r) \/ MigrateQuery(r) \/ DeleteJobFails(r)
                              \/ MigrateDone(r) \/ MigrateBreaksOff(r) \/ Crash(r)
  BY <1>3, <1>5 DEF Start, MigrateQuery, DeleteJobFails, MigrateDone, MigrateBreaksOff, Crash,
                    dbVars
<1>6. CASE \E q \in Request : Receive(q) \/ Handler(q) \/ Fail(q)
  <2>1. PICK q \in Request : Receive(q) \/ Handler(q) \/ Fail(q)
    BY <1>6
  <2>2. jobs \subseteq jobs'
    BY <2>1 DEF Receive, Handler, Fail, Select, SelectUndefined, SelectFails, CreateProcedure,
                CreateView, CreateViewFails, AddJob, dbVars
  <2> QED
    BY <1>3, <2>2
<1>7. CASE UNCHANGED vars
  BY <1>3, <1>7 DEF vars, dbVars
<1> QED
  BY <1>1, <1>2, <1>4, <1>5, <1>6, <1>7 DEF Next, Startup

(* Migrate deletes by ids it read before, other replicas add jobs and die  *)
(* in between: no job of a table that exists is lost.                      *)
THEOREM MigrateSparesLiveJobs == Spec => LiveJobsStay
<1>1. IInv /\ [Next]_vars
        => [\A j \in jobs : state'[j.table] = "there" => \E k \in jobs' : k.id = j.id]_vars
  BY LiveJobsStayStep
<1> QED
  BY <1>1, Invariance, PTL DEF Spec, LiveJobsStay
=============================================================================
