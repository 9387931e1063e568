# A verification project for timescale-wrapper

timescale-wrapper answers queries of the SENERGY platform for values stored in
TimescaleDB. It verifies the caller's access to devices, exports, device
groups and locations, answers what it can from a cache of last messages,
generates SQL for the rest, runs it, converts and merges the rows, and streams
long periods as CSV. It keeps almost no state of its own; what is hard about it
is that every request is worked on by several goroutines which share variables,
and that caches, the permission service, memcached and the database fail,
expire and change between any two steps.

The modules here are translated from the Go code. TLC checks them on small
instances; TLAPS proves the safety properties of thirteen of them, and four
refinements, for every value of their constants. `PROJECT.json` lists components,
runs, theorems, hazards, findings and, for every definition, the source lines it
stands for.

    tlc -config MCQueries.cfg MCQueries        # one run
    tlapm Queries_proofs.tla                   # one module of proofs

## 1. The system

| part | state | operations | called by / calls |
|---|---|---|---|
| Verifier (`pkg/verification`) | none; per call `ok`, `err`, `userIds` shared by a goroutine per element | `VerifyAccess`, `VerifyAccessOnce` and one check per kind | every handler / LocalCache, permissions-v2, serving |
| LocalCache (`pkg/cache/local.go`) | entries with a lifetime of 600 s, dropped when space is short | `Get`, `Set`, `Use` | Verifier |
| RemoteCache (`pkg/cache/remote.go`) | memcached: last messages, metadata, prepared queries (30 s) | `GetLastValuesFromCache`, `GetDevice`, ..., `StoreSecretQuery`, `GetSecretQuery` | handlers, formatting / memcached, device-repository |
| POST /queries (`api/queries.go`) | per request | verify, cache stage, generate, execute, merge, format | clients, and `/download` over HTTP |
| POST /last-values, /raw-value | per request | the same with columns grouped by table | clients |
| POST /queries/v2 | per request; `ownerUserIds`, `response`, `raisedErr` shared by a goroutine per element | expands groups and locations, queries, merges | clients |
| Formatting (`queries_postprocessing.go`, `model/util.go`) | the slices of rows, in place | `formatResponse`, `formatResponseAsTable`, `Sort2D` | the three handlers |
| Downloads (`download.go`) | per request: window of the chunk loop | `prepareQueriesRequestElement`, `handleCSVDownload` | clients / POST /queries of this process |
| GET /data-availability, POST /usage/*, GET /last-message | per request | one verification, then one call of the Wrapper | clients / RemoteCache, Wrapper |
| Wrapper (`pkg/timescale`) | a pool of five connections | `GenerateQueries`, `ExecuteQueries`, `GetDataAvailability`, `GetDeviceUsage`, `GetExportUsage`, `GetLastMessage` | handlers / PostgreSQL |
| Import locations (`locate_import.go`) | in the database: a materialized view of stations per table, a job that shall refresh it | `CreateFiltersForImport`, `setupMaterializedRefreshJob`, `Migrate` | POST /queries, /queries/v2, start of the process / PostgreSQL, import-repository |
| API server (`api.go`, `init.go`, `main.go`) | two listeners, shared context, pool | start, error middleware, panic recovery, shutdown | the operating system |
| Go client, configuration, logging, docs | - | - | - |

What makes it hard, and what has to hold:

* **Access.** A grant needs one affirmative reply of the permission service per
  element for this very user, whatever the goroutines overwrite and the cache,
  which does not tell kinds apart, remembers; owners must be those of the elements at the same position, since
  they name the tables that are read; withdrawn rights must stop granting.
* **Query handlers.** Elements are appended by goroutines in any order and
  matched to owners, queries and results by position. Each element must be
  answered once, from its own table or a view of it, at its own place. A panic in
  one of the goroutines ends the process.
* **Formatting.** Slices are shortened, sorted and searched while rows are
  removed from them. No value may be lost, doubled or moved to another time.
* **Downloads.** The period is read in chunks while rows arrive. Nothing may be
  written twice or left out; every download must end. A prepared query is
  served to whoever presents its secret: once, and only if it was granted.
* **Grouped queries.** A difference needs the bucket before the window; what is
  fetched too much is cut off by limits computed from text. Neither may cost a
  bucket that was asked for, nor show one of which only a part was read.
* **Pool and process.** Five connections for everything. Failing paths must
  return theirs, nobody may wait for a second one while holding a first. On a
  signal the pool closes while two servers are drained: everybody accepted has
  to be answered, no download may end as if it were whole, and the process has
  to end although downloads keep asking it for chunks.
* **Caches in memcached.** They are optional: a memcached that is down, empty or
  late may fail no request. Metadata may be of another version than the message it describes.
* **Import locations.** Views and jobs are set up by whichever request comes
  first, at any replica, in several statements any of which may fail or lose its
  reply; a replica must start whatever is left over.

The full list, each at its line, is `hazards` in `PROJECT.json`.

## 2. Modules

| module | models | abstract specification | proofs |
|---|---|---|---|
| `AccessRights` | rights, kinds, cache entries | | |
| `AccessVerification` | `VerifyAccess`, LocalCache, permission service | `AccessContract` | `AccessVerification_proofs` |
| `QueryData` | tables and their names, rows, failures, error codes: used by the next three | | |
| `Queries` | POST /queries | `QueryService` | `Queries_proofs` |
| `LastValues` | POST /last-values | `ValueService` | `LastValues_proofs` |
| `QueriesV2` | POST /queries/v2 | | `QueriesV2_proofs` |
| `SecretQuery` | secrets in memcached | `OneTimeSecret` | `SecretQuery_proofs` |
| `Download` | preparation and chunk loop of CSV downloads | | `Download_proofs` |
| `QueryPool` | pool, `ExecuteQueries`, `GetDataAvailability`, single queries | | `Lifecycle_proofs` |
| `Lifecycle` | the process around `QueryPool`: servers, downloads, signal, shutdown | | `Lifecycle_proofs` |
| `SeriesFormat` | `formatResponse`, format per_query | | `Queries_proofs` |
| `TableFormat` | `formatResponse`, format table | | `Queries_proofs` |
| `QueryWindow` | the SQL of a grouped query with differences, whose rows `SeriesFormat` formats | | `Queries_proofs` |
| `ResponseFormat` | `formatResponse`: composes the three above | | `Queries_proofs` |
| `ImportViews` | `CreateFiltersForImport`, setup of views and jobs, `Migrate` | | `ImportViews_proofs` |
| `RemoteCache` | read-through of metadata in memcached | | |
| `LastMessage` | GET /last-message and the other users of `RemoteCache` | | |

`Queries_proofs` treats both halves of the endpoint: the handler (`Queries`) and
the formatting of its answer (`ResponseFormat`). `AccessVerification`, `Queries`,
`LastValues`, `QueriesV2`, `SecretQuery`, `Download`, `QueryPool`, `Lifecycle`,
`ImportViews` and the four of the formatting are the thirteen proved about.

`MC*` modules supply constants for TLC and nothing else. Definitions marked
*mutant* in a comment are not part of any specification: each is a plausible bug
in place of the definition it follows, and shows that a property can fail.

How state and actions correspond to the code:

* **AccessVerification.** A *call* is a request being verified, a *worker* the
  goroutine of one element. `wpc` says where it is in `LocalCache.Use` and the
  getter of `VerifyAccessOnce`: `CacheHit`/`CacheMiss` read, `CheckPermission`
  and `GetInstance` ask upstream, `CacheSet` stores, `Report` writes the shared
  `ok`, `err` and `userIds` as the goroutine in `VerifyAccess` does, `Return` is
  `wg.Wait()`. Rights change in any step (`ChangeRights`), entries age (`Tick`)
  and are dropped (`Evict`). `replied` is a history of what the permission
  service said, to whom and of which kind; the key of the cache has no kind, so
  that `RefusedAsAnother` and the step `CDenyAsAnother` of the contract name what a
  reply to another kind can do. The handlers test `err` before `ok` (`queriesVerify`): `Answer`.
* **Queries.** `pc` follows the handler; `gpc` the cache goroutines.
  `Append2DbRequest` appends to both lists under the mutex, `OwnersForDb` is the
  rearrangement in `QueriesEndpoint`, `Merge` puts results back. Failures of
  each stage are actions with the status the middleware makes of them
  (`GetStatusCode`, including 502 that becomes 500). A table is
  `tableName(source, owner, found)`, a record instead of the string; `found` is what
  the query for a continuous aggregate brings, which `tableName` makes for an
  element with a group time. `getDeepEntry` may index a list beyond its end in the
  goroutine of an element (`CachePanics`): gin recovers panics of the handler's own
  goroutine only, so the process ends and is started again (`Restart`).
* **LastValues.** GET /raw-value calls the same handler with one element
  (`RawValue`). The handler's loops are steps, `turn`, `col` and `inserted` their
  variables: `fillColumnMap` takes one request element, `Group` one source of the
  maps (all exports before all devices, each in an order the runtime chooses),
  `PutValue` puts one value where `outputIndexToInputIndex` says. New beside
  `Queries` is the `err` all cache goroutines share: `Lookup` assigns it,
  `CheckErr` reads it a step later, `LookupPanics` is as in `Queries`.
* **QueriesV2.** One goroutine per element not answered by the cache: `Collect`
  appends one match and one owner under the mutex, `Generate` reads the shared
  owners from the start, `ExecuteQueries`, then `Lock`, `MergeOne` for each turn
  of the merging loop and `Unlock` (`mux` is who holds the mutex for more than a
  step, `merged` the turns taken), `Raise`. A panic in such a goroutine is outside gin's recovery and
  ends the process (`Panic`, `Restart`), as does one in the cache stage
  (`CachePanics`). That stage is one step, since its goroutines are modelled in
  `Queries`.
* **SecretQuery.** Slots for both endpoints. memcached may apply a command and
  lose the reply (`StoreSecretQuery`, `DeleteError`), expire (`Tick`) and drop
  items (`Evict`).
* **Download.** `Res` units make a second, so that rows lie between whole
  seconds; `FirstChunk` and `WriteChunk` are the two halves of the loop in
  `handleCSVDownload`. `Ingest` adds rows at any time and of any time.
* **QueryPool.** `cpc` is the caller, `wpc` its goroutines. The assignment
  `err = errS` of an interface is two stores, `SetErrType` and `SetErrData`.
  `OpenRows` and `CloseRows` are the two result sets `GetDataAvailability` keeps
  open in turn, `NextRow` starts a goroutine; `GetUsage` is a call with one result
  set and none. `ClosePool` is the goroutine of `NewWrapper`. The module has no
  specification of its own, `Lifecycle` supplies who calls.
* **Lifecycle.** `process` is main, `api` the goroutine of `api.Start` that shuts
  the servers down, `dpc`, `on` and `chunk` are the downloads. `AskChunk` is the
  HTTP request `handleCSVDownload` makes to its own process, and so one of the
  calls of `QueryPool`; `ChunkRefused` and `ChunkTimesOut` are the errors of
  `http.DefaultClient`, after which the query goes on without its asker. A
  signal before `signal.Notify` ends the process at once. pgx is assumed to wake
  goroutines that wait for a connection when the pool closes, with an error;
  connections in use stay until they are released. A download is `aborted` by a
  panic with `http.ErrAbortHandler`; that the recovery middleware, which is not in
  this repository, lets it cut the stream off is assumed. A download that outlasts
  the `WriteTimeout` of its server fails in its next write, like a chunk that times
  out.
* **SeriesFormat / TableFormat.** The algorithms step by step over one series,
  or over the rows of all series. `array` and `len` model a Go slice: `array` is
  the array behind it up to its capacity, of which `Backing` allows anything from the
  number of rows to the double, since `append` promises room and no more. An
  unstable sort chooses any ordered permutation. `Search` is the recursion of
  `findFirstElementIndex` as a function of the span `left`, `right`.
* **QueryWindow.** `Joined` is what PostgreSQL makes of the text of
  `GenerateQueries`: a `Subquery` per column over the `Window` as often moved
  (`Moves`) as the loop has moved it, cut to `InnerLimit`, joined in the order a
  merge or a hash join gives (`JoinTimes`), with `lag` over a constant order
  (`Column`); `Executed` cuts it to `OuterLimit`. Before the first column of
  differences the element's own limit and order apply. Time is counted in half units,
  so that periods begin and end inside buckets, and a second has a number of
  halves: a moved bound is `Formatted` to a whole one. A group time the switch does not
  know, such as "1 h" or "1:00:00", has `NoUnit` and leaves the zero time as bounds.
  `EndsOriginal` are the ends `formatResponse` may see: POST /queries gives it the
  elements as requested, POST /queries/v2 as `GenerateQueries` has changed them. A row's value is the set of rows
  of the table it was computed from, which tells a whole bucket from a part.
* **ResponseFormat.** `format` is the switch of `formatResponse`; `AsPerQuery` and
  `AsTable` lift the steps of the two algorithms. `stage` is the program counter of
  both, `results` the `data` of `TableFormat`.
* **ImportViews.** One action per statement: `Select`, `CreateProcedure`,
  `CreateView`, `AddJob`; `Replied` says whether the reply of an applied statement
  arrives. `MigrateQuery`, `DeleteJob` and `MigrateDone` are
  `removeOutdatedMaterializedRefreshJobs`, `MigrateBreaksOff` is its loop when
  `rows.Next()` ends by an error nobody reads, `DeleteJobFails` ends the process as
  `log.Fatal` does. Tables are created, filled and dropped by others. Assumed of
  the database: a dropped table takes its view along, its name does not come
  back (it is made of the id of an export), a statement is atomic, and
  `delete_job` of a job that is gone is an error. The text of the procedure is
  followed: the config of a job is the name of the table, not of the view, so
  that `RunJob` fails.
* **RemoteCache.** One key with a value that changes upstream, read through by
  several callers; the `Get...` functions differ in the key. Both calls of
  memcached are tried a second time with a new client (`getAgain`, `setAgain`). An
  item may be one that cannot be decoded: `GetUnreadable` fails its reader.
* **LastMessage.** A request is one of three kinds: GET /last-message, the cached
  value of a column (`GetLastValuesFromCache`), a characteristic
  (`formatResponse`). JSON values are trees; `Columns` and `Row` say what
  timescale-tableworker stores of a message, `buildOutput` and `getDeepEntry` are
  translated. A service may change its structure between versions, and the last
  message is of the first.

## 3. Runs that pass

| run | question | bounds and why they are enough |
|---|---|---|
| `access` | Can the goroutines of a call, or what earlier calls left in the cache, produce a wrong denial or owner? Is the call one atomic decision to its callers? | One user, one call at a time, two elements: two goroutines are what a lost update needs. An export and a location, also claimed under wrong kinds. |
| `access_cache` | Does an entry of the shared cache ever serve another user? Does a withdrawn right leave the cache? | Two users, a location (which needs two rights) looked up by up to two goroutines, and a lifetime of two ticks: an old reply can be stored after a newer one. Overlapping requests of several users are covered by the theorems. |
| `queries` | Are tables, rows and order right for every interleaving; is the request answered unless the process ends? | Three elements with duplicates: two can be reordered among themselves while a third is cached. Two exports of different owners, a device, a location. |
| `last_values` | The same for columns grouped by table. | Three columns of two exports and a device, one computed: a group of two beside a group of one. |
| `queries_v2` | Is a 200 complete for exports and services? Can a goroutine index beyond the shared owners, or merge into another element? | Two elements with one or two columns: an export, three services of two devices and a group of these devices whose criteria match one or more services. |
| `secret` | Is a secret good once, for what was granted? Is everybody answered? Do unclaimed queries lapse? | Two secrets, two queries, two competing downloads, one preparation slot that is reused; lifetime of two ticks. |
| `download` | Is anything written twice, out of order, from before the second of the start or after the end, or left out? Does the loop end? | Half seconds, chunks of two seconds, three seconds: starts and ends inside a second, full and shortened chunks, with and without a limit. Downloads share nothing but the table, so one is enough. |
| `lifecycle` | Does a path leak a connection, the failure of a query get lost among its siblings, a caller wait forever? And while the process stops: is everyone answered, is a download that ends whole, does the process end? | One request of a client (a batch, data availability with nested queries, or usage; up to two goroutines) beside a download of two chunks, at either server, and one connection: if nobody waits while holding, one is the hardest case, and one chunk before and one after any step of the shutdown is what matters. |
| `format` | Do trimming, sorting, limiting and cutting keep every value? Is every bucket asked for answered with the difference of whole buckets? Is every value in a table once, and do aligned series merge? | Rows: up to three of two times, with gaps; limits from none over 0 to six, the largest capacity of three rows. Windows: periods that begin and end at or inside units of two or four halves, or of no known unit, in the three forms; seconds of one, two and four halves, so that bounds lie inside one; buckets of one unit, of two, and of half of one; with and without a limit of two; one or two columns; ten halves with rows in all of them, all but one, two or four in a row, or none. Tables: three series of up to three distinct times in every order; two values NULL. |
| `imports` | At most one job per table? Does Migrate spare live jobs? Is the nearest station found? Does every replica serve again? | Two requests at two replicas, for one table or for two; two stations; one crash at any step; two connections, which is what Migrate needs. |
| `last_message` | Do answers have the values of the message, whatever version of the service they are built with? Can a memcached that is down, empty or late fail a request? Does stale metadata go? | Two requests of any kind, three versions of a service (a value, a list whose variables are in another order, a list of any length; then another structure in the list, then a list whose index does not fit), messages with a short list or without a value, lifetime of one tick: an entry can be asked for, outdated, stored and expire. |

The type invariant of each module (`TypeOK`) holds in the same configurations;
the runs do not list it, since it says the least. Where there are proofs it is
part of `IInv`, the inductive invariant: to have TLC check that one, make it the
only INVARIANT of the module's configuration.

`CHECK_DEADLOCK FALSE` is set where the modelled system really ends: in
`Download`, `ImportViews` and `LastMessage` requests are made once, the process of
`Lifecycle` exits, and `ResponseFormat` composes sequential algorithms. All other
specifications are checked for deadlock.

**Fairness.** Weak fairness for each goroutine and for the rest of a handler:
the Go scheduler runs what can run, and upstream calls and statements end with
a reply or an error (the HTTP clients and memcached have timeouts). Time passes
(`Tick`). Replicas are restarted by the orchestrator (`Start` in `ImportViews`).
Nothing is assumed of clients, of evictions, of changes of rights or metadata, of
ingestion, crashes or signals; and in `Download` and `Lifecycle`, where a failure
would end a wait, nothing is obliged to fail, only a closed pool and a closed port
refuse. In `Lifecycle` weak fairness suffices for the connections because each
call is made once, so that a goroutine is overtaken finitely often.

## 4. What comments, docs and tests say and the code does not do

The run `table_time` is expected to be violated; `findings` quotes what it
refutes. `TableFormat!RowsShareTime`: the search steps back one row too far and
merges a row of another time, contrary to "merged timestamps".

The modules state further claims the code does not keep, at their end. To see a
counterexample, make the property the only INVARIANT (PROPERTY for
`StationsAreFound` and `EveryRequestAnswered`) of the named configuration.

| claim | configuration | what happens |
|---|---|---|
| `AccessVerification!RepliesAreForTheKind` | `MCAccessVerification_kinds.cfg` | `verification.go:83-98`: the key of the cache is user and id. The refusal of an id as a device denies the same id as a location for ten minutes, and the grant of a location grants the id as a device, which the permission service refuses. `GrantIsBacked` shows that no more is granted than the real kind needs, `KindsAreNotConfused` that nothing is confused where an id is claimed under one kind. |
| `Queries!EveryRequestAnswered` | `MCQueries.cfg` | `remote.go:380`: `child[n]` beyond the list of a cached message panics in a goroutine of `queriesGetFromCache` (`queries.go:223`), which ends the process; its requests are never answered. |
| `QueriesV2!OnlyOwnTables` | `MCQueriesV2.cfg` with `Source = {export1, export2, service1}`, `Export = {export1, export2}`, `Group = {}` | `queries_v2.go:143`, `206` and `298`: goroutines append to one list of owners and each reads it from the start: the second export is queried under the owner of the first. `queries_test.go:451-459` expects the owner of the export. `PlainElementsComplete` shows that the table so named does not exist and the request fails, never answers other rows. |
| `LastValues!OnlyOwnTables` | `MCLastValues.cfg` | `last-values.go:198` passes the owners in the order of the grouped elements, the elements in that of the goroutines. `queries.go:100-103` has the rearrangement that is missing here. `ValuesInPlace` shows that no wrong row is answered. |
| `LastValues!NotAskedIsCached` | `MCLastValues.cfg` | `last-values.go:178`: a sibling's hit clears the shared `err` between a miss and its check, and the element is asked of nobody, although the debug line 194 counts it as cached. The nil series then fails the request. |
| `QueriesV2!OneDevicePerElement` | `MCQueriesV2.cfg` | `queries_v2.go:369`: `SelIdx` is never set, so series of different devices share an element; line 58 says "each device will return its own time series". |
| `QueriesV2!NoMatchLost` | `MCQueriesV2.cfg` | `queries_v2.go:383`: two services match one criterion and the second series overwrites the first; line 58 says "all matching values will be part of the time series". |
| `QueriesV2!OneSeriesPerColumn` | `MCQueriesV2.cfg` | `queries_v2.go:104`: an element answered from the cache has one series for all its columns. |
| `Download!AbortedOnlyByFailure` | `MCDownload.cfg` | `download.go:163-184` resolves `last` and `ahead` but does not clear them; `QueriesRequestElementTime.Valid` rejects every chunk. |
| `Download!NothingBeforeStart` | `MCDownload.cfg` | `download.go:242`: the start is cut to its second, and rows of that second from before the start are written. |
| `Download!NothingBeforeEndIsMissing` | `MCDownload.cfg` | `download.go:209-244`: the end is cut to its second, too, and rows between it and a fractional end are not written. |
| `QueryPool!ErrorIsOneQuerys` | `MCLifecycle.cfg` | `db.go:40`: two failing queries leave the type of one error with the data of the other. |
| `QueryPool!ResultsAreComplete` | `MCLifecycle.cfg` with `Outcome = {"all", "some"}` | `db.go:57`: `rows.Err()` is never read, so a statement that fails half way looks complete. |
| `TableFormat!OneRowPerTime` | `MCTableFormat_time.cfg` | `queries_postprocessing.go:191`: the search expects descending times, which only a removal establishes. |
| `TableFormat!NoDataIsSkipped` | `MCTableFormat_time.cfg` | Line 234: the placeholder of an empty series has no time, and the search panics. |
| `SeriesFormat!FewRowsAreAnswered` | `MCResponseFormat.cfg` | Line 100: a limit beyond the capacity of the slice panics; in `/queries/v2` that ends the process. |
| `SeriesFormat!OnlyFetchedRows` | `MCResponseFormat.cfg` | Line 100: a limit above the number of rows appends rows nobody fetched. |
| `QueryWindow!UnifiedResults` | `MCResponseFormat.cfg` | `queries.go:110` "to ensure unified results": the number of rows is counted in the unit of `last`, or of `groupTime` without its number, so that other bucket widths, and a second column of differences of an absolute period, lose buckets asked for or their values. A `groupTime` that PostgreSQL accepts and the switch does not match ("1 h", "1:00:00") leaves the zero time for both bounds: nothing is answered. With buckets of milliseconds the bounds lose them, cut to whole seconds (`queries.go:197-201`). |
| `Lifecycle!NoRequestIsRefused` | `MCLifecycle.cfg` | `wrapper.go:50`: the pool closes at the signal, before the servers are drained; requests they accepted then fail for it. |
| `ImportViews!JobsRefreshViews` | `MCImportViews.cfg` | `locate_import.go:198` and `209`: the job is configured with the name of the table, without the prefix of the view, and cannot refresh it. Views keep the stations of the day they were created. |
| `ImportViews!ViewsHaveJobs` | `MCImportViews.cfg` | `locate_import.go:205-212`: a failure between the two statements leaves a view without a job, and no later request adds one, since the view is there. |
| `ImportViews!StationsAreFound` | `MCImportViews.cfg` | `locate_import.go:130-141`: a view created before the first value is empty, which comes as a row of nils (`db.go:75`) and fails the request; it stays empty, since nothing refreshes it. |
| `LastMessage!UnreadableIsAMiss` | `MCLastMessage.cfg` | `remote.go:114-118` and its like: an entry that cannot be decoded fails the request, and every other one until it expires after five minutes; an entry for a last message (`remote.go:105`) is taken as a miss. |
| `LastMessage!ShortListsAreAnswered` | `MCLastMessage.cfg` | `remote.go:380`: `child[n]` beyond the list of the cached message panics in a goroutine of the handler and ends the process. |

## 5. Theorems

All are proved by `tlapm` for every value of the constants that satisfies the
named assumptions: any number of users, elements, columns, calls, connections,
downloads, replicas, ticks, rows and buckets, and for caches and tables of any
content. Each module of proofs has `Invariance`, `Spec => []IInv`, from which the
theorems below follow (the formatting `ResponseInvariance`, of `ResponseSpec` and
`ResponseIInv`); type correctness is a conjunct of every `IInv`.

The assumptions say what sort of thing a constant is, and little more:

* `AccessAssumption`, `VerificationAssumption`, `QueriesAssumption`,
  `SecretAssumption`, `DownloadAssumption`, `LastValuesAssumption`,
  `QueryDataAssumption`: bounds are natural numbers, no real user has the name
  of nobody, kinds of constants are disjoint, only exports have owners.
* `QueriesV2Assumption`: also, lists of columns are not empty and a criterion
  selects services of devices.
* `PoolAssumption`: the kinds of calls are disjoint, an error is not nil.
  `LifecycleAssumption`: the calls of a download are batches, and no call is a
  chunk of two downloads, since each is a request of its own.
* `SeriesFormatAssumption`: instants and limits are natural numbers, neither the
  missing time nor the missing limit is one of them. `WindowAssumption`: a
  grouped element has a column of differences, buckets and seconds have a length,
  the period is not empty, and a relative one is a number of whole units that is
  known, as `last` and `ahead` write it; an absolute one may have no known unit. `TablesAssumption`: there is at least one series.
* `ImportAssumption`: every request runs at one replica and asks for one table,
  distances are numbers.

The seldom obvious part is what makes a property inductive:

* **`AccessVerification_proofs`**: `TypeCorrect`, `GrantsAreBacked`,
  `DenialsAreBacked`, `KindsAreNotConfused`, `OwnersAreAligned`, `RefinesContract`.
  `GrantIsBacked` is
  not inductive: it speaks of answered calls only. The invariant `IInv` follows a
  grant back to its source: an entry of the cache repeats a reply to this user
  for this id (`CacheIsBacked`), so does a result in flight
  (`ResultIsBacked`); while `ok` holds every goroutine that has ended had a
  grant (`OkIsBacked`); goroutines exist for exactly the elements and have ended
  when the call is answered.
* **`Queries_proofs`**: `QueriesReadOwnTables`, `ElementsArePartitioned`,
  `RefinesService`. The invariant says that the two lists filled under the mutex
  speak of the same elements, none twice (`DbListsMatch`), that a goroutine that
  has ended left either a row or an entry (`HitXorAsked`), and that queries and
  data follow the lists (`QueriesMatch`, `MergedIsComplete`).
  Its second part is about the answer, for tables of any content, any period,
  unit, limit and capacity, any order a sort or a join may give, and any number of
  series:
  * `NoValueIsLost` and `ValuesStayInOrder`. The slice's array holds the values of
    what was fetched, each as often (`SameValues`); a row with a value that lies beyond
    the end of the slice is one the limit cut off behind rows that precede it, or
    the end of the period (`BeyondIsCut`, `CutAway`), so that a longer slice shows
    nothing that was trimmed. For a query that is not grouped the database has
    applied the limit before and it cuts nothing; for a grouped one the limit of the
    SQL is computed, and the element's own cuts here for the first time.
    `ValuesSorted` holds of the array, not of the slice only, because the slice may
    still grow.
  * `NoAskedBucketIsLost`. The rows stay what the SQL made of the table
    (`RowsOfQuery`, the only invariant the query needs), so the rest is about
    `Joined` and `Executed`: a bucket asked for and the one before lie in the moved
    window as a whole; the inner limit, which counts from the oldest, cuts neither
    off, for fewer buckets than the units of the period and two lie before them
    (`AskedIsFetched`); the outer limit, which counts from the latest, does not
    either, for fewer than the units of the period come after (`AskedIsNotCut`); and
    `BeyondIsCut` takes the row into the answer or leaves it to the element's own
    limit. A bound that is cut to a whole second crosses no beginning of a bucket,
    since a regular one is made of whole seconds. `Regular` and `NothingCutOff` are
    the conditions under which the counting is right; section 4 has what happens
    without them.
  * `NoPartIsShown`. The bucket before is the row before, since every bucket the
    window touches has a row (`BucketBefore`). Only a bucket at the beginning of
    the window can be there in part; the row after it, which would show it,
    begins before the period, so that at least `OuterLimit` rows follow and it is cut
    off (`CutOffAfterPart`).
  * `TablesKeepPoints`. A value is among the rows left or in one row of the table,
    never both (`LeftOrPlaced`), whichever row the search returns: the proof
    uses only that what is found is removed and that a sort permutes. `Search` is
    unfolded as a function over spans, by the length of the span.
  * `AlignedTablesMerge`. While the first of alike series is gone through, the
    others consist of the rows it still has, in descending order
    (`AlignedProgress`): so the search finds the row, the first one, in all of
    them, and `RemoveElementFrom2D` with the sort after it restores the order.
* **`LastValues_proofs`**: `ValuesComeBackInPlace`, `RefinesService`. The handler numbers output
  columns by counting while it appends them, so the invariant has to say where
  those of each full element begin, which no variable holds: `ElementsInPlace`
  says that such `places` exist and that the element of the request remembered
  at `places[k] + j` asked for column `j` of full element `k`; while values are put
  back, `inserted` is where the loops stand in it. That nothing is left at its
  zero value follows from `ColumnMapFilled` and `NothingUngrouped`: every element
  is in the map, and an element of a grouped source is remembered.
  `RowsOfElements` and `DbRequests` are as in `Queries`, except that the owners do
  not match the queries (section 4): the property then rests on a foreign
  table not existing. The lemma `OwnersSuffice` counts: elements asked of the
  database are no more than the full elements, so the owners passed in the wrong
  order are still enough and `GenerateQueries` does not index beyond them.
  The refinement hides what is in progress: a client sees `response` only once
  `status` is 200.
* **`QueriesV2_proofs`**: `PlainAnswersAreWhole`, `OwnersSuffice`,
  `SeriesAreAskedFor`. A 200 tells that no goroutine raised an error, so one that
  has ended collected all its element asks for and merged all of it
  (`NothingIsMissing`); of an export or a device the matches are the columns in
  turn (`MatchesInTurn`), and after each turn of the merging loop, which others
  cannot interrupt, they are one response element with as many series
  (`MergedInTurn`, `PlainAnswers`). `OwnersCoverMatches` holds because an owner
  is appended with each match and nothing is taken away.
* **`Download_proofs`**: `RowsInOrder`, `NothingIsLeftOut`, although rows arrive
  at any time: the window moves by whole chunks and ends at the next chunk or
  at the end of the period (`WindowMoves`), and all that was written lies before
  it (`WrittenIsBehind`). A chunk is then sorted, after all before it, and the next
  window begins where it ended.
* **`Lifecycle_proofs`**: `NoConnectionLeaks`, `SuccessHasResults`,
  `ExitIsGraceful`, `FinishedDownloadsAreWhole`, for `Lifecycle`'s specification
  with any number of connections, calls and downloads. `ConnectionsAccounted`
  needs that the holders are finitely many to count them, and that an idle call
  has no goroutines. `ErrorsAreKept`: a goroutine without a result has set the
  type word of the shared error, which no sibling sets back; so an error that
  is nil at `wg.Wait()` means that all have results, although the data
  word may be another one's. `DrainedStaysEmpty`: a server that was drained
  accepts nothing again; so when the process exits nobody is being answered.
  `ChunksAreAnswered`: every chunk a download has behind it was answered by a call
  without an error, hence with all its results. `PoolStepPreserves` and
  `PoolStepKeeps` are what `Lifecycle` needs to know of the steps of `QueryPool`.
* **`ImportViews_proofs`**: `TablesHaveOneJob`, `AnswersAreNearest`,
  `MigrateSparesLiveJobs`, for any number of replicas and requests, and crashes
  in any step. `OneRequestPerJob`: whoever is about to add a job is the only one
  whose `CREATE` of this view succeeded, and no job is there yet; `JobsHaveViews`
  excludes that the view is created a second time. Migrate deletes by ids read
  earlier: `IdsAreUnique` and `OutdatedAreGone` say that they still are those of jobs
  of dropped tables.
* **`SecretQuery_proofs`**: `SecretsAreUsedOnce`, `DownloadsAreGranted`,
  `RefinesOneTimeSecret`. What is stored has not been served
  (`StoredIsUnserved`), and what a download has read is what is stored if
  anything still is (`ReadIsStored`): so the first successful delete is the only
  one.

The refinements map every step to a step of the abstract specification or a
stutter; the runs check the same mapping on instances, except that of `LastValues`,
which TLC finds to hold as a PROPERTY of `MCLastValues.cfg`. TLC checked each
`IInv`, too, before it was proved.

Model-checked only:

* liveness (`RevocationTakesEffect`, `AnsweredOrCrashed`,
  `UnclaimedQueriesLapse`, `EveryDownloadAnswered`, `EveryDownloadEnds`,
  `EveryCallReturns`, `SignalStops`, `EveryReplicaServes`, `MetadataSettles`):
  fairness needs ENABLED, which is out of the prover's reach;
* the properties of `LastMessage` (`AnswersHaveTheMessage`,
  `MemcachedIsOptional`), which walk trees of variables with recursive operators and
  would need induction over data, and with them those of `RemoteCache`, which is
  checked in this composition.

## 6. Not modelled

* Conversions between characteristics and time formats: data only; they appear
  as a stage that may fail, and `LastMessage` has the lookup that may panic.
* Sort columns other than the time; rows without a time among others, which a
  `FULL OUTER JOIN` of several columns can produce in a table; table columns per
  element beyond one.
* The text of SQL that only selects what is aggregated: functions, math, filters
  by value. Months and years, whose lengths differ, in windows of differences, and
  differences of elements without a time, whose window is not moved.
* The query `tableName` makes for a view takes a connection of the pool and gives it
  back before `ExecuteQueries` asks for others. It holds none while it waits and
  any failure of it, a closed pool included, leaves the table; `QueryPool` has no
  action for it.
* `GetDeviceUsage` and `GetExportUsage` return with their rows open if `LongId` fails
  (`usage.go:55-58`, `93-96`), which would keep a connection. The ids decoded there are
  among those just encoded for the query's `IN (...)`, so that `LongId` does not
  fail; `QueryPool` has no such step.
* In downloads: a limit applies to each chunk and a group-time bucket that
  straddles a chunk boundary is written by both chunks; errors of the CSV writer.
* The device selection: POST /queries/v2 is given a fixed set of matches.
  Requests of `ImportViews` are made once.
* `getDeepEntry` keeps a scalar where a path goes on below it (line 368-382): the
  column of such a path is not one the service has, and nothing is said of it.
* The validity of requests apart from the time of an element, and the reading of
  the user from a token: both decide between rejected and accepted only.
* The client library, configuration, logging and generated documentation: no
  state beyond the start, nothing concurrent.

## 7. Plan

Done: the modules above, in the order of section 2, and the proofs of every
safety property a run checks, except the two of `LastMessage`. Of what is left out,
nothing keeps state or runs concurrently; grouped downloads need the composition of
`Download` and `QueryWindow` and are worth it only with a promise to check.

What could still be done:

1. A theorem about `RemoteCache` of its own, apart from the trees `LastMessage` puts
   into it: that a failure of memcached is never what a caller is told.
2. An abstract specification of POST /queries/v2, once the code settles what a group
   is answered with (section 4).
