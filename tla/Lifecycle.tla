----------------------------- MODULE Lifecycle -----------------------------
(***************************************************************************)
(* The process (main.go, pkg/init.go, pkg/api/api.go) around the database  *)
(* pool: two HTTP servers, the signal that ends them, and downloads, which *)
(* ask the first server for one chunk after the other.  When the context   *)
(* is cancelled one goroutine closes the pool at once, another drains      *)
(* first the one server and then the other; the process exits when both    *)
(* have ended.                                                             *)
(***************************************************************************)
EXTENDS QueryPool, Sequences

CONSTANTS Download,      \* requests for a CSV
          ChunkCall,     \* ChunkCall[d]: its calls of POST /queries, a sequence over Batch
          MaxRequests    \* bound: calls made by clients

ChunkCalls == UNION {{ChunkCall[d][k] : k \in DOMAIN ChunkCall[d]} : d \in Download}

ASSUME LifecycleAssumption ==
    /\ ChunkCall \in [Download -> Seq(Batch)]
    /\ \A d, e \in Download : \A k \in DOMAIN ChunkCall[d], l \in DOMAIN ChunkCall[e] :
        ChunkCall[d][k] = ChunkCall[e][l] => d = e /\ k = l

VARIABLES process,   \* where main stands
          api,       \* what the goroutine of api.Start does about the servers
          dpc,       \* where each download stands
          on,        \* the server it was asked of: "main" (/download) or
                     \* "other" (/download/:secret)
          chunk      \* the chunk each download is at

lifeVars == <<process, api, dpc, on, chunk>>
vars == <<poolVars, lifeVars>>

TypeOK ==
    /\ PoolTypeOK
    /\ process \in {"starting", "running", "stopping", "exited", "killed"}
    /\ api \in {"serve", "main", "other", "done"}
    /\ dpc \in [Download -> {"idle", "chunk", "asking", "done", "aborted"}]
    /\ on \in [Download -> {"main", "other"}]
    /\ chunk \in [Download -> Nat \ {0}]
    /\ \A d \in Download : chunk[d] <= Len(ChunkCall[d]) + 1

(* The servers listen; main has not asked for signals yet.                 *)
Init ==
    /\ PoolInit
    /\ process = "starting" /\ api = "serve"
    /\ dpc = [d \in Download |-> "idle"] /\ on = [d \in Download |-> "main"]
    /\ chunk = [d \in Download |-> 1]

-----------------------------------------------------------------------------
Alive == process \notin {"exited", "killed"}
(* Server.Shutdown closes its listener first.                              *)
Listens(server) == Alive /\ api \in (IF server = "main" THEN {"serve"} ELSE {"serve", "main"})

InProgress(c) == cpc[c] \notin {"idle", "returned"}
Downloading(d) == dpc[d] \in {"chunk", "asking"}

(* A client's request that was found valid and allowed (module             *)
(* AccessVerification): for data, their availability, or usage.            *)
Accepted(c) ==
    /\ Listens("main") /\ c \notin ChunkCalls
    /\ Cardinality({x \in Call \ ChunkCalls : cpc[x] # "idle"}) < MaxRequests
    /\ UNCHANGED lifeVars

QueriesEndpoint(c) ==
    c \in Batch /\ Accepted(c) /\ \E n \in 0 .. MaxQueries : ExecuteQueries(c, n)
DataAvailabilityEndpoint(c) == c \in Availability /\ Accepted(c) /\ GetDataAvailability(c)
UsageEndpoint(c) == c \in Single /\ Accepted(c) /\ GetUsage(c)

ClientDownload(d) ==
    /\ dpc[d] = "idle"
    /\ \E server \in {"main", "other"} :
        /\ Listens(server)
        /\ on' = [on EXCEPT ![d] = server]
    /\ dpc' = [dpc EXCEPT ![d] = "chunk"]
    /\ UNCHANGED <<poolVars, process, api, chunk>>

HasChunk(d) == dpc[d] = "chunk" /\ chunk[d] <= Len(ChunkCall[d])

AskChunk(d) ==
    /\ HasChunk(d) /\ Listens("main")
    /\ ExecuteQueries(ChunkCall[d][chunk[d]], 1)
    /\ dpc' = [dpc EXCEPT ![d] = "asking"]
    /\ UNCHANGED <<process, api, on, chunk>>

(* Mutant of ChunkRefused: the chunk is asked for again.                   *)
ChunkRefusedRetry(d) ==
    /\ HasChunk(d) /\ Alive /\ ~ Listens("main")
    /\ UNCHANGED vars

(* Nobody listens on the port: the stream is cut off.                      *)
ChunkRefused(d) ==
    /\ HasChunk(d) /\ Alive /\ ~ Listens("main")
    /\ dpc' = [dpc EXCEPT ![d] = "aborted"]
    /\ UNCHANGED <<poolVars, process, api, on, chunk>>

(* Mutant of ChunkAnswered: any answer will do.                            *)
ChunkAnsweredAnyhow(d) ==
    /\ dpc[d] = "asking" /\ cpc[ChunkCall[d][chunk[d]]] = "returned"
    /\ dpc' = [dpc EXCEPT ![d] = "chunk"] /\ chunk' = [chunk EXCEPT ![d] = @ + 1]
    /\ UNCHANGED <<poolVars, process, api, on>>

(* Status 200, and the rows are written; or any other status.              *)
ChunkAnswered(d) ==
    /\ dpc[d] = "asking" /\ cpc[ChunkCall[d][chunk[d]]] = "returned"
    /\ IF err[ChunkCall[d][chunk[d]]] = NoFailure
       THEN /\ dpc' = [dpc EXCEPT ![d] = "chunk"] /\ chunk' = [chunk EXCEPT ![d] = @ + 1]
       ELSE /\ dpc' = [dpc EXCEPT ![d] = "aborted"] /\ UNCHANGED chunk
    /\ UNCHANGED <<poolVars, process, api, on>>

(* http.DefaultClient gives up after ten seconds; the query goes on.  Or   *)
(* the server of the download has written long enough: writing fails.      *)
ChunkTimesOut(d) ==
    /\ dpc[d] = "asking"
    /\ dpc' = [dpc EXCEPT ![d] = "aborted"]
    /\ UNCHANGED <<poolVars, process, api, on, chunk>>

FinishDownload(d) ==
    /\ dpc[d] = "chunk" /\ chunk[d] > Len(ChunkCall[d])
    /\ dpc' = [dpc EXCEPT ![d] = "done"]
    /\ UNCHANGED <<poolVars, process, api, on, chunk>>

-----------------------------------------------------------------------------
(* signal.Notify, in a goroutine started after the servers.                *)
Notify ==
    /\ process = "starting" /\ process' = "running"
    /\ UNCHANGED <<poolVars, api, dpc, on, chunk>>

(* SIGTERM: before Notify it ends the process, then it cancels the context.*)
Signal ==
    /\ \/ process = "starting" /\ process' = "killed"
       \/ process = "running" /\ process' = "stopping"
    /\ UNCHANGED <<poolVars, api, dpc, on, chunk>>

PoolClosed == process = "stopping" /\ ClosePool /\ UNCHANGED lifeVars

(* Mutant of Shutdown: server.Close(), which waits for nobody.             *)
ShutdownAtOnce ==
    /\ process = "stopping" /\ api = "serve"
    /\ api' = "done"
    /\ UNCHANGED <<poolVars, process, dpc, on, chunk>>

(* <-ctx.Done(); server.Shutdown                                           *)
Shutdown ==
    /\ process = "stopping" /\ api = "serve"
    /\ api' = "main"
    /\ UNCHANGED <<poolVars, process, dpc, on, chunk>>

(* ... returns when no request is left; unauthenticatedServer.Shutdown     *)
MainDrained ==
    /\ api = "main"
    /\ \A c \in Call : ~ InProgress(c)
    /\ \A d \in Download : on[d] = "main" => ~ Downloading(d)
    /\ api' = "other"
    /\ UNCHANGED <<poolVars, process, dpc, on, chunk>>

OtherDrained ==
    /\ api = "other"
    /\ \A d \in Download : on[d] = "other" => ~ Downloading(d)
    /\ api' = "done"
    /\ UNCHANGED <<poolVars, process, dpc, on, chunk>>

(* wg.Wait(): the goroutine that closes the pool and that of the servers.  *)
Exit ==
    /\ process = "stopping" /\ closed /\ api = "done"
    /\ process' = "exited"
    /\ UNCHANGED <<poolVars, api, dpc, on, chunk>>

-----------------------------------------------------------------------------
DownloadEnds(d) == AskChunk(d) \/ ChunkRefused(d) \/ ChunkAnswered(d) \/ FinishDownload(d)
Stop == PoolClosed \/ Shutdown \/ MainDrained \/ OtherDrained \/ Exit

Next ==
    \/ \E c \in Call : QueriesEndpoint(c) \/ DataAvailabilityEndpoint(c) \/ UsageEndpoint(c)
    \/ \E d \in Download : ClientDownload(d) \/ (Alive /\ (DownloadEnds(d) \/ ChunkTimesOut(d)))
    \/ Alive /\ PoolStep /\ UNCHANGED lifeVars
    \/ Notify \/ Signal \/ Stop

Spec == Init /\ [][Next]_vars

(* Goroutines are scheduled and statements end; none is obliged to fail,   *)
(* but a closed pool and a closed port refuse.  A call is made once and    *)
(* takes finitely many steps: it is enough that it takes one, and that a   *)
(* goroutine waits for finitely many others.                               *)
FairSpec ==
    /\ Spec
    /\ \A c \in Call : WF_vars(Alive /\ CallEnds(c) /\ UNCHANGED lifeVars)
    /\ \A d \in Download : WF_vars(Alive /\ DownloadEnds(d))
    /\ WF_vars(PoolClosed) /\ WF_vars(Shutdown \/ MainDrained \/ OtherDrained) /\ WF_vars(Exit)

-----------------------------------------------------------------------------
(* The process exits only after everyone it accepted has an answer, at     *)
(* either server and for a chunk of a download as for a client.            *)
AnsweredBeforeExit ==
    process = "exited" => /\ \A c \in Call : ~ InProgress(c)
                          /\ \A d \in Download : ~ Downloading(d)

(* A download that ends without being cut off has the results of all its   *)
(* chunks, although pool and server may be closed under it.                *)
DownloadsAreWhole ==
    \A d \in Download : dpc[d] = "done" =>
        \A k \in DOMAIN ChunkCall[d] :
            LET c == ChunkCall[d][k] IN cpc[c] = "returned" /\ res[c][1] # "nil"

(* Every call returns, however many wait for the connections, and when the *)
(* pool is closed meanwhile: nobody waits for a goroutine, or for a        *)
(* connection, while it holds one itself.  (A call is made once: there is  *)
(* always a time when none is in progress only if each returns.)           *)
EveryCallReturns == []<>(process = "killed" \/ \A c \in Call : ~ InProgress(c))

(* A signal ends the process: no download keeps the first server from      *)
(* being drained by asking it for another chunk.                           *)
SignalStops == process = "stopping" ~> process = "exited"

-----------------------------------------------------------------------------
(* The strengthening that makes the safety properties inductive.           *)

(* What is drained stays empty: its listener is closed before.             *)
DrainedStaysEmpty ==
    /\ process \in {"starting", "running", "killed"} => api = "serve"
    /\ process = "exited" => api = "done"
    /\ api \in {"other", "done"} => \A c \in Call : ~ InProgress(c)
    /\ api \in {"other", "done"} => \A d \in Download : on[d] = "main" => ~ Downloading(d)
    /\ api = "done" => \A d \in Download : on[d] = "other" => ~ Downloading(d)

(* What a download has behind it was answered without an error, by a call  *)
(* with a goroutine.                                                       *)
AskedOnce(c) == cpc[c] # "idle" /\ wpc[c][1] # "unused"
ChunksAreAnswered ==
    \A d \in Download :
        /\ \A k \in 1 .. chunk[d] - 1 :
            LET c == ChunkCall[d][k]
            IN  AskedOnce(c) /\ cpc[c] = "returned" /\ err[c] = NoFailure
        /\ dpc[d] = "asking" => chunk[d] <= Len(ChunkCall[d]) /\ AskedOnce(ChunkCall[d][chunk[d]])
        /\ dpc[d] = "done" => chunk[d] = Len(ChunkCall[d]) + 1

IInv == TypeOK /\ PoolInv /\ DrainedStaysEmpty /\ ChunksAreAnswered

-----------------------------------------------------------------------------
(* Stated by comments, docs or tests, and not kept by the code.            *)

(* A graceful shutdown ("received shutdown signal", Server.Shutdown): a    *)
(* request accepted before the signal is not refused because of it.        *)
NoRequestIsRefused == \A c \in Call : err[c] # Closed
=============================================================================
