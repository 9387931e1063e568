------------------------------ MODULE Download ------------------------------
(***************************************************************************)
(* A CSV download (pkg/api/download.go): prepareQueriesRequestElement      *)
(* turns the time of a query into a period, and handleCSVDownload writes   *)
(* the header and then asks its own POST /queries for one chunk of the     *)
(* period after the other, while new rows arrive.  What was written cannot *)
(* be taken back: from there on a failure cuts the stream off.             *)
(***************************************************************************)
EXTENDS Integers, FiniteSets, Sequences, Functions

CONSTANTS Res,       \* units of time per second, in which rows are stamped
          Chunk,     \* seconds per chunk (30 days)
          Horizon,   \* bound: the last second
          Limits     \* bound: the limits of queries; 0 is no limit

ASSUME DownloadAssumption ==
    /\ Res \in Nat \ {0} /\ Chunk \in Nat \ {0} /\ Horizon \in Nat
    /\ Limits \subseteq Nat

VARIABLES table,       \* the times of the rows in the queried table
          pc,
          elem,        \* requestElement: its time and limit
          startValue, endValue, initialEndValue,
          delivered,   \* the rows written to the client
          before,      \* history: the rows there when the download began
          queryFailed  \* history: POST /queries failed for a reason of its own

vars == <<table, pc, elem, startValue, endValue, initialEndValue, delivered, before, queryFailed>>

Second == 0 .. Horizon
Instant == 0 .. Horizon * Res
(* relative: last or ahead; parsable: Go's ParseDuration knows its unit     *)
(* (it knows no day, week, month or year).                                 *)
Form == {"none", "absolute", "relative"}
Element ==
    {e \in [form : Form, start : Instant, end : Instant, limit : Limits, parsable : BOOLEAN] :
        /\ e.form = "none" => e.start = 0 /\ e.end = 0
        /\ e.form # "relative" => e.parsable}
NoElement == [form |-> "none", start |-> 0, end |-> 0, limit |-> 0, parsable |-> TRUE]

TypeOK ==
    /\ table \subseteq Instant /\ before \subseteq table
    /\ pc \in {"idle", "prepare", "verify", "header", "chunk", "done", "aborted", "refused"}
    /\ elem \in Element \cup {NoElement}
    /\ startValue \in Second /\ endValue \in Second /\ initialEndValue \in Second
    /\ delivered \in Seq(Instant)
    /\ queryFailed \in BOOLEAN

Init ==
    /\ table \in SUBSET Instant
    /\ pc = "idle" /\ elem = NoElement
    /\ startValue = 0 /\ endValue = 0 /\ initialEndValue = 0
    /\ delivered = <<>> /\ before = {} /\ queryFailed = FALSE

-----------------------------------------------------------------------------
(* A valid query arrives; start and end are what the client sent, or what  *)
(* now and the duration make of them.  Downloads share nothing but the     *)
(* table: one is enough.                                                   *)
Request(e) ==
    /\ pc = "idle"
    /\ pc' = "prepare"
    /\ elem' = e
    /\ UNCHANGED <<table, startValue, endValue, initialEndValue, delivered, before, queryFailed>>

(* No time or a duration that cannot be parsed is a 500.                   *)
Resolvable(e) == e.form = "absolute" \/ (e.form = "relative" /\ e.parsable)

(* Format(time.RFC3339) writes whole seconds; what the client sent stays   *)
(* as it is.                                                               *)
WholeSecond(t) == (t \div Res) * Res
PreparePeriod ==
    /\ pc = "prepare"
    /\ Resolvable(elem)
    /\ elem' = IF elem.form = "absolute" THEN elem
               ELSE [elem EXCEPT !.start = WholeSecond(@), !.end = WholeSecond(@)]
    /\ pc' = "verify"
    /\ UNCHANGED <<table, startValue, endValue, initialEndValue, delivered, before, queryFailed>>

RefusePeriod ==
    /\ pc = "prepare"
    /\ ~ Resolvable(elem)
    /\ pc' = "refused"
    /\ UNCHANGED <<table, elem, startValue, endValue, initialEndValue, delivered, before, queryFailed>>

(* VerifyAccess, or the redemption of a secret got with it (SecretQuery).  *)
Verify ==
    /\ pc = "verify"
    /\ pc' \in {"header", "refused"}
    /\ UNCHANGED <<table, elem, startValue, endValue, initialEndValue, delivered, before, queryFailed>>

Earlier(a, b) == IF a < b THEN a ELSE b

(* The header is flushed; Unix() counts whole seconds.                     *)
FirstChunk ==
    /\ pc = "header"
    /\ pc' = "chunk"
    /\ startValue' = elem.start \div Res
    /\ initialEndValue' = elem.end \div Res
    /\ endValue' = Earlier(startValue' + Chunk, initialEndValue')
    /\ before' = table
    /\ UNCHANGED <<table, elem, delivered, queryFailed>>

(* QueriesRequestElementTime.Valid() in POST /queries: last or ahead does  *)
(* not go with start and end, which the chunk loop always sets.            *)
ValidForQueries(e) == e.form = "absolute"

(* The rows of the chunk: time > start AND time < end, ordered by time, up *)
(* to the limit of the query.                                              *)
InPeriod(a, b) == {t \in table : t > a * Res /\ t < b * Res}
Increasing(times) == \A i, j \in DOMAIN times : i < j => times[i] < times[j]
Ascending(S) == CHOOSE times \in [1 .. Cardinality(S) -> S] : Increasing(times)
Rows(a, b, limit) ==
    LET all == Ascending(InPeriod(a, b))
    IN  IF limit = 0 \/ limit > Len(all) THEN all ELSE SubSeq(all, 1, limit)

(* Mutants of WriteChunk: the next chunk overlaps by a second; a chunk     *)
(* without rows is asked for again; the chunk's end is skipped.            *)
WriteAndMove(from, to) ==
    /\ pc = "chunk" /\ startValue < initialEndValue /\ ValidForQueries(elem)
    /\ delivered' = delivered \o Rows(startValue, endValue, elem.limit)
    /\ startValue' = from /\ endValue' = to
    /\ UNCHANGED <<table, pc, elem, initialEndValue, before, queryFailed>>
WriteOverlapping ==
    WriteAndMove(IF endValue < initialEndValue THEN endValue - 1 ELSE endValue,
                 Earlier(endValue + Chunk, initialEndValue))
WriteUntilRows ==
    LET none == Rows(startValue, endValue, elem.limit) = <<>>
    IN  WriteAndMove(IF none THEN startValue ELSE endValue,
                     IF none THEN endValue ELSE Earlier(endValue + Chunk, initialEndValue))
WriteAndSkip ==
    WriteAndMove(Earlier(endValue + 1, initialEndValue),
                 Earlier(endValue + Chunk, initialEndValue))

(* One turn of the loop: the answer is written, the window moves on.       *)
WriteChunk ==
    /\ pc = "chunk"
    /\ startValue < initialEndValue
    /\ ValidForQueries(elem)
    /\ delivered' = delivered \o Rows(startValue, endValue, elem.limit)
    /\ startValue' = endValue
    /\ endValue' = Earlier(endValue + Chunk, initialEndValue)
    /\ UNCHANGED <<table, pc, elem, initialEndValue, before, queryFailed>>

Abort ==
    /\ pc' = "aborted"
    /\ UNCHANGED <<table, elem, startValue, endValue, initialEndValue, delivered, before>>

(* panic(http.ErrAbortHandler): the query cannot be sent, answers anything *)
(* but 200 or takes longer than the 10 s of http.DefaultClient.            *)
QueryFails ==
    /\ pc = "chunk" /\ startValue < initialEndValue
    /\ ValidForQueries(elem)
    /\ queryFailed' = TRUE
    /\ Abort

(* ... and so does a query POST /queries rejects as invalid.               *)
QueryRejected ==
    /\ pc = "chunk" /\ startValue < initialEndValue
    /\ ~ ValidForQueries(elem)
    /\ Abort
    /\ UNCHANGED queryFailed

Finish ==
    /\ pc = "chunk"
    /\ startValue >= initialEndValue
    /\ pc' = "done"
    /\ UNCHANGED <<table, elem, startValue, endValue, initialEndValue, delivered, before, queryFailed>>

-----------------------------------------------------------------------------
(* A row arrives, for any time: devices deliver late.                      *)
Ingest(t) ==
    /\ t \notin table
    /\ table' = table \cup {t}
    /\ UNCHANGED <<pc, elem, startValue, endValue, initialEndValue, delivered, before, queryFailed>>

Handler ==
    \/ PreparePeriod \/ RefusePeriod \/ Verify \/ FirstChunk
    \/ WriteChunk \/ QueryRejected \/ Finish

Next ==
    \/ \E e \in Element : Request(e)
    \/ Handler \/ QueryFails
    \/ \E t \in Instant : Ingest(t)

Spec == Init /\ [][Next]_vars

(* The handler is scheduled and its queries end; none is obliged to fail.  *)
FairSpec == Spec /\ WF_vars(Handler)

-----------------------------------------------------------------------------
(* No row is written twice or out of order, none from before the whole     *)
(* second in which the period begins (Unix() drops the fraction of its     *)
(* start, so that rows of that second before the start are written), and   *)
(* none at or after its end, although the table changes between the chunks.*)
DeliveredInOrder ==
    /\ Increasing(delivered)
    /\ pc \in {"chunk", "done", "aborted"} => \A t \in Range(delivered) :
            t > WholeSecond(elem.start) /\ t < elem.end

(* Where one chunk ends and the next begins; both leave that instant out.  *)
Boundary(t) == \E n \in 1 .. Horizon : t = ((elem.start \div Res) + n * Chunk) * Res

(* At any moment, so also when it is cut off, a download without a limit   *)
(* holds every row that was there before it, from the start of the period  *)
(* up to the chunk it has reached; only rows on the very instant of a      *)
(* chunk boundary are missing.  The last chunk ends with the last whole    *)
(* second of the period.                                                   *)
CompleteUpToWindow ==
    pc \in {"chunk", "done", "aborted"} /\ elem.limit = 0 =>
        \A t \in before :
            t > elem.start /\ t < startValue * Res /\ ~ Boundary(t) => t \in Range(delivered)

(* Every download ends: the window moves on until it reaches the end.      *)
EveryDownloadEnds == pc \in {"prepare", "verify", "header", "chunk"} ~>
                        pc \in {"done", "aborted", "refused"}

-----------------------------------------------------------------------------
(* The strengthening that makes the safety properties inductive.           *)

(* The window: how long it is, and where it begins while rows are missing. *)
FirstSecond == elem.start \div Res
WindowMoves ==
    pc \in {"chunk", "done", "aborted"} =>
        /\ initialEndValue = elem.end \div Res
        /\ endValue = Earlier(startValue + Chunk, initialEndValue)
        /\ startValue >= FirstSecond
        /\ startValue < initialEndValue => \E n \in 0 .. Horizon : startValue = FirstSecond + n * Chunk

(* What was written lies before the window.                                *)
WrittenIsBehind ==
    /\ \A t \in Range(delivered) : t < startValue * Res
    /\ pc \notin {"chunk", "done", "aborted"} => delivered = <<>>

IInv == TypeOK /\ WindowMoves /\ WrittenIsBehind /\ DeliveredInOrder /\ CompleteUpToWindow

-----------------------------------------------------------------------------
(* Stated by comments, docs or tests, and not kept by the code.            *)

(* The stream of a download whose query was accepted is cut off only when  *)
(* one of its queries fails.                                               *)
AbortedOnlyByFailure == pc = "aborted" => queryFailed

(* Not kept for a period with fractions of a second, which the chunks      *)
(* begin and end without: nothing is written from before its start, ...    *)
NothingBeforeStart ==
    pc \in {"chunk", "done", "aborted"} => \A t \in Range(delivered) : t > elem.start

(* ... and what is missing at the end is on chunk boundaries only.         *)
NothingBeforeEndIsMissing ==
    pc = "done" /\ elem.limit = 0 =>
        \A t \in before : t > elem.start /\ t < elem.end /\ ~ Boundary(t) => t \in Range(delivered)
=============================================================================
