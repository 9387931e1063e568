--------------------------- MODULE ResponseFormat ---------------------------
(***************************************************************************)
(* formatResponse (pkg/api/queries_postprocessing.go), which a request     *)
(* takes through one of two formats: per_query, the default, which trims,  *)
(* sorts and cuts each series, and table, which merges all of them.        *)
(***************************************************************************)
EXTENDS QueryWindow

CONSTANTS NumSeries, MaxTime, NullPoint   \* as in TableFormat

ASSUME TablesAssumption == NumSeries \in Nat \ {0} /\ MaxTime \in Nat

VARIABLES format,
          results, series, row, formatted, given   \* as in TableFormat, where results is data

perQueryVars == <<array, len, limit, end, fetched, element, table, joined>>
tableVars == <<results, series, row, formatted, given>>
responseVars == <<format, stage, direction, perQueryVars, tableVars>>

Merged == INSTANCE TableFormat WITH pc <- stage, data <- results

ResponseInit ==
    \/ /\ format = "per_query"
       /\ WindowInit \/ PlainInit
       /\ results = <<>> /\ series = 1 /\ row = 1 /\ formatted = <<>> /\ given = <<>>
    \/ /\ format = "table"
       /\ Merged!Init
       /\ array = <<>> /\ len = 0 /\ limit = NoLimit /\ end = NoTime /\ fetched = <<>>
       /\ element = <<>> /\ table = {} /\ joined = <<>>

(* switch f.                                                               *)
AsPerQuery(step) == format = "per_query" /\ step /\ UNCHANGED <<format, windowVars, tableVars>>
AsTable(step) == format = "table" /\ step /\ UNCHANGED <<format, perQueryVars>>

formatResponse ==
    \/ AsPerQuery(Trim) \/ AsPerQuery(Sort2D) \/ AsPerQuery(Limit) \/ AsPerQuery(LimitPanics)
    \/ AsPerQuery(FilterEnd)
    \/ AsTable(Merged!SkipSeries) \/ AsTable(Merged!SkipNoData) \/ AsTable(Merged!PlaceRow)
    \/ AsTable(Merged!SearchPanics) \/ AsTable(Merged!SortTable)

ResponseSpec == ResponseInit /\ [][formatResponse]_responseVars

-----------------------------------------------------------------------------
(* A table holds every value that has a time exactly once, in the column   *)
(* of its element, whatever rows the binary search finds.                  *)
EveryPointOnce == format = "table" => Merged!EveryPointOnce

(* Series of the same descending times merge completely, which the search  *)
(* needs to find each row and the removals must not disturb.               *)
AlignedSeriesMerge == format = "table" => Merged!AlignedSeriesMerge

-----------------------------------------------------------------------------
(* What makes them inductive: a table has no series beside it.             *)
NoSeries == array = <<>> /\ len = 0 /\ fetched = <<>> /\ element = <<>>
ResponseIInv ==
    \/ format = "per_query" /\ SeriesIInv /\ RowsOfQuery
    \/ format = "table" /\ Merged!IInv /\ NoSeries
=============================================================================
