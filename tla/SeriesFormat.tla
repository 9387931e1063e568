---------------------------- MODULE SeriesFormat ----------------------------
(***************************************************************************)
(* formatResponse for the format per_query                                 *)
(* (pkg/api/queries_postprocessing.go), for one series.  ExecuteQuery      *)
(* hands over a slice: its backing array is as long as append made it, and *)
(* trimming, limiting and filtering only move the end of the slice.  The   *)
(* conversion of values and times, in place and at the end, is left out.   *)
(***************************************************************************)
EXTENDS Integers, SequencesExt

CONSTANTS MaxRows,   \* bound: rows the database returns
          Time,      \* the times rows may have
          Limits     \* bound: the limits of elements; NoLimit is none

NoTime == 0
NoLimit == -1
ASSUME SeriesFormatAssumption ==
    /\ MaxRows \in Nat /\ Time \subseteq Nat \ {NoTime} /\ Limits \subseteq Nat \cup {NoLimit}

VARIABLES stage,
          array,      \* the backing array, up to its capacity
          len,        \* the length of the slice
          limit, direction, end,   \* of the element and the request; end may be NoTime
          fetched     \* history: what the database returned

seriesVars == <<stage, array, len, limit, direction, end, fetched>>

(* empty: no column but the time has a value.                              *)
Row == [time : Time \cup {NoTime}, empty : BOOLEAN]
AnyRow == [time : Nat, empty : BOOLEAN]
NilRow == [time |-> NoTime, empty |-> TRUE]   \* a nil slice or a row of nils

(* The arrays append may have made for the rows: when one is full it makes *)
(* a larger one, which promises room and no more.  Up to here the double.  *)
Backing(rows) ==
    {[i \in 1 .. capacity |-> IF i <= Len(rows) THEN rows[i] ELSE NilRow] :
        capacity \in Len(rows) .. 2 * Len(rows)}

(* ExecuteQuery: no rows become one row of nils.  The database has applied *)
(* the limit and the end of the period.                                    *)
Results(lim, e) ==
    {<<NilRow>>} \cup
    {rows \in UNION {[1 .. n -> Row] : n \in 1 .. MaxRows} :
        /\ lim # NoLimit => Len(rows) <= lim
        /\ e # NoTime => \A i \in DOMAIN rows : rows[i].time < e}

SeriesInit ==
    /\ stage = "trim"
    /\ limit \in Limits /\ direction \in {"asc", "desc"} /\ end \in Time \cup {NoTime}
    /\ fetched \in Results(limit, end)
    /\ len = Len(fetched)
    /\ array \in Backing(fetched)

SeriesTypeOK ==
    /\ stage \in {"trim", "sort", "limit", "end", "done", "panic"}
    /\ array \in Seq(AnyRow)
    /\ len \in 0 .. Len(array)
    /\ limit \in Nat \cup {NoLimit} /\ direction \in {"asc", "desc"} /\ end \in Nat

-----------------------------------------------------------------------------
(* Mutant of Trimmed: every row without values counts, not the last ones.  *)
TrimmedAnywhere == {Cardinality({i \in 1 .. len : ~ array[i].empty})}

(* isRowEmpty rows at the end are cut off, up to the last that is not.     *)
Trimmed == {k \in 0 .. len : /\ k > 0 => ~ array[k].empty
                             /\ \A i \in k + 1 .. len : array[i].empty}

Trim ==
    /\ stage = "trim"
    /\ len' \in Trimmed
    /\ stage' = "sort"
    /\ UNCHANGED <<array, limit, direction, end, fetched>>

(* Mutant of Sort2D: the direction is not looked at.                       *)
SortDescending ==
    /\ stage = "sort"
    /\ \E p \in SetToSeqs(1 .. len) :
        /\ \A i, j \in 1 .. len : i < j => array[p[i]].time >= array[p[j]].time
        /\ array' = [i \in DOMAIN array |-> IF i <= len THEN array[p[i]] ELSE array[i]]
    /\ stage' = "limit"
    /\ UNCHANGED <<len, limit, direction, end, fetched>>

(* Sort2D by time (order_column_index 0): nil is the least.  The sort is   *)
(* not stable.                                                             *)
InOrder(r, s) == IF direction = "asc" THEN r.time <= s.time ELSE r.time >= s.time
Sort2D ==
    /\ stage = "sort"
    /\ \E p \in SetToSeqs(1 .. len) :
        /\ \A i, j \in 1 .. len : i < j => InOrder(array[p[i]], array[p[j]])
        /\ array' = [i \in DOMAIN array |-> IF i <= len THEN array[p[i]] ELSE array[i]]
    /\ stage' = "limit"
    /\ UNCHANGED <<len, limit, direction, end, fetched>>

(* results[i] = results[i][:Limit]: any length up to the capacity will do; *)
(* what is exposed are rows trimmed before, or nil.                        *)
Limit ==
    /\ stage = "limit"
    /\ limit <= Len(array)
    /\ len' = IF limit = NoLimit THEN len ELSE limit
    /\ stage' = "end"
    /\ UNCHANGED <<array, limit, direction, end, fetched>>

(* Beyond the capacity: a panic.                                           *)
LimitPanics ==
    /\ stage = "limit"
    /\ limit > Len(array)
    /\ stage' = "panic"
    /\ UNCHANGED <<array, len, limit, direction, end, fetched>>

(* Rows at or after the end are cut off from the last on, up to the first  *)
(* that is earlier or has no time.                                         *)
TooLate(r) == end # NoTime /\ r.time # NoTime /\ r.time >= end
FilterEnd ==
    /\ stage = "end"
    /\ len' \in {k \in 0 .. len : /\ k > 0 => ~ TooLate(array[k])
                                 /\ \A i \in k + 1 .. len : TooLate(array[i])}
    /\ stage' = "done"
    /\ UNCHANGED <<array, limit, direction, end, fetched>>

-----------------------------------------------------------------------------
Answer == SubSeq(array, 1, len)
CountIn(s, r) == Cardinality({i \in DOMAIN s : s[i] = r})

(* Cut away: the rows of the database with values do not all fit the       *)
(* limit, and those that took it come no later than r in the order.        *)
CutAway(r) ==
    /\ limit # NoLimit /\ \E i \in DOMAIN fetched : i > limit /\ ~ fetched[i].empty
    /\ \A i \in 1 .. limit : InOrder(array[i], r)

(* Whatever the cuts expose, no row with a value is doubled, and one is    *)
(* only lost to the limit, behind the rows that took it, or to the end of  *)
(* the period.  For a query that is not grouped the database has applied   *)
(* both, and none is lost.                                                 *)
NoValueLost ==
    stage = "done" => \A r \in Range(fetched) \cup Range(Answer) : ~ r.empty =>
        /\ CountIn(Answer, r) <= CountIn(fetched, r)
        /\ CutAway(r) \/ TooLate(r) \/ CountIn(Answer, r) = CountIn(fetched, r)

(* The rows with values come in the requested order of time: rows exposed  *)
(* after the sort do not get between them.                                 *)
ValuesInOrder ==
    stage = "done" => \A i, j \in 1 .. len :
        i < j /\ ~ array[i].empty /\ ~ array[j].empty => InOrder(array[i], array[j])

-----------------------------------------------------------------------------
(* The strengthening that makes them inductive.                            *)

(* What the slice holds are rows of the database, up to one with values.   *)
RowsOfDatabase ==
    /\ stage = "trim" => \A i \in 1 .. len : i \in DOMAIN fetched /\ array[i] = fetched[i]
    /\ stage \in {"sort", "limit"} => len = 0 \/ (len \in DOMAIN fetched /\ ~ fetched[len].empty)

RowsSorted ==
    stage = "limit" => \A i, j \in 1 .. len : i < j => InOrder(array[i], array[j])

(* Rows with values beyond the slice are those the cuts left there.        *)
BeyondIsCut ==
    \A i \in DOMAIN array : i > len =>
        \/ array[i].empty
        \/ stage \in {"end", "done"} /\ CutAway(array[i])
        \/ stage = "done" /\ TooLate(array[i])

FetchedOrNil == \A i \in DOMAIN array : array[i] \in Range(fetched) \cup {NilRow}

SameValues ==
    \A r \in Range(fetched) \cup Range(array) : ~ r.empty => CountIn(array, r) = CountIn(fetched, r)

ValuesSorted ==
    stage \in {"limit", "end", "done"} => \A i, j \in DOMAIN array :
        i < j /\ ~ array[i].empty /\ ~ array[j].empty => InOrder(array[i], array[j])

SeriesIInv ==
    /\ SeriesTypeOK
    /\ RowsOfDatabase
    /\ RowsSorted
    /\ BeyondIsCut
    /\ FetchedOrNil
    /\ SameValues
    /\ ValuesSorted

-----------------------------------------------------------------------------
(* Stated by comments, docs or tests, and not kept by the code.            *)

(* A table with fewer rows than the limit is answered ("if tables do not   *)
(* contain enough data, LIMIT clauses miss their intention").              *)
FewRowsAreAnswered == stage # "panic"

(* What is answered came from the database.                                *)
OnlyFetchedRows == stage = "done" => Range(Answer) \subseteq Range(fetched)
=============================================================================
