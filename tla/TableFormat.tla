---------------------------- MODULE TableFormat ----------------------------
(***************************************************************************)
(* formatResponse for the format table                                     *)
(* (pkg/api/queries_postprocessing.go): row by row, each series looks for  *)
(* rows of the same time in the series after it by binary search, takes    *)
(* them over and removes them there.  Every element has one column here;   *)
(* conversions, which may fail the request, are left out.                  *)
(***************************************************************************)
EXTENDS Integers, SequencesExt

CONSTANTS NumSeries,   \* elements of the request
          MaxTime,     \* bound: the times rows may have are 1 .. MaxTime
          NullPoint    \* <<series, time>> at which the column is NULL

VARIABLES pc,
          data,        \* the series, of which rows are taken
          series, row, \* loop variables
          formatted,   \* the rows of the table
          direction,   \* the requested order of the table
          given        \* history: the series as they came from the database

vars == <<pc, data, series, row, formatted, direction, given>>

SeriesIndex == 1 .. NumSeries
Instant == 1 .. MaxTime
NoTime == 0
Nothing == <<>>             \* no value in a column
NoData == <<NoTime>>        \* an empty result is one row of nils

(* A row of a series is its time; its value is named after both.           *)
Point(s, t) == IF <<s, t>> \in NullPoint THEN Nothing ELSE <<s, t>>

(* What a query may return: distinct times in any order, for without       *)
(* orderColumnIndex there is no ORDER BY.                                  *)
Results == {NoData} \cup UNION {{r \in [1 .. n -> Instant] : IsInjective(r)} : n \in 1 .. MaxTime}

TypeOK ==
    /\ pc \in {"rows", "sort", "done", "panic"}
    /\ data \in [SeriesIndex -> Results \cup {<<>>}] /\ given \in [SeriesIndex -> Results]
    /\ series \in 1 .. NumSeries + 1 /\ row \in Nat \ {0}
    /\ formatted \in Seq([time : Instant, points : [SeriesIndex -> {Nothing} \cup (SeriesIndex \X Instant)]])

Init ==
    /\ pc = "rows"
    /\ data \in [SeriesIndex -> Results]
    /\ given = data
    /\ series = 1 /\ row = 1
    /\ formatted = <<>>
    /\ direction \in {"asc", "desc"}

-----------------------------------------------------------------------------
NotFound == 0
Panic == -1    \* .(time.Time) of a nil

(* for t.Equal(array[mid][0]) && mid > 0 { mid-- }                         *)
StepBack(rows, mid) ==
    CHOOSE k \in 1 .. mid : /\ k = 1 \/ rows[k] # rows[mid]
                           /\ \A j \in k + 1 .. mid : rows[j] = rows[mid]

(* findFirstElementIndex: right for rows that descend in time.             *)
Search(rows, t) ==
    LET find[span \in (1 .. Len(rows) + 1) \X (0 .. Len(rows))] ==
            LET left  == span[1]
                right == span[2]
                mid   == left + ((right - left) \div 2)
            IN  IF left > right THEN NotFound
                ELSE IF rows[mid] = NoTime THEN Panic
                ELSE IF rows[mid] = t THEN StepBack(rows, mid)
                ELSE IF rows[mid] < t THEN find[<<left, mid - 1>>]
                ELSE find[<<mid + 1, right>>]
    IN  find
findFirstElementIndex(rows, t) == Search(rows, t)[<<1, Len(rows)>>]

(* What sort.Slice may make of rows, the latest first.                     *)
Sortings(rows) ==
    {[i \in DOMAIN rows |-> rows[p[i]]] :
        p \in {q \in SetToSeqs(DOMAIN rows) :
                \A i, j \in DOMAIN rows : i < j => rows[q[i]] >= rows[q[j]]}}

(* RemoveElementFrom2D moves the last row into the gap.                    *)
RemoveElementFrom2D(rows, k) == SubSeq([rows EXCEPT ![k] = rows[Len(rows)]], 1, Len(rows) - 1)

(* Mutant of RemoveAndSort: the last row is dropped, not the found one.    *)
RemoveLast(rows, k) == Sortings(SubSeq(rows, 1, Len(rows) - 1))
(* Mutant of RemoveAndSort: the rows are not put in order again.           *)
RemoveUnsorted(rows, k) == {RemoveElementFrom2D(rows, k)}

RemoveAndSort(rows, k) == Sortings(RemoveElementFrom2D(rows, k))

Emptied(t) == [time |-> t, points |-> [s \in SeriesIndex |-> Nothing]]

(* The rows the series after s have for time t, as the search finds them.  *)
Found(s, t) == [sub \in SeriesIndex |->
                    IF sub > s THEN findFirstElementIndex(data[sub], t) ELSE NotFound]

(* The loops go on: to the next row, whose number of rows was fixed when   *)
(* the series was begun, or to the next series.                            *)
Advance ==
    IF row < Len(data[series])
    THEN row' = row + 1 /\ UNCHANGED <<series, pc>>
    ELSE /\ row' = 1 /\ series' = series + 1
         /\ pc' = IF series = NumSeries THEN "sort" ELSE "rows"

(* A series none of whose rows are left.                                   *)
SkipSeries ==
    /\ pc = "rows" /\ data[series] = <<>>
    /\ Advance
    /\ UNCHANGED <<data, formatted, direction, given>>

(* if formattedRow[0] == nil { continue }                                  *)
SkipNoData ==
    /\ pc = "rows" /\ data[series] # <<>>
    /\ data[series][row] = NoTime
    /\ Advance
    /\ UNCHANGED <<data, formatted, direction, given>>

(* One turn for a row: its own value and those of the rows found, which    *)
(* are removed; a row without any value is not put into the table.         *)
PlaceRow ==
    /\ pc = "rows" /\ data[series] # <<>>
    /\ LET t      == data[series][row]
           found  == Found(series, t)
           placed == [time   |-> t,
                      points |-> [s \in SeriesIndex |->
                            IF s = series THEN Point(s, t)
                            ELSE IF found[s] = NotFound THEN Nothing
                            ELSE Point(s, data[s][found[s]])]]
           left   == [s \in SeriesIndex |->
                        IF found[s] = NotFound THEN {data[s]} ELSE RemoveAndSort(data[s], found[s])]
       IN  /\ t # NoTime
           /\ \A s \in SeriesIndex : found[s] # Panic
           /\ data' \in [SeriesIndex -> UNION Range(left)]
           /\ \A s \in SeriesIndex : data'[s] \in left[s]
           /\ formatted' = IF placed = Emptied(t) THEN formatted ELSE Append(formatted, placed)
    /\ Advance
    /\ UNCHANGED <<direction, given>>

SearchPanics ==
    /\ pc = "rows" /\ data[series] # <<>>
    /\ data[series][row] # NoTime
    /\ \E s \in SeriesIndex : Found(series, data[series][row])[s] = Panic
    /\ pc' = "panic"
    /\ UNCHANGED <<data, series, row, formatted, direction, given>>

(* Sort2D(formatted, 0, orderDirection), which is not stable.              *)
SortTable ==
    /\ pc = "sort"
    /\ \E p \in SetToSeqs(DOMAIN formatted) :
        /\ \A i, j \in DOMAIN formatted : i < j =>
            IF direction = "asc" THEN formatted[p[i]].time <= formatted[p[j]].time
            ELSE formatted[p[i]].time >= formatted[p[j]].time
        /\ formatted' = [i \in DOMAIN formatted |-> formatted[p[i]]]
    /\ pc' = "done"
    /\ UNCHANGED <<data, series, row, direction, given>>

Next == SkipSeries \/ SkipNoData \/ PlaceRow \/ SearchPanics \/ SortTable
Spec == Init /\ [][Next]_vars

-----------------------------------------------------------------------------
Points(r) == Range(r.points) \ {Nothing}

(* Whatever rows the search finds, a table holds every value that has a    *)
(* time exactly once, in the column of its element.                        *)
RowsWith(s, t) == {i \in DOMAIN formatted : formatted[i].points[s] = Point(s, t)}
EveryPointOnce ==
    pc \in {"sort", "done"} => \A s \in SeriesIndex : \A t \in Range(given[s]) \ {NoTime} :
        Point(s, t) # Nothing => Cardinality(RowsWith(s, t)) = 1

(* Series of the same times that come latest first, as those of elements   *)
(* with one groupTime and descending order do, merge completely: one row   *)
(* per time, which holds the values of that time.                          *)
Descending(rows) == rows # NoData /\ \A i, j \in DOMAIN rows : i < j => rows[i] > rows[j]
Aligned == Descending(given[1]) /\ \A s \in SeriesIndex : given[s] = given[1]
AlignedSeriesMerge ==
    Aligned /\ pc = "done" =>
        /\ \A i, j \in DOMAIN formatted : i # j => formatted[i].time # formatted[j].time
        /\ \A r \in Range(formatted) : \A p \in Points(r) : p[2] = r.time

-----------------------------------------------------------------------------
(* The strengthening that makes them inductive.                            *)

InPlace ==
    /\ pc \in {"rows", "panic"} <=> series <= NumSeries
    /\ pc = "rows" => IF data[series] = <<>> THEN row = 1 ELSE row <= Len(data[series])

(* The rows of a series whose turn or whose removal is still to come.      *)
Left(s) == IF s < series THEN {}
           ELSE IF s = series THEN {data[s][k] : k \in row .. Len(data[s])}
           ELSE Range(data[s])

(* A value is still among the rows left, or in one row of the table.       *)
LeftOrPlaced ==
    \A s \in SeriesIndex : \A t \in Range(given[s]) \ {NoTime} : Point(s, t) # Nothing =>
        IF t \in Left(s) THEN RowsWith(s, t) = {} ELSE \E i \in DOMAIN formatted : RowsWith(s, t) = {i}

(* Of aligned series the first is gone through, and each row takes the     *)
(* first of every other, so that what is left of them is alike.            *)
AlignedProgress ==
    Aligned =>
        /\ data[1] = given[1]
        /\ \A s \in SeriesIndex \ {1} :
            IF series = 1 THEN /\ Descending(data[s])
                               /\ Range(data[s]) = {given[1][k] : k \in row .. Len(given[1])}
            ELSE data[s] = <<>>
        /\ series = 1 => \A i \in DOMAIN formatted : \A k \in row .. Len(given[1]) :
                            formatted[i].time # given[1][k]
        /\ \A i, j \in DOMAIN formatted : i # j => formatted[i].time # formatted[j].time
        /\ \A i \in DOMAIN formatted : \A p \in Points(formatted[i]) : p[2] = formatted[i].time

IInv ==
    /\ TypeOK
    /\ InPlace
    /\ LeftOrPlaced
    /\ AlignedProgress

-----------------------------------------------------------------------------
(* Stated by comments, docs or tests, and not kept by the code.            *)

(* "merged timestamps": a row of the table holds only values of its time.  *)
RowsShareTime == \A r \in Range(formatted) : \A p \in Points(r) : p[2] = r.time

(* "merged timestamps": a time has one row of the table.                   *)
OneRowPerTime ==
    pc = "done" => \A i, j \in DOMAIN formatted : i # j => formatted[i].time # formatted[j].time

(* "no data in series": such a series is skipped, the others are answered. *)
NoDataIsSkipped == pc # "panic"
=============================================================================
