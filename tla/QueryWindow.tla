---------------------------- MODULE QueryWindow ----------------------------
(***************************************************************************)
(* The SQL of a grouped query with differences (GenerateQueries,           *)
(* pkg/timescale/queries.go) and what formatResponse makes of its rows.    *)
(* A difference needs the bucket before the window: the window is moved by *)
(* one unit, a LIMIT is computed from its length, the rows of the columns  *)
(* are joined, and what is too much is cut off again in several places.    *)
(* Time is counted in half units; the half h lies between the instants h   *)
(* and h + 1, and a row in it lies on neither, so that the strict          *)
(* comparisons of the SQL do not matter.                                   *)
(***************************************************************************)
EXTENDS SeriesFormat

CONSTANTS LastHalf,      \* bound: the halves there are, from 1 on
          Element,       \* bound: the elements asked for
          TableContents  \* bound: the contents of the table, sets of halves

Half == 1 .. LastHalf

NoUnit == 0    \* groupTime is of none of the units that are told apart: "1 h", "1:00:00"
ZeroTime == 1  \* the zero time of Go, before every row

ASSUME WindowAssumption ==
    /\ LastHalf \in Nat /\ TableContents \subseteq SUBSET Half
    /\ Element \subseteq [columns : Seq({"difference", "plain", "last"}),
                          form    : {"absolute", "last", "ahead"},
                          unit    : Nat,         \* halves in the unit that is counted in
                          second  : Nat \ {0},   \* halves in a second
                          group   : Nat \ {0},   \* halves in a bucket: groupTime
                          start   : Half, end : Half,
                          limit   : Limits]      \* its own
    /\ \A e \in Element :
        /\ e.start < e.end
        /\ e.form # "absolute" => e.unit # NoUnit /\ (e.end - e.start) % e.unit = 0
        /\ \E idx \in DOMAIN e.columns : e.columns[idx] = "difference"

VARIABLES element, table,
          joined   \* history: the rows of the outer SELECT, before order and limit

windowVars == <<element, table, joined>>
allVars == <<seriesVars, windowVars>>

Null == <<>>

(* The elements of S in the order R, a set of pairs.                       *)
Sorted(S, R) ==
    [k \in 1 .. Cardinality(S) |-> CHOOSE x \in S : Cardinality({y \in S : <<y, x>> \in R}) = k - 1]

(* time_bucket(groupTime, time): the start of the bucket.                  *)
Bucket(h, group) == 1 + ((h - 1) \div group) * group

(* How often the window has been moved when column idx is reached: a       *)
(* relative one is moved once, which a flag remembers; an absolute one     *)
(* once per column of differences so far, for the flag is not set.         *)
Moves(e, idx) ==
    LET differences == {i \in 1 .. idx : e.columns[i] = "difference"}
    IN  IF e.form = "absolute" THEN Cardinality(differences)
        ELSE IF differences = {} THEN 0 ELSE 1

(* The bounds of a period after so many moves: each puts its start back by *)
(* a unit, and writes both as RFC3339, which drops what is less than a     *)
(* second.  A unit that is not known leaves the zero time.                 *)
Formatted(e, h) == h - ((h - 1) % e.second)
WholeSeconds(e) == ((e.unit + e.second - 1) \div e.second) * e.second
StartAfter(e, moves) ==
    IF moves = 0 THEN e.start
    ELSE IF e.unit = NoUnit THEN ZeroTime ELSE Formatted(e, e.start - e.unit) - (moves - 1) * WholeSeconds(e)
EndAfter(e, moves) ==
    IF moves = 0 THEN e.end
    ELSE IF e.unit = NoUnit THEN ZeroTime ELSE Formatted(e, e.end)

(* Mutant of Window: the window is not moved.                              *)
WindowUnmoved(e, idx) == {h \in Half : e.start <= h /\ h < e.end}

(* The halves the WHERE clause selects for a column: last has no upper     *)
(* bound, ahead is moved at its end.                                       *)
Window(e, idx) ==
    LET moves == Moves(e, idx)
    IN  {h \in Half :
            CASE e.form = "absolute" -> StartAfter(e, moves) <= h /\ h < EndAfter(e, moves)
              [] e.form = "last"     -> e.start - moves * e.unit <= h
              [] e.form = "ahead"    -> e.start <= h /\ h < e.end + moves * e.unit}

(* l: the whole units of the window, as it was before the last move.       *)
Units(e, idx) ==
    LET moves == IF e.form = "absolute" THEN Moves(e, idx) - 1 ELSE 0
    IN  IF e.unit = NoUnit THEN 0 ELSE (EndAfter(e, moves) - StartAfter(e, moves)) \div e.unit

(* Mutant of InnerLimit: room for one bucket more instead of two.          *)
InnerLimitShort(e, idx) == IF Moves(e, idx) = 0 THEN e.limit ELSE Units(e, idx) + 1

(* The element's own limit holds up to the first column of differences.    *)
InnerLimit(e, idx) == IF Moves(e, idx) = 0 THEN e.limit ELSE Units(e, idx) + 2

(* The order in which a subquery hands over its buckets.                   *)
Before(e, idx, t, b) ==
    IF Moves(e, idx) = 0 /\ e.columns[idx] = "last" THEN t > b ELSE t < b

(* The subquery of a column: GROUP BY 1 ORDER BY 1 LIMIT l + 2.  The value *)
(* of a bucket is made of the rows of it the window has.                   *)
Subquery(e, tbl, idx) ==
    LET rows  == tbl \cap Window(e, idx)
        times == {Bucket(h, e.group) : h \in rows}
        n     == InnerLimit(e, idx)
        first == {b \in times : n = NoLimit \/ Cardinality({t \in times : Before(e, idx, t, b)}) < n}
    IN  [b \in first |-> {h \in rows : Bucket(h, e.group) = b}]

(* sub0 FULL OUTER JOIN sub1 ON sub0.time = sub1.time: the time is that of *)
(* sub0, NULL where it has no row.  A merge join gives the rows in order   *)
(* of time, a hash join those of sub0 in its order, the others at the end. *)
JoinTimes(e, subs, plan) ==
    LET all    == UNION {DOMAIN subs[i] : i \in DOMAIN e.columns}
        first  == DOMAIN subs[1]
        before == {p \in all \X all : p[1] < p[2]}
    IN  IF plan = "merge" THEN Sorted(all, before)
        ELSE Sorted(first, {p \in all \X all : Before(e, 1, p[1], p[2])}) \o Sorted(all \ first, before)

NoRows == {}
ValueAt(sub, b) == IF b \in DOMAIN sub THEN sub[b] ELSE NoRows

(* value - lag(value) OVER (ORDER BY 1): the order is that of a constant,  *)
(* so lag looks at the row before as the join left it.                     *)
Column(e, subs, times, idx, i) ==
    LET value == ValueAt(subs[idx], times[i])
        lag   == IF i = 1 THEN NoRows ELSE ValueAt(subs[idx], times[i - 1])
    IN  IF value = NoRows \/ (e.columns[idx] = "difference" /\ lag = NoRows) THEN Null
        ELSE IF e.columns[idx] = "difference" THEN <<value, lag>> ELSE <<value>>

Joined(e, tbl, plan) ==
    LET subs  == [idx \in DOMAIN e.columns |-> Subquery(e, tbl, idx)]
        times == JoinTimes(e, subs, plan)
    IN  [i \in DOMAIN times |->
            [time   |-> IF times[i] \in DOMAIN subs[1] THEN times[i] ELSE NoTime,
             values |-> [idx \in DOMAIN e.columns |-> Column(e, subs, times, idx, i)]]]

(* The outer ORDER BY 1 DESC LIMIT l: NULL comes first.                    *)
OuterBefore(r, s) == \/ r.time = NoTime /\ s.time # NoTime
                     \/ s.time # NoTime /\ r.time > s.time
OuterOrder(rows) ==
    LET order == {p \in (DOMAIN rows) \X (DOMAIN rows) :
                    \/ OuterBefore(rows[p[1]], rows[p[2]])
                    \/ rows[p[1]].time = rows[p[2]].time /\ p[1] < p[2]}
    IN  [k \in DOMAIN rows |-> rows[Sorted(DOMAIN rows, order)[k]]]
(* Mutant of OuterLimit: the rows are not cut to the length of the window. *)
OuterLimitMissing(e) == InnerLimit(e, Len(e.columns))
OuterLimit(e) == Units(e, Len(e.columns))
Executed(e, rows) ==
    LET ordered == OuterOrder(rows)
        l       == OuterLimit(e)
        cut     == IF l >= Len(ordered) THEN ordered ELSE SubSeq(ordered, 1, l)
    IN  IF cut = <<>> THEN <<NilRow>>
        ELSE [i \in DOMAIN cut |->
                [time |-> cut[i].time, empty |-> \A v \in Range(cut[i].values) : v = Null]]

-----------------------------------------------------------------------------
(* The ends formatResponse may look at.  POST /queries hands it the        *)
(* elements as they were requested, POST /queries/v2 those GenerateQueries *)
(* has changed, with the end before the last move.  A relative period has  *)
(* none.                                                                   *)
EndsOriginal(e) ==
    IF e.form = "absolute" THEN {e.end, EndAfter(e, Moves(e, Len(e.columns)) - 1)} ELSE {NoTime}

(* The response of a grouped query.                                        *)
WindowInit ==
    /\ element \in Element /\ table \in TableContents
    /\ \E plan \in {"merge", "hash"} : joined = Joined(element, table, plan)
    /\ stage = "trim" /\ limit = element.limit /\ direction \in {"asc", "desc"}
    /\ end \in EndsOriginal(element)
    /\ fetched = Executed(element, joined)
    /\ len = Len(fetched)
    /\ array \in Backing(fetched)

(* That of a query that is not grouped: any rows, any limit.               *)
PlainInit ==
    /\ SeriesInit
    /\ element = <<>> /\ table = {} /\ joined = <<>>

-----------------------------------------------------------------------------
Grouped == element # <<>>
Full(b) == {h \in table : Bucket(h, element.group) = b}

(* groupTime is one of the unit that is counted in, which is not ms for a  *)
(* period, the first column holds differences, the window is moved once,   *)
(* and the table has no rows of the future for last, of which the SQL      *)
(* would count some.                                                       *)
Regular ==
    /\ element.unit = element.group
    /\ element.form = "absolute" => element.unit % element.second = 0
    /\ Moves(element, Len(element.columns)) = 1
    /\ element.columns[1] = "difference"
    /\ element.form # "ahead"
    /\ element.form = "last" => \A h \in table : h < element.end

(* The length of the period is whole, or no bucket lies across its end.    *)
NothingCutOff ==
    \/ (element.end - element.start) % element.unit = 0
    \/ Bucket(element.end, element.group) = element.end

(* Buckets that lie in the period asked for as a whole.                    *)
AskedBuckets == {b \in Half : /\ b = Bucket(b, element.group)
                       /\ element.start <= b /\ b + element.group <= element.end}

Shown(b) ==
    \E i \in 1 .. len, j \in DOMAIN joined :
        /\ array[i].time = b /\ joined[j].time = b
        /\ joined[j].values[1] = <<Full(b), Full(b - element.group)>>

(* Every bucket asked for that has data, as has the one before it, is      *)
(* answered with the difference of both as wholes: wherever the period     *)
(* begins and ends, within a second too, neither the limits of the SQL nor *)
(* the trimming lose one, and the moved window reaches back far enough.    *)
(* The element's own limit may leave it behind earlier rows of the answer. *)
AskedBucketsAreAnswered ==
    stage = "done" /\ Grouped /\ Regular /\ NothingCutOff =>
        \A b \in AskedBuckets : Full(b) # {} /\ b > element.group /\ Full(b - element.group) # {} =>
            Shown(b) \/ CutAway([time |-> b, empty |-> FALSE])

(* Where every bucket the moved window touches has rows in it, no          *)
(* difference is shown to a bucket of which the window has only a part:    *)
(* the rows this would give are cut off.                                   *)
Touched(halves) == {Bucket(h, element.group) : h \in halves}
NoPartialPredecessor ==
    stage = "done" /\ Grouped /\ Regular
    /\ Touched(Window(element, 1)) = Touched(Window(element, 1) \cap table) =>
        \A i \in 1 .. len : array[i].time # NoTime /\ array[i].time > element.group =>
            \A j \in DOMAIN joined : joined[j].time = array[i].time /\ joined[j].values[1] # Null =>
                joined[j].values[1][2] = Full(array[i].time - element.group)

-----------------------------------------------------------------------------
(* The rows of a grouped query are what the SQL makes of the table; they   *)
(* and the query stay while they are formatted.                            *)
RowsOfQuery ==
    Grouped =>
        /\ element \in Element /\ table \in TableContents
        /\ \E plan \in {"merge", "hash"} : joined = Joined(element, table, plan)
        /\ fetched = Executed(element, joined) /\ end \in EndsOriginal(element)

-----------------------------------------------------------------------------
(* Stated by comments, docs or tests, and not kept by the code.            *)

(* "manually increase the last offset by 1 to ensure unified results":     *)
(* every bucket asked for is answered, of whatever groupTime and columns,  *)
(* unless the element has a limit of its own.                              *)
UnifiedResults ==
    stage = "done" /\ Grouped /\ limit = NoLimit =>
        \A b \in AskedBuckets : Full(b) # {} /\ b > element.group /\ Full(b - element.group) # {} =>
            \E i \in 1 .. len : array[i].time = b
=============================================================================
