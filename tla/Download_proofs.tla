--------------------------- MODULE Download_proofs ---------------------------
(***************************************************************************)
(* What Download promises, for every chunk length, horizon and table: an   *)
(* increasing enumeration of the rows of a chunk exists; the rows written  *)
(* lie before the window; so the stream is ordered, without duplicates,    *)
(* and complete up to the window.                                          *)
(***************************************************************************)
EXTENDS Download, TLAPS, FiniteSetTheorems, SequenceTheorems

-----------------------------------------------------------------------------
(* Increasing enumerations of finite sets of numbers.                      *)

(* A set of natural numbers has a least element: of the intervals from 0   *)
(* to its elements, one has none of the others within it.                  *)
LEMMA LeastElement ==
    ASSUME NEW S \in SUBSET Nat, S # {}
    PROVE  \E m \in S : \A n \in S : m <= n
<1> DEFINE T == {0 .. n : n \in S}
<1>1. IsWellFoundedOn(StrictSubsetOrdering(Nat), FiniteSubsetsOf(Nat))
    BY FS_StrictSubsetOrderingWellFounded
<1>2. ASSUME NEW n \in S PROVE 0 .. n \in FiniteSubsetsOf(Nat)
    <2>1. IsFiniteSet(0 .. n)
        BY FS_Interval
    <2> QED
        BY <2>1 DEF FiniteSubsetsOf
<1>3. T \subseteq FiniteSubsetsOf(Nat) /\ T # {}
    BY <1>2
<1> HIDE DEF T
<1>4. PICK x \in T : \A y \in T : <<y, x>> \notin StrictSubsetOrdering(Nat)
    BY <1>1, <1>3, WFMin
<1> USE DEF T
<1>5. PICK m \in S : x = 0 .. m
    OBVIOUS
<1>6. ASSUME NEW n \in S, n < m PROVE FALSE
    <2>1. 0 .. n \in SUBSET Nat /\ 0 .. m \in SUBSET Nat
        OBVIOUS
    <2>2. 0 .. n \subseteq 0 .. m /\ m \in 0 .. m /\ m \notin 0 .. n
        BY <1>6
    <2>3. <<0 .. n, x>> \in StrictSubsetOrdering(Nat)
        BY <1>5, <2>1, <2>2 DEF StrictSubsetOrdering
    <2> QED
        BY <1>4, <2>3
<1> QED
    BY <1>6

Enumerable(S) == \E f \in [1 .. Cardinality(S) -> S] : Increasing(f)

(* With its least element put before an enumeration of the others, a set   *)
(* is enumerated.                                                          *)
LEMMA PrependLeast ==
    ASSUME NEW S \in SUBSET Nat, IsFiniteSet(S),
           NEW m \in S, \A n \in S : m <= n, Enumerable(S \ {m})
    PROVE  Enumerable(S)
<1>1. Cardinality(S) \in Nat /\ Cardinality(S \ {m}) = Cardinality(S) - 1
    BY FS_CardinalityType, FS_RemoveElement
<1>2. PICK g \in [1 .. Cardinality(S) - 1 -> S \ {m}] : Increasing(g)
    BY <1>1 DEF Enumerable
<1> DEFINE f == [i \in 1 .. Cardinality(S) |-> IF i = 1 THEN m ELSE g[i - 1]]
<1>3. \A i \in 1 .. Cardinality(S) : i # 1 => i - 1 \in 1 .. Cardinality(S) - 1
    BY <1>1
<1>4. f \in [1 .. Cardinality(S) -> S]
    BY <1>2, <1>3
<1>5. ASSUME NEW i \in 1 .. Cardinality(S), NEW j \in 1 .. Cardinality(S), i < j
      PROVE  f[i] < f[j]
    <2>1. f[j] = g[j - 1] /\ j - 1 \in 1 .. Cardinality(S) - 1
        BY <1>1, <1>5, <1>3
    <2>2. CASE i = 1
        <3>1. g[j - 1] \in S /\ g[j - 1] # m /\ m \in Nat /\ g[j - 1] \in Nat
            BY <1>2, <2>1
        <3> QED
            BY <2>1, <2>2, <3>1
    <2>3. CASE i # 1
        <3>1. f[i] = g[i - 1] /\ i - 1 \in 1 .. Cardinality(S) - 1 /\ i - 1 < j - 1
            BY <1>1, <1>5, <1>3, <2>3
        <3> QED
            BY <1>2, <2>1, <3>1 DEF Increasing
    <2> QED
        BY <2>2, <2>3
<1>6. Increasing(f)
    BY <1>4, <1>5 DEF Increasing
<1> QED
    BY <1>4, <1>6 DEF Enumerable

(* Every finite set of numbers is: the smallest one that is not would be   *)
(* by PrependLeast.                                                        *)
LEMMA FiniteSetsAreEnumerable ==
    ASSUME NEW T \in SUBSET Nat, IsFiniteSet(T)
    PROVE  Enumerable(T)
<1> DEFINE Fails(S, n) == IsFiniteSet(S) /\ Cardinality(S) = n /\ ~ Enumerable(S)
           Bad == {n \in Nat : \E S \in SUBSET Nat : Fails(S, n)}
<1>1. ASSUME Bad # {} PROVE FALSE
    <2>1. PICK n \in Bad : \A k \in Bad : n <= k
        BY <1>1, LeastElement
    <2>2. PICK S \in SUBSET Nat : Fails(S, n)
        BY <2>1
    <2>3. n \in Nat
        OBVIOUS
    <2>4. CASE S = {}
        <3>1. Cardinality(S) = 0
            BY <2>4, FS_EmptySet
        <3>2. [i \in 1 .. 0 |-> i] \in [1 .. Cardinality(S) -> S]
            BY <3>1
        <3>3. Increasing([i \in 1 .. 0 |-> i])
            BY DEF Increasing
        <3> QED
            BY <2>2, <3>2, <3>3 DEF Enumerable
    <2>5. CASE S # {}
        <3>1. PICK m \in S : \A k \in S : m <= k
            BY <2>5, LeastElement
        <3>2. IsFiniteSet(S \ {m}) /\ Cardinality(S \ {m}) = n - 1
            BY <2>2, FS_RemoveElement
        <3>3. n # 0
            BY <2>2, <2>5, FS_EmptySet
        <3>4. n - 1 \in Nat /\ ~ (n <= n - 1)
            BY <2>3, <3>3
        <3>5. n - 1 \notin Bad
            BY <2>1, <3>4
        <3>6. ~ Fails(S \ {m}, n - 1)
            BY <3>4, <3>5
        <3>7. Enumerable(S \ {m})
            BY <3>2, <3>6
        <3> QED
            BY <2>2, <3>1, <3>7, PrependLeast
    <2> QED
        BY <2>4, <2>5
<1>2. Cardinality(T) \in Nat
    BY FS_CardinalityType
<1>3. ~ Fails(T, Cardinality(T))
    BY <1>1, <1>2
<1> QED
    BY <1>3

(* Ascending is that enumeration, and leaves no element out: it is         *)
(* injective, and its domain has as many elements as the set.              *)
LEMMA AscendingProperties ==
    ASSUME NEW S \in SUBSET Nat, IsFiniteSet(S)
    PROVE  /\ Ascending(S) \in Seq(S)
           /\ Len(Ascending(S)) = Cardinality(S)
           /\ Increasing(Ascending(S))
           /\ Range(Ascending(S)) = S
<1> DEFINE N == Cardinality(S)
           f == Ascending(S)
<1>1. N \in Nat
    BY FS_CardinalityType
<1>2. f \in [1 .. N -> S] /\ Increasing(f)
    BY FiniteSetsAreEnumerable DEF Ascending, Enumerable
<1> HIDE DEF f
<1>3. f \in Seq(S) /\ Len(f) = N
    <2>1. f \in Seq(S)
        BY <1>1, <1>2, SeqDef
    <2> QED
        BY <1>1, <1>2, <2>1, LenProperties
<1>4. ASSUME NEW i \in 1 .. N, NEW j \in 1 .. N, f[i] = f[j] PROVE i = j
    <2>1. f[i] \in Nat /\ f[j] \in Nat
        BY <1>2
    <2>2. i < j => f[i] < f[j]
        BY <1>2 DEF Increasing
    <2>3. j < i => f[j] < f[i]
        BY <1>2 DEF Increasing
    <2> QED
        BY <1>1, <1>4, <2>1, <2>2, <2>3
<1>5. f \in Injection(1 .. N, S)
    BY <1>2, <1>4 DEF Injection, IsInjective
<1>6. Cardinality(1 .. N) = N
    BY <1>1, FS_Interval
<1>7. f \in Surjection(1 .. N, S)
    BY <1>5, <1>6, FS_Injection
<1>8. Range(f) = S
    BY <1>2, <1>7 DEF Surjection, Range
<1> QED
    BY <1>2, <1>3, <1>8 DEF f

-----------------------------------------------------------------------------
(* Sequences of rows.                                                      *)

(* What is appended behind every element keeps a sequence increasing.      *)
LEMMA AppendBehind ==
    ASSUME NEW s \in Seq(Nat), NEW t \in Seq(Nat),
           Increasing(s), Increasing(t),
           \A x \in Range(s), y \in Range(t) : x < y
    PROVE  Increasing(s \o t) /\ Range(s \o t) = Range(s) \cup Range(t)
<1>1. /\ s \o t \in Seq(Nat) /\ Len(s \o t) = Len(s) + Len(t)
      /\ \A i \in 1 .. Len(s) + Len(t) :
            (s \o t)[i] = IF i <= Len(s) THEN s[i] ELSE t[i - Len(s)]
    BY ConcatProperties
<1>2. /\ Len(s) \in Nat /\ DOMAIN s = 1 .. Len(s)
      /\ Len(t) \in Nat /\ DOMAIN t = 1 .. Len(t)
      /\ DOMAIN (s \o t) = 1 .. Len(s) + Len(t)
    BY <1>1, LenProperties
<1>3. \A i \in DOMAIN s : i \in DOMAIN (s \o t) /\ (s \o t)[i] = s[i]
    BY <1>1, <1>2
<1>4. \A i \in DOMAIN t : i + Len(s) \in DOMAIN (s \o t) /\ (s \o t)[i + Len(s)] = t[i]
    <2> SUFFICES ASSUME NEW i \in DOMAIN t
                 PROVE  i + Len(s) \in DOMAIN (s \o t) /\ (s \o t)[i + Len(s)] = t[i]
        OBVIOUS
    <2>1. i + Len(s) \in 1 .. Len(s) + Len(t) /\ ~ (i + Len(s) <= Len(s))
          /\ i + Len(s) - Len(s) = i
        BY <1>2
    <2> QED
        BY <1>1, <1>2, <2>1
<1>5. \A i \in DOMAIN (s \o t) :
            \/ i \in DOMAIN s
            \/ i - Len(s) \in DOMAIN t /\ (s \o t)[i] = t[i - Len(s)] /\ ~ (i <= Len(s))
    BY <1>1, <1>2
<1>6. Increasing(s \o t)
    <2> SUFFICES ASSUME NEW i \in DOMAIN (s \o t), NEW j \in DOMAIN (s \o t), i < j
                 PROVE  (s \o t)[i] < (s \o t)[j]
        BY DEF Increasing
    <2>1. CASE i \in DOMAIN s /\ j \in DOMAIN s
        BY <1>3, <2>1 DEF Increasing
    <2>2. CASE i \in DOMAIN s /\ j \notin DOMAIN s
        <3>1. (s \o t)[i] \in Range(s) /\ (s \o t)[j] \in Range(t)
            BY <1>3, <1>5, <2>2 DEF Range
        <3> QED
            BY <3>1
    <2>3. CASE i \notin DOMAIN s
        <3>1. j \notin DOMAIN s
            BY <1>2, <1>5, <2>3
        <3>2. i - Len(s) < j - Len(s)
            BY <1>2
        <3> QED
            BY <1>5, <2>3, <3>1, <3>2 DEF Increasing
    <2> QED
        BY <2>1, <2>2, <2>3
<1>7. Range(s \o t) \subseteq Range(s) \cup Range(t)
    BY <1>3, <1>5 DEF Range
<1>8. Range(s) \cup Range(t) \subseteq Range(s \o t)
    BY <1>3, <1>4 DEF Range
<1> QED
    BY <1>6, <1>7, <1>8

(* The rows of a chunk are an increasing sequence of rows of the table     *)
(* within it, and all of them when there is no limit.                      *)
LEMMA RowsOfChunk ==
    ASSUME NEW a \in Nat, NEW b \in Nat, NEW limit \in Nat, table \subseteq Instant
    PROVE  /\ Rows(a, b, limit) \in Seq(Instant)
           /\ Increasing(Rows(a, b, limit))
           /\ Range(Rows(a, b, limit)) \subseteq InPeriod(a, b)
           /\ limit = 0 => Range(Rows(a, b, limit)) = InPeriod(a, b)
<1> DEFINE S == InPeriod(a, b)
           all == Ascending(S)
<1>1. S \subseteq Instant /\ Instant \subseteq Nat
    <2>1. S \subseteq table
        BY DEF InPeriod
    <2>2. Horizon * Res \in Int
        BY DownloadAssumption
    <2>3. Instant \subseteq Nat
        BY <2>2 DEF Instant
    <2> QED
        BY <2>1, <2>3
<1>2. IsFiniteSet(S)
    <2>1. Horizon * Res \in Int
        BY DownloadAssumption
    <2>2. IsFiniteSet(Instant)
        BY <2>1, FS_Interval DEF Instant
    <2> QED
        BY <1>1, <2>2, FS_Subset
<1> HIDE DEF S
<1>3. all \in Seq(S) /\ Increasing(all) /\ Range(all) = S
    BY <1>1, <1>2, AscendingProperties
<1> HIDE DEF all
<1>4. all \in Seq(Instant) /\ Len(all) \in Nat /\ DOMAIN all = 1 .. Len(all)
    BY <1>1, <1>3, SeqMonotonic, LenProperties
<1>5. CASE limit = 0 \/ limit > Len(all)
    <2>1. Rows(a, b, limit) = all
        BY <1>5 DEF Rows, all, S
    <2> QED
        BY <1>3, <1>4, <2>1 DEF S
<1>6. CASE ~ (limit = 0 \/ limit > Len(all))
    <2> DEFINE r == SubSeq(all, 1, limit)
    <2>1. Rows(a, b, limit) = r
        BY <1>6 DEF Rows, all, S
    <2>2. limit \in 1 .. Len(all) /\ \A i \in 1 .. limit : i \in DOMAIN all
        BY <1>4, <1>6
    <2>3. \A i \in 1 .. limit : all[i] \in Instant
        BY <1>4, <2>2, ElementOfSeq
    <2>4. r \in Seq(Instant) /\ Len(r) = limit /\ \A i \in 1 .. limit : r[i] = all[i]
        <3>1. 1 \in Int /\ limit \in Int /\ 1 <= limit /\ limit - 1 + 1 = limit
            BY <2>2
        <3>2. /\ r \in Seq(Instant)
              /\ Len(r) = IF 1 <= limit THEN limit - 1 + 1 ELSE 0
              /\ \A i \in 1 .. limit - 1 + 1 : r[i] = all[1 + i - 1]
            BY <2>3, <3>1, SubSeqProperties
        <3>3. \A i \in 1 .. limit : 1 + i - 1 = i
            BY <2>2
        <3> QED
            BY <3>1, <3>2, <3>3
    <2> HIDE DEF r
    <2>5. DOMAIN r = 1 .. limit
        BY <2>4, LenProperties
    <2>6. Increasing(r)
        BY <1>3, <2>2, <2>4, <2>5 DEF Increasing
    <2>7. Range(r) \subseteq S
        BY <1>3, <2>2, <2>4, <2>5 DEF Range
    <2> QED
        BY <1>6, <2>1, <2>4, <2>6, <2>7 DEF S
<1> QED
    BY <1>5, <1>6

-----------------------------------------------------------------------------
(* Seconds and instants.                                                   *)

LEMMA WholeSeconds ==
    ASSUME NEW t \in Instant
    PROVE  /\ t \div Res \in Second
           /\ WholeSecond(t) \in Instant
           /\ WholeSecond(t) <= t
<1>1. Res \in Nat /\ Res > 0 /\ Horizon \in Nat /\ t \in Nat /\ t <= Horizon * Res
    BY DownloadAssumption DEF Instant
<1> DEFINE q == t \div Res
<1>2. q \in Nat /\ q * Res <= t /\ t < (q + 1) * Res
    BY <1>1
<1> HIDE DEF q
<1>3. q <= Horizon
    <2>1. SUFFICES ASSUME q > Horizon PROVE FALSE
        BY <1>1, <1>2
    <2>2. (q - Horizon) * Res > 0
        BY <1>1, <1>2, <2>1
    <2>3. (q - Horizon) * Res = q * Res - Horizon * Res
        BY <1>1, <1>2
    <2> QED
        BY <1>1, <1>2, <2>2, <2>3
<1>4. q * Res \in Nat
    BY <1>1, <1>2
<1>5. q * Res \in Instant
    BY <1>1, <1>2, <1>4 DEF Instant
<1> QED
    BY <1>1, <1>2, <1>3, <1>5 DEF q, WholeSecond, Second

LEMMA SecondsAreOrdered ==
    ASSUME NEW a \in Nat, NEW b \in Nat, a <= b
    PROVE  a * Res \in Nat /\ b * Res \in Nat /\ a * Res <= b * Res
<1>1. Res \in Nat /\ b - a \in Nat
    BY DownloadAssumption
<1>2. (b - a) * Res \in Nat /\ a * Res \in Nat /\ b * Res \in Nat
    BY <1>1
<1>3. b * Res = a * Res + (b - a) * Res
    BY <1>1
<1> QED
    BY <1>2, <1>3

-----------------------------------------------------------------------------
(* The inductive invariant.                                                *)

LEMMA InstantsAreNumbers == Instant \subseteq Nat /\ Second \subseteq Nat
<1>1. Horizon * Res \in Int /\ Horizon \in Int
    BY DownloadAssumption
<1> QED
    BY <1>1 DEF Instant, Second

LEMMA ElementTypes ==
    ASSUME TypeOK
    PROVE  /\ elem.start \in Instant /\ elem.end \in Instant /\ elem.limit \in Nat
<1>1. 0 \in Instant
    BY DownloadAssumption DEF Instant
<1>2. CASE elem \in Element
    BY <1>2, DownloadAssumption DEF Element
<1>3. CASE elem = NoElement
    BY <1>1, <1>3 DEF NoElement
<1> QED
    BY <1>2, <1>3 DEF TypeOK

LEMMA InitIInv == Init => IInv
<1> SUFFICES ASSUME Init PROVE IInv
    OBVIOUS
<1>1. TypeOK
    <2>1. 0 \in Second /\ delivered \in Seq(Instant)
        BY DownloadAssumption, EmptySeq DEF Init, Second
    <2> QED
        BY <2>1 DEF Init, TypeOK
<1>2. WindowMoves /\ CompleteUpToWindow
    BY DEF Init, WindowMoves, CompleteUpToWindow
<1>3. delivered = <<>> /\ Range(delivered) = {}
    BY DEF Init, Range
<1>4. WrittenIsBehind /\ DeliveredInOrder
    BY <1>3 DEF Init, WrittenIsBehind, DeliveredInOrder, Increasing
<1> QED
    BY <1>1, <1>2, <1>4 DEF IInv

(* The steps before the first chunk write nothing and promise nothing.     *)
LEMMA RequestKeeps ==
    ASSUME IInv, NEW e \in Element, Request(e)
    PROVE  IInv'
<1>1. TypeOK'
    BY DEF IInv, TypeOK, Request
<1>2. (WindowMoves /\ WrittenIsBehind /\ DeliveredInOrder /\ CompleteUpToWindow)'
    BY DEF IInv, WindowMoves, WrittenIsBehind, DeliveredInOrder, CompleteUpToWindow,
           Request, Increasing, Range
<1> QED
    BY <1>1, <1>2 DEF IInv

LEMMA PrepareKeeps ==
    ASSUME IInv, PreparePeriod \/ RefusePeriod \/ Verify
    PROVE  IInv'
<1>1. TypeOK'
    <2>1. CASE PreparePeriod
        <3>1. elem \in Element
            BY <2>1 DEF IInv, TypeOK, PreparePeriod, Resolvable, NoElement
        <3>2. WholeSecond(elem.start) \in Instant /\ WholeSecond(elem.end) \in Instant
            BY WholeSeconds, ElementTypes DEF IInv
        <3>3. elem' \in Element
            BY <2>1, <3>1, <3>2 DEF PreparePeriod, Resolvable, Element
        <3> QED
            BY <2>1, <3>3 DEF IInv, TypeOK, PreparePeriod
    <2>2. CASE RefusePeriod \/ Verify
        BY <2>2 DEF IInv, TypeOK, RefusePeriod, Verify
    <2> QED
        BY <2>1, <2>2
<1>2. pc' \notin {"chunk", "done", "aborted"} /\ delivered' = delivered /\ delivered = <<>>
      /\ startValue' = startValue
    BY DEF IInv, WrittenIsBehind, PreparePeriod, RefusePeriod, Verify
<1>3. (WindowMoves /\ WrittenIsBehind /\ DeliveredInOrder /\ CompleteUpToWindow)'
    BY <1>2 DEF IInv, WindowMoves, WrittenIsBehind, DeliveredInOrder, CompleteUpToWindow,
           Increasing, Range
<1> QED
    BY <1>1, <1>3 DEF IInv

(* The first window begins at the first second; no row lies before it      *)
(* and after the start.                                                    *)
LEMMA FirstChunkKeeps ==
    ASSUME IInv, FirstChunk
    PROVE  IInv'
<1>1. /\ elem' = elem /\ pc' = "chunk" /\ delivered' = delivered /\ delivered = <<>>
      /\ table' = table /\ before' = table
    BY DEF IInv, WrittenIsBehind, FirstChunk
<1>2. elem.start \in Instant /\ elem.end \in Instant /\ elem.limit \in Nat
    BY ElementTypes DEF IInv
<1>3. startValue' \in Second /\ initialEndValue' \in Second
    BY <1>2, WholeSeconds DEF FirstChunk
<1>4. /\ startValue' = FirstSecond /\ initialEndValue' = elem.end \div Res
      /\ endValue' = Earlier(startValue' + Chunk, initialEndValue')
    BY DEF FirstChunk, FirstSecond
<1>5. endValue' \in Second
    BY <1>3, <1>4, DownloadAssumption DEF Earlier, Second
<1>6. TypeOK'
    BY <1>1, <1>3, <1>5 DEF IInv, TypeOK, FirstChunk
<1>7. WindowMoves'
    <2>1. 0 \in 0 .. Horizon /\ startValue' = FirstSecond + 0 * Chunk
          /\ startValue' >= FirstSecond
        BY <1>3, <1>4, DownloadAssumption DEF Second
    <2>2. FirstSecond' = FirstSecond
        BY <1>1 DEF FirstSecond
    <2> QED
        BY <1>1, <1>4, <2>1, <2>2 DEF WindowMoves
<1>8. WrittenIsBehind' /\ DeliveredInOrder'
    BY <1>1 DEF WrittenIsBehind, DeliveredInOrder, Increasing, Range
<1>9. CompleteUpToWindow'
    <2>1. startValue' * Res <= elem.start
        BY <1>2, <1>4, WholeSeconds DEF FirstSecond, WholeSecond
    <2>2. ASSUME NEW t \in before', t > elem.start PROVE ~ (t < startValue' * Res)
        <3>1. t \in Nat /\ elem.start \in Nat
            BY <1>1, <1>2, InstantsAreNumbers DEF IInv, TypeOK
        <3>2. startValue' * Res \in Nat
            BY <1>3, InstantsAreNumbers, SecondsAreOrdered
        <3> QED
            BY <2>1, <2>2, <3>1, <3>2
    <2> QED
        BY <1>1, <2>2 DEF CompleteUpToWindow
<1> QED
    BY <1>6, <1>7, <1>8, <1>9 DEF IInv

(* A turn of the loop writes rows within the window, behind everything     *)
(* written, and moves the window to its end.                               *)
LEMMA WriteChunkKeeps ==
    ASSUME IInv, WriteChunk
    PROVE  IInv'
<1> DEFINE new == Rows(startValue, endValue, elem.limit)
           from == startValue * Res
           to == endValue * Res
<1>1. /\ pc = "chunk" /\ pc' = pc /\ startValue < initialEndValue
      /\ delivered' = delivered \o new
      /\ startValue' = endValue
      /\ endValue' = Earlier(endValue + Chunk, initialEndValue)
      /\ table' = table /\ elem' = elem /\ before' = before
      /\ initialEndValue' = initialEndValue /\ queryFailed' = queryFailed
    BY DEF WriteChunk
<1>2. /\ startValue \in Nat /\ endValue \in Nat /\ initialEndValue \in Nat
      /\ initialEndValue \in Second /\ endValue \in Second
      /\ startValue \in Second
    BY InstantsAreNumbers DEF IInv, TypeOK
<1>3. elem.start \in Instant /\ elem.end \in Instant /\ elem.limit \in Nat
    BY ElementTypes DEF IInv
<1>4. /\ initialEndValue = elem.end \div Res
      /\ endValue = Earlier(startValue + Chunk, initialEndValue)
      /\ startValue >= FirstSecond
      /\ \E n \in 0 .. Horizon : startValue = FirstSecond + n * Chunk
    BY <1>1 DEF IInv, WindowMoves
<1>5. startValue < endValue /\ endValue <= initialEndValue
    BY <1>1, <1>2, <1>4, DownloadAssumption DEF Earlier
<1>6. from \in Nat /\ to \in Nat /\ from <= to
    BY <1>2, <1>5, SecondsAreOrdered
<1>7. FirstSecond \in Nat /\ FirstSecond * Res = WholeSecond(elem.start)
      /\ FirstSecond * Res <= from
    <2>1. FirstSecond \in Nat /\ FirstSecond * Res = WholeSecond(elem.start)
        BY <1>3, WholeSeconds, InstantsAreNumbers DEF FirstSecond, WholeSecond
    <2> QED
        BY <1>2, <1>4, <2>1, SecondsAreOrdered
<1>8. to <= elem.end
    <2>1. initialEndValue * Res <= elem.end
        BY <1>3, <1>4, WholeSeconds DEF WholeSecond
    <2>2. to <= initialEndValue * Res /\ initialEndValue * Res \in Nat
        BY <1>2, <1>5, SecondsAreOrdered
    <2>3. elem.end \in Nat
        BY <1>3, InstantsAreNumbers
    <2> HIDE DEF to
    <2> QED
        BY <1>6, <2>1, <2>2, <2>3
<1>9. /\ new \in Seq(Instant) /\ Increasing(new)
      /\ Range(new) \subseteq InPeriod(startValue, endValue)
      /\ elem.limit = 0 => Range(new) = InPeriod(startValue, endValue)
    BY <1>2, <1>3, RowsOfChunk DEF IInv, TypeOK
<1>10. InPeriod(startValue, endValue) = {t \in table : t > from /\ t < to}
    BY DEF InPeriod
<1> HIDE DEF new, from, to
<1>11. /\ delivered \in Seq(Instant) /\ delivered \in Seq(Nat) /\ new \in Seq(Nat)
       /\ table \subseteq Nat /\ before \subseteq table
    BY <1>9, InstantsAreNumbers, SeqMonotonic DEF IInv, TypeOK
<1>12. Range(delivered) \subseteq Nat
    BY <1>11, LenProperties DEF Range
<1>13. \A t \in Range(delivered) : t < from
    BY DEF IInv, WrittenIsBehind, from
<1>14. \A x \in Range(delivered), y \in Range(new) : x < y
    <2> SUFFICES ASSUME NEW x \in Range(delivered), NEW y \in Range(new) PROVE x < y
        OBVIOUS
    <2>1. x \in Nat /\ x < from
        BY <1>12, <1>13
    <2>2. y \in table /\ from < y
        BY <1>9, <1>10
    <2>3. y \in Nat
        BY <1>11, <2>2
    <2> QED
        BY <1>6, <2>1, <2>2, <2>3
<1>15. Increasing(delivered') /\ Range(delivered') = Range(delivered) \cup Range(new)
    <2>1. Increasing(delivered)
        BY DEF IInv, DeliveredInOrder
    <2> QED
        BY <1>1, <1>9, <1>11, <1>14, <2>1, AppendBehind
<1>16. TypeOK'
    <2>1. delivered' \in Seq(Instant)
        BY <1>1, <1>9, <1>11, ConcatProperties
    <2>2. endValue' \in Second
        BY <1>1, <1>2, DownloadAssumption DEF Earlier, Second
    <2> QED
        BY <1>1, <1>2, <2>1, <2>2 DEF IInv, TypeOK
<1>17. WindowMoves'
    <2>1. FirstSecond' = FirstSecond
        BY <1>1 DEF FirstSecond
    <2>2. startValue' >= FirstSecond
        BY <1>1, <1>2, <1>4, <1>5, <1>7
    <2>3. ASSUME startValue' < initialEndValue'
          PROVE  \E n \in 0 .. Horizon : startValue' = FirstSecond + n * Chunk
        <3>1. startValue' = startValue + Chunk
            BY <1>1, <1>2, <1>4, <2>3 DEF Earlier
        <3>2. PICK n \in 0 .. Horizon : startValue = FirstSecond + n * Chunk
            BY <1>4
        <3>3. Chunk \in Nat /\ Chunk >= 1 /\ Horizon \in Nat /\ n \in Nat
            BY DownloadAssumption
        <3>4. startValue' = FirstSecond + (n + 1) * Chunk
            BY <1>7, <3>1, <3>2, <3>3
        <3>5. (n + 1) * Chunk >= n + 1
            BY <3>3
        <3>6. startValue' <= Horizon /\ (n + 1) * Chunk \in Nat
            BY <1>1, <1>2, <3>3 DEF Second
        <3>7. n + 1 \in 0 .. Horizon
            BY <1>7, <3>3, <3>4, <3>5, <3>6
        <3> QED
            BY <3>4, <3>7
    <2> QED
        BY <1>1, <1>4, <2>1, <2>2, <2>3 DEF WindowMoves
<1>18. WrittenIsBehind'
    <2>1. startValue' * Res = to
        BY <1>1 DEF to
    <2>2. \A t \in Range(delivered') : t < to
        BY <1>6, <1>9, <1>10, <1>12, <1>13, <1>15
    <2> QED
        BY <1>1, <2>1, <2>2 DEF WrittenIsBehind
<1>19. DeliveredInOrder'
    <2>1. ASSUME NEW t \in Range(new) PROVE t > WholeSecond(elem.start) /\ t < elem.end
        <3>1. t \in Nat /\ t > from /\ t < to
            BY <1>9, <1>10, <1>11
        <3>2. elem.end \in Nat /\ WholeSecond(elem.start) \in Nat
            BY <1>3, WholeSeconds, InstantsAreNumbers
        <3> QED
            BY <1>6, <1>7, <1>8, <3>1, <3>2
    <2>2. \A t \in Range(delivered) : t > WholeSecond(elem.start) /\ t < elem.end
        BY <1>1 DEF IInv, DeliveredInOrder
    <2>3. \A t \in Range(delivered') : t > WholeSecond(elem'.start) /\ t < elem'.end
        BY <1>1, <1>15, <2>1, <2>2
    <2> QED
        BY <1>15, <2>3 DEF DeliveredInOrder, WholeSecond
<1>20. CompleteUpToWindow'
    <2> SUFFICES ASSUME elem.limit = 0, NEW t \in before,
                        t > elem.start, t < to, ~ Boundary(t)
                 PROVE  t \in Range(delivered')
        BY <1>1 DEF CompleteUpToWindow, Boundary, to
    <2>1. t \in Nat /\ t \in table
        BY <1>11
    <2>2. CASE t < from
        <3>1. t \in Range(delivered)
            BY <1>1, <2>2 DEF IInv, CompleteUpToWindow, from
        <3> QED
            BY <1>15, <3>1
    <2>3. CASE t > from
        <3>1. t \in Range(new)
            BY <1>9, <1>10, <2>1, <2>3
        <3> QED
            BY <1>15, <3>1
    <2>4. CASE t = from
        <3>1. PICK n \in 0 .. Horizon : startValue = FirstSecond + n * Chunk
            BY <1>4
        <3>2. n # 0
            <4>1. SUFFICES ASSUME n = 0 PROVE FALSE
                OBVIOUS
            <4>2. from = WholeSecond(elem.start)
                BY <1>7, <3>1, <4>1, DownloadAssumption DEF from
            <4>3. WholeSecond(elem.start) <= elem.start /\ elem.start \in Nat
                BY <1>3, WholeSeconds, InstantsAreNumbers
            <4> QED
                BY <2>1, <2>4, <4>2, <4>3
        <3>3. n \in 1 .. Horizon
            BY <3>2, DownloadAssumption
        <3>4. t = ((elem.start \div Res) + n * Chunk) * Res
            BY <2>4, <3>1 DEF from, FirstSecond
        <3> QED
            BY <3>3, <3>4 DEF Boundary
    <2> QED
        BY <1>6, <2>1, <2>2, <2>3, <2>4
<1> QED
    BY <1>16, <1>17, <1>18, <1>19, <1>20 DEF IInv

(* A download that ends keeps what it wrote and where its window is.       *)
LEMMA EndKeeps ==
    ASSUME IInv, QueryFails \/ QueryRejected \/ Finish
    PROVE  IInv'
<1>1. /\ pc = "chunk" /\ pc' \in {"done", "aborted"} /\ queryFailed' \in BOOLEAN
      /\ UNCHANGED <<table, elem, startValue, endValue, initialEndValue, delivered, before>>
    BY DEF QueryFails, QueryRejected, Finish, Abort, IInv, TypeOK
<1>2. TypeOK'
    BY <1>1 DEF IInv, TypeOK
<1>3. WindowMoves'
    BY <1>1 DEF IInv, WindowMoves, FirstSecond
<1>4. WrittenIsBehind' /\ DeliveredInOrder'
    BY <1>1 DEF IInv, WrittenIsBehind, DeliveredInOrder, WholeSecond
<1>5. CompleteUpToWindow'
    BY <1>1 DEF IInv, CompleteUpToWindow, Boundary
<1> QED
    BY <1>2, <1>3, <1>4, <1>5 DEF IInv

(* The table may grow at any moment: what was there before stays there.    *)
LEMMA IngestKeeps ==
    ASSUME IInv, NEW t \in Instant, Ingest(t)
    PROVE  IInv'
<1>1. /\ table' = table \cup {t}
      /\ UNCHANGED <<pc, elem, startValue, endValue, initialEndValue, delivered, before,
                     queryFailed>>
    BY DEF Ingest
<1>2. TypeOK'
    BY <1>1 DEF IInv, TypeOK
<1>3. WindowMoves'
    BY <1>1 DEF IInv, WindowMoves, FirstSecond
<1>4. WrittenIsBehind' /\ DeliveredInOrder'
    BY <1>1 DEF IInv, WrittenIsBehind, DeliveredInOrder, WholeSecond
<1>5. CompleteUpToWindow'
    BY <1>1 DEF IInv, CompleteUpToWindow, Boundary
<1> QED
    BY <1>2, <1>3, <1>4, <1>5 DEF IInv

LEMMA StutterKeeps ==
    ASSUME IInv, UNCHANGED vars
    PROVE  IInv'
<1>1. /\ table' = table /\ pc' = pc /\ elem' = elem /\ startValue' = startValue
      /\ endValue' = endValue /\ initialEndValue' = initialEndValue
      /\ delivered' = delivered /\ before' = before /\ queryFailed' = queryFailed
    BY DEF vars
<1>2. TypeOK'
    BY <1>1 DEF IInv, TypeOK
<1>3. WindowMoves' /\ WrittenIsBehind' /\ DeliveredInOrder' /\ CompleteUpToWindow'
    BY <1>1 DEF IInv, WindowMoves, FirstSecond, WrittenIsBehind, DeliveredInOrder,
                WholeSecond, CompleteUpToWindow, Boundary
<1> QED
    BY <1>2, <1>3 DEF IInv

-----------------------------------------------------------------------------
(* The inductive invariant holds in every state: types, the window between *)
(* the first second and the end, and what was written behind it.           *)
THEOREM Invariance == Spec => []IInv
<1>1. Init => IInv
    BY InitIInv
<1>2. IInv /\ [Next]_vars => IInv'
    <2> SUFFICES ASSUME IInv, [Next]_vars PROVE IInv'
        OBVIOUS
    <2>1. ASSUME NEW e \in Element, Request(e) PROVE IInv'
        BY <2>1, RequestKeeps
    <2>2. CASE PreparePeriod \/ RefusePeriod \/ Verify
        BY <2>2, PrepareKeeps
    <2>3. CASE FirstChunk
        BY <2>3, FirstChunkKeeps
    <2>4. CASE WriteChunk
        BY <2>4, WriteChunkKeeps
    <2>5. CASE QueryFails \/ QueryRejected \/ Finish
        BY <2>5, EndKeeps
    <2>6. ASSUME NEW t \in Instant, Ingest(t) PROVE IInv'
        BY <2>6, IngestKeeps
    <2>7. CASE UNCHANGED vars
        BY <2>7, StutterKeeps
    <2> QED
        BY <2>1, <2>2, <2>3, <2>4, <2>5, <2>6, <2>7 DEF Next, Handler
<1> QED
    BY <1>1, <1>2, PTL DEF Spec

(* No row is written twice or out of order, nor from before the second the *)
(* period starts in or from its end on, whatever arrives between the       *)
(* chunks (handleCSVDownload).                                             *)
THEOREM RowsInOrder == Spec => []DeliveredInOrder
<1>1. IInv => DeliveredInOrder
    BY DEF IInv
<1> QED
    BY <1>1, Invariance, PTL

(* At any moment a download without a limit holds every row from before it *)
(* up to its window, but those on a chunk boundary (handleCSVDownload).    *)
THEOREM NothingIsLeftOut == Spec => []CompleteUpToWindow
<1>1. IInv => CompleteUpToWindow
    BY DEF IInv
<1> QED
    BY <1>1, Invariance, PTL

=============================================================================
